-------------------------- MODULE CellLoadHandover --------------------------
(***************************************************************************)
(* The handover loop around OranLmNr2NrRsrpHandoverWithCellLoad: UEs       *)
(* report their cell and RSRP, the repository keeps the newest rows, the   *)
(* Logic Module decides with hysteresis, capacity, backoff, cooldown and   *)
(* time-to-trigger, and gNBs execute the commands.                         *)
(*                                                                         *)
(* The unit of time is the LM query interval; times are relative to now.   *)
(* The Logic Module keeps its state in maps from E2 node IDs, so do the    *)
(* tables of the repository; a UE that registers anew has another ID.      *)
(* With a capacity above 0 for every cell, TimeToTrigger 0 and no RSRP     *)
(* below MinAcceptableRsrp the decision is OranLmNr2NrRsrpHandover's.      *)
(***************************************************************************)
EXTENDS Integers, FiniteSets

CONSTANTS
    NumUes,             \* UEs are 1..NumUes
    Cells,              \* cell IDs, one gNB each
    InitCells,          \* cells a UE may be attached to at first
    Cap,                \* SetCellCapacity and MaxUesPerCell: 0 is no cap
    Measurements,       \* RSRP values of the cells a UE may measure together
    Hysteresis,         \* RsrpThreshold
    MinAcceptableRsrp,  \* MinAcceptableRsrpDbm
    Warmup,             \* Warmup
    MinHoInterval,      \* MinHoInterval
    HoAttemptTimeout,   \* HoAttemptTimeout
    LowRsrpRecheck,     \* LowRsrpRecheck
    TimeToTrigger,      \* TimeToTrigger
    TryNextBest,        \* TryNextBest
    ReportDelay,        \* most time a report takes to the repository
    CommandDelay,       \* most time from a decision to the end of the handover
    Faults,             \* what happens besides: "ue", "gnb" registrations end
    MaxIds              \* bound: E2 node IDs handed out to UEs

ASSUME ConstantsAssumption ==
    /\ NumUes \in Nat \ {0}
    /\ Cells \subseteq Nat \ {0} /\ IsFiniteSet(Cells)
    /\ InitCells \subseteq Cells
    /\ Cap \in [Cells -> Nat]
    /\ Measurements \subseteq [Cells -> Int]
    /\ {Hysteresis, Warmup, MinHoInterval, HoAttemptTimeout, LowRsrpRecheck,
        TimeToTrigger, ReportDelay, CommandDelay} \subseteq Nat
    /\ MinAcceptableRsrp \in Int
    /\ TryNextBest \in BOOLEAN
    /\ Faults \subseteq {"ue", "gnb"}
    /\ MaxIds \in Nat /\ MaxIds >= NumUes

VARIABLES
    cell,       \* the cell every UE is attached to
    id,         \* the E2 node ID of every UE
    owner,      \* the UE an ID was handed out to, 0 if none
    listed,     \* IDs of UEs that are registered
    gnbs,       \* cells whose gNB is registered
    report,     \* the reports of a UE that are under way
    view,       \* newest rows of table nruersrprsrq per ID
    info,       \* newest row of table nruecell per ID
    located,    \* IDs with a row in table nodelocation
    warmup,     \* time left of m_warmup
    since,      \* time since lastHoCmdTime, Horizon if longer or never
    pending,    \* pendingHoTarget, NoCell if there is none
    blocked,    \* time left until lowRsrpBlockUntil
    ttt,        \* tttState: the candidate and the time since it became one
    ran,        \* the LM has run in this interval
    cmds        \* handover commands under way

ueVars   == <<cell, id, owner>>
regVars  == <<listed, gnbs>>
repoVars == <<view, info, located>>
lmVars   == <<warmup, since, pending, blocked, ttt>>
vars     == <<ueVars, regVars, report, repoVars, lmVars, ran, cmds>>

Ues    == 1..NumUes
Ids    == 1..MaxIds
NoCell == 0
NoTtt  == [cell |-> NoCell, age |-> 0]

Horizon == IF MinHoInterval > HoAttemptTimeout THEN MinHoInterval ELSE HoAttemptTimeout

\* The newest rows before any was stored.
NoView == [cell |-> NoCell, rsrp |-> [c \in {} |-> 0]]

\* The state of a UE's reports when none are under way.
NotYet == [todo |-> {}, sent |-> FALSE]
Done   == [todo |-> {}, sent |-> TRUE]

Rows == {"info", "location", "serving", "neighbours"}

Init ==
    /\ cell \in {f \in [Ues -> InitCells] :
                    \A c \in Cells : Cap[c] # 0 => Cardinality({u \in Ues : f[u] = c}) <= Cap[c]}
    /\ id = [u \in Ues |-> u]
    /\ owner = [i \in Ids |-> IF i \in Ues THEN i ELSE 0]
    /\ listed = Ues
    /\ gnbs = Cells
    /\ report = [u \in Ues |-> NotYet]
    /\ view = [i \in Ids |-> NoView]
    /\ info = [i \in Ids |-> NoCell]
    /\ located = {}
    /\ warmup = Warmup
    /\ since = [i \in Ids |-> Horizon]
    /\ pending = [i \in Ids |-> NoCell]
    /\ blocked = [i \in Ids |-> 0]
    /\ ttt = [i \in Ids |-> NoTtt]
    /\ ran = FALSE
    /\ cmds = {}

-----------------------------------------------------------------------------
(* Reports and the repository.                                             *)

\* The rows a UE reports.  Where it is does not matter, only that the repository has a
\* position: positions after the first one stored change nothing and are left out.
ToReport(u) == IF id[u] \in located THEN Rows \ {"location"} ELSE Rows

\* The reporters of a UE generate one report per row, under the UE's current ID.
GenerateReports(u) ==
    /\ report[u] = NotYet
    /\ \E rsrp \in Measurements :
         report' = [report EXCEPT ![u] = [todo |-> ToReport(u), id |-> id[u], cell |-> cell[u],
                                          rsrp |-> rsrp, left |-> ReportDelay]]
    /\ UNCHANGED <<ueVars, regVars, repoVars, lmVars, ran, cmds>>

\* GetNrUeRsrpRsrq when the rows D of report r are stored: rows of the largest
\* simulationtime only.
Stored(r, D) ==
    LET known == (IF "serving" \in D THEN {r.cell} ELSE {})
                    \cup (IF "neighbours" \in D THEN Cells \ {r.cell} ELSE {})
    IN  [cell |-> IF "serving" \in D THEN r.cell ELSE NoCell,
         rsrp |-> [c \in known |-> r.rsrp[c]]]

\* One report arrives: ReceiveReport and SaveNrUeRsrpRsrq, SaveNrUeCellInfo or
\* SavePosition, which ignore it when its ID is not registered.
ReceiveReport(u) ==
    \E row \in report[u].todo :
       LET r    == report[u]
           todo == r.todo \ {row}
       IN  /\ report' = [report EXCEPT ![u] = IF todo = {} THEN Done
                                              ELSE [r EXCEPT !.todo = todo]]
           /\ info' = IF r.id \in listed /\ row = "info"
                      THEN [info EXCEPT ![r.id] = r.cell] ELSE info
           /\ located' = IF r.id \in listed /\ row = "location"
                         THEN located \cup {r.id} ELSE located
           /\ view' = IF r.id \in listed /\ row \in {"serving", "neighbours"}
                      THEN [view EXCEPT ![r.id] = Stored(r, Rows \ todo)] ELSE view
           /\ UNCHANGED <<ueVars, regVars, lmVars, ran, cmds>>

-----------------------------------------------------------------------------
(* One run of the Logic Module.                                            *)

\* GetUeInfos: registered UEs with cell info and a position.  (GetGnbInfos asks the
\* same of a gNB; a gNB's rows are there and stay, so it is in gnbs while registered.)
UeInfos == {i \in listed : info[i] # NoCell /\ i \in located}

\* The cell a UE counts for: of its serving row, else of its cell info.
CountedIn(i) == IF view[i].cell # NoCell THEN view[i].cell ELSE info[i]

RealLoad(c) == Cardinality({i \in UeInfos : CountedIn(i) = c})

\* Mutant: a pending handover is given up one interval too early.
KeptPendingTooShort(i) == since[i] < HoAttemptTimeout - 1

\* A pending handover is kept until it times out.
KeptPending(i) == since[i] < HoAttemptTimeout

StillPending == [i \in Ids |-> IF KeptPending(i) THEN pending[i] ELSE NoCell]

\* Mutant: pending handovers reserve nothing.
ReservedNothing(p, c) == 0

Reserved(p, c) == Cardinality({i \in Ids : p[i] = c})

\* effectiveLoad at the start of a run: reservations stop at the cap.
EffectiveLoad(p) ==
    [c \in Cells |->
        LET sum == RealLoad(c) + Reserved(p, c)
        IN  IF Cap[c] = 0 \/ sum <= Cap[c] THEN sum
            ELSE IF RealLoad(c) > Cap[c] THEN RealLoad(c) ELSE Cap[c]]

Full(load, c) == Cap[c] > 0 /\ load[c] >= Cap[c]

\* Mutant: the serving cell is a candidate and ties count.
BetterOrEqual(i) ==
    {c \in DOMAIN view[i].rsrp : view[i].rsrp[c] >= view[i].rsrp[view[i].cell] + Hysteresis}

\* Cells whose RSRP beats the serving cell's by more than the hysteresis.
Better(i) ==
    {c \in DOMAIN view[i].rsrp \ {view[i].cell} :
        view[i].rsrp[c] > view[i].rsrp[view[i].cell] + Hysteresis}

Weak(i, c) == view[i].rsrp[c] < MinAcceptableRsrp

\* The first of the cells S in the order of the sorted candidates.
Strongest(i, S) ==
    CHOOSE c \in S : \A d \in S : \/ view[i].rsrp[c] > view[i].rsrp[d]
                                  \/ view[i].rsrp[c] = view[i].rsrp[d] /\ c <= d

\* Mutant: a UE with a pending handover is evaluated.
GatedNoPending(S, i) ==
    warmup > 0 \/ blocked[i] > 0 \/ since[i] < MinHoInterval \/ view[i].cell = NoCell

\* The gates that leave a UE alone in this run.
Gated(S, i) ==
    \/ warmup > 0
    \/ blocked[i] > 0
    \/ S.pending[i] # NoCell /\ since[i] < HoAttemptTimeout
    \/ since[i] < MinHoInterval
    \/ view[i].cell = NoCell

\* Mutant: a candidate that is lost keeps the time-to-trigger running.
KeepServingCellKeepsTtt(S, i) == S

\* No feasible target.
KeepServingCell(S, i) == [S EXCEPT !.ttt[i] = NoTtt]

LowRsrpFailure(S, i) == [S EXCEPT !.ttt[i] = NoTtt, !.blocked[i] = LowRsrpRecheck]

EmitCommand(S, i, c) ==
    [S EXCEPT !.ttt[i]     = NoTtt,
              !.since[i]   = 0,
              !.pending[i] = c,
              !.load[c]    = IF Full(S.load, c) THEN @ ELSE @ + 1,
              !.cmds       = @ \cup {[ue |-> owner[i], from |-> view[i].cell, to |-> c,
                                      left |-> CommandDelay]}]

\* Mutant: the time to trigger is over one interval early.
TriggerEarly(S, i, c) ==
    LET t == IF S.ttt[i].cell = c THEN S.ttt[i] ELSE [cell |-> c, age |-> 0]
    IN  IF t.age + 1 < TimeToTrigger THEN [S EXCEPT !.ttt[i] = t] ELSE EmitCommand(S, i, c)

\* The time-to-trigger gate for the chosen cell.
Trigger(S, i, c) ==
    LET t == IF S.ttt[i].cell = c THEN S.ttt[i] ELSE [cell |-> c, age |-> 0]
    IN  IF t.age < TimeToTrigger THEN [S EXCEPT !.ttt[i] = t] ELSE EmitCommand(S, i, c)

\* The search ends at the first candidate that is weak, or has room, or is full and
\* the next best may not be tried.
Choose(S, i) ==
    LET ends == {c \in Better(i) \cap gnbs : Weak(i, c) \/ ~Full(S.load, c) \/ ~TryNextBest}
        c    == Strongest(i, ends)
    IN  IF ends = {} THEN KeepServingCell(S, i)
        ELSE IF Weak(i, c) THEN LowRsrpFailure(S, i)
        ELSE IF Full(S.load, c) THEN KeepServingCell(S, i)
        ELSE Trigger(S, i, c)

\* One UE of the loop of GetHandoverCommands.
Evaluate(S, i) ==
    LET reached == S.pending[i] = view[i].cell
        T       == IF reached THEN [S EXCEPT !.pending[i] = NoCell] ELSE S
    IN  IF i \notin UeInfos \/ Gated(S, i) THEN S
        ELSE IF view[i].cell \notin gnbs THEN T
        ELSE Choose(T, i)

\* What a run starts from: reservations that have timed out are gone.
Start ==
    [pending |-> StillPending, since |-> since, blocked |-> blocked, ttt |-> ttt,
     load |-> EffectiveLoad(StillPending), cmds |-> {}]

\* The UEs one after the other, in the order of their IDs.
After[i \in 0 .. MaxIds] == IF i = 0 THEN Start ELSE Evaluate(After[i - 1], i)

GetHandoverCommands == After[MaxIds]

\* The LM runs once per interval and its commands are sent.
Run ==
    /\ ~ran
    /\ ran' = TRUE
    /\ LET S == GetHandoverCommands
       IN  /\ pending' = S.pending
           /\ since' = S.since
           /\ blocked' = S.blocked
           /\ ttt' = S.ttt
           /\ cmds' = cmds \cup S.cmds
    /\ UNCHANGED <<ueVars, regVars, report, repoVars, warmup>>

-----------------------------------------------------------------------------
(* Commands, registrations and time.                                       *)

\* The source gNB executes a command, or drops it: the UE is in another cell (its
\* RNTI is unknown) or not in a state that allows a handover.
ReceiveCommand(m) ==
    /\ cmds' = cmds \ {m}
    /\ \/ cell[m.ue] = m.from /\ cell' = [cell EXCEPT ![m.ue] = m.to]
       \/ UNCHANGED cell
    /\ UNCHANGED <<id, owner, regVars, report, repoVars, lmVars, ran>>

\* A UE's registration ends (inactivity).
Deregister(u) ==
    /\ "ue" \in Faults
    /\ id[u] \in listed
    /\ listed' = listed \ {id[u]}
    /\ UNCHANGED <<ueVars, gnbs, report, repoVars, lmVars, ran, cmds>>

\* A UE whose registration has ended registers: under its ID again while it has not
\* heard of the end, else under a new one.
Reregister(u) ==
    /\ id[u] \notin listed
    /\ \/ listed' = listed \cup {id[u]} /\ UNCHANGED <<id, owner>>
       \/ \E i \in Ids :
            /\ owner[i] = 0
            /\ \A j \in Ids : owner[j] = 0 => i <= j
            /\ id' = [id EXCEPT ![u] = i]
            /\ owner' = [owner EXCEPT ![i] = u]
            /\ listed' = listed \cup {i}
    /\ UNCHANGED <<cell, gnbs, report, repoVars, lmVars, ran, cmds>>

\* The registration of a cell's gNB ends, or is renewed under the same ID.
GnbRegistration(c) ==
    /\ "gnb" \in Faults
    /\ gnbs' = IF c \in gnbs THEN gnbs \ {c} ELSE gnbs \cup {c}
    /\ UNCHANGED <<ueVars, listed, report, repoVars, lmVars, ran, cmds>>

Later(t, max)  == IF t < max THEN t + 1 ELSE max
Sooner(t)      == IF t > 0 THEN t - 1 ELSE 0

\* The next interval, when nothing is overdue.
Tick ==
    /\ ran
    /\ \A u \in Ues : report[u] # NotYet /\ (report[u].todo # {} => report[u].left > 0)
    /\ \A m \in cmds : m.left > 0
    /\ ran' = FALSE
    /\ report' = [u \in Ues |-> IF report[u] = Done THEN NotYet
                                ELSE [report[u] EXCEPT !.left = @ - 1]]
    /\ cmds' = {[m EXCEPT !.left = @ - 1] : m \in cmds}
    /\ warmup' = Sooner(warmup)
    /\ blocked' = [i \in Ids |-> Sooner(blocked[i])]
    /\ since' = [i \in Ids |-> Later(since[i], Horizon)]
    /\ ttt' = [i \in Ids |-> IF ttt[i] = NoTtt THEN NoTtt
                             ELSE [ttt[i] EXCEPT !.age = Later(@, TimeToTrigger)]]
    /\ UNCHANGED <<ueVars, regVars, repoVars, pending>>

Next ==
    \/ Run
    \/ Tick
    \/ \E u \in Ues : \/ GenerateReports(u)
                      \/ ReceiveReport(u)
                      \/ Deregister(u)
                      \/ Reregister(u)
    \/ \E c \in Cells : GnbRegistration(c)
    \/ \E m \in cmds : ReceiveCommand(m)

Spec == Init /\ [][Next]_vars

-----------------------------------------------------------------------------
(* Properties.                                                             *)

\* Every variable has its type, and no command moves a UE to the cell it is in.
TypeOK ==
    /\ cell \in [Ues -> Cells]
    /\ id \in [Ues -> Ids]
    /\ owner \in [Ids -> Ues \cup {0}]
    /\ listed \subseteq Ids
    /\ gnbs \subseteq Cells
    /\ info \in [Ids -> Cells \cup {NoCell}]
    /\ located \subseteq Ids
    /\ since \in [Ids -> 0..Horizon]
    /\ pending \in [Ids -> Cells \cup {NoCell}]
    /\ ran \in BOOLEAN
    /\ \A m \in cmds : m.ue \in Ues /\ m.from \in Cells /\ m.to \in Cells \ {m.from}

\* "Hard cap: if a target cell already serves this many UEs, do not handover to it":
\* handovers never fill a cell beyond its capacity, though the LM sees attachments
\* late and several UEs move at once (effectiveLoad, pendingHoTarget).
CapacityRespected ==
    \A c \in Cells : Cap[c] # 0 => Cardinality({u \in Ues : cell[u] = c}) <= Cap[c]

\* A UE never has two commands under way: the pending gate holds the next decision
\* back until the last one has been executed or dropped (HoAttemptTimeout).  A UE that
\* registers under another ID has left its pending handover and its cooldown with the
\* old one, and only the time to trigger keeps the next command apart from the last.
OneCommandPerUe ==
    \A m1, m2 \in cmds : m1.ue = m2.ue => m1 = m2

\* The reservation of a command under way is held until the command is executed or
\* dropped, also when the UE has lost its registration or registered under another
\* ID meanwhile (pendingHoTarget, HoAttemptTimeout).
ReservationHeld ==
    \A m \in cmds : \E i \in Ids : owner[i] = m.ue /\ pending[i] = m.to

\* "Time that a neighbour must continuously stay better than (serving + hysteresis)
\* before issuing a HO": after a run, the time-to-trigger counts only for a cell that
\* was better in this run's measurements (tttState).
TttContinuous ==
    [][ran' # ran /\ ran' =>
         \A i \in listed : ttt'[i] # NoTtt /\ view[i].cell # NoCell => ttt'[i].cell \in Better(i)]_vars
=============================================================================

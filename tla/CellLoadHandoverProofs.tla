----------------------- MODULE CellLoadHandoverProofs -----------------------
(***************************************************************************)
(* Proofs about the handover loop with cell load, for any number of UEs,   *)
(* cells and measurements, and any timing that meets the hypotheses: one   *)
(* run of the Logic Module as a whole, the reservations that outlive the   *)
(* commands, and the capacity of the cells.                                *)
(***************************************************************************)
EXTENDS CellLoadHandover, FiniteSetTheorems, WellFoundedInduction, TLAPS

-----------------------------------------------------------------------------
(* Hypotheses.                                                             *)

\* A pending handover times out after its command has ended.
Patient == CommandDelay < HoAttemptTimeout

\* A registration of a UE never ends: it keeps its ID.
Registered == "ue" \notin Faults

\* A neighbour must stay better for at least as long as a command takes.
Spaced == CommandDelay <= TimeToTrigger

\* A pending handover times out only after the rows of the new cell are stored: the
\* command ends, the reports under way arrive, and those of the next interval arrive.
\* Before the first decision every UE has reported.
Observed == /\ CommandDelay + 2 * ReportDelay + 1 < HoAttemptTimeout
            /\ ReportDelay < Warmup

-----------------------------------------------------------------------------
(* The inductive invariants.                                               *)

Flights == [todo : (SUBSET Rows) \ {{}}, id : Ids, cell : Cells, rsrp : [Cells -> Int],
            left : 0 .. ReportDelay]
InFlight(u) == report[u] \in Flights
ViewTyped(v) ==
    /\ v.cell \in Cells \cup {NoCell}
    /\ v.cell # NoCell => v.cell \in DOMAIN v.rsrp
    /\ DOMAIN v.rsrp \subseteq Cells /\ \A c \in DOMAIN v.rsrp : v.rsrp[c] \in Int
HoCommands == [ue : Ues, from : Cells, to : Cells, left : 0 .. CommandDelay]
Ttts == [cell : Cells \cup {NoCell}, age : Nat]

UeTyped == cell \in [Ues -> Cells] /\ id \in [Ues -> Ids] /\ owner \in [Ids -> Ues \cup {0}]
RegTyped == listed \subseteq Ids /\ gnbs \subseteq Cells
ReportTyped == \A u \in Ues : report[u] \in {NotYet, Done} \cup Flights
ReportDomain == report = [u \in Ues |-> report[u]]
RepoTyped == /\ view = [i \in Ids |-> view[i]] /\ \A i \in Ids : ViewTyped(view[i])
             /\ info \in [Ids -> Cells \cup {NoCell}] /\ located \subseteq Ids
LmTyped == /\ warmup \in Nat /\ since \in [Ids -> 0 .. Horizon]
           /\ pending \in [Ids -> Cells \cup {NoCell}]
           /\ blocked \in [Ids -> Nat] /\ ttt \in [Ids -> Ttts] /\ ran \in BOOLEAN
CmdTyped == cmds \subseteq HoCommands /\ \A m \in cmds : m.from # m.to
Typed == UeTyped /\ RegTyped /\ ReportDomain /\ ReportTyped /\ RepoTyped /\ LmTyped /\ CmdTyped

\* An ID that is registered is its UE's present one, and for an ID that was never handed
\* out there was no command and no candidate.
Owned ==
    /\ \A u \in Ues : owner[id[u]] = u
    /\ \A i \in listed : owner[i] \in Ues /\ id[owner[i]] = i
    /\ \A i \in Ids : owner[i] = 0 => since[i] = Horizon /\ ttt[i] = NoTtt

LoopInv == Typed /\ Owned

\* The target of a command under way is pending, for as long as the command is.
Held ==
    \A m \in cmds : \E i \in Ids : owner[i] = m.ue /\ pending[i] = m.to
                                   /\ since[i] + m.left = CommandDelay
ReservedInv == LoopInv /\ Held

\* A UE that has changed its ID while a command was under way has become a candidate under
\* the new ID after the command, if at all; only a run sends commands.
Holds(m, i) == owner[i] = m.ue /\ pending[i] = m.to /\ since[i] + m.left = CommandDelay
Behind(u, i) == id[u] = i \/ ttt[id[u]] = NoTtt \/ ttt[id[u]].age < since[i]
Apart == /\ \A i \in Ids : since[i] = 0 => ran
         /\ \A m \in cmds : \E i \in Ids : Holds(m, i) /\ Behind(m.ue, i)
AcrossInv == ReservedInv /\ Apart /\ OneCommandPerUe

\* No UE has changed its ID.
Fixed == /\ id = [u \in Ues |-> u] /\ listed = Ues
         /\ owner = [i \in Ids |-> IF i \in Ues THEN i ELSE 0]
SingleInv == ReservedInv /\ Fixed /\ OneCommandPerUe

\* The rows of a report that have arrived are stored.
Arrived ==
    \A u \in Ues : InFlight(u) =>
        /\ report[u].id = u
        /\ "info" \notin report[u].todo => info[u] = report[u].cell
        /\ "location" \notin report[u].todo => u \in located
        /\ "serving" \notin report[u].todo => view[u].cell = report[u].cell

\* The repository knows where a UE is and nothing else is under way, or its handover is
\* pending until it does, or the UE has not reported and nothing is decided until it has.
Known(u) == /\ u \in located /\ info[u] = cell[u] /\ view[u].cell \in {NoCell, cell[u]}
            /\ InFlight(u) => report[u].cell = cell[u]
Wait(u) == IF report[u] = NotYet THEN ReportDelay
           ELSE IF report[u] = Done THEN ReportDelay + 1
           ELSE IF report[u].cell = cell[u] THEN report[u].left
           ELSE report[u].left + 1 + ReportDelay
Moved(u) == pending[u] = cell[u] /\ since[u] + Wait(u) <= CommandDelay + 2 * ReportDelay + 1
Unseen(u) == /\ report[u] = NotYet => warmup > ReportDelay
             /\ report[u] # NotYet => InFlight(u) /\ report[u].cell = cell[u]
                                      /\ warmup > report[u].left
Located == \A u \in Ues : Known(u) \/ Moved(u) \/ Unseen(u)

\* The UEs that are in a cell or on their way to it.
Claims(c, C) == {u \in Ues : cell[u] = c \/ \E m \in C : m.ue = u /\ m.to = c}
Room == \A c \in Cells : Cap[c] # 0 => Cardinality(Claims(c, cmds)) <= Cap[c]

Waiting == warmup > 0 => cmds = {}
CapacityInv == SingleInv /\ Arrived /\ Located /\ Room /\ Waiting

\* While the time to trigger counts, nothing holds a decision back.
Counting ==
    \A i \in Ids : ttt[i] # NoTtt =>
        /\ warmup = 0 /\ blocked[i] = 0 /\ since[i] >= MinHoInterval
        /\ pending[i] = NoCell /\ info[i] # NoCell /\ i \in located
TriggerInv == LoopInv /\ Counting /\ gnbs = Cells

-----------------------------------------------------------------------------
(* Constants, induction over the IDs, and the strongest cell.              *)

LEMMA Consts ==
    /\ NumUes \in Nat /\ MaxIds \in Nat /\ NumUes <= MaxIds /\ Ues \subseteq Ids /\ 0 \notin Ues
    /\ Horizon \in Nat /\ MinHoInterval \in Nat /\ HoAttemptTimeout \in Nat /\ Hysteresis \in Nat
    /\ Warmup \in Nat /\ LowRsrpRecheck \in Nat /\ TimeToTrigger \in Nat
    /\ ReportDelay \in Nat /\ CommandDelay \in Nat
    /\ MinHoInterval <= Horizon /\ HoAttemptTimeout <= Horizon
    /\ Cells \subseteq Nat /\ NoCell \notin Cells /\ IsFiniteSet(Cells)
  BY ConstantsAssumption DEF Ues, Ids, Horizon, NoCell

LEMMA FiniteIds ==
    /\ IsFiniteSet(Ids) /\ IsFiniteSet(Ues)
    /\ \A X \in SUBSET Ids : IsFiniteSet(X) /\ Cardinality(X) \in Nat
<1>1. IsFiniteSet(Ids)
  BY Consts, FS_Interval DEF Ids
<1> QED  BY <1>1, Consts, FS_Subset, FS_CardinalityType

LEMMA Least == ASSUME NEW S \in SUBSET Nat, S # {} PROVE \E n \in S : \A m \in S : n <= m
<1>1. PICK n \in S : \A m \in S : ~(<<m, n>> \in OpToRel(<, Nat))
  BY NatLessThanWellFounded, WFMin
<1>2. \A m \in S : ~(m < n)
  BY <1>1 DEF OpToRel
<1> QED  BY <1>2

\* Induction along the IDs.
LEMMA UpTo ==
    ASSUME NEW n \in Nat, NEW K, 0 \in K, \A k \in 1 .. n : k - 1 \in K => k \in K
    PROVE  \A k \in 0 .. n : k \in K
<1> DEFINE Out == (0 .. n) \ K
<1>1. CASE Out # {}
  <2>0. Out \in SUBSET Nat
    OBVIOUS
  <2>1. PICK k \in Out : \A m \in Out : k <= m
    BY <1>1, <2>0, Least
  <2>2. k \in 1 .. n /\ k - 1 \in 0 .. n /\ ~(k <= k - 1)
    BY <2>1
  <2>3. k - 1 \in K
    BY <2>1, <2>2
  <2> QED  BY <2>1, <2>2, <2>3
<1> QED  BY <1>1

\* Among candidates with known RSRP there is a strongest: otherwise take a smallest set
\* without one, and leave a cell out.
LEMMA StrongestIn ==
    ASSUME NEW i, ViewTyped(view[i]), NEW S \in SUBSET DOMAIN view[i].rsrp, S # {}
    PROVE  Strongest(i, S) \in S
<1> DEFINE f == view[i].rsrp
           Above(c, d) == f[c] > f[d] \/ (f[c] = f[d] /\ c <= d)
           Best(X) == \E c \in X : \A d \in X : Above(c, d)
           Sizes == {n \in Nat : \E X \in SUBSET S : X # {} /\ ~Best(X) /\ Cardinality(X) = n}
<1>1. S \subseteq Nat /\ IsFiniteSet(S) /\ \A c \in S : f[c] \in Int
  BY Consts, FS_Subset DEF ViewTyped
<1>2. \A a, b \in S : Above(a, b) \/ Above(b, a)
  BY <1>1
<1>3. \A a, b, c \in S : Above(a, b) /\ Above(b, c) => Above(a, c)
  BY <1>1
<1>4. ASSUME ~Best(S) PROVE FALSE
  <2>1. Cardinality(S) \in Nat
    BY <1>1, FS_CardinalityType
  <2>2. Sizes \in SUBSET Nat /\ Sizes # {}
    BY <1>4, <2>1
  <2>3. PICK n \in Sizes : \A k \in Sizes : n <= k
    BY <2>2, Least
  <2>4. PICK X \in SUBSET S : X # {} /\ ~Best(X) /\ Cardinality(X) = n
    BY <2>3
  <2>5. PICK x \in X : TRUE
    BY <2>4
  <2>6. IsFiniteSet(X) /\ n \in Nat
    BY <1>1, <2>2, <2>4, FS_Subset
  <2>7. IsFiniteSet(X \ {x}) /\ Cardinality(X \ {x}) = n - 1
    BY <2>4, <2>5, <2>6, FS_RemoveElement
  <2>8. n - 1 \in Nat
    BY <2>7, FS_CardinalityType
  <2> HIDE DEF f, Above
  <2>9. X \ {x} # {}
    <3>1. X = {x} => Best(X)
      BY <1>2, <2>4, <2>5
    <3> QED  BY <2>4, <2>5, <3>1
  <2>10. Best(X \ {x})
    <3>1. ~(n - 1 \in Sizes)
      BY <2>3, <2>6, <2>8
    <3> HIDE DEF Best
    <3> QED  BY <2>7, <2>8, <2>9, <3>1
  <2>11. PICK z \in X \ {x} : \A d \in X \ {x} : Above(z, d)
    BY <2>10
  <2>12. CASE Above(z, x)
    BY <2>4, <2>11, <2>12
  <2>13. CASE Above(x, z)
    <3>1. \A d \in X : Above(x, d)
      BY <1>2, <1>3, <2>4, <2>5, <2>11, <2>13
    <3> QED  BY <2>4, <2>5, <3>1
  <2> QED  BY <1>2, <2>4, <2>5, <2>11, <2>12, <2>13
<1>5. \E c \in S : \A d \in S : Above(c, d)
  BY <1>4
<1>6. Strongest(i, S) = CHOOSE c \in S : \A d \in S : Above(c, d)
  BY DEF Strongest
<1> HIDE DEF f, Above
<1> QED  BY <1>5, <1>6

\* A run evaluates the IDs one after the other.  The equation has a solution: a smallest
\* number of IDs without one cannot be, as the solution for one less can be continued.
LEMMA Loop == After = [i \in 0 .. MaxIds |-> IF i = 0 THEN Start ELSE Evaluate(After[i - 1], i)]
<1> DEFINE Solves(g, n) == g = [i \in 0 .. n |-> IF i = 0 THEN Start ELSE Evaluate(g[i - 1], i)]
           K == {n \in Nat : \E g : Solves(g, n)}
<1>1. 0 \in K
  <2> DEFINE g == [i \in 0 .. 0 |-> Start]
  <2>1. Solves(g, 0)
    OBVIOUS
  <2> QED  BY <2>1
<1>2. ASSUME NEW n \in 1 .. MaxIds, n - 1 \in K PROVE n \in K
  <2>1. PICK f : Solves(f, n - 1)
    BY <1>2
  <2>2. n \in Nat /\ n - 1 \in Nat /\ n # 0
    BY Consts
  <2>3. f[0] = Start /\ \A i \in 1 .. n - 1 : f[i] = Evaluate(f[i - 1], i)
    BY <2>1, <2>2
  <2> DEFINE g == [i \in 0 .. n |-> IF i = n THEN Evaluate(f[n - 1], n) ELSE f[i]]
  <2>4. g[0] = Start
    BY <2>2, <2>3
  <2>5. ASSUME NEW i \in 1 .. n PROVE g[i] = Evaluate(g[i - 1], i)
    <3>1. g[i - 1] = f[i - 1]
      BY <2>2
    <3>2. CASE i = n
      BY <2>2, <3>1, <3>2
    <3>3. CASE i # n
      BY <2>2, <2>3, <3>1, <3>3
    <3> QED  BY <3>2, <3>3
  <2>6. g = [i \in 0 .. n |-> g[i]]
    OBVIOUS
  <2> HIDE DEF g
  <2>7. \A i \in 0 .. n : g[i] = IF i = 0 THEN Start ELSE Evaluate(g[i - 1], i)
    BY <2>2, <2>4, <2>5
  <2>8. Solves(g, n)
    BY <2>6, <2>7
  <2> QED  BY <2>2, <2>8
<1>3. MaxIds \in K
  <2>1. \A k \in 0 .. MaxIds : k \in K
    <3> HIDE DEF K
    <3> QED  BY <1>1, <1>2, Consts, UpTo
  <2> QED  BY <2>1, Consts
<1>4. After = CHOOSE g : Solves(g, MaxIds)
  BY DEF After
<1>5. \E g : Solves(g, MaxIds)
  BY <1>3
<1>6. Solves(After, MaxIds)
  <2> HIDE DEF Solves
  <2> QED  BY <1>4, <1>5
<1> QED  BY <1>6

-----------------------------------------------------------------------------
(* One run of the Logic Module.                                            *)

LmStates == [pending : [Ids -> Cells \cup {NoCell}], since : [Ids -> 0 .. Horizon],
             blocked : [Ids -> Nat], ttt : [Ids -> Ttts], load : [Cells -> Nat],
             cmds : SUBSET HoCommands]

HoCommand(i, c) == [ue |-> owner[i], from |-> view[i].cell, to |-> c, left |-> CommandDelay]

\* The ways a UE is left alone: the gates, or no feasible target.
Reconsidered(i) == i \in UeInfos /\ ~Gated(Start, i)
TttOf(S, i) ==
    \/ S.ttt[i] = NoTtt
    \/ /\ S.ttt[i] = ttt[i] /\ S.blocked[i] = blocked[i]
       /\ i \notin UeInfos \/ Gated(Start, i) \/ view[i].cell \notin gnbs
    \/ /\ Reconsidered(i) /\ S.ttt[i].cell \in Better(i) /\ S.blocked[i] = blocked[i]
       /\ S.pending[i] = NoCell /\ (S.ttt[i] = ttt[i] \/ S.ttt[i].age = 0)
Left(S, i) ==
    /\ S.since[i] = since[i] /\ TttOf(S, i)
    /\ S.pending[i] = StillPending[i] \/ (S.pending[i] = NoCell /\ Reconsidered(i))

\* The time to trigger is over.
Ripe(i, c) == TimeToTrigger <= IF ttt[i].cell = c THEN ttt[i].age ELSE 0

\* A command is sent.
Sent(S, i, c) ==
    /\ Reconsidered(i) /\ Ripe(i, c) /\ c \in Better(i) \cap gnbs
    /\ S.since[i] = 0 /\ S.pending[i] = c /\ S.ttt[i] = NoTtt /\ HoCommand(i, c) \in S.cmds

\* A UE whose turn has not come.
Untouched(S, i) ==
    /\ S.since[i] = since[i] /\ S.pending[i] = StillPending[i]
    /\ S.ttt[i] = ttt[i] /\ S.blocked[i] = blocked[i]

\* After the UEs up to k.
Halfway(k, S) ==
    /\ S \in LmStates
    /\ \A i \in 1 .. k : Left(S, i) \/ \E c \in Cells : Sent(S, i, c)
    /\ \A i \in k + 1 .. MaxIds : Untouched(S, i)
    /\ \A m \in S.cmds : \E i \in 1 .. k, c \in Cells : Sent(S, i, c) /\ m = HoCommand(i, c)

\* What the turn of one UE does.
Same(S, T, i) ==
    \A j \in Ids \ {i} : /\ T.since[j] = S.since[j] /\ T.pending[j] = S.pending[j]
                         /\ T.ttt[j] = S.ttt[j] /\ T.blocked[j] = S.blocked[j]
Quiet(S, T, i) ==
    /\ T.since = S.since /\ T.cmds = S.cmds /\ T.load = S.load /\ Left(T, i)
Emits(S, T, i, c) ==
    /\ Sent(T, i, c) /\ ~Full(S.load, c)
    /\ T.cmds = S.cmds \cup {HoCommand(i, c)} /\ T.load = [S.load EXCEPT ![c] = @ + 1]

LEMMA StartTyped == ASSUME LoopInv PROVE Start \in LmStates
<1>1. \A c \in Cells : RealLoad(c) \in Nat /\ Reserved(StillPending, c) \in Nat
  <2> TAKE c \in Cells
  <2>1. {i \in UeInfos : CountedIn(i) = c} \in SUBSET Ids
    BY DEF UeInfos, LoopInv, Typed, RegTyped
  <2> QED  BY <2>1, FiniteIds DEF RealLoad, Reserved
<1>2. \A c \in Cells : Cap[c] \in Nat
  BY ConstantsAssumption
<1>3. EffectiveLoad(StillPending) \in [Cells -> Nat]
  BY <1>1, <1>2 DEF EffectiveLoad
<1>4. StillPending \in [Ids -> Cells \cup {NoCell}]
  BY DEF StillPending, LoopInv, Typed, LmTyped
<1> QED  BY <1>3, <1>4 DEF Start, LmStates, LoopInv, Typed, LmTyped

LEMMA GatedAtStart ==
    ASSUME NEW S, NEW i \in Ids, S.pending[i] = StillPending[i]
    PROVE  Gated(S, i) <=> Gated(Start, i)
  BY DEF Gated, Start

\* A UE that is reconsidered has no handover pending, and its owner reported its cell.
LEMMA NothingPending ==
    ASSUME LoopInv, NEW i \in Ids, Reconsidered(i)
    PROVE  /\ StillPending[i] = NoCell /\ owner[i] \in Ues /\ i \in listed /\ info[i] # NoCell
           /\ i \in located /\ view[i].cell \in Cells /\ id[owner[i]] = i
           /\ warmup = 0 /\ blocked[i] = 0 /\ since[i] >= MinHoInterval
<1>1. ~Gated(Start, i) /\ Start.pending = StillPending
  BY DEF Reconsidered, Start
<1>2. StillPending[i] = NoCell
  BY <1>1 DEF Gated, StillPending, KeptPending
<1>3. view[i].cell \in Cells
  <2>1. view[i].cell # NoCell
    BY <1>1 DEF Gated
  <2>2. ViewTyped(view[i])
    BY DEF LoopInv, Typed, RepoTyped
  <2> QED  BY <2>1, <2>2 DEF ViewTyped
<1>4. i \in listed /\ info[i] # NoCell /\ i \in located
  BY DEF Reconsidered, UeInfos
<1>5. owner[i] \in Ues /\ id[owner[i]] = i
  BY <1>4 DEF LoopInv, Owned
<1>6. since[i] \in Nat /\ warmup \in Nat /\ blocked[i] \in Nat
  BY Consts DEF LoopInv, Typed, LmTyped
<1>7. warmup = 0 /\ blocked[i] = 0 /\ since[i] >= MinHoInterval
  BY <1>1, <1>6, Consts DEF Gated
<1> QED  BY <1>2, <1>3, <1>4, <1>5, <1>7

LEMMA BetterCells ==
    ASSUME LoopInv, NEW i \in Ids
    PROVE  /\ Better(i) \subseteq Cells /\ view[i].cell \notin Better(i)
           /\ Better(i) \in SUBSET DOMAIN view[i].rsrp /\ ViewTyped(view[i])
  BY DEF Better, LoopInv, Typed, RepoTyped, ViewTyped

\* A command for UE i.
LEMMA CommandSent ==
    ASSUME LoopInv, NEW S \in LmStates, NEW i \in Ids, Untouched(S, i), Reconsidered(i),
           NEW c \in Better(i) \cap gnbs, ~Full(S.load, c), Ripe(i, c)
    PROVE  /\ EmitCommand(S, i, c) \in LmStates /\ Same(S, EmitCommand(S, i, c), i)
           /\ Emits(S, EmitCommand(S, i, c), i, c)
<1>1. c \in Cells /\ owner[i] \in Ues /\ view[i].cell \in Cells
  BY BetterCells, NothingPending
<1> DEFINE T == EmitCommand(S, i, c)
<1>2. T \in [ttt : {[S.ttt EXCEPT ![i] = NoTtt]}, since : {[S.since EXCEPT ![i] = 0]},
             pending : {[S.pending EXCEPT ![i] = c]}, load : {[S.load EXCEPT ![c] = @ + 1]},
             cmds : {S.cmds \cup {HoCommand(i, c)}}, blocked : {S.blocked}]
  BY DEF EmitCommand, HoCommand, LmStates
<1> HIDE DEF T
<1>3. HoCommand(i, c) \in HoCommands
  BY <1>1, Consts DEF HoCommand, HoCommands
<1>4. NoTtt \in Ttts /\ 0 \in 0 .. Horizon
  BY Consts DEF NoTtt, Ttts
<1>5. T \in LmStates
  <2>1. /\ [S.ttt EXCEPT ![i] = NoTtt] \in [Ids -> Ttts]
        /\ [S.since EXCEPT ![i] = 0] \in [Ids -> 0 .. Horizon]
        /\ [S.pending EXCEPT ![i] = c] \in [Ids -> Cells \cup {NoCell}]
    BY <1>1, <1>4 DEF LmStates
  <2>2. [S.load EXCEPT ![c] = @ + 1] \in [Cells -> Nat]
    BY <1>1 DEF LmStates
  <2>3. S.cmds \cup {HoCommand(i, c)} \in SUBSET HoCommands
    BY <1>3 DEF LmStates
  <2>4. S.blocked \in [Ids -> Nat]
    BY DEF LmStates
  <2> QED  BY <1>2, <2>1, <2>2, <2>3, <2>4 DEF LmStates
<1>6. S.ttt \in [Ids -> Ttts] /\ S.since \in [Ids -> 0 .. Horizon]
      /\ S.pending \in [Ids -> Cells \cup {NoCell}]
  BY DEF LmStates
<1>7. Same(S, T, i)
  BY <1>2, <1>6 DEF Same
<1>8. T.since[i] = 0 /\ T.pending[i] = c /\ T.ttt[i] = NoTtt
  BY <1>2, <1>6
<1>9. Emits(S, T, i, c)
  BY <1>2, <1>8 DEF Emits, Sent
<1> QED  BY <1>5, <1>7, <1>9 DEF T

\* A UE that is not moved: only its pending target, time to trigger and backoff change.
LEMMA NotMoved ==
    ASSUME LoopInv, NEW S \in LmStates, NEW i \in Ids, Untouched(S, i),
           NEW T, NEW p \in Cells \cup {NoCell}, NEW t \in Ttts, NEW b \in Nat,
           T \in [pending : {[S.pending EXCEPT ![i] = p]}, ttt : {[S.ttt EXCEPT ![i] = t]},
                  blocked : {[S.blocked EXCEPT ![i] = b]}, since : {S.since}, load : {S.load},
                  cmds : {S.cmds}],
           p = StillPending[i] \/ (p = NoCell /\ Reconsidered(i)),
           \/ t = NoTtt
           \/ t = ttt[i] /\ b = blocked[i] /\ (~Reconsidered(i) \/ view[i].cell \notin gnbs)
           \/ /\ Reconsidered(i) /\ t.cell \in Better(i) /\ b = blocked[i] /\ p = NoCell
              /\ t = ttt[i] \/ t.age = 0
    PROVE  T \in LmStates /\ Same(S, T, i) /\ Quiet(S, T, i)
<1>1. /\ S.ttt \in [Ids -> Ttts] /\ S.since \in [Ids -> 0 .. Horizon]
      /\ S.pending \in [Ids -> Cells \cup {NoCell}] /\ S.blocked \in [Ids -> Nat]
      /\ S.load \in [Cells -> Nat] /\ S.cmds \in SUBSET HoCommands
  BY DEF LmStates
<1>2. /\ [S.pending EXCEPT ![i] = p] \in [Ids -> Cells \cup {NoCell}]
      /\ [S.ttt EXCEPT ![i] = t] \in [Ids -> Ttts] /\ [S.blocked EXCEPT ![i] = b] \in [Ids -> Nat]
  BY <1>1
<1>3. T \in LmStates
  BY <1>1, <1>2 DEF LmStates
<1>4. Same(S, T, i)
  BY <1>1 DEF Same
<1>5. T.pending[i] = p /\ T.ttt[i] = t /\ T.blocked[i] = b /\ T.since[i] = since[i]
  BY <1>1 DEF Untouched
<1>6. TttOf(T, i)
  BY <1>5 DEF TttOf, Reconsidered
<1> QED  BY <1>3, <1>4, <1>5, <1>6 DEF Quiet, Left

\* The choice for a UE that is reconsidered.
LEMMA Chosen ==
    ASSUME LoopInv, NEW S \in LmStates, NEW i \in Ids, Untouched(S, i), Reconsidered(i)
    PROVE  LET T == Choose(S, i)
           IN  /\ T \in LmStates /\ Same(S, T, i)
               /\ Quiet(S, T, i) \/ \E c \in Cells : Emits(S, T, i, c)
<1> DEFINE ends == {c \in Better(i) \cap gnbs : Weak(i, c) \/ ~Full(S.load, c) \/ ~TryNextBest}
           c == Strongest(i, ends)
           Fields(p, t, b) == [pending : {[S.pending EXCEPT ![i] = p]}, ttt : {[S.ttt EXCEPT ![i] = t]},
                  blocked : {[S.blocked EXCEPT ![i] = b]}, since : {S.since}, load : {S.load},
                  cmds : {S.cmds}]
           Fine(T) == /\ T \in LmStates /\ Same(S, T, i)
                      /\ Quiet(S, T, i) \/ \E d \in Cells : Emits(S, T, i, d)
<1>1. /\ Choose(S, i) = IF ends = {} THEN KeepServingCell(S, i)
                        ELSE IF Weak(i, c) THEN LowRsrpFailure(S, i)
                        ELSE IF Full(S.load, c) THEN KeepServingCell(S, i)
                        ELSE Trigger(S, i, c)
  BY DEF Choose
<1>2. ends # {} => c \in Better(i) \cap gnbs
  <2>1. ends \in SUBSET DOMAIN view[i].rsrp /\ ends \subseteq Better(i) \cap gnbs
    BY BetterCells
  <2> HIDE DEF ends
  <2> QED  BY <2>1, BetterCells, StrongestIn
<1> HIDE DEF ends, c
<1>3. /\ S.pending[i] = StillPending[i] /\ StillPending[i] = NoCell /\ S.pending[i] \in Cells \cup {NoCell}
      /\ S.blocked[i] = blocked[i] /\ S.blocked[i] \in Nat
      /\ S.ttt[i] = ttt[i] /\ S.ttt[i] \in Ttts
      /\ [S.pending EXCEPT ![i] = S.pending[i]] = S.pending
      /\ [S.blocked EXCEPT ![i] = S.blocked[i]] = S.blocked
  BY NothingPending DEF LmStates, Untouched
<1>4. NoTtt \in Ttts
  BY DEF NoTtt, Ttts
<1>5. Fine(KeepServingCell(S, i))
  <2>1. KeepServingCell(S, i) \in Fields(S.pending[i], NoTtt, S.blocked[i])
    BY <1>3 DEF KeepServingCell, LmStates
  <2> QED  BY <1>3, <1>4, <2>1, NotMoved
<1>6. Fine(LowRsrpFailure(S, i))
  <2>1. LowRsrpFailure(S, i) \in Fields(S.pending[i], NoTtt, LowRsrpRecheck)
    BY <1>3 DEF LowRsrpFailure, LmStates
  <2> QED  BY <1>3, <1>4, <2>1, Consts, NotMoved
<1>7. ASSUME ends # {}, ~Full(S.load, c) PROVE Fine(Trigger(S, i, c))
  <2>1. c \in Better(i) \cap gnbs /\ c \in Cells
    BY <1>2, <1>7, BetterCells
  <2> DEFINE t == IF S.ttt[i].cell = c THEN S.ttt[i] ELSE [cell |-> c, age |-> 0]
  <2>2. t \in Ttts /\ t.cell = c /\ (t = ttt[i] \/ t.age = 0)
    BY <1>3, <2>1 DEF Ttts
  <2>3. ~(t.age < TimeToTrigger) => Ripe(i, c)
    BY <1>3, <2>2, Consts DEF Ripe, Ttts
  <2>4. Trigger(S, i, c) = IF t.age < TimeToTrigger THEN [S EXCEPT !.ttt[i] = t] ELSE EmitCommand(S, i, c)
    BY DEF Trigger
  <2> HIDE DEF t
  <2>5. Fine([S EXCEPT !.ttt[i] = t])
    <3>1. [S EXCEPT !.ttt[i] = t] \in Fields(S.pending[i], t, S.blocked[i])
      BY <1>3 DEF LmStates
    <3>2. t.cell \in Better(i) /\ S.blocked[i] = blocked[i] /\ S.pending[i] = NoCell
      BY <1>3, <2>1, <2>2
    <3> QED  BY <1>3, <2>2, <3>1, <3>2, NotMoved
  <2>6. Ripe(i, c) => Fine(EmitCommand(S, i, c))
    BY <1>7, <2>1, CommandSent
  <2> HIDE DEF Fine
  <2> QED  BY <2>3, <2>4, <2>5, <2>6
<1>8. Fine(Choose(S, i))
  <2> HIDE DEF Fine
  <2> QED  BY <1>1, <1>5, <1>6, <1>7
<1> QED  BY <1>8

\* The turn of UE i.
LEMMA Evaluated ==
    ASSUME LoopInv, NEW S \in LmStates, NEW i \in Ids, Untouched(S, i)
    PROVE  LET T == Evaluate(S, i)
           IN  /\ T \in LmStates /\ Same(S, T, i)
               /\ Quiet(S, T, i) \/ \E c \in Cells : Emits(S, T, i, c)
<1>1. Gated(S, i) <=> Gated(Start, i)
  BY GatedAtStart DEF Untouched
<1>2. CASE ~Reconsidered(i)
  <2>1. Evaluate(S, i) = S
    BY <1>1, <1>2 DEF Evaluate, Reconsidered
  <2>2. S.ttt[i] = ttt[i] /\ S.blocked[i] = blocked[i] /\ S.pending[i] = StillPending[i]
    BY DEF Untouched
  <2>3. Quiet(S, S, i)
    BY <1>2, <2>2 DEF Quiet, Left, TttOf, Reconsidered, Untouched
  <2> QED  BY <2>1, <2>3 DEF Same
<1>3. CASE Reconsidered(i)
  <2>1. S.pending[i] # view[i].cell
    BY <1>3, NothingPending, Consts DEF Untouched
  <2>2. Evaluate(S, i) = IF view[i].cell \notin gnbs THEN S ELSE Choose(S, i)
    BY <1>1, <1>3, <2>1 DEF Evaluate, Reconsidered
  <2>3. CASE view[i].cell \notin gnbs
    <3>1. Quiet(S, S, i)
      BY <2>3 DEF Quiet, Left, TttOf, Untouched
    <3> QED  BY <2>2, <2>3, <3>1 DEF Same
  <2>4. CASE view[i].cell \in gnbs
    BY <1>3, <2>2, <2>4, Chosen
  <2> QED  BY <2>3, <2>4
<1> QED  BY <1>2, <1>3

\* What was decided for a UE before is kept.
LEMMA Kept ==
    ASSUME NEW S, NEW T, NEW i, NEW j \in Ids \ {i}, Same(S, T, i), S.cmds \subseteq T.cmds
    PROVE  /\ Left(S, j) => Left(T, j)
           /\ Untouched(S, j) => Untouched(T, j)
           /\ \A c : Sent(S, j, c) => Sent(T, j, c)
<1>1. /\ T.since[j] = S.since[j] /\ T.pending[j] = S.pending[j]
      /\ T.ttt[j] = S.ttt[j] /\ T.blocked[j] = S.blocked[j]
  BY DEF Same
<1>2. Left(S, j) => Left(T, j)
  BY <1>1 DEF Left, TttOf
<1>3. Untouched(S, j) => Untouched(T, j)
  BY <1>1 DEF Untouched
<1>4. \A c : Sent(S, j, c) => Sent(T, j, c)
  BY <1>1 DEF Sent
<1> QED  BY <1>2, <1>3, <1>4

LEMMA HalfwayStep ==
    ASSUME LoopInv, NEW k \in Ids, NEW S, Halfway(k - 1, S)
    PROVE  /\ Halfway(k, Evaluate(S, k))
           /\ Quiet(S, Evaluate(S, k), k) \/ \E c \in Cells : Emits(S, Evaluate(S, k), k, c)
<1> DEFINE T == Evaluate(S, k)
<1>1. k \in 1 .. MaxIds /\ MaxIds \in Nat /\ (k - 1) + 1 = k
  BY Consts DEF Ids
<1>2. S \in LmStates /\ Untouched(S, k)
  BY <1>1 DEF Halfway
<1>3. /\ T \in LmStates /\ Same(S, T, k)
      /\ Quiet(S, T, k) \/ \E c \in Cells : Emits(S, T, k, c)
  BY <1>2, Evaluated
<1> HIDE DEF T
<1>4. S.cmds \subseteq T.cmds
  BY <1>3 DEF Quiet, Emits
<1>5. \A i \in 1 .. k : Left(T, i) \/ \E c \in Cells : Sent(T, i, c)
  <2> TAKE i \in 1 .. k
  <2>1. CASE i = k
    BY <1>3, <2>1 DEF Quiet, Emits
  <2>2. CASE i # k
    <3>1. i \in 1 .. k - 1 /\ i \in Ids \ {k}
      BY <1>1, <2>2 DEF Ids
    <3>2. Left(S, i) \/ \E c \in Cells : Sent(S, i, c)
      BY <3>1 DEF Halfway
    <3> QED  BY <1>3, <1>4, <3>1, <3>2, Kept
  <2> QED  BY <2>1, <2>2
<1>6. \A i \in k + 1 .. MaxIds : Untouched(T, i)
  <2> TAKE i \in k + 1 .. MaxIds
  <2>1. i \in (k - 1) + 1 .. MaxIds /\ i \in Ids \ {k}
    BY <1>1 DEF Ids
  <2>2. Untouched(S, i)
    BY <2>1 DEF Halfway
  <2> QED  BY <1>3, <1>4, <2>1, <2>2, Kept
<1>7. \A m \in T.cmds : \E i \in 1 .. k, c \in Cells : Sent(T, i, c) /\ m = HoCommand(i, c)
  <2> TAKE m \in T.cmds
  <2>1. CASE m \in S.cmds
    <3>1. PICK i \in 1 .. k - 1, c \in Cells : Sent(S, i, c) /\ m = HoCommand(i, c)
      BY <2>1 DEF Halfway
    <3>2. i \in 1 .. k /\ i \in Ids \ {k}
      BY <1>1 DEF Ids
    <3>3. Sent(T, i, c)
      BY <1>3, <1>4, <3>1, <3>2, Kept
    <3> QED  BY <3>1, <3>2, <3>3
  <2>2. CASE m \notin S.cmds
    <3>1. PICK c \in Cells : Emits(S, T, k, c)
      BY <1>3, <2>2 DEF Quiet
    <3>2. m = HoCommand(k, c) /\ Sent(T, k, c) /\ k \in 1 .. k
      BY <1>1, <2>2, <3>1 DEF Emits
    <3> QED  BY <3>1, <3>2
  <2> QED  BY <2>1, <2>2
<1>8. Halfway(k, T)
  BY <1>3, <1>5, <1>6, <1>7 DEF Halfway
<1> QED  BY <1>3, <1>8 DEF T

\* A run leaves every UE or sends it one command.
LEMMA HalfwayAll == ASSUME LoopInv PROVE \A k \in 0 .. MaxIds : Halfway(k, After[k])
<1> DEFINE K == {k \in 0 .. MaxIds : Halfway(k, After[k])}
<1>1. MaxIds \in Nat
  BY Consts
<1>2. 0 \in K
  <2>1. After[0] = Start
    BY <1>1, Loop
  <2>2. \A i \in Ids : Untouched(Start, i)
    BY DEF Untouched, Start
  <2>3. Start.cmds = {}
    BY DEF Start
  <2>4. Halfway(0, Start)
    BY <1>1, <2>2, <2>3, StartTyped DEF Halfway, Ids
  <2> QED  BY <1>1, <2>1, <2>4
<1>3. ASSUME NEW k \in 1 .. MaxIds, k - 1 \in K PROVE k \in K
  <2>1. After[k] = Evaluate(After[k - 1], k)
    BY <1>1, Loop
  <2>2. Halfway(k, Evaluate(After[k - 1], k))
    BY <1>3, HalfwayStep DEF Ids
  <2> QED  BY <1>1, <2>1, <2>2
<1>4. \A k \in 0 .. MaxIds : k \in K
  <2> HIDE DEF K
  <2> QED  BY <1>1, <1>2, <1>3, UpTo
<1> QED  BY <1>4

LEMMA RunEffect ==
    ASSUME LoopInv
    PROVE  LET S == GetHandoverCommands
           IN  /\ S \in LmStates
               /\ \A i \in Ids : Left(S, i) \/ \E c \in Cells : Sent(S, i, c)
               /\ \A m \in S.cmds : \E i \in Ids, c \in Cells : Sent(S, i, c) /\ m = HoCommand(i, c)
<1>1. Halfway(MaxIds, GetHandoverCommands)
  BY HalfwayAll, Consts DEF GetHandoverCommands
<1> QED  BY <1>1 DEF Halfway, Ids

-----------------------------------------------------------------------------
(* Types, and who owns an ID.                                              *)

LEMMA InitLoop == Init => LoopInv
<1> SUFFICES ASSUME Init PROVE LoopInv
  OBVIOUS
<1> USE DEF Init
<1>1. Ues \subseteq Ids /\ Horizon \in 0 .. Horizon /\ Warmup \in Nat
  BY Consts
<1>2. UeTyped
  BY <1>1, ConstantsAssumption DEF UeTyped
<1>3. RegTyped
  BY <1>1 DEF RegTyped
<1>4. ReportDomain /\ ReportTyped
  BY DEF ReportDomain, ReportTyped
<1>5. RepoTyped
  BY DEF RepoTyped, ViewTyped, NoView
<1>6. LmTyped
  BY <1>1 DEF LmTyped, Ttts, NoTtt
<1>7. CmdTyped
  BY DEF CmdTyped
<1>8. Owned
  BY <1>1, Consts DEF Owned
<1> QED  BY <1>2, <1>3, <1>4, <1>5, <1>6, <1>7, <1>8 DEF LoopInv, Typed

LEMMA RunLoop == ASSUME LoopInv, Run PROVE LoopInv'
<1> DEFINE S == GetHandoverCommands
<1>1. /\ S \in LmStates
      /\ \A i \in Ids : Left(S, i) \/ \E c \in Cells : Sent(S, i, c)
      /\ \A m \in S.cmds : \E i \in Ids, c \in Cells : Sent(S, i, c) /\ m = HoCommand(i, c)
  BY RunEffect
<1>2. /\ pending' = S.pending /\ since' = S.since /\ blocked' = S.blocked /\ ttt' = S.ttt
      /\ cmds' = cmds \cup S.cmds /\ ran' = TRUE
      /\ UNCHANGED <<cell, id, owner, listed, gnbs, report, view, info, located, warmup>>
  BY DEF Run, ueVars, regVars, repoVars
<1> HIDE DEF S
<1>3. UeTyped' /\ RegTyped' /\ ReportDomain' /\ ReportTyped' /\ RepoTyped'
  BY <1>2 DEF LoopInv, Typed, UeTyped, RegTyped, ReportDomain, ReportTyped, InFlight, RepoTyped
<1>4. LmTyped'
  BY <1>1, <1>2 DEF LoopInv, Typed, LmTyped, LmStates
<1>5. CmdTyped'
  <2>1. S.cmds \subseteq HoCommands
    BY <1>1 DEF LmStates
  <2>2. \A m \in S.cmds : m.from # m.to
    <3> TAKE m \in S.cmds
    <3>1. PICK i \in Ids, c \in Cells : Sent(S, i, c) /\ m = HoCommand(i, c)
      BY <1>1
    <3>2. m.from = view[i].cell /\ m.to = c /\ c \in Better(i)
      BY <3>1 DEF Sent, HoCommand
    <3> QED  BY <3>2, BetterCells
  <2> QED  BY <1>2, <2>1, <2>2 DEF LoopInv, Typed, CmdTyped
<1>6. \A i \in Ids : owner[i] = 0 => since'[i] = Horizon /\ ttt'[i] = NoTtt
  <2> SUFFICES ASSUME NEW i \in Ids, owner[i] = 0 PROVE since'[i] = Horizon /\ ttt'[i] = NoTtt
    BY <1>2
  <2>1. ~Reconsidered(i)
    BY NothingPending, Consts
  <2>2. Left(S, i)
    BY <1>1, <2>1 DEF Sent
  <2>3. S.since[i] = since[i] /\ (S.ttt[i] = NoTtt \/ S.ttt[i] = ttt[i])
    BY <2>1, <2>2 DEF Left, TttOf
  <2> QED  BY <1>2, <2>3 DEF LoopInv, Owned
<1>8. Owned'
  BY <1>2, <1>6 DEF LoopInv, Owned
<1> QED  BY <1>3, <1>4, <1>5, <1>8 DEF LoopInv, Typed

\* Time: counters stay in their range, and nothing passes its end.
LEMMA LaterType ==
    ASSUME NEW n \in Nat, NEW t \in 0 .. n
    PROVE  /\ Later(t, n) \in 0 .. n /\ (t < n => Later(t, n) = t + 1) /\ t <= Later(t, n)
           /\ (t = n => Later(t, n) = n)
  BY DEF Later

\* What a tick does to a report.
LEMMA ReportTick ==
    ASSUME LoopInv, Tick, NEW u \in Ues
    PROVE  \/ report[u] = Done /\ report'[u] = NotYet
           \/ /\ InFlight(u) /\ report[u].left > 0 /\ report'[u] \in Flights
              /\ report'[u] \in [todo : {report[u].todo}, id : {report[u].id}, cell : {report[u].cell},
                                 rsrp : {report[u].rsrp}, left : {report[u].left - 1}]
<1>1. report[u] \in {NotYet, Done} \cup Flights
  BY DEF LoopInv, Typed, ReportTyped
<1>2. report[u] # NotYet /\ (report[u].todo # {} => report[u].left > 0)
  BY DEF Tick
<1>3. report'[u] = IF report[u] = Done THEN NotYet ELSE [report[u] EXCEPT !.left = @ - 1]
  BY DEF Tick
<1>4. CASE report[u] = Done
  BY <1>3, <1>4
<1>5. CASE report[u] # Done
  <2>1. report[u] \in Flights
    BY <1>1, <1>2, <1>5
  <2>2. report[u].left \in 0 .. ReportDelay /\ report[u].left > 0
    BY <1>2, <2>1 DEF Flights
  <2>3. report[u].left - 1 \in 0 .. ReportDelay
    BY <2>2, Consts
  <2>4. report'[u] = [report[u] EXCEPT !.left = report[u].left - 1]
    BY <1>3, <1>5
  <2>5. report'[u] \in [todo : {report[u].todo}, id : {report[u].id}, cell : {report[u].cell},
                        rsrp : {report[u].rsrp}, left : {report[u].left - 1}]
    BY <2>1, <2>4 DEF Flights
  <2>6. report'[u] \in Flights
    BY <2>1, <2>3, <2>5 DEF Flights
  <2> QED  BY <2>1, <2>2, <2>5, <2>6 DEF InFlight
<1> QED  BY <1>4, <1>5

\* What a tick does to a command.
LEMMA CommandTick ==
    ASSUME LoopInv, Tick, NEW m \in cmds'
    PROVE  \E n \in cmds : /\ m \in [ue : {n.ue}, from : {n.from}, to : {n.to}, left : {n.left - 1}]
                           /\ m \in HoCommands /\ m.from # m.to
<1>1. PICK n \in cmds : m = [n EXCEPT !.left = @ - 1]
  BY DEF Tick
<1>2. n \in HoCommands /\ n.left > 0 /\ n.from # n.to
  BY DEF Tick, LoopInv, Typed, CmdTyped
<1>3. n.left - 1 \in 0 .. CommandDelay
  BY <1>2, Consts DEF HoCommands
<1>4. m = [n EXCEPT !.left = n.left - 1]
  BY <1>1
<1>5. m \in [ue : {n.ue}, from : {n.from}, to : {n.to}, left : {n.left - 1}]
  BY <1>2, <1>4 DEF HoCommands
<1> QED  BY <1>2, <1>3, <1>5 DEF HoCommands

LEMMA TickLoop == ASSUME LoopInv, Tick PROVE LoopInv'
<1>1. /\ since' = [i \in Ids |-> Later(since[i], Horizon)]
      /\ warmup' = Sooner(warmup) /\ blocked' = [i \in Ids |-> Sooner(blocked[i])]
      /\ ttt' = [i \in Ids |-> IF ttt[i] = NoTtt THEN NoTtt
                               ELSE [ttt[i] EXCEPT !.age = Later(@, TimeToTrigger)]]
      /\ ran' = FALSE /\ report' = [u \in Ues |-> report'[u]]
      /\ UNCHANGED <<cell, id, owner, listed, gnbs, view, info, located, pending>>
  BY DEF Tick, ueVars, regVars, repoVars
<1>2. UeTyped' /\ RegTyped' /\ RepoTyped'
  BY <1>1 DEF LoopInv, Typed, UeTyped, RegTyped, RepoTyped
<1>3. ReportDomain'
  BY <1>1 DEF ReportDomain
<1>4. ReportTyped'
  BY ReportTick DEF ReportTyped
<1>5. CmdTyped'
  BY CommandTick DEF CmdTyped
<1>6. \A i \in Ids : since[i] \in 0 .. Horizon
  BY DEF LoopInv, Typed, LmTyped
<1>7. LmTyped'
  <2>1. since' \in [Ids -> 0 .. Horizon]
    BY <1>1, <1>6, Consts, LaterType
  <2>2. warmup' \in Nat /\ blocked' \in [Ids -> Nat]
    BY <1>1 DEF Sooner, LoopInv, Typed, LmTyped
  <2>3. \A i \in Ids : ttt'[i] \in Ttts
    <3> TAKE i \in Ids
    <3>1. ttt[i] \in Ttts
      BY DEF LoopInv, Typed, LmTyped
    <3>2. Later(ttt[i].age, TimeToTrigger) \in Nat
      BY <3>1, Consts DEF Later, Ttts
    <3>3. [ttt[i] EXCEPT !.age = Later(ttt[i].age, TimeToTrigger)] \in Ttts
      BY <3>1, <3>2 DEF Ttts
    <3>4. ttt'[i] = IF ttt[i] = NoTtt THEN NoTtt
                    ELSE [ttt[i] EXCEPT !.age = Later(ttt[i].age, TimeToTrigger)]
      BY <1>1
    <3> QED  BY <3>1, <3>3, <3>4
  <2>4. ttt' \in [Ids -> Ttts]
    BY <1>1, <2>3
  <2> QED  BY <1>1, <2>1, <2>2, <2>4 DEF LoopInv, Typed, LmTyped
<1>8. Owned'
  <2>1. \A i \in Ids : owner[i] = 0 => since'[i] = Horizon /\ ttt'[i] = NoTtt
    BY <1>1, <1>6, Consts, LaterType DEF LoopInv, Owned
  <2> QED  BY <1>1, <2>1 DEF LoopInv, Owned
<1> QED  BY <1>2, <1>3, <1>4, <1>5, <1>7, <1>8 DEF LoopInv, Typed

\* The parts of the invariant that an action without the Logic Module and time keeps.
LEMMA LmKept ==
    ASSUME LoopInv, UNCHANGED <<lmVars, ran>>
    PROVE  LmTyped' /\ since' = since /\ pending' = pending /\ warmup' = warmup /\ ttt' = ttt
           /\ blocked' = blocked
  BY DEF LoopInv, Typed, LmTyped, lmVars

LEMMA GenerateLoop == ASSUME LoopInv, NEW u \in Ues, GenerateReports(u) PROVE LoopInv'
<1>1. UNCHANGED <<cell, id, owner, listed, gnbs, view, info, located, cmds>> /\ UNCHANGED <<lmVars, ran>>
  BY DEF GenerateReports, ueVars, regVars, repoVars
<1>2. PICK rsrp \in Measurements :
        report' = [report EXCEPT ![u] = [todo |-> ToReport(u), id |-> id[u], cell |-> cell[u],
                                         rsrp |-> rsrp, left |-> ReportDelay]]
  BY DEF GenerateReports
<1>3. [todo |-> ToReport(u), id |-> id[u], cell |-> cell[u], rsrp |-> rsrp, left |-> ReportDelay] \in Flights
  <2>1. /\ rsrp \in [Cells -> Int] /\ ReportDelay \in 0 .. ReportDelay
        /\ ToReport(u) \in (SUBSET Rows) \ {{}}
    BY ConstantsAssumption, Consts DEF Rows, ToReport
  <2>2. id[u] \in Ids /\ cell[u] \in Cells
    BY DEF LoopInv, Typed, UeTyped
  <2> QED  BY <2>1, <2>2 DEF Flights
<1>4. ReportTyped' /\ ReportDomain'
  BY <1>2, <1>3 DEF LoopInv, Typed, ReportTyped, ReportDomain
<1>5. UeTyped' /\ RegTyped' /\ RepoTyped' /\ CmdTyped'
  BY <1>1 DEF LoopInv, Typed, UeTyped, RegTyped, RepoTyped, CmdTyped
<1>6. Owned'
  BY <1>1, LmKept DEF LoopInv, Owned
<1> QED  BY <1>1, <1>4, <1>5, <1>6, LmKept DEF LoopInv, Typed

\* One row is stored.
LEMMA RowStored ==
    ASSUME LoopInv, NEW u \in Ues, ReceiveReport(u)
    PROVE  /\ InFlight(u) /\ UNCHANGED <<cell, id, owner, listed, gnbs, cmds>> /\ UNCHANGED <<lmVars, ran>>
           /\ report' = [report EXCEPT ![u] = report'[u]]
           /\ \E row \in report[u].todo :
                LET r == report[u]
                    todo == r.todo \ {row}
                IN  /\ todo = {} => report'[u] = Done
                    /\ todo # {} => /\ report'[u] \in [todo : {todo}, id : {r.id}, cell : {r.cell},
                                                       rsrp : {r.rsrp}, left : {r.left}]
                                    /\ report'[u] \in Flights
                    /\ info' = IF r.id \in listed /\ row = "info"
                               THEN [info EXCEPT ![r.id] = r.cell] ELSE info
                    /\ located' = IF r.id \in listed /\ row = "location"
                                  THEN located \cup {r.id} ELSE located
                    /\ view' = IF r.id \in listed /\ row \in {"serving", "neighbours"}
                               THEN [view EXCEPT ![r.id] = Stored(r, Rows \ todo)] ELSE view
<1>1. PICK row \in report[u].todo :
        LET r == report[u]
            todo == r.todo \ {row}
        IN  /\ report' = [report EXCEPT ![u] = IF todo = {} THEN Done ELSE [r EXCEPT !.todo = todo]]
            /\ info' = IF r.id \in listed /\ row = "info"
                       THEN [info EXCEPT ![r.id] = r.cell] ELSE info
            /\ located' = IF r.id \in listed /\ row = "location"
                          THEN located \cup {r.id} ELSE located
            /\ view' = IF r.id \in listed /\ row \in {"serving", "neighbours"}
                       THEN [view EXCEPT ![r.id] = Stored(r, Rows \ todo)] ELSE view
            /\ UNCHANGED <<ueVars, regVars, lmVars, ran, cmds>>
  BY DEF ReceiveReport
<1>2. InFlight(u)
  <2>1. report[u] \in {NotYet, Done} \cup Flights
    BY DEF LoopInv, Typed, ReportTyped
  <2>2. report[u] # NotYet /\ report[u] # Done
    BY <1>1 DEF NotYet, Done
  <2> QED  BY <2>1, <2>2 DEF InFlight
<1> DEFINE todo == report[u].todo \ {row}
           next == IF todo = {} THEN Done ELSE [report[u] EXCEPT !.todo = todo]
<1>3. report = [v \in Ues |-> report[v]] /\ report' = [report EXCEPT ![u] = next]
  BY <1>1 DEF LoopInv, Typed, ReportDomain
<1>4. report'[u] = next
  <2> HIDE DEF next
  <2> QED  BY <1>3
<1>5. todo # {} => /\ next \in [todo : {todo}, id : {report[u].id}, cell : {report[u].cell},
                                rsrp : {report[u].rsrp}, left : {report[u].left}]
                   /\ next \in Flights
  <2> SUFFICES ASSUME todo # {}
      PROVE  /\ next \in [todo : {todo}, id : {report[u].id}, cell : {report[u].cell},
                          rsrp : {report[u].rsrp}, left : {report[u].left}]
             /\ next \in Flights
    OBVIOUS
  <2>1. todo \in (SUBSET Rows) \ {{}}
    BY <1>2 DEF InFlight, Flights
  <2>2. next = [report[u] EXCEPT !.todo = todo]
    OBVIOUS
  <2> HIDE DEF todo, next
  <2> QED  BY <1>2, <2>1, <2>2 DEF InFlight, Flights
<1>6. UNCHANGED <<cell, id, owner, listed, gnbs, cmds>> /\ UNCHANGED <<lmVars, ran>>
  BY <1>1 DEF ueVars, regVars
<1> QED  BY <1>1, <1>2, <1>3, <1>4, <1>5, <1>6

LEMMA StoredTyped ==
    ASSUME NEW r \in Flights, NEW D
    PROVE  /\ ViewTyped(Stored(r, D))
           /\ Stored(r, D).cell = IF "serving" \in D THEN r.cell ELSE NoCell
<1> DEFINE known == (IF "serving" \in D THEN {r.cell} ELSE {})
                      \cup (IF "neighbours" \in D THEN Cells \ {r.cell} ELSE {})
           c == IF "serving" \in D THEN r.cell ELSE NoCell
           f == [d \in known |-> r.rsrp[d]]
<1>1. r.cell \in Cells /\ r.rsrp \in [Cells -> Int]
  BY DEF Flights
<1>2. c \in Cells \cup {NoCell} /\ (c # NoCell => c \in known) /\ known \subseteq Cells
  BY <1>1
<1>3. DOMAIN f = known /\ \A d \in known : f[d] \in Int
  BY <1>1, <1>2
<1>4. Stored(r, D) = [cell |-> c, rsrp |-> f]
  BY DEF Stored
<1> HIDE DEF c, f, known
<1>5. Stored(r, D).cell = c /\ Stored(r, D).rsrp = f
  BY <1>4
<1>6. ViewTyped(Stored(r, D))
  BY <1>2, <1>3, <1>5 DEF ViewTyped
<1> QED  BY <1>5, <1>6 DEF c

LEMMA ReceiveLoop == ASSUME LoopInv, NEW u \in Ues, ReceiveReport(u) PROVE LoopInv'
<1>1. /\ InFlight(u) /\ UNCHANGED <<cell, id, owner, listed, gnbs, cmds>> /\ UNCHANGED <<lmVars, ran>>
      /\ report' = [report EXCEPT ![u] = report'[u]]
  BY RowStored
<1>2. PICK row \in report[u].todo :
        LET r == report[u]
            todo == r.todo \ {row}
        IN  /\ todo = {} => report'[u] = Done
            /\ todo # {} => report'[u] \in Flights
            /\ info' = IF r.id \in listed /\ row = "info"
                       THEN [info EXCEPT ![r.id] = r.cell] ELSE info
            /\ located' = IF r.id \in listed /\ row = "location"
                          THEN located \cup {r.id} ELSE located
            /\ view' = IF r.id \in listed /\ row \in {"serving", "neighbours"}
                       THEN [view EXCEPT ![r.id] = Stored(r, Rows \ todo)] ELSE view
  BY RowStored
<1>3. report'[u] \in {NotYet, Done} \cup Flights
  BY <1>2
<1>4. ReportTyped' /\ ReportDomain'
  BY <1>1, <1>3 DEF LoopInv, Typed, ReportTyped, ReportDomain
<1>5. report[u] \in Flights /\ report[u].id \in Ids /\ report[u].cell \in Cells
  BY <1>1 DEF InFlight, Flights
<1>6. info' \in [Ids -> Cells \cup {NoCell}] /\ located' \subseteq Ids
  BY <1>2, <1>5 DEF LoopInv, Typed, RepoTyped
<1>7. view' = [i \in Ids |-> view'[i]] /\ \A i \in Ids : ViewTyped(view'[i])
  <2>1. PICK D : view' = view \/ view' = [view EXCEPT ![report[u].id] = Stored(report[u], D)]
    BY <1>2
  <2> QED  BY <1>5, <2>1, StoredTyped DEF LoopInv, Typed, RepoTyped
<1>8. RepoTyped'
  BY <1>6, <1>7 DEF RepoTyped, ViewTyped
<1>9. UeTyped' /\ RegTyped' /\ CmdTyped'
  BY <1>1 DEF LoopInv, Typed, UeTyped, RegTyped, CmdTyped
<1>10. Owned'
  BY <1>1, LmKept DEF LoopInv, Owned
<1> QED  BY <1>1, <1>4, <1>8, <1>9, <1>10, LmKept DEF LoopInv, Typed

LEMMA DeregisterLoop == ASSUME LoopInv, NEW u \in Ues, Deregister(u) PROVE LoopInv'
<1>1. /\ UNCHANGED <<cell, id, owner, gnbs, report, view, info, located, cmds>> /\ UNCHANGED <<lmVars, ran>>
      /\ listed' \subseteq listed
  BY DEF Deregister, ueVars, repoVars
<1>2. UeTyped' /\ RegTyped' /\ ReportDomain' /\ ReportTyped' /\ RepoTyped' /\ CmdTyped'
  BY <1>1 DEF LoopInv, Typed, UeTyped, RegTyped, ReportDomain, ReportTyped, RepoTyped, CmdTyped
<1>3. Owned'
  BY <1>1, LmKept DEF LoopInv, Owned
<1> QED  BY <1>1, <1>2, <1>3, LmKept DEF LoopInv, Typed

\* A registration under the same ID, or under a new one: nothing is stored under it.
LEMMA ReregisterLoop == ASSUME LoopInv, NEW u \in Ues, Reregister(u) PROVE LoopInv'
<1>1. UNCHANGED <<cell, gnbs, report, view, info, located, cmds>> /\ UNCHANGED <<lmVars, ran>>
  BY DEF Reregister, repoVars
<1>2. id[u] \notin listed
  BY DEF Reregister
<1>3. id \in [Ues -> Ids] /\ owner \in [Ids -> Ues \cup {0}] /\ listed \subseteq Ids
  BY DEF LoopInv, Typed, UeTyped, RegTyped
<1>4. UeTyped' /\ RegTyped' /\ Owned'
  <2>1. CASE listed' = listed \cup {id[u]} /\ UNCHANGED <<id, owner>>
    <3>1. UeTyped' /\ RegTyped'
      BY <1>1, <1>3, <2>1 DEF LoopInv, Typed, UeTyped, RegTyped
    <3>2. Owned'
      BY <1>1, <1>3, <2>1, LmKept DEF LoopInv, Owned
    <3> QED  BY <3>1, <3>2
  <2>2. ASSUME NEW i \in Ids, owner[i] = 0, id' = [id EXCEPT ![u] = i],
               owner' = [owner EXCEPT ![i] = u], listed' = listed \cup {i}
        PROVE  UeTyped' /\ RegTyped' /\ Owned'
    <3>1. UeTyped' /\ RegTyped'
      BY <1>1, <1>3, <2>2 DEF LoopInv, Typed, UeTyped, RegTyped
    <3>2. \A v \in Ues : owner'[id'[v]] = v
      BY <1>3, <2>2, Consts DEF LoopInv, Owned
    <3>3. \A j \in listed' : owner'[j] \in Ues /\ id'[owner'[j]] = j
      <4> TAKE j \in listed'
      <4>1. CASE j = i
        BY <1>3, <2>2, <4>1
      <4>2. CASE j # i
        <5>1. j \in listed /\ owner[j] \in Ues /\ id[owner[j]] = j /\ owner'[j] = owner[j]
          BY <1>3, <2>2, <4>2 DEF LoopInv, Owned
        <5>2. owner[j] # u
          BY <1>2, <5>1
        <5> QED  BY <1>3, <2>2, <5>1, <5>2
      <4> QED  BY <4>1, <4>2
    <3>4. \A j \in Ids : owner'[j] = 0 => since'[j] = Horizon /\ ttt'[j] = NoTtt
      BY <1>1, <1>3, <2>2, LmKept, Consts DEF LoopInv, Owned
    <3> QED  BY <3>1, <3>2, <3>3, <3>4 DEF Owned
  <2> QED  BY <2>1, <2>2 DEF Reregister
<1>5. ReportDomain' /\ ReportTyped' /\ RepoTyped' /\ CmdTyped'
  BY <1>1 DEF LoopInv, Typed, ReportDomain, ReportTyped, RepoTyped, CmdTyped
<1> QED  BY <1>1, <1>4, <1>5, LmKept DEF LoopInv, Typed

LEMMA GnbLoop == ASSUME LoopInv, NEW c \in Cells, GnbRegistration(c) PROVE LoopInv'
<1>1. /\ UNCHANGED <<cell, id, owner, listed, report, view, info, located, cmds>> /\ UNCHANGED <<lmVars, ran>>
      /\ gnbs' \subseteq gnbs \cup {c}
  BY DEF GnbRegistration, ueVars, repoVars
<1>2. UeTyped' /\ RegTyped' /\ ReportDomain' /\ ReportTyped' /\ RepoTyped' /\ CmdTyped'
  BY <1>1 DEF LoopInv, Typed, UeTyped, RegTyped, ReportDomain, ReportTyped, RepoTyped, CmdTyped
<1>3. Owned'
  BY <1>1, LmKept DEF LoopInv, Owned
<1> QED  BY <1>1, <1>2, <1>3, LmKept DEF LoopInv, Typed

LEMMA CommandLoop == ASSUME LoopInv, NEW m \in cmds, ReceiveCommand(m) PROVE LoopInv'
<1>1. /\ UNCHANGED <<id, owner, listed, gnbs, report, view, info, located>> /\ UNCHANGED <<lmVars, ran>>
      /\ cmds' \subseteq cmds /\ (cell' = cell \/ cell' = [cell EXCEPT ![m.ue] = m.to])
  BY DEF ReceiveCommand, regVars, repoVars
<1>2. m.to \in Cells
  BY DEF LoopInv, Typed, CmdTyped, HoCommands
<1>3. UeTyped' /\ RegTyped' /\ ReportDomain' /\ ReportTyped' /\ RepoTyped' /\ CmdTyped'
  BY <1>1, <1>2 DEF LoopInv, Typed, UeTyped, RegTyped, ReportDomain, ReportTyped, RepoTyped, CmdTyped
<1>4. Owned'
  BY <1>1, LmKept DEF LoopInv, Owned
<1> QED  BY <1>1, <1>3, <1>4, LmKept DEF LoopInv, Typed

\* The variables of a step that changes nothing.
LEMMA Stutter ==
    ASSUME UNCHANGED vars
    PROVE  UNCHANGED <<cell, id, owner, listed, gnbs, report, view, info, located, warmup, since,
                       pending, blocked, ttt, ran, cmds>>
  BY DEF vars, ueVars, regVars, repoVars, lmVars

LEMMA StepLoop == ASSUME LoopInv, [Next]_vars PROVE LoopInv'
<1>1. CASE UNCHANGED vars
  <2>1. Typed'
    BY <1>1, Stutter DEF LoopInv, Typed, UeTyped, RegTyped, ReportDomain, ReportTyped, RepoTyped, LmTyped,
       CmdTyped
  <2>2. Owned'
    BY <1>1, Stutter DEF LoopInv, Owned
  <2> QED  BY <2>1, <2>2 DEF LoopInv
<1>2. CASE Next
  BY <1>2, RunLoop, TickLoop, GenerateLoop, ReceiveLoop, DeregisterLoop, ReregisterLoop, GnbLoop,
     CommandLoop DEF Next
<1> QED  BY <1>1, <1>2

LEMMA LoopKept == Spec => []LoopInv
  BY InitLoop, StepLoop, PTL DEF Spec

\* Every variable keeps its type, and no command moves a UE to the cell it is in, for any
\* measurements (GetHandoverCommands).
THEOREM TypeCorrect == Spec => []TypeOK
<1>1. LoopInv => TypeOK
  BY DEF LoopInv, Typed, UeTyped, RegTyped, RepoTyped, LmTyped, CmdTyped, HoCommands, TypeOK
<1> QED  BY <1>1, LoopKept, PTL

-----------------------------------------------------------------------------
(* Reservations.                                                           *)

\* A pending handover that has not timed out is left alone by a run.
LEMMA PendingKept ==
    ASSUME LoopInv, Run, NEW i \in Ids, pending[i] # NoCell, since[i] < HoAttemptTimeout
    PROVE  /\ pending'[i] = pending[i] /\ since'[i] = since[i] /\ StillPending[i] = pending[i]
           /\ ~Reconsidered(i)
<1> DEFINE S == GetHandoverCommands
<1>1. pending' = S.pending /\ since' = S.since
  BY DEF Run
<1>2. StillPending[i] = pending[i]
  BY DEF StillPending, KeptPending
<1>3. ~Reconsidered(i)
  BY <1>2, NothingPending
<1>4. Left(S, i)
  BY <1>3, RunEffect DEF Sent
<1> HIDE DEF S
<1> QED  BY <1>1, <1>2, <1>3, <1>4 DEF Left

\* The reservation of a command is one that has not timed out.
LEMMA HeldLong ==
    ASSUME Patient, LoopInv, NEW m \in cmds, NEW i \in Ids, since[i] + m.left = CommandDelay
    PROVE  /\ since[i] \in Nat /\ since[i] <= CommandDelay /\ since[i] < HoAttemptTimeout
           /\ since[i] < Horizon /\ m.to # NoCell /\ m.ue \in Ues /\ m.to \in Cells /\ m.left \in Nat
<1>1. m.to \in Cells /\ m.left \in 0 .. CommandDelay /\ m.ue \in Ues /\ since[i] \in 0 .. Horizon
  BY DEF LoopInv, Typed, CmdTyped, HoCommands, LmTyped
<1> QED  BY <1>1, Consts DEF Patient

LEMMA RunHeld == ASSUME Patient, ReservedInv, Run PROVE Held'
<1> DEFINE S == GetHandoverCommands
<1>1. /\ pending' = S.pending /\ since' = S.since /\ cmds' = cmds \cup S.cmds /\ owner' = owner
  BY DEF Run, ueVars
<1> HIDE DEF S
<1>2. ASSUME NEW m \in cmds
      PROVE  \E i \in Ids : owner[i] = m.ue /\ pending'[i] = m.to /\ since'[i] + m.left = CommandDelay
  <2>1. PICK i \in Ids : owner[i] = m.ue /\ pending[i] = m.to /\ since[i] + m.left = CommandDelay
    BY DEF ReservedInv, Held
  <2>2. pending'[i] = pending[i] /\ since'[i] = since[i]
    BY <2>1, HeldLong, PendingKept DEF ReservedInv
  <2> QED  BY <2>1, <2>2
<1>3. ASSUME NEW m \in S.cmds
      PROVE  \E i \in Ids : owner[i] = m.ue /\ pending'[i] = m.to /\ since'[i] + m.left = CommandDelay
  <2>1. PICK i \in Ids, c \in Cells : Sent(S, i, c) /\ m = HoCommand(i, c)
    BY RunEffect DEF ReservedInv, S
  <2>2. m.ue = owner[i] /\ m.to = c /\ m.left = CommandDelay
    BY <2>1 DEF HoCommand
  <2>3. pending'[i] = c /\ since'[i] = 0
    BY <1>1, <2>1 DEF Sent
  <2>4. since'[i] + m.left = CommandDelay
    BY <2>2, <2>3, Consts
  <2> QED  BY <2>2, <2>3, <2>4
<1> QED  BY <1>1, <1>2, <1>3 DEF Held

LEMMA TickHeld == ASSUME Patient, ReservedInv, Tick PROVE Held'
<1>1. /\ since' = [i \in Ids |-> Later(since[i], Horizon)] /\ pending' = pending /\ owner' = owner
  BY DEF Tick, ueVars
<1> SUFFICES ASSUME NEW m \in cmds'
             PROVE  \E i \in Ids : owner[i] = m.ue /\ pending[i] = m.to /\ since'[i] + m.left = CommandDelay
  BY <1>1 DEF Held
<1>2. PICK n \in cmds : m \in [ue : {n.ue}, from : {n.from}, to : {n.to}, left : {n.left - 1}]
  BY CommandTick DEF ReservedInv
<1>3. PICK i \in Ids : owner[i] = n.ue /\ pending[i] = n.to /\ since[i] + n.left = CommandDelay
  BY DEF ReservedInv, Held
<1>4. since[i] \in Nat /\ since[i] < Horizon /\ n.left \in Nat
  BY <1>3, HeldLong DEF ReservedInv
<1>5. since'[i] = since[i] + 1 /\ m.left = n.left - 1 /\ m.ue = n.ue /\ m.to = n.to
  BY <1>1, <1>2, <1>4 DEF Later
<1>6. since'[i] + m.left = CommandDelay
  BY <1>3, <1>4, <1>5, Consts
<1> QED  BY <1>3, <1>5, <1>6

LEMMA ReregisterHeld == ASSUME Patient, ReservedInv, NEW u \in Ues, Reregister(u) PROVE Held'
<1>1. pending' = pending /\ since' = since /\ cmds' = cmds
  BY DEF Reregister, lmVars
<1>2. owner' = owner \/ \E i \in Ids : owner[i] = 0 /\ owner' = [owner EXCEPT ![i] = u]
  BY DEF Reregister
<1> SUFFICES ASSUME NEW m \in cmds
             PROVE  \E j \in Ids : owner'[j] = m.ue /\ pending[j] = m.to /\ since[j] + m.left = CommandDelay
  BY <1>1 DEF Held
<1>3. PICK j \in Ids : owner[j] = m.ue /\ pending[j] = m.to /\ since[j] + m.left = CommandDelay
  BY DEF ReservedInv, Held
<1>4. m.ue # 0
  BY <1>3, HeldLong, Consts DEF ReservedInv
<1>5. owner'[j] = owner[j]
  BY <1>2, <1>3, <1>4 DEF ReservedInv, LoopInv, Typed, UeTyped
<1> QED  BY <1>3, <1>5

LEMMA StepHeld == ASSUME Patient, ReservedInv, [Next]_vars PROVE ReservedInv'
<1>1. LoopInv'
  BY StepLoop DEF ReservedInv
<1>2. ASSUME UNCHANGED <<pending, since, owner>>, cmds' \subseteq cmds PROVE Held'
  BY <1>2 DEF ReservedInv, Held
<1>3. ASSUME UNCHANGED vars PROVE Held'
  BY <1>2, <1>3, Stutter
<1>4. ASSUME NEW u \in Ues, GenerateReports(u) \/ ReceiveReport(u) \/ Deregister(u)
      PROVE  UNCHANGED <<pending, since, owner>> /\ cmds' \subseteq cmds
  BY <1>4 DEF GenerateReports, ReceiveReport, Deregister, lmVars, ueVars
<1>5. ASSUME NEW c \in Cells, GnbRegistration(c)
      PROVE  UNCHANGED <<pending, since, owner>> /\ cmds' \subseteq cmds
  BY <1>5 DEF GnbRegistration, lmVars, ueVars
<1>6. ASSUME NEW m \in cmds, ReceiveCommand(m)
      PROVE  UNCHANGED <<pending, since, owner>> /\ cmds' \subseteq cmds
  BY <1>6 DEF ReceiveCommand, lmVars, ueVars
<1>7. Held'
  BY <1>2, <1>3, <1>4, <1>5, <1>6, RunHeld, TickHeld, ReregisterHeld DEF Next, ReservedInv, Held
<1> QED  BY <1>1, <1>7 DEF ReservedInv

\* When a pending handover times out later than its command, its reservation outlives the
\* command, also through new registrations (pendingHoTarget, HoAttemptTimeout).
THEOREM ReservationsHeld == ASSUME Patient PROVE Spec => []ReservationHeld
<1>1. Init => ReservedInv
  BY InitLoop DEF ReservedInv, Held, Init
<1>2. ReservedInv => ReservationHeld
  BY DEF ReservedInv, Held, ReservationHeld
<1> QED  BY <1>1, <1>2, StepHeld, PTL DEF Spec

-----------------------------------------------------------------------------
(* One command per UE.                                                     *)

\* Without new registrations the IDs stay.
LEMMA FixedKept == ASSUME Registered, Fixed, [Next]_vars PROVE Fixed'
<1>1. \A u \in Ues : ~Deregister(u) /\ ~Reregister(u)
  BY DEF Registered, Fixed, Deregister, Reregister
<1>2. UNCHANGED <<id, owner, listed>>
  BY <1>1 DEF Next, vars, Run, Tick, GenerateReports, ReceiveReport, GnbRegistration, ReceiveCommand,
     ueVars, regVars
<1> QED  BY <1>2 DEF Fixed

\* The reservation of a command is under its UE's ID.
LEMMA OwnReservation ==
    ASSUME SingleInv, Patient, NEW m \in cmds
    PROVE  /\ m.ue \in Ues /\ m.ue \in Ids /\ pending[m.ue] = m.to /\ m.to \in Cells
           /\ since[m.ue] + m.left = CommandDelay /\ m.left \in Nat /\ since[m.ue] \in Nat
           /\ since[m.ue] < HoAttemptTimeout /\ since[m.ue] <= CommandDelay
<1>1. PICK i \in Ids : owner[i] = m.ue /\ pending[i] = m.to /\ since[i] + m.left = CommandDelay
  BY DEF SingleInv, ReservedInv, Held
<1>2. m.ue \in Ues /\ since[i] \in Nat /\ since[i] < HoAttemptTimeout /\ m.to \in Cells /\ m.left \in Nat
      /\ since[i] <= CommandDelay
  BY <1>1, HeldLong DEF SingleInv, ReservedInv
<1>3. i = m.ue
  BY <1>1, <1>2, Consts DEF SingleInv, Fixed
<1> QED  BY <1>1, <1>2, <1>3

LEMMA RunSingle == ASSUME Patient, SingleInv, Run PROVE OneCommandPerUe'
<1> DEFINE S == GetHandoverCommands
<1>1. cmds' = cmds \cup S.cmds
  BY DEF Run
<1>2. \A m \in S.cmds : \E i \in Ids, c \in Cells : Sent(S, i, c) /\ m = HoCommand(i, c)
  BY RunEffect DEF SingleInv, ReservedInv
<1> HIDE DEF S
<1>3. ASSUME NEW m \in S.cmds
      PROVE  /\ m.ue \in Ues /\ Reconsidered(m.ue) /\ S.pending[m.ue] = m.to
             /\ m = HoCommand(m.ue, m.to)
  <2>1. PICK i \in Ids, c \in Cells : Sent(S, i, c) /\ m = HoCommand(i, c)
    BY <1>2
  <2>2. m.ue = owner[i] /\ m.to = c /\ Reconsidered(i) /\ S.pending[i] = c
    BY <2>1 DEF HoCommand, Sent
  <2>3. owner[i] \in Ues
    BY <2>2, NothingPending DEF SingleInv, ReservedInv
  <2>4. owner[i] = i
    BY <2>3, Consts DEF SingleInv, Fixed
  <2> QED  BY <2>1, <2>2, <2>3, <2>4
<1>4. ASSUME NEW m \in cmds, NEW n \in S.cmds PROVE m.ue # n.ue
  <2>1. pending[m.ue] # NoCell /\ m.ue \in Ids /\ since[m.ue] < HoAttemptTimeout
    BY OwnReservation, Consts
  <2>2. ~Reconsidered(m.ue)
    BY <2>1, PendingKept DEF SingleInv, ReservedInv
  <2> QED  BY <1>3, <2>2
<1>5. ASSUME NEW m \in S.cmds, NEW n \in S.cmds, m.ue = n.ue PROVE m = n
  <2>1. S.pending[m.ue] = m.to /\ S.pending[m.ue] = n.to
    BY <1>3, <1>5
  <2>2. m = HoCommand(m.ue, m.to) /\ n = HoCommand(m.ue, n.to)
    BY <1>3, <1>5
  <2> QED  BY <2>1, <2>2
<1> QED  BY <1>1, <1>4, <1>5 DEF SingleInv, OneCommandPerUe

LEMMA TickSingle == ASSUME Patient, SingleInv, Tick PROVE OneCommandPerUe'
<1> SUFFICES ASSUME NEW m1 \in cmds', NEW m2 \in cmds', m1.ue = m2.ue PROVE m1 = m2
  BY DEF OneCommandPerUe
<1>1. LoopInv
  BY DEF SingleInv, ReservedInv
<1>2. PICK n1 \in cmds : m1 \in [ue : {n1.ue}, from : {n1.from}, to : {n1.to}, left : {n1.left - 1}]
  BY <1>1, CommandTick
<1>3. PICK n2 \in cmds : m2 \in [ue : {n2.ue}, from : {n2.from}, to : {n2.to}, left : {n2.left - 1}]
  BY <1>1, CommandTick
<1>4. n1 = n2
  BY <1>2, <1>3 DEF SingleInv, OneCommandPerUe
<1> QED  BY <1>2, <1>3, <1>4

LEMMA StepSingle == ASSUME Patient, Registered, SingleInv, [Next]_vars PROVE SingleInv'
<1>1. ReservedInv' /\ Fixed'
  BY StepHeld, FixedKept DEF SingleInv
<1>2. ASSUME cmds' \subseteq cmds PROVE OneCommandPerUe'
  BY <1>2 DEF SingleInv, OneCommandPerUe
<1>3. OneCommandPerUe'
  BY <1>2, RunSingle, TickSingle, Stutter DEF Next, GenerateReports, ReceiveReport, Deregister,
     Reregister, GnbRegistration, ReceiveCommand
<1> QED  BY <1>1, <1>3 DEF SingleInv

LEMMA InitSingle == Init => SingleInv
<1> SUFFICES ASSUME Init PROVE SingleInv
  OBVIOUS
<1>1. cmds = {} /\ Fixed
  BY DEF Init, Fixed
<1> QED  BY <1>1, InitLoop DEF SingleInv, ReservedInv, Held, OneCommandPerUe

LEMMA SingleKept == ASSUME Patient, Registered PROVE Spec => []SingleInv
  BY InitSingle, StepSingle, PTL DEF Spec

\* When a pending handover times out later than its command, and the UEs keep their IDs, no
\* UE has two commands under way (HoAttemptTimeout).
THEOREM OneCommand == ASSUME Patient, Registered PROVE Spec => []OneCommandPerUe
<1>1. SingleInv => OneCommandPerUe
  BY DEF SingleInv
<1> QED  BY <1>1, SingleKept, PTL

\* A UE that has taken a command along to another ID is sent none under it.
LEMMA NotYetRipe ==
    ASSUME Patient, Spaced, AcrossInv, Run, NEW m \in cmds, NEW i \in Ids, Holds(m, i),
           Behind(m.ue, i)
    PROVE  /\ m.ue \in Ues /\ id[m.ue] \in Ids /\ since[i] \in Nat \ {0}
           /\ pending'[i] = pending[i] /\ since'[i] = since[i]
           /\ \A c \in Cells : ~Sent(GetHandoverCommands, id[m.ue], c)
           /\ Left(GetHandoverCommands, id[m.ue])
<1> DEFINE S == GetHandoverCommands
           j == id[m.ue]
<1>1. LoopInv /\ Apart /\ ~ran
  BY DEF AcrossInv, ReservedInv, Run
<1>2. /\ since[i] \in Nat /\ since[i] <= CommandDelay /\ since[i] < HoAttemptTimeout
      /\ pending[i] # NoCell /\ m.ue \in Ues
  BY <1>1, HeldLong DEF Holds
<1>3. since[i] # 0
  BY <1>1 DEF Apart
<1>4. pending'[i] = pending[i] /\ since'[i] = since[i] /\ ~Reconsidered(i)
  BY <1>1, <1>2, PendingKept
<1>5. j \in Ids /\ ttt[j] \in Ttts
  BY <1>1, <1>2 DEF LoopInv, Typed, UeTyped, LmTyped
<1> HIDE DEF S, j
<1>6. ASSUME NEW c \in Cells, Sent(S, j, c) PROVE FALSE
  <2>1. Reconsidered(j) /\ Ripe(j, c)
    BY <1>6 DEF Sent
  <2>2. j # i
    BY <1>4, <2>1
  <2>3. ttt[j] = NoTtt \/ ttt[j].age < since[i]
    BY <2>2 DEF Behind, j
  <2>4. ttt[j].age \in Nat /\ NoTtt.age = 0
    BY <1>5 DEF Ttts, NoTtt
  <2>5. ttt[j].age < since[i]
    BY <1>2, <1>3, <2>3, <2>4
  <2> QED  BY <1>2, <1>3, <2>1, <2>4, <2>5, Consts DEF Ripe, Spaced
<1>7. Left(S, j)
  BY <1>1, <1>5, <1>6, RunEffect DEF S
<1> QED  BY <1>2, <1>3, <1>4, <1>5, <1>6, <1>7 DEF S, j

LEMMA RunAcross == ASSUME Patient, Spaced, AcrossInv, Run PROVE Apart' /\ OneCommandPerUe'
<1> DEFINE S == GetHandoverCommands
<1>1. LoopInv /\ Apart /\ OneCommandPerUe
  BY DEF AcrossInv, ReservedInv
<1>2. /\ cmds' = cmds \cup S.cmds /\ pending' = S.pending /\ since' = S.since /\ ttt' = S.ttt
      /\ ran' = TRUE /\ owner' = owner /\ id' = id
  BY DEF Run, ueVars
<1>3. ASSUME NEW n \in S.cmds
      PROVE  /\ id[n.ue] \in Ids /\ Sent(S, id[n.ue], n.to) /\ n = HoCommand(id[n.ue], n.to)
             /\ n.to \in Cells /\ owner[id[n.ue]] = n.ue /\ n.left = CommandDelay
  <2>1. PICK i \in Ids, c \in Cells : Sent(S, i, c) /\ n = HoCommand(i, c)
    BY <1>1, RunEffect
  <2> HIDE DEF S
  <2>2. n.ue = owner[i] /\ n.to = c /\ n.left = CommandDelay /\ Reconsidered(i)
    BY <2>1 DEF Sent, HoCommand
  <2>3. id[owner[i]] = i
    BY <1>1, <2>2, NothingPending
  <2> QED  BY <2>1, <2>2, <2>3
<1> HIDE DEF S
<1>4. ASSUME NEW m \in cmds PROVE \E i \in Ids : (Holds(m, i) /\ Behind(m.ue, i))'
  <2>1. PICK i \in Ids : Holds(m, i) /\ Behind(m.ue, i)
    BY <1>1 DEF Apart
  <2>2. /\ id[m.ue] \in Ids /\ since[i] \in Nat \ {0} /\ pending'[i] = pending[i] /\ since'[i] = since[i]
        /\ Left(S, id[m.ue])
    BY <2>1, NotYetRipe DEF S
  <2>3. Holds(m, i)'
    BY <1>2, <2>1, <2>2 DEF Holds
  <2>4. \/ S.ttt[id[m.ue]] = NoTtt \/ S.ttt[id[m.ue]] = ttt[id[m.ue]] \/ S.ttt[id[m.ue]].age = 0
    BY <2>2 DEF Left, TttOf
  <2>5. 0 < since[i]
    BY <2>2
  <2>6. Behind(m.ue, i)'
    BY <1>2, <2>1, <2>2, <2>4, <2>5 DEF Behind
  <2> QED  BY <2>3, <2>6
<1>5. ASSUME NEW n \in S.cmds PROVE \E i \in Ids : (Holds(n, i) /\ Behind(n.ue, i))'
  <2>1. PICK i \in Ids : i = id[n.ue]
    BY <1>3
  <2>2. Sent(S, i, n.to) /\ owner[i] = n.ue /\ n.left = CommandDelay
    BY <1>3, <2>1
  <2>3. Holds(n, i)'
    BY <1>2, <2>2, Consts DEF Holds, Sent
  <2>4. Behind(n.ue, i)'
    BY <1>2, <2>1 DEF Behind
  <2> QED  BY <2>3, <2>4
<1>6. Apart'
  BY <1>2, <1>4, <1>5 DEF Apart
<1>7. ASSUME NEW m \in cmds, NEW n \in S.cmds PROVE m.ue # n.ue
  <2>1. PICK i \in Ids : Holds(m, i) /\ Behind(m.ue, i)
    BY <1>1 DEF Apart
  <2>2. \A c \in Cells : ~Sent(S, id[m.ue], c)
    BY <2>1, NotYetRipe DEF S
  <2> QED  BY <1>3, <2>2
<1>8. ASSUME NEW m \in S.cmds, NEW n \in S.cmds, m.ue = n.ue PROVE m = n
  <2>1. m.to = n.to
    BY <1>3, <1>8 DEF Sent
  <2> QED  BY <1>3, <1>8, <2>1
<1>9. OneCommandPerUe'
  BY <1>1, <1>2, <1>7, <1>8 DEF OneCommandPerUe
<1> QED  BY <1>6, <1>9

LEMMA TickAcross == ASSUME Patient, AcrossInv, Tick PROVE Apart' /\ OneCommandPerUe'
<1>1. LoopInv /\ Apart /\ OneCommandPerUe
  BY DEF AcrossInv, ReservedInv
<1>2. /\ since' = [i \in Ids |-> Later(since[i], Horizon)] /\ UNCHANGED <<pending, owner, id>>
      /\ ttt' = [i \in Ids |-> IF ttt[i] = NoTtt THEN NoTtt
                               ELSE [ttt[i] EXCEPT !.age = Later(@, TimeToTrigger)]]
  BY DEF Tick, ueVars
<1>3. \A i \in Ids : since'[i] # 0
  <2> TAKE i \in Ids
  <2>1. since[i] \in 0 .. Horizon /\ Horizon \in Nat \ {0}
    BY <1>1, Consts DEF LoopInv, Typed, LmTyped, Patient
  <2> QED  BY <1>2, <2>1 DEF Later
<1>4. ASSUME NEW m \in cmds' PROVE \E i \in Ids : (Holds(m, i) /\ Behind(m.ue, i))'
  <2>1. PICK n \in cmds : m \in [ue : {n.ue}, from : {n.from}, to : {n.to}, left : {n.left - 1}]
    BY <1>1, CommandTick
  <2>2. PICK i \in Ids : Holds(n, i) /\ Behind(n.ue, i)
    BY <1>1 DEF Apart
  <2>3. since[i] \in Nat /\ since[i] < Horizon /\ n.left \in Nat /\ n.ue \in Ues
    BY <1>1, <2>2, HeldLong DEF Holds
  <2>4. since'[i] = since[i] + 1 /\ m.left = n.left - 1 /\ m.ue = n.ue /\ m.to = n.to
    BY <1>2, <2>1, <2>3 DEF Later
  <2>5. Holds(m, i)'
    <3>1. owner'[i] = m.ue /\ pending'[i] = m.to
      BY <1>2, <2>2, <2>4 DEF Holds
    <3>2. since[i] + n.left = CommandDelay
      BY <2>2 DEF Holds
    <3>3. (since[i] + 1) + (n.left - 1) = since[i] + n.left
      BY <2>3
    <3>4. since'[i] + m.left = CommandDelay
      BY <2>4, <3>2, <3>3
    <3> QED  BY <3>1, <3>4 DEF Holds
  <2> DEFINE j == id[n.ue]
  <2>6. j \in Ids /\ ttt[j] \in Ttts
    BY <1>1, <2>3 DEF LoopInv, Typed, UeTyped, LmTyped
  <2> HIDE DEF j
  <2>7. CASE ttt[j] = NoTtt
    BY <1>2, <2>4, <2>6, <2>7, <2>5 DEF Behind, j
  <2>8. CASE ttt[j] # NoTtt /\ j # i
    <3>1. ttt[j].age < since[i] /\ ttt[j].age \in Nat
      BY <2>2, <2>6, <2>8 DEF Behind, j, Ttts
    <3>2. ttt'[j] = [ttt[j] EXCEPT !.age = Later(ttt[j].age, TimeToTrigger)]
      BY <1>2, <2>6, <2>8
    <3>3. ttt'[j].age = Later(ttt[j].age, TimeToTrigger)
      BY <2>6, <3>2 DEF Ttts
    <3>4. ttt'[j].age < since'[i]
      BY <2>3, <2>4, <3>1, <3>3, Consts DEF Later
    <3> QED  BY <1>2, <2>4, <2>5, <3>4 DEF Behind, j
  <2>9. CASE j = i
    BY <1>2, <2>4, <2>5, <2>9 DEF Behind, j
  <2> QED  BY <2>7, <2>8, <2>9
<1>5. OneCommandPerUe'
  <2> SUFFICES ASSUME NEW m1 \in cmds', NEW m2 \in cmds', m1.ue = m2.ue PROVE m1 = m2
    BY DEF OneCommandPerUe
  <2>1. PICK n1 \in cmds : m1 \in [ue : {n1.ue}, from : {n1.from}, to : {n1.to}, left : {n1.left - 1}]
    BY <1>1, CommandTick
  <2>2. PICK n2 \in cmds : m2 \in [ue : {n2.ue}, from : {n2.from}, to : {n2.to}, left : {n2.left - 1}]
    BY <1>1, CommandTick
  <2>3. n1 = n2
    BY <1>1, <2>1, <2>2 DEF OneCommandPerUe
  <2> QED  BY <2>1, <2>2, <2>3
<1> QED  BY <1>3, <1>4, <1>5 DEF Apart

\* Under a new ID the UE is no candidate yet.
LEMMA ReregisterAcross ==
    ASSUME Patient, AcrossInv, NEW u \in Ues, Reregister(u)
    PROVE  Apart' /\ OneCommandPerUe'
<1>1. LoopInv /\ Apart /\ OneCommandPerUe
  BY DEF AcrossInv, ReservedInv
<1>2. UNCHANGED <<pending, since, ttt, ran, cmds>>
  BY DEF Reregister, lmVars
<1>3. CASE UNCHANGED <<id, owner>>
  BY <1>1, <1>2, <1>3 DEF Apart, Holds, Behind, OneCommandPerUe
<1>4. ASSUME NEW k \in Ids, owner[k] = 0, id' = [id EXCEPT ![u] = k], owner' = [owner EXCEPT ![k] = u]
      PROVE  Apart' /\ OneCommandPerUe'
  <2>1. id \in [Ues -> Ids] /\ owner \in [Ids -> Ues \cup {0}] /\ ttt[k] = NoTtt
    BY <1>1, <1>4 DEF LoopInv, Typed, UeTyped, Owned
  <2>2. ASSUME NEW m \in cmds PROVE \E i \in Ids : (Holds(m, i) /\ Behind(m.ue, i))'
    <3>1. PICK i \in Ids : Holds(m, i) /\ Behind(m.ue, i)
      BY <1>1 DEF Apart
    <3>2. m.ue \in Ues /\ m.ue # 0
      BY <1>1, <3>1, HeldLong, Consts DEF Holds
    <3>3. owner'[i] = owner[i]
      BY <1>4, <2>1, <3>1, <3>2 DEF Holds
    <3>4. Holds(m, i)'
      BY <1>2, <3>1, <3>3 DEF Holds
    <3>5. Behind(m.ue, i)'
      BY <1>2, <1>4, <2>1, <3>1, <3>2 DEF Behind
    <3> QED  BY <3>4, <3>5
  <2> QED  BY <1>1, <1>2, <2>2 DEF Apart, OneCommandPerUe
<1> QED  BY <1>3, <1>4 DEF Reregister

LEMMA StepAcross == ASSUME Patient, Spaced, AcrossInv, [Next]_vars PROVE AcrossInv'
<1>1. ReservedInv'
  BY StepHeld DEF AcrossInv
<1>2. ASSUME UNCHANGED <<id, owner, pending, since, ttt, ran>>, cmds' \subseteq cmds
      PROVE  Apart' /\ OneCommandPerUe'
  BY <1>2 DEF AcrossInv, Apart, Holds, Behind, OneCommandPerUe
<1>3. ASSUME UNCHANGED vars PROVE Apart' /\ OneCommandPerUe'
  BY <1>2, <1>3, Stutter
<1>4. ASSUME NEW u \in Ues, GenerateReports(u) \/ ReceiveReport(u) \/ Deregister(u)
      PROVE  Apart' /\ OneCommandPerUe'
  BY <1>2, <1>4 DEF GenerateReports, ReceiveReport, Deregister, lmVars, ueVars
<1>5. ASSUME NEW c \in Cells, GnbRegistration(c) PROVE Apart' /\ OneCommandPerUe'
  BY <1>2, <1>5 DEF GnbRegistration, lmVars, ueVars
<1>6. ASSUME NEW m \in cmds, ReceiveCommand(m) PROVE Apart' /\ OneCommandPerUe'
  BY <1>2, <1>6 DEF ReceiveCommand, lmVars, ueVars
<1>7. Apart' /\ OneCommandPerUe'
  BY <1>3, <1>4, <1>5, <1>6, RunAcross, TickAcross, ReregisterAcross DEF Next
<1> QED  BY <1>1, <1>7 DEF AcrossInv

\* A UE may lose its registration and come back under another ID while a command for it is
\* under way, with its pending handover and its cooldown left behind under the old ID: when
\* the time to trigger is at least as long as a command takes, no UE has two commands under
\* way all the same (tttState, pendingHoTarget).
THEOREM OneCommandAcross == ASSUME Patient, Spaced PROVE Spec => []OneCommandPerUe
<1>1. Init => AcrossInv
  <2> SUFFICES ASSUME Init PROVE AcrossInv
    OBVIOUS
  <2>1. cmds = {} /\ since = [i \in Ids |-> Horizon] /\ LoopInv
    BY InitLoop DEF Init
  <2>2. Horizon # 0
    BY Consts DEF Patient
  <2> QED  BY <2>1, <2>2 DEF AcrossInv, ReservedInv, Held, Apart, OneCommandPerUe
<1>2. AcrossInv => OneCommandPerUe
  BY DEF AcrossInv
<1> QED  BY <1>1, <1>2, StepAcross, PTL DEF Spec

-----------------------------------------------------------------------------
(* Capacity: what the repository knows of a UE's cell.                     *)

LEMMA Slack ==
    ASSUME Observed
    PROVE  /\ Patient /\ CommandDelay + 2 * ReportDelay + 1 \in Nat
           /\ CommandDelay + 2 * ReportDelay + 1 < HoAttemptTimeout
           /\ CommandDelay + 2 * ReportDelay + 1 < Horizon
  BY Consts DEF Observed, Patient

LEMMA Kinds ==
    ASSUME LoopInv, NEW u \in Ues
    PROVE  /\ report[u] = NotYet \/ report[u] = Done \/ InFlight(u)
           /\ NotYet # Done /\ (InFlight(u) => report[u] # NotYet /\ report[u] # Done)
           /\ InFlight(u) => /\ report[u].left \in 0 .. ReportDelay /\ report[u].cell \in Cells
                             /\ report[u].todo \in (SUBSET Rows) \ {{}}
           /\ cell[u] \in Cells /\ cell[u] # NoCell /\ u \in Ids
<1>1. report[u] \in {NotYet, Done} \cup Flights
  BY DEF LoopInv, Typed, ReportTyped
<1>2. NotYet # Done
  BY DEF NotYet, Done
<1>3. InFlight(u) => /\ report[u].left \in 0 .. ReportDelay /\ report[u].cell \in Cells
                     /\ report[u].todo \in (SUBSET Rows) \ {{}}
  BY DEF InFlight, Flights
<1>4. NotYet.todo = {} /\ Done.todo = {}
  BY DEF NotYet, Done
<1>5. InFlight(u) => report[u] # NotYet /\ report[u] # Done
  BY <1>3, <1>4
<1>6. cell[u] \in Cells /\ cell[u] # NoCell /\ u \in Ids
  BY Consts DEF LoopInv, Typed, UeTyped
<1> QED  BY <1>1, <1>2, <1>3, <1>5, <1>6 DEF InFlight

\* A row arrives in its place.
LEMMA RowEffect ==
    ASSUME CapacityInv, NEW u \in Ues, ReceiveReport(u)
    PROVE  LET r == report[u]
           IN  /\ InFlight(u)
               /\ \A v \in Ues \ {u} : info'[v] = info[v] /\ view'[v] = view[v] /\ report'[v] = report[v]
               /\ located \subseteq located'
               /\ \/ report'[u] = Done /\ info'[u] = r.cell /\ view'[u].cell = r.cell /\ u \in located'
                  \/ /\ report'[u] \in Flights /\ report'[u].cell = r.cell /\ report'[u].left = r.left
                     /\ report'[u].id = u
                     /\ info'[u] \in {info[u], r.cell} /\ view'[u].cell \in {view[u].cell, NoCell, r.cell}
                     /\ "info" \notin report'[u].todo => info'[u] = r.cell
                     /\ "location" \notin report'[u].todo => u \in located'
                     /\ "serving" \notin report'[u].todo => view'[u].cell = r.cell
<1>1. /\ LoopInv /\ Arrived /\ Fixed
  BY DEF CapacityInv, SingleInv, ReservedInv
<1>2. InFlight(u) /\ report' = [report EXCEPT ![u] = report'[u]]
  BY <1>1, RowStored
<1>3. PICK row \in report[u].todo :
        LET r == report[u]
            todo == r.todo \ {row}
        IN  /\ todo = {} => report'[u] = Done
            /\ todo # {} => /\ report'[u] \in [todo : {todo}, id : {r.id}, cell : {r.cell},
                                               rsrp : {r.rsrp}, left : {r.left}]
                            /\ report'[u] \in Flights
            /\ info' = IF r.id \in listed /\ row = "info"
                       THEN [info EXCEPT ![r.id] = r.cell] ELSE info
            /\ located' = IF r.id \in listed /\ row = "location"
                          THEN located \cup {r.id} ELSE located
            /\ view' = IF r.id \in listed /\ row \in {"serving", "neighbours"}
                       THEN [view EXCEPT ![r.id] = Stored(r, Rows \ todo)] ELSE view
  BY <1>1, RowStored
<1>4. /\ report[u].id = u /\ u \in listed
      /\ "info" \notin report[u].todo => info[u] = report[u].cell
      /\ "location" \notin report[u].todo => u \in located
      /\ "serving" \notin report[u].todo => view[u].cell = report[u].cell
  BY <1>1, <1>2 DEF Arrived, Fixed
<1> DEFINE todo == report[u].todo \ {row}
<1>5. /\ info' = IF row = "info" THEN [info EXCEPT ![u] = report[u].cell] ELSE info
      /\ located' = IF row = "location" THEN located \cup {u} ELSE located
      /\ view' = IF row \in {"serving", "neighbours"}
                 THEN [view EXCEPT ![u] = Stored(report[u], Rows \ todo)] ELSE view
  BY <1>3, <1>4
<1>6. /\ info = [i \in Ids |-> info[i]] /\ view = [i \in Ids |-> view[i]] /\ u \in Ids
      /\ report = [v \in Ues |-> report[v]] /\ Ues \subseteq Ids
  BY <1>1, Consts DEF LoopInv, Typed, RepoTyped, ReportDomain
<1>7. \A v \in Ues \ {u} : info'[v] = info[v] /\ view'[v] = view[v] /\ report'[v] = report[v]
  <2> HIDE DEF todo
  <2> QED  BY <1>2, <1>5, <1>6
<1>8. info'[u] = IF row = "info" THEN report[u].cell ELSE info[u]
  BY <1>5, <1>6
<1>9. view'[u] = IF row \in {"serving", "neighbours"} THEN Stored(report[u], Rows \ todo) ELSE view[u]
  <2> HIDE DEF todo
  <2> QED  BY <1>5, <1>6
<1>10. Stored(report[u], Rows \ todo).cell = IF "serving" \in Rows \ todo THEN report[u].cell ELSE NoCell
  BY <1>2, StoredTyped DEF InFlight
<1>11. view'[u].cell = IF row \in {"serving", "neighbours"}
                       THEN IF "serving" \notin todo THEN report[u].cell ELSE NoCell
                       ELSE view[u].cell
  BY <1>9, <1>10 DEF Rows
<1>12. "info" \notin todo => info'[u] = report[u].cell
  BY <1>4, <1>8
<1>13. "serving" \notin todo => view'[u].cell = report[u].cell
  BY <1>4, <1>11
<1>14. located \subseteq located' /\ ("location" \notin todo => u \in located')
  BY <1>4, <1>5
<1>15. CASE todo = {}
  BY <1>2, <1>3, <1>7, <1>12, <1>13, <1>14, <1>15
<1>16. CASE todo # {}
  <2>1. /\ report'[u] \in Flights /\ report'[u].cell = report[u].cell /\ report'[u].left = report[u].left
        /\ report'[u].id = u /\ report'[u].todo = todo
    BY <1>3, <1>4, <1>16
  <2> HIDE DEF todo
  <2> QED  BY <1>2, <1>7, <1>8, <1>11, <1>12, <1>13, <1>14, <2>1
<1> QED  BY <1>15, <1>16

\* The cell of a UE that the repository does not know is pending, and stays so in a run.
LEMMA MovedLong ==
    ASSUME Observed, LoopInv, NEW u \in Ues, Moved(u)
    PROVE  /\ u \in Ids /\ pending[u] = cell[u] /\ pending[u] # NoCell
           /\ since[u] \in Nat /\ Wait(u) \in Nat
           /\ since[u] < HoAttemptTimeout /\ since[u] < Horizon
<1>1. Wait(u) \in Nat
  BY Kinds, Consts DEF Wait
<1>2. since[u] \in 0 .. Horizon
  BY Kinds DEF LoopInv, Typed, LmTyped
<1>3. since[u] + Wait(u) <= CommandDelay + 2 * ReportDelay + 1 /\ pending[u] = cell[u]
  BY DEF Moved
<1>4. since[u] <= CommandDelay + 2 * ReportDelay + 1
  BY <1>1, <1>2, <1>3, Slack, Consts
<1> QED  BY <1>1, <1>2, <1>3, <1>4, Slack, Kinds, Consts

\* What is known of a UE stays known if nothing about it changes.
LEMMA SameLocated ==
    ASSUME NEW u \in Ues, Known(u) \/ Moved(u) \/ Unseen(u),
           report'[u] = report[u], cell'[u] = cell[u], info'[u] = info[u], view'[u] = view[u],
           located \subseteq located', warmup' = warmup, Moved(u) => pending'[u] = pending[u] /\ since'[u] = since[u]
    PROVE  (Known(u) \/ Moved(u) \/ Unseen(u))'
<1>1. CASE Known(u)
  BY <1>1 DEF Known, InFlight
<1>2. CASE Moved(u)
  BY <1>2 DEF Moved, Wait
<1>3. CASE Unseen(u)
  BY <1>3 DEF Unseen, InFlight
<1> QED  BY <1>1, <1>2, <1>3

LEMMA RunLocated == ASSUME Observed, CapacityInv, Run PROVE Arrived' /\ Located'
<1>1. LoopInv /\ Located /\ Arrived
  BY DEF CapacityInv, SingleInv, ReservedInv
<1>2. UNCHANGED <<cell, report, view, info, located, warmup>>
  BY DEF Run, ueVars, repoVars
<1>3. Arrived'
  BY <1>1, <1>2 DEF Arrived, InFlight
<1>4. \A u \in Ues : (Known(u) \/ Moved(u) \/ Unseen(u))'
  <2> TAKE u \in Ues
  <2>1. Moved(u) => pending'[u] = pending[u] /\ since'[u] = since[u]
    BY <1>1, MovedLong, PendingKept
  <2> QED  BY <1>1, <1>2, <2>1, SameLocated DEF Located
<1> QED  BY <1>3, <1>4 DEF Located

LEMMA TickLocated == ASSUME Observed, CapacityInv, Tick PROVE Arrived' /\ Located'
<1>1. LoopInv /\ Located /\ Arrived
  BY DEF CapacityInv, SingleInv, ReservedInv
<1>2. /\ UNCHANGED <<cell, view, info, located, pending>> /\ warmup' = Sooner(warmup)
      /\ since' = [i \in Ids |-> Later(since[i], Horizon)]
  BY DEF Tick, ueVars, repoVars
<1>3. ASSUME NEW u \in Ues, InFlight(u)'
      PROVE  /\ InFlight(u) /\ report[u].left > 0 /\ report'[u].left = report[u].left - 1
             /\ report'[u].todo = report[u].todo /\ report'[u].id = report[u].id
             /\ report'[u].cell = report[u].cell
  <2>1. report'[u] # NotYet
    BY <1>3 DEF InFlight, Flights, NotYet
  <2> QED  BY <1>1, <2>1, ReportTick
<1>4. Arrived'
  BY <1>1, <1>2, <1>3 DEF Arrived
<1>5. ASSUME NEW u \in Ues PROVE (Known(u) \/ Moved(u) \/ Unseen(u))'
  <2>1. CASE Known(u)
    BY <1>2, <1>3, <2>1 DEF Known
  <2>2. CASE Moved(u)
    <3>1. u \in Ids /\ since[u] \in Nat /\ since[u] < Horizon /\ Wait(u) \in Nat
      BY <1>1, <2>2, MovedLong
    <3>2. since'[u] = since[u] + 1
      BY <1>2, <3>1 DEF Later
    <3>3. Wait(u)' = Wait(u) - 1
      <4>1. CASE report[u] = Done /\ report'[u] = NotYet
        <5>1. Wait(u) = ReportDelay + 1
          BY <1>1, <4>1, Kinds DEF Wait
        <5>2. Wait(u)' = ReportDelay
          BY <4>1 DEF Wait
        <5> QED  BY <5>1, <5>2, Consts
      <4>2. CASE InFlight(u) /\ InFlight(u)'
        <5>1. /\ report[u] # NotYet /\ report[u] # Done /\ report[u].left \in Nat
          BY <1>1, <4>2, Kinds, Consts
        <5>2. report'[u] # NotYet /\ report'[u] # Done
          BY <4>2 DEF InFlight, Flights, NotYet, Done
        <5>3. report'[u].left = report[u].left - 1 /\ report'[u].cell = report[u].cell
          BY <1>3, <4>2
        <5>4. CASE report[u].cell = cell[u]
          BY <1>2, <5>1, <5>2, <5>3, <5>4 DEF Wait
        <5>5. CASE report[u].cell # cell[u]
          <6>1. Wait(u) = report[u].left + 1 + ReportDelay
            BY <5>1, <5>5 DEF Wait
          <6>2. Wait(u)' = report[u].left - 1 + 1 + ReportDelay
            BY <1>2, <5>2, <5>3, <5>5 DEF Wait
          <6> QED  BY <5>1, <6>1, <6>2, Consts
        <5> QED  BY <5>4, <5>5
      <4> QED  BY <1>1, <4>1, <4>2, ReportTick DEF InFlight
    <3>4. since'[u] + Wait(u)' = since[u] + Wait(u)
      BY <3>1, <3>2, <3>3
    <3> QED  BY <1>2, <2>2, <3>4 DEF Moved
  <2>3. CASE Unseen(u)
    <3>1. report[u] # NotYet
      BY DEF Tick
    <3>2. InFlight(u) /\ report[u].cell = cell[u] /\ warmup > report[u].left
      BY <2>3, <3>1 DEF Unseen
    <3>3. InFlight(u)' /\ report'[u] # NotYet
      <4>1. report[u] # Done
        BY <1>1, <3>2, Kinds
      <4>2. report'[u] \in Flights
        BY <1>1, <4>1, ReportTick
      <4> QED  BY <4>2 DEF InFlight, Flights, NotYet
    <3>4. report'[u].left = report[u].left - 1 /\ report'[u].cell = report[u].cell
      BY <1>3, <3>3
    <3>5. report[u].left \in Nat /\ warmup \in Nat
      BY <1>1, <3>2, Kinds, Consts DEF LoopInv, Typed, LmTyped
    <3>6. warmup' > report'[u].left
      BY <1>2, <3>2, <3>4, <3>5 DEF Sooner
    <3> QED  BY <1>2, <3>2, <3>3, <3>4, <3>6 DEF Unseen
  <2> QED  BY <1>1, <2>1, <2>2, <2>3 DEF Located
<1> QED  BY <1>4, <1>5 DEF Located

LEMMA GenerateLocated ==
    ASSUME Observed, CapacityInv, NEW u \in Ues, GenerateReports(u)
    PROVE  Arrived' /\ Located'
<1>1. LoopInv /\ Located /\ Arrived /\ Fixed
  BY DEF CapacityInv, SingleInv, ReservedInv
<1>2. UNCHANGED <<cell, view, info, located, pending, since, warmup>> /\ report[u] = NotYet
  BY DEF GenerateReports, ueVars, repoVars, lmVars
<1>3. PICK r : /\ report' = [report EXCEPT ![u] = r]
               /\ r.todo = ToReport(u) /\ r.id = id[u] /\ r.cell = cell[u] /\ r.left = ReportDelay
  <2>1. PICK rsrp \in Measurements :
          report' = [report EXCEPT ![u] = [todo |-> ToReport(u), id |-> id[u], cell |-> cell[u],
                                           rsrp |-> rsrp, left |-> ReportDelay]]
    BY DEF GenerateReports
  <2>2. PICK r : r = [todo |-> ToReport(u), id |-> id[u], cell |-> cell[u], rsrp |-> rsrp, left |-> ReportDelay]
    OBVIOUS
  <2>3. r.todo = ToReport(u) /\ r.id = id[u] /\ r.cell = cell[u] /\ r.left = ReportDelay
    BY <2>2
  <2> QED  BY <2>1, <2>2, <2>3
<1>4. report'[u] = r /\ \A v \in Ues \ {u} : report'[v] = report[v]
  BY <1>1, <1>3 DEF LoopInv, Typed, ReportDomain
<1>5. r # NotYet /\ r # Done
  BY <1>3 DEF NotYet, Done, Rows, ToReport
<1>6. InFlight(u)'
  <2>1. LoopInv'
    BY <1>1, GenerateLoop
  <2>2. report'[u] \in {NotYet, Done} \cup Flights
    BY <2>1 DEF LoopInv, Typed, ReportTyped
  <2> QED  BY <1>4, <1>5, <2>2 DEF InFlight
<1>7. Arrived'
  <2> SUFFICES ASSUME NEW v \in Ues, InFlight(v)'
      PROVE  /\ report'[v].id = v
             /\ "info" \notin report'[v].todo => info'[v] = report'[v].cell
             /\ "location" \notin report'[v].todo => v \in located'
             /\ "serving" \notin report'[v].todo => view'[v].cell = report'[v].cell
    BY DEF Arrived
  <2>1. CASE v = u
    BY <1>1, <1>2, <1>3, <1>4, <2>1 DEF Fixed, Rows, ToReport
  <2>2. CASE v # u
    BY <1>1, <1>2, <1>4, <2>2 DEF Arrived, InFlight
  <2> QED  BY <2>1, <2>2
<1>8. ASSUME NEW v \in Ues PROVE (Known(v) \/ Moved(v) \/ Unseen(v))'
  <2>1. CASE v # u
    BY <1>1, <1>2, <1>4, <2>1, SameLocated DEF Located
  <2>2. CASE v = u /\ Known(u)
    BY <1>2, <1>3, <1>4, <2>2 DEF Known
  <2>3. CASE v = u /\ Moved(u)
    <3>1. Wait(u) = ReportDelay
      BY <1>2 DEF Wait
    <3>2. Wait(u)' = ReportDelay
      BY <1>2, <1>3, <1>4, <1>5 DEF Wait
    <3> QED  BY <1>2, <2>3, <3>1, <3>2 DEF Moved
  <2>4. CASE v = u /\ Unseen(u)
    BY <1>2, <1>3, <1>4, <1>5, <1>6, <2>4 DEF Unseen
  <2> QED  BY <1>1, <2>1, <2>2, <2>3, <2>4 DEF Located
<1> QED  BY <1>7, <1>8 DEF Located

LEMMA ReceiveLocated ==
    ASSUME Observed, CapacityInv, NEW u \in Ues, ReceiveReport(u)
    PROVE  Arrived' /\ Located'
<1>1. LoopInv /\ Located /\ Arrived
  BY DEF CapacityInv, SingleInv, ReservedInv
<1>2. UNCHANGED <<cell, pending, since, warmup>>
  BY DEF ReceiveReport, ueVars, lmVars
<1> DEFINE r == report[u]
<1>3. /\ InFlight(u)
      /\ \A v \in Ues \ {u} : info'[v] = info[v] /\ view'[v] = view[v] /\ report'[v] = report[v]
      /\ located \subseteq located'
  BY RowEffect
<1>4. \/ report'[u] = Done /\ info'[u] = r.cell /\ view'[u].cell = r.cell /\ u \in located'
      \/ /\ report'[u] \in Flights /\ report'[u].cell = r.cell /\ report'[u].left = r.left
         /\ report'[u].id = u
         /\ info'[u] \in {info[u], r.cell} /\ view'[u].cell \in {view[u].cell, NoCell, r.cell}
         /\ "info" \notin report'[u].todo => info'[u] = r.cell
         /\ "location" \notin report'[u].todo => u \in located'
         /\ "serving" \notin report'[u].todo => view'[u].cell = r.cell
  BY RowEffect
<1>5. /\ r # NotYet /\ r # Done /\ r.left \in Nat /\ r.cell \in Cells /\ NotYet # Done
      /\ Done \notin Flights /\ NotYet \notin Flights
  BY <1>1, <1>3, Kinds, Consts DEF Flights, NotYet, Done
<1> HIDE DEF r
<1>6. Arrived'
  <2> SUFFICES ASSUME NEW v \in Ues, InFlight(v)'
      PROVE  /\ report'[v].id = v
             /\ "info" \notin report'[v].todo => info'[v] = report'[v].cell
             /\ "location" \notin report'[v].todo => v \in located'
             /\ "serving" \notin report'[v].todo => view'[v].cell = report'[v].cell
    BY DEF Arrived
  <2>1. CASE v = u
    BY <1>4, <1>5, <2>1 DEF InFlight
  <2>2. CASE v # u
    BY <1>1, <1>3, <2>2 DEF Arrived, InFlight
  <2> QED  BY <2>1, <2>2
<1>7. ASSUME NEW v \in Ues PROVE (Known(v) \/ Moved(v) \/ Unseen(v))'
  <2>1. CASE v # u
    BY <1>1, <1>2, <1>3, <2>1, SameLocated DEF Located
  <2>2. CASE v = u /\ report'[u] = Done /\ r.cell = cell[u]
    BY <1>2, <1>4, <1>5, <2>2 DEF Known, InFlight
  <2>3. CASE v = u /\ report'[u] = Done /\ r.cell # cell[u]
    <3>1. ~Known(u) /\ ~Unseen(u)
      BY <1>3, <1>5, <2>3 DEF Known, Unseen, r
    <3>2. Moved(u)
      BY <1>1, <3>1 DEF Located
    <3>3. Wait(u) = r.left + 1 + ReportDelay
      BY <1>5, <2>3 DEF Wait, r
    <3>4. Wait(u)' = ReportDelay + 1
      BY <1>5, <2>3 DEF Wait
    <3>5. since[u] \in Nat
      BY <1>1, <3>2, MovedLong
    <3>6. since[u] + Wait(u) <= CommandDelay + 2 * ReportDelay + 1
      BY <3>2 DEF Moved
    <3>7. since[u] + Wait(u)' <= CommandDelay + 2 * ReportDelay + 1
      BY <1>5, <3>3, <3>4, <3>5, <3>6, Consts
    <3> QED  BY <1>2, <2>3, <3>2, <3>7 DEF Moved
  <2>4. CASE v = u /\ report'[u] \in Flights
    <3>1. report'[u].cell = r.cell /\ report'[u].left = r.left /\ report'[u] # NotYet /\ report'[u] # Done
          /\ info'[u] \in {info[u], r.cell} /\ view'[u].cell \in {view[u].cell, NoCell, r.cell}
      BY <1>4, <1>5, <2>4
    <3>2. CASE Known(u)
      BY <1>2, <1>3, <2>4, <3>1, <3>2 DEF Known, r
    <3>3. CASE Moved(u)
      <4>1. Wait(u)' = Wait(u)
        BY <1>2, <1>5, <3>1 DEF Wait, r
      <4> QED  BY <1>2, <2>4, <3>3, <4>1 DEF Moved
    <3>4. CASE Unseen(u)
      BY <1>2, <1>5, <2>4, <3>1, <3>4 DEF Unseen, InFlight, r
    <3> QED  BY <1>1, <3>2, <3>3, <3>4 DEF Located
  <2> QED  BY <1>4, <2>1, <2>2, <2>3, <2>4
<1> QED  BY <1>6, <1>7 DEF Located

\* A UE moves while its handover is pending.
LEMMA CommandLocated ==
    ASSUME Observed, CapacityInv, NEW m \in cmds, ReceiveCommand(m)
    PROVE  Arrived' /\ Located'
<1>1. LoopInv /\ Located /\ Arrived /\ SingleInv
  BY DEF CapacityInv, SingleInv, ReservedInv
<1>2. UNCHANGED <<report, view, info, located, pending, since, warmup>>
      /\ (cell' = cell \/ cell' = [cell EXCEPT ![m.ue] = m.to])
  BY DEF ReceiveCommand, repoVars, lmVars
<1>3. Arrived'
  BY <1>1, <1>2 DEF Arrived, InFlight
<1>4. /\ m.ue \in Ues /\ pending[m.ue] = m.to /\ since[m.ue] \in Nat /\ since[m.ue] <= CommandDelay
  BY <1>1, OwnReservation, Slack
<1>5. ASSUME NEW v \in Ues PROVE (Known(v) \/ Moved(v) \/ Unseen(v))'
  <2>1. CASE cell'[v] = cell[v]
    BY <1>1, <1>2, <2>1, SameLocated DEF Located
  <2>2. CASE cell'[v] # cell[v]
    <3>1. v = m.ue /\ cell'[v] = m.to
      BY <1>1, <1>2, <1>4, <2>2 DEF LoopInv, Typed, UeTyped
    <3>2. Wait(v)' \in Nat /\ Wait(v)' <= 2 * ReportDelay + 1
      <4>1. report[v] # NotYet /\ report[v] # Done => report[v].left \in 0 .. ReportDelay
        BY <1>1, Kinds
      <4> QED  BY <1>2, <4>1, Consts DEF Wait
    <3>3. since[v] + Wait(v)' <= CommandDelay + 2 * ReportDelay + 1
      BY <1>4, <3>1, <3>2, Consts
    <3> QED  BY <1>2, <1>4, <3>1, <3>3 DEF Moved
  <2> QED  BY <2>1, <2>2
<1> QED  BY <1>3, <1>5 DEF Located

-----------------------------------------------------------------------------
(* Capacity: reservations and attachments together.                        *)

LEMMA ClaimsFinite ==
    ASSUME NEW c, NEW C
    PROVE  IsFiniteSet(Claims(c, C)) /\ Cardinality(Claims(c, C)) \in Nat /\ Claims(c, C) \in SUBSET Ues
<1>1. Claims(c, C) \in SUBSET Ues /\ Claims(c, C) \in SUBSET Ids
  BY Consts DEF Claims
<1> QED  BY <1>1, FiniteIds

\* A run starts with a load that counts every UE in a cell or on its way to it.
LEMMA LoadCounts ==
    ASSUME Observed, CapacityInv, Run, warmup = 0, NEW c \in Cells, Cap[c] # 0
    PROVE  Cardinality(Claims(c, cmds)) <= EffectiveLoad(StillPending)[c]
<1>1. LoopInv /\ Located /\ Fixed /\ SingleInv
  BY DEF CapacityInv, SingleInv, ReservedInv
<1> DEFINE A == {i \in UeInfos : CountedIn(i) = c}
           B == {i \in Ids : StillPending[i] = c}
<1>2. Claims(c, cmds) \subseteq A \cup B
  <2> SUFFICES ASSUME NEW u \in Claims(c, cmds), u \notin B PROVE u \in A
    OBVIOUS
  <2>1. u \in Ues /\ u \in Ids /\ u \in listed /\ cell[u] \in Cells
    BY <1>1, Consts DEF Claims, Fixed, LoopInv, Typed, UeTyped
  <2>2. ASSUME NEW m \in cmds, m.ue = u, m.to = c PROVE FALSE
    <3>1. pending[u] = c /\ since[u] < HoAttemptTimeout
      BY <1>1, <2>2, OwnReservation, Slack
    <3> QED  BY <2>1, <3>1 DEF StillPending, KeptPending
  <2>3. cell[u] = c
    BY <2>2 DEF Claims
  <2>4. ~Moved(u)
    <3>1. Moved(u) => pending[u] = c /\ since[u] < HoAttemptTimeout
      BY <1>1, <2>1, <2>3, MovedLong
    <3> QED  BY <2>1, <3>1 DEF StillPending, KeptPending
  <2>5. ~Unseen(u)
    <3>1. InFlight(u) => report[u].left \in Nat
      BY <1>1, <2>1, Kinds, Consts
    <3>2. ~(0 > ReportDelay) /\ (InFlight(u) => ~(0 > report[u].left))
      BY <3>1, Consts
    <3> QED  BY <3>2 DEF Unseen
  <2>6. Known(u)
    BY <1>1, <2>1, <2>4, <2>5 DEF Located
  <2> QED  BY <2>1, <2>3, <2>6, Consts DEF Known, UeInfos, CountedIn
<1>3. A \in SUBSET Ids /\ B \in SUBSET Ids
  BY <1>1 DEF UeInfos, LoopInv, Typed, RegTyped
<1>4. /\ IsFiniteSet(A) /\ Cardinality(A) \in Nat /\ IsFiniteSet(B) /\ Cardinality(B) \in Nat
      /\ IsFiniteSet(A \cap B) /\ Cardinality(A \cap B) \in Nat
  BY <1>3, FiniteIds
<1>5. /\ RealLoad(c) = Cardinality(A) /\ Reserved(StillPending, c) = Cardinality(B)
  BY DEF RealLoad, Reserved
<1> HIDE DEF A, B
<1>6. /\ IsFiniteSet(A \cup B)
      /\ Cardinality(A \cup B) = Cardinality(A) + Cardinality(B) - Cardinality(A \cap B)
  BY <1>4, FS_Union
<1>7. Cardinality(Claims(c, cmds)) <= Cardinality(A \cup B)
  BY <1>2, <1>6, FS_Subset
<1>8. Cardinality(Claims(c, cmds)) \in Nat
  BY ClaimsFinite
<1>9. Cardinality(Claims(c, cmds)) <= RealLoad(c) + Reserved(StillPending, c)
  BY <1>4, <1>5, <1>6, <1>7, <1>8
<1>10. Cardinality(Claims(c, cmds)) <= Cap[c]
  BY DEF CapacityInv, Room
<1>11. Cap[c] \in Nat /\ RealLoad(c) \in Nat /\ Reserved(StillPending, c) \in Nat
  BY <1>4, <1>5, ConstantsAssumption
<1> QED  BY <1>8, <1>9, <1>10, <1>11 DEF EffectiveLoad

\* Through the run, the load counts the commands decided so far, and never passes the cap.
LEMMA RunRoom == ASSUME Observed, CapacityInv, Run PROVE Room'
<1>1. LoopInv /\ Room
  BY DEF CapacityInv, SingleInv, ReservedInv
<1>2. cmds' = cmds \cup GetHandoverCommands.cmds /\ cell' = cell
  BY DEF Run, ueVars
<1>3. CASE warmup # 0
  <2>1. \A i \in Ids : ~Reconsidered(i)
    BY <1>1, <1>3, NothingPending
  <2>2. GetHandoverCommands.cmds = {}
    BY <1>1, <2>1, RunEffect DEF Sent
  <2> QED  BY <1>1, <1>2, <2>2 DEF Room, Claims
<1>4. CASE warmup = 0
  <2> DEFINE Claimed(k, c) == Cardinality(Claims(c, cmds \cup After[k].cmds))
             K == {k \in 0 .. MaxIds : \A c \in Cells : Cap[c] # 0 =>
                     Claimed(k, c) <= After[k].load[c] /\ Claimed(k, c) <= Cap[c]}
  <2>1. MaxIds \in Nat
    BY Consts
  <2>2. 0 \in K
    <3>1. After[0] = Start
      BY <2>1, Loop
    <3>2. After[0].cmds = {} /\ After[0].load = EffectiveLoad(StillPending)
      BY <3>1 DEF Start
    <3>3. cmds \cup After[0].cmds = cmds
      BY <3>2
    <3>4. ASSUME NEW c \in Cells, Cap[c] # 0
          PROVE  Claimed(0, c) <= After[0].load[c] /\ Claimed(0, c) <= Cap[c]
      BY <1>1, <1>4, <3>2, <3>3, <3>4, LoadCounts DEF Room
    <3> QED  BY <2>1, <3>4
  <2>3. ASSUME NEW k \in 1 .. MaxIds, k - 1 \in K PROVE k \in K
    <3>1. k \in Ids /\ k - 1 \in 0 .. MaxIds /\ k \in 0 .. MaxIds
      BY <2>1 DEF Ids
    <3> DEFINE S == After[k - 1]
               T == After[k]
    <3>2. T = Evaluate(S, k)
      BY <2>1, Loop
    <3>3. Halfway(k - 1, S)
      BY <1>1, <3>1, HalfwayAll
    <3>4. Quiet(S, T, k) \/ \E c \in Cells : Emits(S, T, k, c)
      BY <1>1, <3>1, <3>2, <3>3, HalfwayStep
    <3>5. \A c \in Cells : S.load[c] \in Nat /\ Cap[c] \in Nat
      BY <3>3, ConstantsAssumption DEF Halfway, LmStates
    <3>6. S.load \in [Cells -> Nat]
      BY <3>3 DEF Halfway, LmStates
    <3> SUFFICES ASSUME NEW c \in Cells, Cap[c] # 0
                 PROVE  Claimed(k, c) <= T.load[c] /\ Claimed(k, c) <= Cap[c]
      BY <3>1
    <3>7. /\ Cardinality(Claims(c, cmds \cup S.cmds)) <= S.load[c]
          /\ Cardinality(Claims(c, cmds \cup S.cmds)) <= Cap[c]
      BY <2>3
    <3> HIDE DEF S, T, K
    <3>8. CASE Quiet(S, T, k)
      BY <3>7, <3>8 DEF Quiet, T
    <3>9. ASSUME NEW d \in Cells, Emits(S, T, k, d)
          PROVE  Claimed(k, c) <= T.load[c] /\ Claimed(k, c) <= Cap[c]
      <4>1. /\ T.cmds = S.cmds \cup {HoCommand(k, d)} /\ T.load = [S.load EXCEPT ![d] = @ + 1]
            /\ ~Full(S.load, d)
        BY <3>9 DEF Emits
      <4>2. HoCommand(k, d).to = d /\ HoCommand(k, d).ue = owner[k]
        BY DEF HoCommand
      <4>3. CASE c # d
        <5>1. Claims(c, cmds \cup T.cmds) = Claims(c, cmds \cup S.cmds)
          BY <4>1, <4>2, <4>3 DEF Claims
        <5>2. T.load[c] = S.load[c]
          BY <3>6, <4>1, <4>3
        <5> QED  BY <3>7, <5>1, <5>2 DEF T
      <4>4. CASE c = d
        <5> DEFINE X == Claims(c, cmds \cup S.cmds)
        <5>1. Claims(c, cmds \cup T.cmds) \subseteq X \cup {owner[k]}
          BY <4>1, <4>2 DEF Claims
        <5>2. IsFiniteSet(X) /\ Cardinality(X) \in Nat
          BY ClaimsFinite
        <5> HIDE DEF X
        <5>3. /\ IsFiniteSet(X \cup {owner[k]})
              /\ Cardinality(X \cup {owner[k]}) = IF owner[k] \in X THEN Cardinality(X) ELSE Cardinality(X) + 1
          BY <5>2, FS_AddElement
        <5>4. Cardinality(Claims(c, cmds \cup T.cmds)) <= Cardinality(X \cup {owner[k]})
          BY <5>1, <5>3, FS_Subset
        <5>5. Cardinality(Claims(c, cmds \cup T.cmds)) \in Nat
          BY ClaimsFinite
        <5>6. Cardinality(Claims(c, cmds \cup T.cmds)) <= Cardinality(X) + 1
          BY <5>2, <5>3, <5>4, <5>5
        <5>7. S.load[c] < Cap[c] /\ T.load[c] = S.load[c] + 1
          BY <3>5, <3>6, <4>1, <4>4 DEF Full
        <5>8. Cardinality(X) <= S.load[c]
          BY <3>7 DEF X
        <5>9. S.load[c] \in Nat /\ Cap[c] \in Nat
          BY <3>5
        <5>10. /\ Cardinality(Claims(c, cmds \cup T.cmds)) <= T.load[c]
               /\ Cardinality(Claims(c, cmds \cup T.cmds)) <= Cap[c]
          BY <5>2, <5>5, <5>6, <5>7, <5>8, <5>9
        <5> QED  BY <5>10 DEF T
      <4> QED  BY <4>3, <4>4
    <3> QED  BY <3>4, <3>8, <3>9
  <2>4. \A k \in 0 .. MaxIds : k \in K
    <3> HIDE DEF K
    <3> QED  BY <2>1, <2>2, <2>3, UpTo
  <2>5. \A c \in Cells : Cap[c] # 0 => Claimed(MaxIds, c) <= Cap[c]
    <3>1. MaxIds \in K
      BY <2>1, <2>4
    <3> QED  BY <3>1
  <2>6. \A c \in Cells : Claims(c, cmds)' = Claims(c, cmds \cup After[MaxIds].cmds)
    BY <1>2 DEF Claims, GetHandoverCommands
  <2> QED  BY <2>5, <2>6 DEF Room
<1> QED  BY <1>3, <1>4

\* Another step adds no claim.
LEMMA SameRoom ==
    ASSUME Room, \A c \in Cells : Claims(c, cmds)' \subseteq Claims(c, cmds)
    PROVE  Room'
<1> SUFFICES ASSUME NEW c \in Cells, Cap[c] # 0 PROVE Cardinality(Claims(c, cmds)') <= Cap[c]
  BY DEF Room
<1>1. IsFiniteSet(Claims(c, cmds)) /\ Cardinality(Claims(c, cmds)) \in Nat
  BY ClaimsFinite
<1>2. Claims(c, cmds)' \in SUBSET Claims(c, cmds)
  OBVIOUS
<1>3. /\ IsFiniteSet(Claims(c, cmds)') /\ Cardinality(Claims(c, cmds)') <= Cardinality(Claims(c, cmds))
  BY <1>1, <1>2, FS_Subset
<1>4. Cardinality(Claims(c, cmds)') \in Nat
  BY <1>3, FS_CardinalityType
<1>5. Cardinality(Claims(c, cmds)) <= Cap[c] /\ Cap[c] \in Nat
  BY ConstantsAssumption DEF Room
<1> QED  BY <1>1, <1>3, <1>4, <1>5

LEMMA CommandRoom == ASSUME Observed, CapacityInv, NEW m \in cmds, ReceiveCommand(m) PROVE Room'
<1>1. cmds' \subseteq cmds /\ (cell' = cell \/ cell' = [cell EXCEPT ![m.ue] = m.to]) /\ Room
  BY DEF ReceiveCommand, CapacityInv
<1>2. m.ue \in Ues /\ cell \in [Ues -> Cells]
  BY DEF CapacityInv, SingleInv, ReservedInv, LoopInv, Typed, UeTyped, CmdTyped, HoCommands
<1>3. \A c \in Cells : Claims(c, cmds)' \subseteq Claims(c, cmds)
  BY <1>1, <1>2 DEF Claims
<1> QED  BY <1>1, <1>3, SameRoom

LEMMA TickRoom == ASSUME Observed, CapacityInv, Tick PROVE Room'
<1>1. Room /\ LoopInv /\ cell' = cell
  BY DEF CapacityInv, SingleInv, ReservedInv, Tick, ueVars
<1>2. ASSUME NEW n \in cmds' PROVE \E m \in cmds : n.ue = m.ue /\ n.to = m.to
  BY <1>1, CommandTick
<1>3. \A c \in Cells : Claims(c, cmds)' \subseteq Claims(c, cmds)
  BY <1>1, <1>2 DEF Claims
<1> QED  BY <1>1, <1>3, SameRoom

LEMMA InitCapacity == ASSUME Observed PROVE Init => CapacityInv
<1> SUFFICES ASSUME Init PROVE CapacityInv
  OBVIOUS
<1>1. SingleInv
  BY InitSingle
<1>2. \A u \in Ues : report[u] = NotYet /\ ~InFlight(u)
  BY DEF Init, InFlight, Flights, NotYet
<1>3. Arrived
  BY <1>2 DEF Arrived
<1>4. Located
  BY <1>2 DEF Located, Unseen, Init, Observed
<1>5. cmds = {}
  BY DEF Init
<1>6. \A c \in Cells : Claims(c, cmds) = {u \in Ues : cell[u] = c}
  BY <1>5 DEF Claims
<1>7. Room
  BY <1>6 DEF Room, Init
<1> QED  BY <1>1, <1>3, <1>4, <1>5, <1>7 DEF CapacityInv, Waiting

LEMMA StepWaiting == ASSUME CapacityInv, [Next]_vars PROVE Waiting'
<1>1. LoopInv /\ Waiting
  BY DEF CapacityInv, SingleInv, ReservedInv
<1>2. CASE Run
  <2>1. cmds' = cmds \cup GetHandoverCommands.cmds /\ warmup' = warmup /\ warmup \in Nat
    BY <1>1, <1>2 DEF Run, LoopInv, Typed, LmTyped
  <2>2. warmup # 0 => GetHandoverCommands.cmds = {}
    BY <1>1, NothingPending, RunEffect DEF Sent
  <2> QED  BY <1>1, <2>1, <2>2 DEF Waiting
<1>3. CASE Tick
  <2>1. warmup' = Sooner(warmup) /\ warmup \in Nat /\ cmds' = {[m EXCEPT !.left = @ - 1] : m \in cmds}
    BY <1>1, <1>3 DEF Tick, LoopInv, Typed, LmTyped
  <2>2. warmup' > 0 => warmup > 0
    BY <2>1 DEF Sooner
  <2> QED  BY <1>1, <2>1, <2>2 DEF Waiting
<1>4. CASE warmup' = warmup /\ cmds' \subseteq cmds
  BY <1>1, <1>4 DEF Waiting
<1>5. CASE UNCHANGED vars
  BY <1>4, <1>5, Stutter
<1> QED  BY <1>2, <1>3, <1>4, <1>5 DEF Next, GenerateReports, ReceiveReport, Deregister, Reregister,
            GnbRegistration, ReceiveCommand, lmVars

LEMMA StepCapacity == ASSUME Observed, Registered, CapacityInv, [Next]_vars PROVE CapacityInv'
<1>1. SingleInv' /\ Waiting'
  BY StepSingle, StepWaiting, Slack DEF CapacityInv
<1>2. \A u \in Ues : ~Deregister(u) /\ ~Reregister(u)
  BY DEF Registered, CapacityInv, SingleInv, Fixed, Deregister, Reregister
<1>3. ASSUME UNCHANGED <<cell, report, view, info, located, warmup, pending, since>> PROVE Arrived' /\ Located'
  <2>1. Located /\ Arrived
    BY DEF CapacityInv
  <2>2. \A u \in Ues : (Known(u) \/ Moved(u) \/ Unseen(u))'
    BY <1>3, <2>1, SameLocated DEF Located
  <2>3. Arrived'
    BY <1>3, <2>1 DEF Arrived, InFlight
  <2> QED  BY <2>2, <2>3 DEF Located
<1>4. ASSUME UNCHANGED <<cell, cmds>> PROVE Room'
  BY <1>4 DEF CapacityInv, Room, Claims
<1>5. CASE UNCHANGED vars
  BY <1>1, <1>3, <1>4, <1>5, Stutter DEF CapacityInv
<1>6. ASSUME NEW c \in Cells, GnbRegistration(c) PROVE Arrived' /\ Located' /\ Room'
  BY <1>3, <1>4, <1>6 DEF GnbRegistration, ueVars, repoVars, lmVars
<1>7. ASSUME NEW u \in Ues, GenerateReports(u) PROVE Arrived' /\ Located' /\ Room'
  BY <1>4, <1>7, GenerateLocated DEF GenerateReports, ueVars
<1>8. ASSUME NEW u \in Ues, ReceiveReport(u) PROVE Arrived' /\ Located' /\ Room'
  BY <1>4, <1>8, ReceiveLocated DEF ReceiveReport, ueVars
<1>9. CASE Next
  <2>1. Arrived' /\ Located' /\ Room'
    BY <1>2, <1>6, <1>7, <1>8, <1>9, RunLocated, RunRoom, TickLocated, TickRoom, CommandLocated,
       CommandRoom DEF Next
  <2> QED  BY <1>1, <2>1 DEF CapacityInv
<1> QED  BY <1>5, <1>9

\* With timeouts that outlive what is under way, handovers never fill a cell beyond its
\* capacity, for any number of UEs and cells (effectiveLoad, pendingHoTarget).
THEOREM CapacityKept == ASSUME Observed, Registered PROVE Spec => []CapacityRespected
<1>1. CapacityInv => CapacityRespected
  <2> SUFFICES ASSUME CapacityInv, NEW c \in Cells, Cap[c] # 0
               PROVE  Cardinality({u \in Ues : cell[u] = c}) <= Cap[c]
    BY DEF CapacityRespected
  <2>1. IsFiniteSet(Claims(c, cmds)) /\ Cardinality(Claims(c, cmds)) \in Nat
    BY ClaimsFinite
  <2>2. {u \in Ues : cell[u] = c} \in SUBSET Claims(c, cmds)
    BY DEF Claims
  <2>3. /\ Cardinality({u \in Ues : cell[u] = c}) <= Cardinality(Claims(c, cmds))
        /\ IsFiniteSet({u \in Ues : cell[u] = c})
    BY <2>1, <2>2, FS_Subset
  <2>4. Cardinality({u \in Ues : cell[u] = c}) \in Nat
    BY <2>3, FS_CardinalityType
  <2>5. Cardinality(Claims(c, cmds)) <= Cap[c] /\ Cap[c] \in Nat
    BY ConstantsAssumption DEF CapacityInv, Room
  <2> QED  BY <2>1, <2>3, <2>4, <2>5
<1> QED  BY <1>1, InitCapacity, StepCapacity, PTL DEF Spec

-----------------------------------------------------------------------------
(* Time to trigger.                                                        *)

LEMMA InitTrigger == Init => TriggerInv
  BY InitLoop DEF Init, TriggerInv, Counting

LEMMA RunTrigger ==
    ASSUME TriggerInv, Run
    PROVE  /\ Counting'
           /\ \A i \in listed : ttt'[i] # NoTtt /\ view[i].cell # NoCell => ttt'[i].cell \in Better(i)
<1> DEFINE S == GetHandoverCommands
<1>1. LoopInv /\ Counting /\ gnbs = Cells
  BY DEF TriggerInv
<1>2. /\ pending' = S.pending /\ since' = S.since /\ blocked' = S.blocked /\ ttt' = S.ttt
      /\ UNCHANGED <<warmup, info, located>>
  BY DEF Run, repoVars
<1>3. \A i \in Ids : Left(S, i) \/ \E c \in Cells : Sent(S, i, c)
  BY <1>1, RunEffect
<1> HIDE DEF S
<1>4. ASSUME NEW i \in Ids, S.ttt[i] # NoTtt
      PROVE  /\ warmup = 0 /\ S.blocked[i] = 0 /\ S.since[i] >= MinHoInterval
             /\ S.pending[i] = NoCell /\ info[i] # NoCell /\ i \in located
             /\ i \in listed /\ view[i].cell # NoCell => S.ttt[i].cell \in Better(i)
  <2>1. Left(S, i)
    BY <1>3, <1>4 DEF Sent
  <2>2. S.since[i] = since[i] /\ TttOf(S, i)
        /\ (S.pending[i] = StillPending[i] \/ S.pending[i] = NoCell)
    BY <2>1 DEF Left
  <2>3. CASE Reconsidered(i) /\ S.ttt[i].cell \in Better(i) /\ S.blocked[i] = blocked[i] /\ S.pending[i] = NoCell
    BY <1>1, <2>2, <2>3, NothingPending
  <2>4. CASE /\ S.ttt[i] = ttt[i] /\ S.blocked[i] = blocked[i]
             /\ i \notin UeInfos \/ Gated(Start, i) \/ view[i].cell \notin gnbs
    <3>1. /\ warmup = 0 /\ blocked[i] = 0 /\ since[i] >= MinHoInterval
          /\ pending[i] = NoCell /\ info[i] # NoCell /\ i \in located
      BY <1>1, <1>4, <2>4 DEF Counting
    <3>2. StillPending[i] = NoCell
      BY <3>1 DEF StillPending
    <3>3. since[i] \in Nat
      BY <1>1, Consts DEF LoopInv, Typed, LmTyped
    <3>4. ASSUME i \in listed, view[i].cell # NoCell PROVE FALSE
      <4>1. i \in UeInfos
        BY <3>1, <3>4 DEF UeInfos
      <4>2. view[i].cell \in gnbs
        BY <1>1, <3>4 DEF LoopInv, Typed, RepoTyped, ViewTyped
      <4>3. Start.pending[i] = NoCell
        BY <3>2 DEF Start
      <4>4. ~Gated(Start, i)
        BY <3>1, <3>3, <3>4, <4>3, Consts DEF Gated
      <4> QED  BY <2>4, <4>1, <4>2, <4>4
    <3> QED  BY <2>2, <2>4, <3>1, <3>2, <3>4
  <2> QED  BY <1>4, <2>2, <2>3, <2>4 DEF TttOf
<1>5. Counting'
  BY <1>2, <1>4 DEF Counting
<1>6. listed \subseteq Ids
  BY <1>1 DEF LoopInv, Typed, RegTyped
<1> QED  BY <1>2, <1>4, <1>5, <1>6

LEMMA TickTrigger == ASSUME TriggerInv, Tick PROVE Counting'
<1>1. LoopInv /\ Counting
  BY DEF TriggerInv
<1>2. /\ since' = [i \in Ids |-> Later(since[i], Horizon)] /\ warmup' = Sooner(warmup)
      /\ blocked' = [i \in Ids |-> Sooner(blocked[i])] /\ UNCHANGED <<pending, info, located>>
      /\ ttt' = [i \in Ids |-> IF ttt[i] = NoTtt THEN NoTtt
                               ELSE [ttt[i] EXCEPT !.age = Later(@, TimeToTrigger)]]
  BY DEF Tick, repoVars
<1> SUFFICES ASSUME NEW i \in Ids, ttt'[i] # NoTtt
      PROVE  /\ warmup' = 0 /\ blocked'[i] = 0 /\ since'[i] >= MinHoInterval
             /\ pending'[i] = NoCell /\ info'[i] # NoCell /\ i \in located'
  BY DEF Counting
<1>3. ttt[i] # NoTtt
  BY <1>2
<1>4. /\ warmup = 0 /\ blocked[i] = 0 /\ since[i] >= MinHoInterval /\ pending[i] = NoCell /\ info[i] # NoCell
      /\ i \in located
  BY <1>1, <1>3 DEF Counting
<1>5. warmup' = 0 /\ blocked'[i] = 0
  BY <1>2, <1>4 DEF Sooner
<1>6. since[i] \in 0 .. Horizon
  BY <1>1 DEF LoopInv, Typed, LmTyped
<1>7. since'[i] \in 0 .. Horizon /\ since[i] <= since'[i]
  BY <1>2, <1>6, Consts, LaterType
<1>8. since'[i] >= MinHoInterval
  BY <1>4, <1>6, <1>7, Consts
<1> QED  BY <1>2, <1>4, <1>5, <1>8

LEMMA StepTrigger == ASSUME "gnb" \notin Faults, TriggerInv, [Next]_vars PROVE TriggerInv'
<1>1. LoopInv' /\ LoopInv /\ Counting
  BY StepLoop DEF TriggerInv
<1>2. gnbs' = gnbs
  BY DEF Next, vars, regVars, Run, Tick, GenerateReports, ReceiveReport, Deregister, Reregister,
     GnbRegistration, ReceiveCommand
<1>3. ASSUME UNCHANGED <<warmup, since, pending, blocked, ttt>>,
             \A i \in Ids : info'[i] = info[i] \/ info'[i] # NoCell, located \subseteq located'
      PROVE  Counting'
  BY <1>1, <1>3 DEF Counting
<1>4. ASSUME NEW u \in Ues, ReceiveReport(u) PROVE Counting'
  <2>1. UNCHANGED <<warmup, since, pending, blocked, ttt>>
    BY <1>4 DEF ReceiveReport, lmVars
  <2>2. \A i \in Ids : info'[i] = info[i] \/ info'[i] # NoCell
    <3>1. report[u].cell \in Cells
      BY <1>1, <1>4, RowStored DEF InFlight, Flights
    <3>2. info' = info \/ info' = [info EXCEPT ![report[u].id] = report[u].cell]
      BY <1>4 DEF ReceiveReport
    <3> QED  BY <1>1, <3>1, <3>2, Consts DEF LoopInv, Typed, RepoTyped
  <2>3. located \subseteq located'
    BY <1>4 DEF ReceiveReport
  <2> QED  BY <1>3, <2>1, <2>2, <2>3
<1>5. CASE UNCHANGED <<warmup, since, pending, blocked, ttt, info, located>>
  BY <1>1, <1>2, <1>3, <1>5 DEF TriggerInv
<1>6. CASE UNCHANGED vars
  BY <1>5, <1>6, Stutter
<1>7. CASE Next
  <2>1. \/ Run \/ Tick \/ \E u \in Ues : ReceiveReport(u)
        \/ UNCHANGED <<warmup, since, pending, blocked, ttt, info, located>>
    BY <1>7 DEF Next, GenerateReports, Deregister, Reregister, GnbRegistration, ReceiveCommand, lmVars,
       repoVars
  <2>2. Counting'
    BY <1>3, <1>4, <2>1, RunTrigger, TickTrigger
  <2> QED  BY <1>1, <1>2, <2>2 DEF TriggerInv
<1> QED  BY <1>6, <1>7

\* While gNBs stay registered, after a run the time to trigger counts only for a cell that
\* was better in this run (tttState).
THEOREM TriggerContinuous == ASSUME "gnb" \notin Faults PROVE Spec => TttContinuous
<1> DEFINE A == ran' # ran /\ ran' =>
                  \A i \in listed : ttt'[i] # NoTtt /\ view[i].cell # NoCell => ttt'[i].cell \in Better(i)
<1>1. ASSUME TriggerInv, [Next]_vars PROVE A
  <2>1. CASE Run
    BY <1>1, <2>1, RunTrigger
  <2>2. CASE Tick
    BY <2>2 DEF Tick
  <2>3. CASE ran' = ran
    BY <2>3
  <2> QED  BY <1>1, <2>1, <2>2, <2>3 DEF Next, vars, GenerateReports, ReceiveReport, Deregister,
              Reregister, GnbRegistration, ReceiveCommand
<1>2. TttContinuous <=> [][A]_vars
  BY DEF TttContinuous
<1>3. TriggerInv /\ [Next]_vars => [A]_vars
  BY <1>1
<1> QED  BY <1>2, <1>3, InitTrigger, StepTrigger, PTL DEF Spec
=============================================================================

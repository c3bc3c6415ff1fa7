--------------------------- MODULE RicQueryCycle ---------------------------
(***************************************************************************)
(* The query cycle of OranNearRtRic and the runs of its OranLm modules:    *)
(* periodic and report-triggered queries, LM processing delays, the        *)
(* maximum wait time, late commands, Start and Stop, and the replacement   *)
(* of LMs while the RIC runs.                                              *)
(*                                                                         *)
(* Time is the simulator's clock; an event holds the time it is due, or    *)
(* Off when it is not pending.  Events due at the same time run in any     *)
(* order.  The commands of one run of an LM are one record of the LM and   *)
(* the cycle it ran for; the Conflict Mitigation Module is OranCmmNoop.    *)
(***************************************************************************)
EXTENDS Integers, FiniteSets, Bags

CONSTANTS
    Lms,            \* the OranLm objects, with distinct names
    Default,        \* the initial default LM
    Additional,     \* the initial additional LMs
    LmDelays,       \* the values of an LM's ProcessingDelayRv
    Interval,       \* LmQueryInterval
    MaxWait,        \* LmQueryMaxWaitTime, 0 for no limit
    Policy,         \* LmQueryLateCommandPolicy: "DROP" or "SAVE"
    Allowed,        \* what the scenario does: "trigger", "stop", "reconfigure"
    MaxOps,         \* bound: number of operations of the scenario
    MaxTime         \* bound: simulated time

ASSUME ConstantsAssumption ==
    /\ Default \in Lms
    /\ Additional \subseteq Lms \ {Default}
    /\ IsFiniteSet(Lms)
    /\ LmDelays \subseteq Nat
    /\ Interval \in Nat \ {0}
    /\ MaxWait \in Nat
    /\ Policy \in {"DROP", "SAVE"}
    /\ Allowed \subseteq {"trigger", "stop", "reconfigure"}
    /\ MaxOps \in Nat
    /\ MaxTime \in Nat

VARIABLES
    now,            \* Simulator::Now
    active,         \* OranNearRtRic::m_active
    defaultLm,      \* OranNearRtRic::m_defaultLm
    additional,     \* OranNearRtRic::m_additionalLms
    queryCycle,     \* OranNearRtRic::m_lmQueryCycle
    queryEvent,     \* OranNearRtRic::m_lmQueryEvent
    processEvent,   \* OranNearRtRic::m_processLmQueryCommandsEvent
    orphans,        \* process events the RIC has overwritten, still scheduled
    collected,      \* OranNearRtRic::m_lmQueryCommands
    lmActive,       \* OranLm::m_active
    lmFinish,       \* OranLm::m_finishRunEvent
    lmCycle,        \* OranLm::m_cycle
    lmCommands,     \* OranLm::m_commands
    sent,           \* commands passed to the E2 terminator so far
    aborted,        \* NS_ABORT was reached
    started,        \* history: when the RIC was last started
    ops             \* number of operations of the scenario so far

lmVars    == <<lmActive, lmFinish, lmCycle, lmCommands>>
eventVars == <<queryEvent, processEvent, orphans>>
setVars   == <<defaultLm, additional>>
vars      == <<now, active, setVars, queryCycle, eventVars, collected, lmVars, sent, aborted, started,
               ops>>

Off      == -1
Deployed == additional \cup {defaultLm}
Commands == [lm : Lms, cycle : Nat]

\* The key of an LM in m_lmQueryCommands.
Key(l) == <<l, l = defaultLm>>
Keys   == Lms \X BOOLEAN

Running(l) == lmFinish[l] # Off

\* The empty m_lmQueryCommands.
NoneCollected == [k \in {} |-> {}]

CollectedCommands(C) == UNION {C[k] : k \in DOMAIN C}

Init ==
    /\ now = 0
    /\ active = FALSE
    /\ defaultLm = Default
    /\ additional = Additional
    /\ queryCycle = 0
    /\ queryEvent = Off
    /\ processEvent = Off
    /\ orphans = EmptyBag
    /\ collected = NoneCollected
    /\ lmActive = [l \in Lms |-> FALSE]
    /\ lmFinish = [l \in Lms |-> Off]
    /\ lmCycle = [l \in Lms |-> 0]
    /\ lmCommands = [l \in Lms |-> {}]
    /\ sent = {}
    /\ aborted = FALSE
    /\ started = 0
    /\ ops = 0

Operation(kind) ==
    /\ ops < MaxOps
    /\ ops' = ops + 1
    /\ kind \in Allowed

-----------------------------------------------------------------------------
(* Processing of the collected commands.                                   *)

\* ProcessLmQueryCommands on the collected commands C.
ProcessLmQueryCommands(C) ==
    IF active
    THEN /\ sent' = sent \cup CollectedCommands(C)
         /\ collected' = NoneCollected
         /\ processEvent' = Off
    ELSE /\ collected' = C
         /\ UNCHANGED <<sent, processEvent>>

\* Mutant: without a maximum wait time only.
AwaitedWithoutTimer == MaxWait = 0

\* The commands of the current cycle are still awaited.
Awaited == processEvent # Off \/ MaxWait = 0

\* m_lmQueryCommands[key] = vector, which creates the entry if there is none.
With(C, k, S) == [x \in DOMAIN C \cup {k} |-> IF x = k THEN S ELSE C[x]]

\* Mutant: the late command policy is ignored.
CollectedFromLate(l) == With(collected, Key(l), lmCommands[l])

\* Mutant: the map is replaced, not extended.
CollectedFromLast(l) == [x \in {Key(l)} |-> lmCommands[l]]

\* NotifyLmFinished for the current cycle: m_lmQueryCommands before processing.
CollectedFrom(l) ==
    IF Awaited \/ Policy = "SAVE" THEN With(collected, Key(l), lmCommands[l])
    ELSE IF Key(l) \in DOMAIN collected THEN With(collected, Key(l), {})
    ELSE collected

\* Mutant: the default LM is not counted.
NotifyLmFinishedTooSoon(l) ==
    LET C == CollectedFrom(l)
    IN  /\ UNCHANGED aborted
        /\ IF Cardinality(DOMAIN C) = Cardinality(additional) /\ Awaited
           THEN ProcessLmQueryCommands(C)
           ELSE collected' = C /\ UNCHANGED <<sent, processEvent>>

NotifyLmFinished(l) ==
    LET C == CollectedFrom(l)
    IN  IF lmCycle[l] # queryCycle
        THEN aborted' = TRUE /\ UNCHANGED <<collected, sent, processEvent>>
        ELSE /\ UNCHANGED aborted
             /\ IF Cardinality(DOMAIN C) = Cardinality(additional) + 1 /\ Awaited
                THEN ProcessLmQueryCommands(C)
                ELSE collected' = C /\ UNCHANGED <<sent, processEvent>>

\* OranLm::FinishRun, the event lmFinish.
FinishRun(l) ==
    /\ lmFinish[l] = now
    /\ lmFinish' = [lmFinish EXCEPT ![l] = Off]
    /\ IF lmActive[l]
       THEN /\ NotifyLmFinished(l)
            /\ lmCommands' = [lmCommands EXCEPT ![l] = {}]
       ELSE UNCHANGED <<lmCommands, collected, sent, processEvent, aborted>>
    /\ UNCHANGED <<now, active, setVars, queryCycle, queryEvent, orphans, lmActive, lmCycle,
                   started, ops>>

ProcessEvent ==
    /\ processEvent = now
    /\ active           \* Stop cancels the event
    /\ ProcessLmQueryCommands(collected)
    /\ UNCHANGED <<now, active, setVars, queryCycle, queryEvent, orphans, lmVars, aborted,
                   started, ops>>

\* A process event that QueryLms has overwritten: nothing can cancel it.
OrphanedProcessEvent ==
    /\ BagIn(now, orphans)
    /\ orphans' = orphans (-) SetToBag({now})
    /\ ProcessLmQueryCommands(collected)
    /\ UNCHANGED <<now, active, setVars, queryCycle, queryEvent, lmVars, aborted, started, ops>>

-----------------------------------------------------------------------------
(* Queries.                                                                *)

\* Mutant: an LM that is still running is left alone.
ToRunIdleOnly == {l \in Deployed : lmActive[l] /\ ~Running(l)}

\* The LMs QueryLms starts: a run in progress is cancelled and started again, and
\* OranLm::Run does nothing in an LM that is not active.
ToRun == {l \in Deployed : lmActive[l]}

\* Mutant: the pending end of the previous wait is cancelled.
QueryLmsCancelsWait ==
    /\ queryCycle' = now
    /\ processEvent' = IF MaxWait > 0 THEN now + MaxWait ELSE processEvent
    /\ LET run == ToRun
       IN  \E delay \in [run -> LmDelays] :
             /\ lmFinish' = [l \in Lms |-> IF l \in run THEN now + delay[l] ELSE lmFinish[l]]
             /\ lmCycle' = [l \in Lms |-> IF l \in run THEN now ELSE lmCycle[l]]
             /\ lmCommands' = [l \in Lms |-> IF l \in run THEN {[lm |-> l, cycle |-> now]}
                                             ELSE lmCommands[l]]
    /\ queryEvent' = now + Interval
    /\ UNCHANGED <<now, active, setVars, orphans, collected, lmActive, sent, aborted, started>>

\* QueryLms when the RIC is active: a new cycle, a run of every deployed LM that
\* is active (its previous run is cancelled), the next periodic query.
QueryLms ==
    /\ queryCycle' = now
    /\ IF MaxWait > 0
       THEN /\ processEvent' = now + MaxWait
            /\ orphans' = IF processEvent = Off THEN orphans
                          ELSE orphans (+) SetToBag({processEvent})
       ELSE UNCHANGED <<processEvent, orphans>>
    /\ LET run == ToRun
       IN  \E delay \in [run -> LmDelays] :
             /\ lmFinish' = [l \in Lms |-> IF l \in run THEN now + delay[l] ELSE lmFinish[l]]
             /\ lmCycle' = [l \in Lms |-> IF l \in run THEN now ELSE lmCycle[l]]
             /\ lmCommands' = [l \in Lms |-> IF l \in run THEN {[lm |-> l, cycle |-> now]}
                                             ELSE lmCommands[l]]
    /\ queryEvent' = now + Interval
    /\ UNCHANGED <<now, active, setVars, collected, lmActive, sent, aborted, started>>

PeriodicQuery ==
    /\ queryEvent = now
    /\ active
    /\ QueryLms
    /\ UNCHANGED ops

\* NotifyReportReceived when a query trigger asks for a query.  Reports reach the
\* RIC only while its E2 terminator is active.
TriggeredQuery ==
    /\ Operation("trigger")
    /\ active
    /\ QueryLms

-----------------------------------------------------------------------------
(* Operations of the scenario.                                             *)

\* OranNearRtRic::Activate and Deactivate: OranLm::m_active afterwards.
ActivatedLms   == [l \in Lms |-> l \in Deployed \/ lmActive[l]]
DeactivatedLms == [l \in Lms |-> l \notin Deployed /\ lmActive[l]]

\* Mutant: the next query is scheduled from the last cycle, and only the default LM
\* is activated.
StartFromLastCycle ==
    /\ ops < MaxOps
    /\ ops' = ops + 1
    /\ ~active
    /\ active' = TRUE
    /\ started' = now
    /\ lmActive' = [lmActive EXCEPT ![defaultLm] = TRUE]
    /\ queryEvent' = queryCycle + Interval
    /\ UNCHANGED <<now, setVars, queryCycle, processEvent, orphans, collected,
                   lmFinish, lmCycle, lmCommands, sent, aborted>>

Start ==
    /\ ops < MaxOps
    /\ ops' = ops + 1
    /\ ~active
    /\ active' = TRUE
    /\ started' = now
    /\ lmActive' = ActivatedLms
    /\ queryEvent' = now + Interval
    /\ UNCHANGED <<now, setVars, queryCycle, processEvent, orphans, collected,
                   lmFinish, lmCycle, lmCommands, sent, aborted>>

\* OranLm::Deactivate clears m_active before it calls CancelRun, which then does
\* nothing: the run is not cancelled.
Stop ==
    /\ Operation("stop")
    /\ active
    /\ active' = FALSE
    /\ lmActive' = DeactivatedLms
    /\ queryEvent' = Off
    /\ processEvent' = Off
    /\ UNCHANGED <<now, setVars, queryCycle, orphans, collected,
                   lmFinish, lmCycle, lmCommands, sent, aborted, started>>

\* The LM is not activated, even when the RIC is active.
AddLogicModule(l) ==
    /\ Operation("reconfigure")
    /\ l \notin Deployed
    /\ additional' = additional \cup {l}
    /\ UNCHANGED <<now, active, defaultLm, queryCycle, eventVars, collected, lmVars, sent, aborted,
                   started>>

\* The LM's run goes on, and what it returned stays collected.
RemoveLogicModule(l) ==
    /\ Operation("reconfigure")
    /\ l \in additional
    /\ additional' = additional \ {l}
    /\ UNCHANGED <<now, active, defaultLm, queryCycle, eventVars, collected, lmVars, sent, aborted,
                   started>>

SetDefaultLogicModule(l) ==
    /\ Operation("reconfigure")
    /\ l \notin Deployed
    /\ defaultLm' = l
    /\ UNCHANGED <<now, active, additional, queryCycle, eventVars, collected, lmVars, sent, aborted,
                   started>>

\* Time advances to the next instant when no event is due.
Tick ==
    /\ now < MaxTime
    /\ now \notin {queryEvent, processEvent}
    /\ ~BagIn(now, orphans)
    /\ \A l \in Lms : lmFinish[l] # now
    /\ now' = now + 1
    /\ UNCHANGED <<active, setVars, queryCycle, eventVars, collected, lmVars, sent, aborted,
                   started, ops>>

\* An abort ends the simulation.
Next ==
    /\ ~aborted
    /\ \/ PeriodicQuery
       \/ TriggeredQuery
       \/ ProcessEvent
       \/ OrphanedProcessEvent
       \/ Start
       \/ Stop
       \/ Tick
       \/ \E l \in Lms : \/ FinishRun(l)
                         \/ AddLogicModule(l)
                         \/ RemoveLogicModule(l)
                         \/ SetDefaultLogicModule(l)

Spec == Init /\ [][Next]_vars

-----------------------------------------------------------------------------
(* Properties.                                                             *)

\* Every variable has its type, and no event is overdue: the simulator's clock
\* never passes the time an event of the RIC or of an LM was scheduled for.
TypeOK ==
    /\ now \in Nat
    /\ active \in BOOLEAN
    /\ defaultLm \in Lms
    /\ additional \subseteq Lms
    /\ queryCycle \in Nat /\ queryCycle <= now
    /\ queryEvent \in Nat \cup {Off} /\ (queryEvent # Off => queryEvent >= now)
    /\ processEvent \in Nat \cup {Off} /\ (processEvent # Off => processEvent >= now)
    /\ BagToSet(orphans) \subseteq Nat /\ (\A t \in BagToSet(orphans) : t >= now)
    /\ DOMAIN collected \subseteq Keys
    /\ \A k \in DOMAIN collected : collected[k] \subseteq Commands
    /\ lmActive \in [Lms -> BOOLEAN]
    /\ lmFinish \in [Lms -> Nat \cup {Off}] /\ (\A l \in Lms : Running(l) => lmFinish[l] >= now)
    /\ lmCycle \in [Lms -> Nat]
    /\ lmCommands \in [Lms -> SUBSET Commands]
    /\ sent \subseteq Commands
    /\ aborted \in BOOLEAN
    /\ started \in Nat
    /\ ops \in Nat

\* The RIC never reaches the abort "received command for unexpected cycle" of
\* NotifyLmFinished, however runs, cancelled runs, triggered queries, stops and
\* restarts interleave.
NoAbort == ~aborted

\* Every run that has not finished was started for the current cycle and belongs
\* to a deployed LM (OranLm::m_cycle, m_lmQueryCycle).
CycleAgreement ==
    \A l \in Lms : Running(l) => l \in Deployed /\ lmCycle[l] = queryCycle

\* No command is sent later than the maximum wait time after the query it answers
\* (m_lmQueryMaxWaitTime, policy DROP): also when the next query comes before that,
\* overwrites the end of the wait and leaves what was collected to its own batch.  (A
\* command that Stop has left behind is sent with whatever batch follows the restart.)
SentInTime ==
    [][\A c \in sent' \ sent : c.cycle > started => now <= c.cycle + MaxWait]_vars

\* An active RIC always has its next periodic query pending, at most an interval
\* away, also after a triggered query cancelled the previous one and after a
\* restart; a stopped RIC has none (m_lmQueryEvent).
QueryArmed ==
    IF active THEN queryEvent \in now..(now + Interval) ELSE queryEvent = Off

\* Commands are processed before the maximum wait time is over only "once all LMs
\* have returned commands" of this cycle (NotifyLmFinished).
OnlyWhenAllReturned ==
    [][sent' # sent /\ (MaxWait = 0 \/ now < queryCycle + MaxWait)
         => \A l \in Deployed : [lm |-> l, cycle |-> queryCycle] \in sent']_vars

\* "if the timer expires and some LMs are still in the processing state, then the
\* Near-RT RIC sends the Commands that were collected from the LMs that finished
\* on time": commands of a run that finishes before the maximum wait time is over
\* are collected or sent, never treated as late.
OnTimeNotDropped ==
    [][\A l \in Lms : Running(l) /\ lmFinish'[l] = Off /\ active
                        /\ (MaxWait = 0 \/ now < lmCycle[l] + MaxWait)
         => lmCommands[l] \subseteq CollectedCommands(collected') \cup sent']_vars

\* Collected commands stay collected until they are sent: "the Near-RT RIC will save
\* the Commands for the next run or discard them based on a configurable policy",
\* and what is not discarded is not lost (m_lmQueryCommands).
NotLost ==
    [][CollectedCommands(collected) \subseteq CollectedCommands(collected') \cup sent']_vars

\* The promise of QueryRound.
Round == INSTANCE QueryRound WITH
            Lms       <- Additional \cup {Default},
            MayExpire <- MaxWait > 0,
            open      <- IF MaxWait > 0 THEN processEvent # Off
                                        ELSE \E l \in Lms : Running(l),
            cycle     <- queryCycle,
            answered  <- {k[1] : k \in DOMAIN collected},
            sent      <- sent

\* With no triggered queries and LMs that finish, or a maximum wait time that ends,
\* before the next query, the RIC keeps the promise of QueryRound: every query
\* sends the answers of exactly this round, once.
ImplementsRound == Round!Spec
=============================================================================

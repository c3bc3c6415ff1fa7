------------------------ MODULE RicQueryCycleProofs ------------------------
(***************************************************************************)
(* Proofs about RicQueryCycle for any logic modules, delays, intervals,    *)
(* wait times, policies and bounds.                                        *)
(***************************************************************************)
EXTENDS RicQueryCycle, TLAPS

-----------------------------------------------------------------------------
(* The next periodic query.                                                *)

\* The clock is a natural number and the next query is armed.
ArmedInv == now \in Nat /\ QueryArmed

\* The RIC is created inactive, with no query pending.
LEMMA InitArmed == Init => ArmedInv
BY DEF Init, ArmedInv, QueryArmed

\* Every step keeps the next query armed.
LEMMA NextArmed == ArmedInv /\ [Next]_vars => ArmedInv'
<1> SUFFICES ASSUME ArmedInv, [Next]_vars PROVE ArmedInv'
  OBVIOUS
<1> USE ConstantsAssumption DEF ArmedInv, QueryArmed
<1>1. CASE PeriodicQuery \/ TriggeredQuery
  <2>1. active /\ active' = active /\ now' = now /\ queryEvent' = now + Interval
    BY <1>1 DEF PeriodicQuery, TriggeredQuery, QueryLms
  <2> QED  BY <2>1
<1>2. CASE ProcessEvent \/ OrphanedProcessEvent
  BY <1>2 DEF ProcessEvent, OrphanedProcessEvent
<1>3. CASE Start
  BY <1>3 DEF Start
<1>4. CASE Stop
  BY <1>4 DEF Stop
<1>5. CASE Tick
  <2>1. now' = now + 1 /\ active' = active /\ queryEvent' = queryEvent /\ queryEvent # now
    BY <1>5 DEF Tick, eventVars
  <2> QED  BY <2>1
<1>6. ASSUME NEW l \in Lms, FinishRun(l) PROVE ArmedInv'
  BY <1>6 DEF FinishRun
<1>7. ASSUME NEW l \in Lms, AddLogicModule(l) \/ RemoveLogicModule(l) \/ SetDefaultLogicModule(l)
      PROVE  ArmedInv'
  BY <1>7 DEF AddLogicModule, RemoveLogicModule, SetDefaultLogicModule, eventVars
<1>8. CASE UNCHANGED vars
  BY <1>8 DEF vars, eventVars
<1> QED  BY <1>1, <1>2, <1>3, <1>4, <1>5, <1>6, <1>7, <1>8 DEF Next

\* An active RIC has its next periodic query pending within an interval, a stopped
\* one has none, for every scenario: triggered queries, stops and restarts, and
\* the replacement of logic modules (QueryLms, Activate, Deactivate).
THEOREM AlwaysArmed == Spec => []QueryArmed
<1>1. ArmedInv => QueryArmed
  BY DEF ArmedInv
<1> QED  BY <1>1, InitArmed, NextArmed, PTL DEF Spec

-----------------------------------------------------------------------------
(* Runs of logic modules belong to the current cycle.                      *)

\* The types the argument needs.
RunTypes ==
    /\ now \in Nat
    /\ defaultLm \in Lms
    /\ additional \subseteq Lms
    /\ lmActive \in [Lms -> BOOLEAN]
    /\ lmFinish \in [Lms -> Nat \cup {Off}]
    /\ lmCycle \in [Lms -> Nat]

\* While the RIC is active so is every deployed logic module.
DeployedActive == active => \A l \in Deployed : lmActive[l]

\* The inductive invariant: an unfinished run is of the current cycle because each
\* query runs every deployed logic module again, which needs all of them active.
CycleInv == RunTypes /\ NoAbort /\ CycleAgreement /\ DeployedActive

\* Nothing runs before the RIC starts.
LEMMA InitCycle == Init => CycleInv
<1> SUFFICES ASSUME Init PROVE CycleInv
  OBVIOUS
<1>1. RunTypes
  BY ConstantsAssumption DEF Init, RunTypes
<1>2. NoAbort /\ DeployedActive
  BY DEF Init, NoAbort, DeployedActive
<1>3. CycleAgreement
  BY DEF Init, CycleAgreement, Running, Deployed
<1> QED  BY <1>1, <1>2, <1>3 DEF CycleInv

\* A query, periodic or triggered, keeps the invariant: the runs that it does not
\* restart are none.
LEMMA QueryKeepsCycle ==
    ASSUME CycleInv, active, QueryLms
    PROVE  CycleInv'
<1> USE ConstantsAssumption DEF CycleInv
<1>1. PICK delay \in [ToRun -> LmDelays] :
          /\ lmFinish' = [l \in Lms |-> IF l \in ToRun THEN now + delay[l] ELSE lmFinish[l]]
          /\ lmCycle' = [l \in Lms |-> IF l \in ToRun THEN now ELSE lmCycle[l]]
  BY DEF QueryLms
<1>2. now' = now /\ active' = active /\ UNCHANGED <<defaultLm, additional>> /\ lmActive' = lmActive
      /\ aborted' = aborted /\ queryCycle' = now
  BY DEF QueryLms, setVars
<1>3. RunTypes'
  <2>1. \A l \in ToRun : delay[l] \in Nat
    BY <1>1
  <2> QED  BY <1>1, <1>2, <2>1 DEF RunTypes
<1>4. CycleAgreement'
  <2> SUFFICES ASSUME NEW l \in Lms, Running(l)'
               PROVE  (l \in Deployed /\ lmCycle[l] = queryCycle)'
    BY DEF CycleAgreement
  <2>1. CASE l \in ToRun
    BY <1>1, <1>2, <2>1 DEF ToRun, Deployed
  <2>2. CASE l \notin ToRun
    <3>1. Running(l)
      BY <1>1, <2>2 DEF Running
    <3>2. l \in Deployed /\ lmActive[l]
      BY <3>1 DEF CycleAgreement, DeployedActive
    <3> QED  BY <2>2, <3>2 DEF ToRun
  <2> QED  BY <2>1, <2>2
<1>5. NoAbort' /\ DeployedActive'
  BY <1>2 DEF NoAbort, DeployedActive, Deployed
<1> QED  BY <1>3, <1>4, <1>5

\* A step that starts no run and changes no cycle keeps the invariant, if it
\* deploys and deactivates nothing.
LEMMA SameRuns ==
    ASSUME CycleInv, now' \in Nat,
           UNCHANGED <<active, setVars, queryCycle, lmVars, aborted>>
    PROVE  CycleInv'
BY DEF CycleInv, RunTypes, NoAbort, CycleAgreement, DeployedActive, Running, Deployed,
       setVars, lmVars

\* Every step keeps the invariant, as long as no logic module is replaced.
LEMMA NextCycle ==
    ASSUME "reconfigure" \notin Allowed, CycleInv, [Next]_vars
    PROVE  CycleInv'
<1> USE ConstantsAssumption
<1>0. now \in Nat
  BY DEF CycleInv, RunTypes
<1>1. CASE PeriodicQuery \/ TriggeredQuery
  BY <1>1, QueryKeepsCycle DEF PeriodicQuery, TriggeredQuery
<1>2. CASE ProcessEvent \/ OrphanedProcessEvent
  BY <1>0, <1>2, SameRuns DEF ProcessEvent, OrphanedProcessEvent
<1>3. CASE Start
  <2>1. now' = now /\ lmFinish' = lmFinish /\ lmCycle' = lmCycle /\ aborted' = aborted
        /\ UNCHANGED <<defaultLm, additional>> /\ queryCycle' = queryCycle
    BY <1>3 DEF Start, setVars
  <2>2. lmActive' = [l \in Lms |-> l \in Deployed \/ lmActive[l]]
    BY <1>3 DEF Start, ActivatedLms
  <2>3. RunTypes' /\ NoAbort' /\ CycleAgreement'
    BY <2>1, <2>2 DEF CycleInv, RunTypes, NoAbort, CycleAgreement, Running, Deployed
  <2>4. Deployed \subseteq Lms
    BY DEF CycleInv, RunTypes, Deployed
  <2> QED  BY <2>1, <2>2, <2>3, <2>4 DEF CycleInv, DeployedActive, Deployed
<1>4. CASE Stop
  <2>1. now' = now /\ lmFinish' = lmFinish /\ lmCycle' = lmCycle /\ aborted' = aborted
        /\ UNCHANGED <<defaultLm, additional>> /\ queryCycle' = queryCycle /\ active' = FALSE
    BY <1>4 DEF Stop, setVars
  <2>2. lmActive' = [l \in Lms |-> l \notin Deployed /\ lmActive[l]]
    BY <1>4 DEF Stop, DeactivatedLms
  <2>3. RunTypes' /\ NoAbort' /\ CycleAgreement'
    BY <2>1, <2>2 DEF CycleInv, RunTypes, NoAbort, CycleAgreement, Running, Deployed
  <2> QED  BY <2>1, <2>3 DEF CycleInv, DeployedActive, Deployed
<1>5. CASE Tick
  BY <1>0, <1>5, SameRuns DEF Tick
<1>6. ASSUME NEW l \in Lms, FinishRun(l) PROVE CycleInv'
  <2>1. now' = now /\ active' = active /\ lmActive' = lmActive /\ lmCycle' = lmCycle
        /\ UNCHANGED <<defaultLm, additional>> /\ queryCycle' = queryCycle
        /\ lmFinish' = [lmFinish EXCEPT ![l] = Off]
    BY <1>6 DEF FinishRun, setVars
  <2>2. lmCycle[l] = queryCycle
    BY <1>0, <1>6 DEF CycleInv, CycleAgreement, Running, FinishRun, Off
  <2>3. aborted' = aborted
    BY <1>6, <2>2 DEF FinishRun, NotifyLmFinished
  <2>4. RunTypes'
    BY <2>1 DEF CycleInv, RunTypes
  <2>5. CycleAgreement'
    BY <2>1 DEF CycleInv, RunTypes, CycleAgreement, Running, Deployed
  <2> QED  BY <2>1, <2>3, <2>4, <2>5 DEF CycleInv, NoAbort, DeployedActive, Deployed
<1>7. ASSUME NEW l \in Lms, AddLogicModule(l) \/ RemoveLogicModule(l) \/ SetDefaultLogicModule(l)
      PROVE  CycleInv'
  BY <1>7 DEF AddLogicModule, RemoveLogicModule, SetDefaultLogicModule, Operation
<1>8. CASE UNCHANGED vars
  BY <1>0, <1>8, SameRuns DEF vars
<1> QED  BY <1>1, <1>2, <1>3, <1>4, <1>5, <1>6, <1>7, <1>8 DEF Next

\* The invariant holds in every reachable state, as long as no logic module is replaced.
LEMMA CycleKept ==
    ASSUME "reconfigure" \notin Allowed
    PROVE  Spec => []CycleInv
<1>1. CycleInv /\ [Next]_vars => CycleInv'
  BY NextCycle
<1> QED  BY <1>1, InitCycle, PTL DEF Spec

\* With a fixed set of logic modules the abort of NotifyLmFinished is unreachable:
\* no interleaving of runs, cancelled runs, triggered queries, stops and restarts
\* makes a logic module report a run of another cycle.
THEOREM CyclesAgree ==
    ASSUME "reconfigure" \notin Allowed
    PROVE  Spec => []NoAbort
<1>1. CycleInv => NoAbort
  BY DEF CycleInv
<1> QED  BY <1>1, CycleKept, PTL

\* With a fixed set of logic modules every unfinished run is of a deployed logic
\* module and of the current cycle, because a query restarts the runs in progress.
THEOREM RunsAreCurrent ==
    ASSUME "reconfigure" \notin Allowed
    PROVE  Spec => []CycleAgreement
<1>1. CycleInv => CycleAgreement
  BY DEF CycleInv
<1> QED  BY <1>1, CycleKept, PTL

-----------------------------------------------------------------------------
(* Type correctness.                                                       *)

\* The parts of TypeOK about the RIC, its events, the logic modules and commands.
RicTypes ==
    /\ now \in Nat
    /\ active \in BOOLEAN
    /\ defaultLm \in Lms
    /\ additional \subseteq Lms
    /\ queryCycle \in Nat /\ queryCycle <= now
    /\ aborted \in BOOLEAN
    /\ started \in Nat
    /\ ops \in Nat

EventTypes ==
    /\ queryEvent \in Nat \cup {Off} /\ (queryEvent # Off => queryEvent >= now)
    /\ processEvent \in Nat \cup {Off} /\ (processEvent # Off => processEvent >= now)
    /\ BagToSet(orphans) \subseteq Nat /\ (\A t \in BagToSet(orphans) : t >= now)

LmTypes ==
    /\ lmActive \in [Lms -> BOOLEAN]
    /\ lmFinish \in [Lms -> Nat \cup {Off}] /\ (\A l \in Lms : Running(l) => lmFinish[l] >= now)
    /\ lmCycle \in [Lms -> Nat]
    /\ lmCommands \in [Lms -> SUBSET Commands]

CommandTypes(C) ==
    /\ DOMAIN C \subseteq Keys
    /\ \A k \in DOMAIN C : C[k] \subseteq Commands

TypeParts == RicTypes /\ EventTypes /\ LmTypes /\ CommandTypes(collected) /\ sent \subseteq Commands

\* TypeOK is its parts.
LEMMA Parts == TypeOK <=> TypeParts
BY DEF TypeOK, TypeParts, RicTypes, EventTypes, LmTypes, CommandTypes

\* Scheduling one more process event adds its time, a delivery adds none.
LEMMA OrphanTimes ==
    ASSUME NEW B, NEW t
    PROVE  /\ BagToSet(B (+) SetToBag({t})) = BagToSet(B) \cup {t}
           /\ BagToSet(B (-) SetToBag({t})) \subseteq BagToSet(B)
BY DEF BagToSet, (+), (-), SetToBag

\* The initial state has the types.
LEMMA InitType == Init => TypeOK
<1> SUFFICES ASSUME Init PROVE TypeParts
  BY Parts
<1> USE ConstantsAssumption
<1>0. active \in BOOLEAN /\ aborted \in BOOLEAN
  BY DEF Init
<1>1. RicTypes
  <2>1. now = 0 /\ queryCycle = 0 /\ started = 0 /\ ops = 0 /\ defaultLm \in Lms /\ additional \subseteq Lms
    BY DEF Init
  <2> QED  BY <1>0, <2>1 DEF RicTypes
<1>2. BagToSet(orphans) = {}
  BY DEF Init, EmptyBag, SetToBag, BagToSet
<1>3. EventTypes
  BY <1>2 DEF Init, EventTypes
<1>4. LmTypes
  BY DEF Init, LmTypes, Running
<1>5. CommandTypes(collected) /\ sent \subseteq Commands
  BY DEF Init, CommandTypes, NoneCollected
<1> QED  BY <1>1, <1>3, <1>4, <1>5 DEF TypeParts

\* Processing what was collected keeps the types.
LEMMA ProcessType ==
    ASSUME TypeParts, NEW C, CommandTypes(C), ProcessLmQueryCommands(C)
    PROVE  /\ CommandTypes(collected') /\ sent' \subseteq Commands
           /\ processEvent' \in {processEvent, Off}
<1>1. CollectedCommands(C) \subseteq Commands
  BY DEF CommandTypes, CollectedCommands
<1>2. CommandTypes(NoneCollected)
  BY DEF CommandTypes, NoneCollected
<1> QED  BY <1>1, <1>2 DEF ProcessLmQueryCommands, TypeParts

\* What the RIC collects from a run has the type of a collection.
LEMMA CollectedType ==
    ASSUME TypeParts, NEW l \in Lms
    PROVE  CommandTypes(CollectedFrom(l))
<1>1. Key(l) \in Keys
  BY DEF Key, Keys
<1>2. lmCommands[l] \subseteq Commands
  BY DEF TypeParts, LmTypes
<1>3. ASSUME NEW S, S \subseteq Commands PROVE CommandTypes(With(collected, Key(l), S))
  BY <1>1, <1>3 DEF TypeParts, CommandTypes, With
<1> QED  BY <1>2, <1>3 DEF CollectedFrom, TypeParts

\* The end of a run keeps the types.
LEMMA NotifyType ==
    ASSUME TypeParts, NEW l \in Lms, NotifyLmFinished(l)
    PROVE  /\ CommandTypes(collected') /\ sent' \subseteq Commands
           /\ processEvent' \in {processEvent, Off} /\ aborted' \in BOOLEAN
<1>1. CommandTypes(CollectedFrom(l))
  BY CollectedType
<1>2. aborted' \in BOOLEAN
  BY DEF NotifyLmFinished, TypeParts, RicTypes
<1>3. CASE lmCycle[l] # queryCycle
  BY <1>2, <1>3 DEF NotifyLmFinished, TypeParts
<1>4. CASE lmCycle[l] = queryCycle
  <2>1. \/ ProcessLmQueryCommands(CollectedFrom(l))
        \/ collected' = CollectedFrom(l) /\ UNCHANGED <<sent, processEvent>>
    BY <1>4 DEF NotifyLmFinished
  <2> QED  BY <1>1, <1>2, <2>1, ProcessType DEF TypeParts
<1> QED  BY <1>3, <1>4

\* A query keeps the types.
LEMMA QueryType ==
    ASSUME TypeParts, QueryLms, ops' \in Nat
    PROVE  TypeParts'
<1> USE ConstantsAssumption
<1>1. now' = now /\ active' = active /\ defaultLm' = defaultLm /\ additional' = additional
      /\ lmActive' = lmActive /\ collected' = collected /\ sent' = sent
      /\ queryCycle' = now /\ queryEvent' = now + Interval /\ aborted' = aborted
      /\ started' = started
  BY DEF QueryLms, setVars
<1>2. RicTypes'
  BY <1>1 DEF TypeParts, RicTypes
<1>3. /\ processEvent' \in Nat \cup {Off} /\ (processEvent' # Off => processEvent' >= now)
      /\ orphans' = orphans \/ (processEvent # Off /\ orphans' = orphans (+) SetToBag({processEvent}))
  BY DEF QueryLms, TypeParts, EventTypes, RicTypes
<1>4. BagToSet(orphans') \subseteq BagToSet(orphans) \cup ({processEvent} \ {Off})
  <2>1. CASE orphans' = orphans
    BY <2>1
  <2>2. CASE processEvent # Off /\ orphans' = orphans (+) SetToBag({processEvent})
    <3>1. BagToSet(orphans (+) SetToBag({processEvent})) = BagToSet(orphans) \cup {processEvent}
      BY OrphanTimes
    <3> QED  BY <2>2, <3>1
  <2> QED  BY <1>3, <2>1, <2>2
<1>5. EventTypes'
  BY <1>1, <1>3, <1>4 DEF TypeParts, EventTypes, RicTypes
<1>6. LmTypes'
  <2>1. PICK delay \in [ToRun -> LmDelays] :
          /\ lmFinish' = [l \in Lms |-> IF l \in ToRun THEN now + delay[l] ELSE lmFinish[l]]
          /\ lmCycle' = [l \in Lms |-> IF l \in ToRun THEN now ELSE lmCycle[l]]
          /\ lmCommands' = [l \in Lms |-> IF l \in ToRun THEN {[lm |-> l, cycle |-> now]}
                                          ELSE lmCommands[l]]
    BY DEF QueryLms
  <2>2. now \in Nat /\ \A l \in ToRun : delay[l] \in Nat
    BY <2>1 DEF TypeParts, RicTypes
  <2>3. lmCycle' \in [Lms -> Nat]
    BY <2>1, <2>2 DEF TypeParts, LmTypes
  <2>4. lmCommands' \in [Lms -> SUBSET Commands]
    BY <2>1, <2>2 DEF TypeParts, LmTypes, Commands
  <2>5. lmFinish' \in [Lms -> Nat \cup {Off}] /\ \A l \in Lms : Running(l)' => lmFinish'[l] >= now'
    BY <1>1, <2>1, <2>2 DEF TypeParts, LmTypes, Running
  <2> QED  BY <1>1, <2>3, <2>4, <2>5 DEF TypeParts, LmTypes
<1> QED  BY <1>1, <1>2, <1>5, <1>6 DEF TypeParts, CommandTypes

\* Every step keeps the types.
LEMMA NextType == TypeOK /\ [Next]_vars => TypeOK'
<1> SUFFICES ASSUME TypeParts, [Next]_vars PROVE TypeParts'
  BY Parts DEF TypeOK, TypeParts, RicTypes, EventTypes, LmTypes, CommandTypes
<1> USE ConstantsAssumption
<1>1. CASE PeriodicQuery
  BY <1>1, QueryType DEF PeriodicQuery, TypeParts, RicTypes
<1>2. CASE TriggeredQuery
  BY <1>2, QueryType DEF TriggeredQuery, Operation, TypeParts, RicTypes
<1>3. CASE ProcessEvent
  <2>1. CommandTypes(collected') /\ sent' \subseteq Commands /\ processEvent' \in {processEvent, Off}
    BY <1>3, ProcessType DEF ProcessEvent, TypeParts
  <2>2. RicTypes' /\ LmTypes'
    BY <1>3 DEF ProcessEvent, TypeParts, RicTypes, LmTypes, Running, setVars, lmVars
  <2>3. EventTypes'
    BY <1>3, <2>1 DEF ProcessEvent, TypeParts, EventTypes
  <2> QED  BY <2>1, <2>2, <2>3 DEF TypeParts, CommandTypes
<1>4. CASE OrphanedProcessEvent
  <2>1. CommandTypes(collected') /\ sent' \subseteq Commands /\ processEvent' \in {processEvent, Off}
    BY <1>4, ProcessType DEF OrphanedProcessEvent, TypeParts
  <2>2. RicTypes' /\ LmTypes'
    BY <1>4 DEF OrphanedProcessEvent, TypeParts, RicTypes, LmTypes, Running, setVars, lmVars
  <2>3. BagToSet(orphans') \subseteq BagToSet(orphans)
    BY <1>4, OrphanTimes DEF OrphanedProcessEvent
  <2>4. EventTypes'
    BY <1>4, <2>1, <2>3 DEF OrphanedProcessEvent, TypeParts, EventTypes
  <2> QED  BY <2>1, <2>2, <2>4 DEF TypeParts, CommandTypes
<1>5. CASE Start
  <2>1. RicTypes' /\ EventTypes'
    BY <1>5 DEF Start, TypeParts, RicTypes, EventTypes, setVars
  <2>2. LmTypes'
    BY <1>5 DEF Start, ActivatedLms, TypeParts, LmTypes, Running
  <2> QED  BY <1>5, <2>1, <2>2 DEF Start, TypeParts, CommandTypes
<1>6. CASE Stop
  <2>0. ops' = ops + 1 /\ UNCHANGED <<now, defaultLm, additional, queryCycle, aborted, started>>
    BY <1>6 DEF Stop, Operation, setVars
  <2>9. active' \in BOOLEAN
    BY <1>6 DEF Stop
  <2>1. RicTypes' /\ EventTypes'
    <3>1. RicTypes'
      BY <2>0, <2>9 DEF TypeParts, RicTypes
    <3>2. EventTypes'
      BY <1>6 DEF Stop, TypeParts, EventTypes
    <3> QED  BY <3>1, <3>2
  <2>2. LmTypes'
    BY <1>6 DEF Stop, DeactivatedLms, TypeParts, LmTypes, Running
  <2> QED  BY <1>6, <2>1, <2>2 DEF Stop, TypeParts, CommandTypes
<1>7. CASE Tick
  <2>1. RicTypes'
    BY <1>7 DEF Tick, TypeParts, RicTypes, setVars
  <2>2. EventTypes'
    <3>1. now \notin BagToSet(orphans)
      BY <1>7 DEF Tick, BagIn
    <3> QED  BY <1>7, <3>1 DEF Tick, TypeParts, RicTypes, EventTypes, eventVars
  <2>3. LmTypes'
    BY <1>7 DEF Tick, TypeParts, RicTypes, LmTypes, Running, lmVars
  <2> QED  BY <1>7, <2>1, <2>2, <2>3 DEF Tick, TypeParts, CommandTypes
<1>8. ASSUME NEW l \in Lms, FinishRun(l) PROVE TypeParts'
  <2>1. /\ CommandTypes(collected') /\ sent' \subseteq Commands
        /\ processEvent' \in {processEvent, Off} /\ aborted' \in BOOLEAN
    <3>1. CASE lmActive[l]
      BY <1>8, <3>1, NotifyType DEF FinishRun
    <3>2. CASE ~lmActive[l]
      BY <1>8, <3>2 DEF FinishRun, TypeParts, RicTypes
    <3> QED  BY <3>1, <3>2
  <2>2. RicTypes'
    BY <1>8, <2>1 DEF FinishRun, TypeParts, RicTypes, setVars
  <2>3. EventTypes'
    BY <1>8, <2>1 DEF FinishRun, TypeParts, EventTypes
  <2>4. lmFinish' = [lmFinish EXCEPT ![l] = Off] /\ UNCHANGED <<now, lmActive, lmCycle>>
        /\ (lmCommands' = lmCommands \/ lmCommands' = [lmCommands EXCEPT ![l] = {}])
    BY <1>8 DEF FinishRun
  <2>5. LmTypes'
    BY <2>4 DEF TypeParts, LmTypes, Running
  <2> QED  BY <2>1, <2>2, <2>3, <2>5 DEF TypeParts, CommandTypes
<1>9. ASSUME NEW l \in Lms, AddLogicModule(l) \/ RemoveLogicModule(l) \/ SetDefaultLogicModule(l)
      PROVE  TypeParts'
  <2>1. RicTypes'
    BY <1>9 DEF AddLogicModule, RemoveLogicModule, SetDefaultLogicModule, Operation,
                TypeParts, RicTypes
  <2>2. UNCHANGED <<now, eventVars, lmVars, collected, sent>>
    BY <1>9 DEF AddLogicModule, RemoveLogicModule, SetDefaultLogicModule
  <2> QED  BY <2>1, <2>2 DEF TypeParts, EventTypes, LmTypes, CommandTypes, Running, eventVars, lmVars
<1>10. CASE UNCHANGED vars
  BY <1>10 DEF vars, setVars, eventVars, lmVars, TypeParts, RicTypes, EventTypes, LmTypes,
               CommandTypes, Running
<1> QED  BY <1>1, <1>2, <1>3, <1>4, <1>5, <1>6, <1>7, <1>8, <1>9, <1>10 DEF Next

\* No event of the RIC or of a logic module is ever overdue, and every variable has
\* its type, for every scenario (Simulator::Schedule, QueryLms, Run).
THEOREM TypeCorrect == Spec => []TypeOK
BY InitType, NextType, PTL DEF Spec

-----------------------------------------------------------------------------
(* Commands are sent in time.                                              *)

\* The ends of waits that are still to come.
Ends == ({processEvent} \ {Off}) \cup BagToSet(orphans)

\* The commands of C are of cycles that have begun, and when the RIC is active the wait of
\* each such cycle since the start ends some time: by the event the RIC knows, or by one
\* it has overwritten.
EndsInTime(C) ==
    \A c \in CollectedCommands(C) :
        c.cycle <= now /\ (active /\ c.cycle > started => c.cycle + MaxWait \in Ends)

\* The inductive invariant, with CycleInv and TypeOK.
WaitInv ==
    /\ \A l \in Lms : \A c \in lmCommands[l] : c.cycle = lmCycle[l]
    /\ processEvent \in {Off, queryCycle + MaxWait}
    /\ EndsInTime(collected)

\* Nothing is collected in the empty map.
LEMMA NoneIsEmpty == CollectedCommands(NoneCollected) = {}
BY DEF CollectedCommands, NoneCollected

\* What is collected from a run under the policy DROP is timely.
LEMMA CollectedInTime ==
    ASSUME MaxWait > 0, Policy = "DROP", TypeOK, CycleInv, WaitInv, NEW l \in Lms, lmFinish[l] = now
    PROVE  lmCycle[l] = queryCycle /\ EndsInTime(CollectedFrom(l))
<1> USE ConstantsAssumption
<1>1. lmCycle[l] = queryCycle
  BY DEF TypeOK, CycleInv, CycleAgreement, Running, Off
<1>2. CollectedCommands(CollectedFrom(l)) \subseteq
        CollectedCommands(collected) \cup (IF Awaited THEN lmCommands[l] ELSE {})
  <2>1. ASSUME NEW S PROVE CollectedCommands(With(collected, Key(l), S)) \subseteq
                             CollectedCommands(collected) \cup S
    BY DEF CollectedCommands, With
  <2> QED  BY <2>1 DEF CollectedFrom
<1>3. ASSUME NEW c \in lmCommands[l], Awaited
      PROVE  c.cycle <= now /\ c.cycle + MaxWait \in Ends
  <2>1. c.cycle = queryCycle /\ queryCycle <= now
    BY <1>1 DEF WaitInv, TypeOK
  <2>2. processEvent = queryCycle + MaxWait /\ processEvent # Off
    BY <1>3 DEF Awaited, WaitInv
  <2> QED  BY <2>1, <2>2 DEF Ends
<1> QED  BY <1>1, <1>2, <1>3 DEF WaitInv, EndsInTime

\* What a step sends is in time and what it leaves collected is timely, when it processes
\* timely commands or only collects them.
LEMMA BatchInTime ==
    ASSUME MaxWait > 0, TypeOK, NEW C, EndsInTime(C), UNCHANGED <<now, active, started>>,
           \/ ProcessLmQueryCommands(C)
           \/ collected' = C /\ UNCHANGED <<sent, processEvent, orphans>>
    PROVE  /\ \A c \in sent' \ sent : c.cycle > started => now <= c.cycle + MaxWait
           /\ EndsInTime(collected)'
<1>1. CASE ProcessLmQueryCommands(C) /\ active
  <2>1. sent' = sent \cup CollectedCommands(C) /\ CollectedCommands(collected') = {}
    BY <1>1, NoneIsEmpty DEF ProcessLmQueryCommands
  <2>2. \A t \in Ends : now <= t
    BY DEF Ends, TypeOK
  <2> QED  BY <1>1, <2>1, <2>2 DEF EndsInTime, CollectedCommands
<1>2. CASE ProcessLmQueryCommands(C) /\ ~active
  <2>1. sent' = sent /\ collected' = C
    BY <1>2 DEF ProcessLmQueryCommands
  <2> QED  BY <1>2, <2>1 DEF EndsInTime
<1>3. CASE collected' = C /\ UNCHANGED <<sent, processEvent, orphans>>
  BY <1>3 DEF EndsInTime, Ends
<1> QED  BY <1>1, <1>2, <1>3

\* Whatever a step sends is in time.
InTime == \A c \in sent' \ sent : c.cycle > started => now <= c.cycle + MaxWait

\* A query hands the end of the previous wait on and starts another one.
LEMMA QueryInTime ==
    ASSUME MaxWait > 0, TypeOK, WaitInv, QueryLms
    PROVE  WaitInv' /\ InTime
<1> USE ConstantsAssumption
<1>1. /\ UNCHANGED <<now, active, started, collected, sent>>
      /\ queryCycle' = now /\ processEvent' = now + MaxWait
      /\ orphans' = IF processEvent = Off THEN orphans ELSE orphans (+) SetToBag({processEvent})
  BY DEF QueryLms
<1>2. PICK run : /\ lmCycle' = [l \in Lms |-> IF l \in run THEN now ELSE lmCycle[l]]
                 /\ lmCommands' = [l \in Lms |-> IF l \in run THEN {[lm |-> l, cycle |-> now]}
                                                 ELSE lmCommands[l]]
  BY DEF QueryLms
<1>3. Ends \subseteq Ends'
  <2>1. BagToSet(orphans (+) SetToBag({processEvent})) = BagToSet(orphans) \cup {processEvent}
    BY OrphanTimes
  <2> QED  BY <1>1, <2>1 DEF Ends
<1>4. EndsInTime(collected)'
  BY <1>1, <1>3 DEF WaitInv, EndsInTime
<1>5. \A l \in Lms : \A c \in lmCommands'[l] : c.cycle = lmCycle'[l]
  BY <1>2 DEF WaitInv
<1>6. InTime
  BY <1>1 DEF InTime
<1> QED  BY <1>1, <1>4, <1>5, <1>6 DEF WaitInv

\* Every step keeps the invariant and sends in time, as long as no logic module is replaced.
LEMMA NextInTime ==
    ASSUME "reconfigure" \notin Allowed, MaxWait > 0, Policy = "DROP",
           TypeOK, CycleInv, WaitInv, [Next]_vars
    PROVE  WaitInv' /\ InTime
<1> USE ConstantsAssumption
<1>0. EndsInTime(collected)
  BY DEF WaitInv
<1>1. CASE PeriodicQuery \/ TriggeredQuery
  BY <1>1, QueryInTime DEF PeriodicQuery, TriggeredQuery
<1>2. CASE ProcessEvent \/ OrphanedProcessEvent
  <2>1. /\ ProcessLmQueryCommands(collected)
        /\ UNCHANGED <<now, active, started, queryCycle, lmCycle, lmCommands>>
    BY <1>2 DEF ProcessEvent, OrphanedProcessEvent, lmVars
  <2>2. InTime /\ EndsInTime(collected)'
    BY <1>0, <2>1, BatchInTime DEF InTime
  <2>3. processEvent' \in {processEvent, Off}
    BY <2>1 DEF ProcessLmQueryCommands
  <2> QED  BY <2>1, <2>2, <2>3 DEF WaitInv
<1>3. CASE Start
  <2>1. started' = now /\ UNCHANGED <<now, processEvent, queryCycle, collected, lmCycle, lmCommands, sent>>
    BY <1>3 DEF Start
  <2>2. \A c \in CollectedCommands(collected) : c.cycle <= now /\ c.cycle \in Nat
    BY <1>0 DEF EndsInTime, TypeOK, Commands, CollectedCommands
  <2>3. EndsInTime(collected)'
    BY <2>1, <2>2 DEF EndsInTime, TypeOK
  <2> QED  BY <2>1, <2>3 DEF WaitInv, InTime
<1>4. CASE Stop
  <2>1. /\ active' = FALSE /\ processEvent' = Off
        /\ UNCHANGED <<now, started, queryCycle, collected, lmCycle, lmCommands, sent>>
    BY <1>4 DEF Stop
  <2>2. EndsInTime(collected)'
    BY <1>0, <2>1 DEF EndsInTime
  <2> QED  BY <2>1, <2>2 DEF WaitInv, InTime
<1>5. CASE Tick
  <2>1. /\ now' = now + 1
        /\ UNCHANGED <<active, started, processEvent, orphans, queryCycle, collected, lmCycle,
                       lmCommands, sent>>
    BY <1>5 DEF Tick, eventVars, lmVars
  <2>2. \A c \in CollectedCommands(collected) : c.cycle \in Nat
    BY DEF TypeOK, Commands, CollectedCommands
  <2>3. EndsInTime(collected)'
    BY <1>0, <2>1, <2>2 DEF EndsInTime, Ends, TypeOK
  <2> QED  BY <2>1, <2>3 DEF WaitInv, InTime
<1>6. ASSUME NEW l \in Lms, FinishRun(l) PROVE WaitInv' /\ InTime
  <2>1. /\ lmFinish[l] = now
        /\ UNCHANGED <<now, active, started, orphans, queryCycle, lmCycle>>
    BY <1>6 DEF FinishRun
  <2>2. lmCycle[l] = queryCycle /\ EndsInTime(CollectedFrom(l))
    BY <2>1, CollectedInTime
  <2>3. \/ ProcessLmQueryCommands(CollectedFrom(l))
        \/ collected' = CollectedFrom(l) /\ UNCHANGED <<sent, processEvent>>
        \/ collected' = collected /\ UNCHANGED <<sent, processEvent>>
    BY <1>6, <2>2 DEF FinishRun, NotifyLmFinished
  <2>4. InTime /\ EndsInTime(collected)'
    BY <1>0, <2>1, <2>2, <2>3, BatchInTime DEF InTime
  <2>5. processEvent' \in {processEvent, Off}
    BY <2>3 DEF ProcessLmQueryCommands
  <2>6. lmCommands' = lmCommands \/ lmCommands' = [lmCommands EXCEPT ![l] = {}]
    BY <1>6 DEF FinishRun
  <2>7. \A k \in Lms : \A c \in lmCommands'[k] : c.cycle = lmCycle'[k]
    BY <2>1, <2>6 DEF WaitInv, TypeOK
  <2> QED  BY <2>1, <2>4, <2>5, <2>7 DEF WaitInv
<1>7. ASSUME NEW l \in Lms, AddLogicModule(l) \/ RemoveLogicModule(l) \/ SetDefaultLogicModule(l)
      PROVE  WaitInv' /\ InTime
  BY <1>7 DEF AddLogicModule, RemoveLogicModule, SetDefaultLogicModule, Operation
<1>8. CASE UNCHANGED vars
  <2>1. UNCHANGED <<now, active, started, processEvent, orphans, queryCycle, collected, lmCycle,
                    lmCommands, sent>>
    BY <1>8 DEF vars, eventVars, lmVars
  <2> QED  BY <1>0, <2>1 DEF WaitInv, EndsInTime, Ends, InTime
<1> QED  BY <1>1, <1>2, <1>3, <1>4, <1>5, <1>6, <1>7, <1>8 DEF Next

\* With a maximum wait time, the policy DROP and a fixed set of logic modules no command
\* is sent after the wait of its cycle: an event that QueryLms overwrites is still executed
\* and sends what was collected for its cycle, which no later event would do in time.
THEOREM CommandsInTime ==
    ASSUME "reconfigure" \notin Allowed, MaxWait > 0, Policy = "DROP"
    PROVE  Spec => SentInTime
<1>1. Init => WaitInv
  BY NoneIsEmpty DEF Init, WaitInv, EndsInTime
<1>2. TypeOK /\ CycleInv /\ WaitInv /\ [Next]_vars => WaitInv' /\ InTime
  BY NextInTime
<1>3. SentInTime <=> [][InTime]_vars
  BY DEF SentInTime, InTime
<1> QED  BY <1>1, <1>2, <1>3, TypeCorrect, CycleKept, PTL DEF Spec
=============================================================================

-------------------------- MODULE QueryRoundProofs --------------------------
(***************************************************************************)
(* RicQueryCycle implements QueryRound, for any logic modules, delays and  *)
(* bounds, when each query is over before the next one: nothing but the    *)
(* periodic query starts a round, and either the maximum wait time ends    *)
(* before the next query and late commands are dropped, or there is no     *)
(* maximum wait time and every logic module finishes before that.          *)
(***************************************************************************)
EXTENDS RicQueryCycleProofs, FiniteSetTheorems

\* Each query is over before the next one.
Timely ==
    /\ Allowed = {}
    /\ \/ MaxWait > 0 /\ MaxWait < Interval /\ Policy = "DROP"
       \/ MaxWait = 0 /\ \A delay \in LmDelays : delay < Interval

\* The round still collects answers.
RoundOpen == IF MaxWait > 0 THEN processEvent # Off ELSE \E l \in Lms : Running(l)

\* The commands of logic module l in the current cycle.
CommandsOf(l) == {[lm |-> l, cycle |-> queryCycle]}

\* The logic modules are the initial ones, and no process event is overwritten.
FixedLms == defaultLm = Default /\ additional = Additional /\ orphans = EmptyBag

\* An unfinished run will return the commands of this cycle, and without a maximum
\* wait time it finishes before the next query.
RunsInv ==
    \A l \in Lms : Running(l) =>
        /\ l \in Deployed
        /\ lmCycle[l] = queryCycle
        /\ lmCommands[l] = CommandsOf(l)
        /\ queryEvent = queryCycle + Interval
        /\ MaxWait = 0 => lmFinish[l] < queryCycle + Interval
        /\ MaxWait > 0 /\ processEvent = Off => now >= queryCycle + MaxWait

\* The process event of an open round is due before the next query.
ProcessInv ==
    processEvent # Off =>
        /\ MaxWait > 0
        /\ processEvent = queryCycle + MaxWait
        /\ queryEvent = queryCycle + Interval

\* Every logic module has answered an open round or is still running, and not both;
\* a closed round has no answers.
AnswersInv ==
    /\ \A k \in DOMAIN collected : \E l \in Deployed :
          k = Key(l) /\ ~Running(l) /\ collected[k] = CommandsOf(l)
    /\ IF RoundOpen
       THEN \A l \in Deployed : Running(l) \/ Key(l) \in DOMAIN collected
       ELSE DOMAIN collected = {}

\* A RIC that has not been started waits for nothing.
IdleInv == ~active => processEvent = Off /\ \A l \in Lms : ~Running(l)

\* The inductive invariant of a timely RIC.
RoundInv ==
    TypeOK /\ FixedLms /\ DeployedActive /\ RunsInv /\ ProcessInv /\ AnswersInv /\ IdleInv

-----------------------------------------------------------------------------
(* What is collected.                                                      *)

\* The keys of the deployed logic modules in m_lmQueryCommands.
DeployedKeys == {Key(l) : l \in Deployed}

\* Every key of C is of a deployed logic module, with its commands of this cycle.
Answers(C) == \A k \in DOMAIN C : \E l \in Deployed : k = Key(l) /\ C[k] = CommandsOf(l)

\* There is one key for each additional logic module and one for the default one.
LEMMA CountKeys ==
    ASSUME FixedLms
    PROVE  /\ IsFiniteSet(DeployedKeys)
           /\ Cardinality(DeployedKeys) = Cardinality(additional) + 1
<1> USE ConstantsAssumption
<1>1. IsFiniteSet(additional) /\ defaultLm \notin additional
  <2>1. Additional \in SUBSET Lms
    OBVIOUS
  <2>2. IsFiniteSet(Additional)
    BY <2>1, FS_Subset
  <2> QED  BY <2>2 DEF FixedLms
<1>2. IsFiniteSet(Deployed) /\ Cardinality(Deployed) = Cardinality(additional) + 1
  BY <1>1, FS_AddElement DEF Deployed
<1>3. [l \in Deployed |-> Key(l)] \in Bijection(Deployed, DeployedKeys)
  BY DEF Bijection, Injection, Surjection, IsInjective, DeployedKeys, Key
<1>4. ExistsBijection(Deployed, DeployedKeys)
  BY <1>3 DEF ExistsBijection
<1> QED  BY <1>2, <1>4, FS_Bijection

\* The number of entries that NotifyLmFinished compares tells whether all logic
\* modules have answered.
LEMMA CountTellsAll ==
    ASSUME FixedLms, NEW S \in SUBSET DeployedKeys
    PROVE  Cardinality(S) = Cardinality(additional) + 1 <=> S = DeployedKeys
BY CountKeys, FS_Subset

\* The collected commands are those of the logic modules that have answered.
LEMMA AnswersAre ==
    ASSUME NEW C, Answers(C)
    PROVE  CollectedCommands(C) = [lm : {k[1] : k \in DOMAIN C}, cycle : {queryCycle}]
<1> DEFINE B == [lm : {k[1] : k \in DOMAIN C}, cycle : {queryCycle}]
<1>1. ASSUME NEW c \in CollectedCommands(C) PROVE c \in B
  <2>1. PICK k \in DOMAIN C : c \in C[k]
    BY <1>1 DEF CollectedCommands
  <2>2. PICK l \in Deployed : k = Key(l) /\ C[k] = CommandsOf(l)
    BY DEF Answers
  <2>3. k[1] = l /\ c = [lm |-> l, cycle |-> queryCycle]
    BY <2>1, <2>2 DEF Key, CommandsOf
  <2> QED  BY <2>3
<1>2. ASSUME NEW c \in B PROVE c \in CollectedCommands(C)
  <2>1. PICK k \in DOMAIN C : c.lm = k[1]
    BY <1>2
  <2>2. PICK l \in Deployed : k = Key(l) /\ C[k] = CommandsOf(l)
    BY DEF Answers
  <2>3. c = [lm |-> l, cycle |-> queryCycle]
    BY <1>2, <2>1, <2>2 DEF Key
  <2> QED  BY <2>2, <2>3 DEF CollectedCommands, CommandsOf
<1> QED  BY <1>1, <1>2

\* Another answer of a deployed logic module is added to the answers.
LEMMA AnswerAdded ==
    ASSUME Answers(collected), NEW l \in Deployed
    PROVE  /\ Answers(With(collected, Key(l), CommandsOf(l)))
           /\ DOMAIN With(collected, Key(l), CommandsOf(l)) = DOMAIN collected \cup {Key(l)}
BY DEF Answers, With

-----------------------------------------------------------------------------
(* The end of a run.                                                       *)

\* The end of a run comes after the round is over, or it is an answer that is not
\* the last one, or it is the last answer and all are sent.
FinishedLate == ~RoundOpen /\ UNCHANGED <<collected, sent, processEvent>>
Answered(l) ==
    /\ RoundOpen
    /\ collected' = With(collected, Key(l), CommandsOf(l))
    /\ DOMAIN collected \cup {Key(l)} # DeployedKeys
    /\ UNCHANGED <<sent, processEvent>>
AnsweredLast(l) ==
    /\ RoundOpen
    /\ DOMAIN collected \cup {Key(l)} = DeployedKeys
    /\ sent' = sent \cup [lm : Deployed, cycle : {queryCycle}]
    /\ collected' = NoneCollected
    /\ processEvent' = Off

\* The end of a run is one of these three, and the logic module was active.
LEMMA FinishCases ==
    ASSUME Timely, RoundInv, NEW l \in Lms, FinishRun(l)
    PROVE  /\ active /\ Running(l) /\ l \in Deployed /\ Key(l) \notin DOMAIN collected
           /\ FinishedLate \/ Answered(l) \/ AnsweredLast(l)
           /\ UNCHANGED <<aborted, now, active, setVars, queryCycle, queryEvent, orphans, lmActive, lmCycle, ops>>
           /\ lmFinish' = [lmFinish EXCEPT ![l] = Off]
           /\ lmCommands' = [lmCommands EXCEPT ![l] = {}]
<1> USE ConstantsAssumption
<1>1. Running(l)
  BY DEF FinishRun, Running, Off, RoundInv, TypeOK
<1>2. active /\ l \in Deployed /\ lmCycle[l] = queryCycle /\ lmCommands[l] = CommandsOf(l)
  BY <1>1 DEF RoundInv, IdleInv, RunsInv
<1>3. lmActive[l]
  BY <1>2 DEF RoundInv, DeployedActive
<1>4. Key(l) \notin DOMAIN collected
  BY <1>1 DEF RoundInv, AnswersInv, Key
<1>5. Awaited <=> RoundOpen
  BY <1>1 DEF Awaited, RoundOpen
<1>6. Answers(collected) /\ DOMAIN collected \subseteq DeployedKeys /\ FixedLms
  BY DEF RoundInv, AnswersInv, Answers, DeployedKeys
<1> DEFINE C == With(collected, Key(l), CommandsOf(l))
<1>7. Answers(C) /\ DOMAIN C = DOMAIN collected \cup {Key(l)} /\ DOMAIN C \in SUBSET DeployedKeys
  BY <1>2, <1>6, AnswerAdded DEF DeployedKeys
<1>8. NotifyLmFinished(l)
  BY <1>3 DEF FinishRun
<1>9. CASE RoundOpen
  <2>1. CollectedFrom(l) = C
    BY <1>2, <1>5, <1>9 DEF CollectedFrom
  <2>2. CASE DOMAIN C = DeployedKeys
    <3>1. ProcessLmQueryCommands(C)
      BY <1>2, <1>5, <1>6, <1>7, <1>8, <1>9, <2>1, <2>2, CountTellsAll DEF NotifyLmFinished
    <3>2. {k[1] : k \in DOMAIN C} = Deployed
      <4>1. \A m : Key(m)[1] = m
        BY DEF Key
      <4> HIDE DEF C
      <4> QED  BY <2>2, <4>1 DEF DeployedKeys
    <3>3. CollectedCommands(C) = [lm : Deployed, cycle : {queryCycle}]
      BY <1>7, <3>2, AnswersAre
    <3>4. AnsweredLast(l)
      BY <1>2, <1>7, <1>9, <2>2, <3>1, <3>3 DEF AnsweredLast, ProcessLmQueryCommands
    <3> QED  BY <1>1, <1>2, <1>3, <1>4, <1>8, <3>4 DEF FinishRun, NotifyLmFinished
  <2>3. CASE DOMAIN C # DeployedKeys
    <3>1. Cardinality(DOMAIN C) # Cardinality(additional) + 1
      BY <1>6, <1>7, <2>3, CountTellsAll
    <3>2. Answered(l)
      BY <1>2, <1>7, <1>8, <1>9, <2>1, <2>3, <3>1 DEF NotifyLmFinished, Answered
    <3> QED  BY <1>1, <1>2, <1>3, <1>4, <1>8, <3>2 DEF FinishRun, NotifyLmFinished
  <2> QED  BY <2>2, <2>3
<1>10. CASE ~RoundOpen
  <2>1. Policy = "DROP"
    BY <1>1, <1>10 DEF Timely, RoundOpen
  <2>2. CollectedFrom(l) = collected
    BY <1>4, <1>5, <1>10, <2>1 DEF CollectedFrom
  <2>3. FinishedLate
    BY <1>2, <1>5, <1>8, <1>10, <2>2 DEF NotifyLmFinished, FinishedLate
  <2> QED  BY <1>1, <1>2, <1>3, <1>4, <1>8, <2>3 DEF FinishRun, NotifyLmFinished
<1> QED  BY <1>9, <1>10

-----------------------------------------------------------------------------
(* The invariant.                                                          *)

\* Before the RIC starts there is no round.
LEMMA InitRound == Init => RoundInv
<1> SUFFICES ASSUME Init PROVE RoundInv
  OBVIOUS
<1> USE ConstantsAssumption
<1>1. \A l \in Lms : ~Running(l)
  BY DEF Init, Running
<1>2. DOMAIN collected = {} /\ processEvent = Off
  BY DEF Init, NoneCollected
<1>3. TypeOK /\ FixedLms /\ DeployedActive
  BY InitType DEF Init, FixedLms, DeployedActive
<1>4. RunsInv /\ ProcessInv /\ AnswersInv /\ IdleInv
  BY <1>1, <1>2 DEF RunsInv, ProcessInv, AnswersInv, RoundOpen, IdleInv
<1> QED  BY <1>3, <1>4 DEF RoundInv

\* A query comes when the round before it is over, and when it had no maximum wait
\* time nothing runs any more.
LEMMA QueryComesLater ==
    ASSUME Timely, RoundInv, queryEvent = now
    PROVE  ~RoundOpen /\ processEvent = Off /\ DOMAIN collected = {}
<1> USE ConstantsAssumption
<1>0. now \in Nat /\ queryCycle \in Nat /\ lmFinish \in [Lms -> Nat \cup {Off}]
      /\ processEvent \in Nat \cup {Off}
  BY DEF RoundInv, TypeOK
<1>1. processEvent = Off
  BY <1>0 DEF Timely, RoundInv, ProcessInv, TypeOK
<1>2. MaxWait = 0 => \A l \in Lms : ~Running(l)
  BY <1>0 DEF Timely, RoundInv, RunsInv, TypeOK, Running, Off
<1>3. ~RoundOpen
  BY <1>1, <1>2 DEF RoundOpen
<1> QED  BY <1>1, <1>3 DEF RoundInv, AnswersInv

\* A query opens a round with nothing collected and every logic module running.
LEMMA QueryOpens ==
    ASSUME Timely, RoundInv, PeriodicQuery
    PROVE  /\ active /\ queryCycle' = now /\ queryEvent' = now + Interval
           /\ UNCHANGED <<now, active, setVars, collected, lmActive, sent, aborted, orphans>>
           /\ processEvent' = IF MaxWait > 0 THEN now + MaxWait ELSE Off
           /\ \A l \in Deployed : /\ lmFinish'[l] >= now
                                  /\ lmCycle'[l] = now
                                  /\ lmCommands'[l] = {[lm |-> l, cycle |-> now]}
                                  /\ MaxWait = 0 => lmFinish'[l] < now + Interval
           /\ \A l \in Lms \ Deployed : lmFinish'[l] = Off
           /\ lmFinish' \in [Lms -> Nat \cup {Off}]
<1> USE ConstantsAssumption
<1>1. processEvent = Off /\ queryEvent = now
  BY QueryComesLater DEF PeriodicQuery
<1>2. ToRun = Deployed /\ Deployed \subseteq Lms
  BY DEF PeriodicQuery, ToRun, RoundInv, DeployedActive, TypeOK, Deployed
<1>3. PICK delay \in [Deployed -> LmDelays] :
        /\ lmFinish' = [l \in Lms |-> IF l \in Deployed THEN now + delay[l] ELSE lmFinish[l]]
        /\ lmCycle' = [l \in Lms |-> IF l \in Deployed THEN now ELSE lmCycle[l]]
        /\ lmCommands' = [l \in Lms |-> IF l \in Deployed THEN {[lm |-> l, cycle |-> now]}
                                        ELSE lmCommands[l]]
  BY <1>2 DEF PeriodicQuery, QueryLms
<1>4. now \in Nat /\ \A l \in Deployed : delay[l] \in LmDelays /\ delay[l] \in Nat
  BY <1>3 DEF RoundInv, TypeOK
<1>5. \A l \in Lms \ Deployed : lmFinish[l] = Off
  BY DEF RoundInv, RunsInv, Running
<1>6. ASSUME NEW l \in Deployed
      PROVE  /\ lmFinish'[l] >= now
             /\ lmCycle'[l] = now
             /\ lmCommands'[l] = {[lm |-> l, cycle |-> now]}
             /\ MaxWait = 0 => lmFinish'[l] < now + Interval
  <2>1. lmFinish'[l] = now + delay[l] /\ lmCycle'[l] = now
        /\ lmCommands'[l] = {[lm |-> l, cycle |-> now]}
    BY <1>2, <1>3
  <2>2. MaxWait = 0 => delay[l] < Interval
    BY <1>4 DEF Timely
  <2> QED  BY <1>4, <2>1, <2>2
<1>7. lmFinish' \in [Lms -> Nat \cup {Off}] /\ \A l \in Lms \ Deployed : lmFinish'[l] = Off
  BY <1>3, <1>4, <1>5
<1>8. processEvent' = IF MaxWait > 0 THEN now + MaxWait ELSE Off
  BY <1>1 DEF PeriodicQuery, QueryLms
<1>9. orphans' = orphans
  BY <1>1 DEF PeriodicQuery, QueryLms
<1> QED  BY <1>6, <1>7, <1>8, <1>9 DEF PeriodicQuery, QueryLms

\* No orphaned process event, no operation but the start of the RIC.
LEMMA TimelySteps ==
    ASSUME Timely, RoundInv, [Next]_vars
    PROVE  \/ PeriodicQuery \/ ProcessEvent \/ Start \/ Tick \/ UNCHANGED vars
           \/ \E l \in Lms : FinishRun(l)
<1>1. ~OrphanedProcessEvent
  BY DEF RoundInv, FixedLms, OrphanedProcessEvent, BagIn, BagToSet, EmptyBag, SetToBag
<1>2. ~TriggeredQuery /\ ~Stop
  BY DEF Timely, TriggeredQuery, Stop, Operation
<1>3. \A l \in Lms : ~AddLogicModule(l) /\ ~RemoveLogicModule(l) /\ ~SetDefaultLogicModule(l)
  BY DEF Timely, AddLogicModule, RemoveLogicModule, SetDefaultLogicModule, Operation
<1> QED  BY <1>1, <1>2, <1>3 DEF Next

\* Every step of a timely RIC keeps the invariant.
LEMMA NextRound ==
    ASSUME Timely, RoundInv, [Next]_vars
    PROVE  RoundInv'
<1> USE ConstantsAssumption
<1>0. TypeOK'
  BY NextType DEF RoundInv
<1>t. now \in Nat /\ queryCycle \in Nat /\ lmFinish \in [Lms -> Nat \cup {Off}]
      /\ processEvent \in Nat \cup {Off} /\ lmCommands \in [Lms -> SUBSET Commands]
      /\ active \in BOOLEAN /\ Deployed \subseteq Lms
  BY DEF RoundInv, TypeOK, Deployed
<1>1. CASE PeriodicQuery
  <2> USE <1>1
  <2>0. DOMAIN collected = {} /\ processEvent = Off
    BY QueryComesLater DEF PeriodicQuery
  <2>1. FixedLms' /\ DeployedActive' /\ Deployed' = Deployed /\ active'
    BY QueryOpens DEF RoundInv, FixedLms, DeployedActive, Deployed, setVars
  <2>2. RunsInv'
    <3> SUFFICES ASSUME NEW l \in Lms, Running(l)'
                 PROVE  /\ l \in Deployed
                        /\ lmCycle'[l] = queryCycle'
                        /\ lmCommands'[l] = CommandsOf(l)'
                        /\ queryEvent' = queryCycle' + Interval
                        /\ MaxWait = 0 => lmFinish'[l] < queryCycle' + Interval
                        /\ MaxWait > 0 /\ processEvent' = Off => now' >= queryCycle' + MaxWait
      BY <2>1 DEF RunsInv
    <3>1. l \in Deployed
      BY QueryOpens DEF Running
    <3> QED  BY <1>t, <3>1, QueryOpens DEF CommandsOf, Off
  <2>3. ProcessInv'
    BY QueryOpens DEF ProcessInv
  <2>4. \A l \in Deployed : Running(l)'
    BY <1>t, QueryOpens DEF Running, Off
  <2>5. RoundOpen'
    BY <1>t, <2>4, QueryOpens DEF RoundOpen, Deployed, Off
  <2>6. DOMAIN collected' = {}
    BY <2>0, QueryOpens
  <2>7. AnswersInv'
    BY <2>1, <2>4, <2>5, <2>6 DEF AnswersInv
  <2> QED  BY <1>0, <2>1, <2>2, <2>3, <2>7 DEF RoundInv, IdleInv
<1>2. CASE ProcessEvent
  <2>1. /\ UNCHANGED <<now, active, defaultLm, additional, queryCycle, queryEvent, orphans,
                       lmActive, lmFinish, lmCycle, lmCommands>>
        /\ active /\ processEvent = now /\ processEvent' = Off /\ collected' = NoneCollected
    BY <1>2 DEF ProcessEvent, ProcessLmQueryCommands, setVars, lmVars
  <2>2. MaxWait > 0 /\ now = queryCycle + MaxWait /\ queryEvent = queryCycle + Interval
    BY <1>t, <2>1 DEF RoundInv, ProcessInv, Off
  <2>3. FixedLms' /\ DeployedActive' /\ Deployed' = Deployed
    BY <2>1 DEF RoundInv, FixedLms, DeployedActive, Deployed
  <2>4. RunsInv'
    BY <1>t, <2>1, <2>2, <2>3 DEF RoundInv, RunsInv, Running, CommandsOf
  <2>5. ProcessInv' /\ IdleInv'
    BY <2>1 DEF ProcessInv, IdleInv
  <2>6. AnswersInv'
    BY <2>1, <2>2 DEF AnswersInv, RoundOpen, NoneCollected
  <2> QED  BY <1>0, <2>3, <2>4, <2>5, <2>6 DEF RoundInv
<1>3. CASE Start
  <2>1. /\ UNCHANGED <<now, defaultLm, additional, queryCycle, processEvent, orphans, collected,
                       lmFinish, lmCycle, lmCommands>>
        /\ ~active /\ active'
    BY <1>3 DEF Start, setVars
  <2>2. processEvent = Off /\ \A l \in Lms : ~Running(l)
    BY <2>1 DEF RoundInv, IdleInv
  <2>3. FixedLms' /\ Deployed' = Deployed
    BY <2>1 DEF RoundInv, FixedLms, Deployed
  <2>4. DeployedActive'
    BY <1>3, <1>t, <2>3 DEF Start, ActivatedLms, DeployedActive
  <2>5. RunsInv' /\ ProcessInv' /\ IdleInv'
    BY <2>1, <2>2 DEF RunsInv, Running, ProcessInv, IdleInv
  <2>6. AnswersInv'
    <3>1. ~RoundOpen
      BY <2>2 DEF RoundOpen
    <3>2. DOMAIN collected = {}
      BY <3>1 DEF RoundInv, AnswersInv
    <3>3. ~RoundOpen'
      BY <2>1, <2>2 DEF RoundOpen, Running
    <3> QED  BY <2>1, <3>2, <3>3 DEF AnswersInv
  <2> QED  BY <1>0, <2>3, <2>4, <2>5, <2>6 DEF RoundInv
<1>4. CASE Tick
  <2>1. /\ UNCHANGED <<active, defaultLm, additional, queryCycle, queryEvent, processEvent, orphans,
                       collected, lmActive, lmFinish, lmCycle, lmCommands>>
        /\ now' = now + 1
    BY <1>4 DEF Tick, setVars, eventVars, lmVars
  <2>2. FixedLms' /\ DeployedActive' /\ Deployed' = Deployed
    BY <2>1 DEF RoundInv, FixedLms, DeployedActive, Deployed
  <2>3. RunsInv'
    BY <1>t, <2>1, <2>2 DEF RoundInv, RunsInv, Running, CommandsOf
  <2>4. ProcessInv' /\ IdleInv'
    BY <2>1 DEF RoundInv, ProcessInv, IdleInv, Running
  <2>5. AnswersInv'
    BY <2>1, <2>2 DEF RoundInv, AnswersInv, RoundOpen, Running, CommandsOf, Key
  <2> QED  BY <1>0, <2>2, <2>3, <2>4, <2>5 DEF RoundInv
<1>5. ASSUME NEW l \in Lms, FinishRun(l) PROVE RoundInv'
  <2>0. /\ active /\ Running(l) /\ l \in Deployed /\ Key(l) \notin DOMAIN collected
        /\ UNCHANGED <<now, active, defaultLm, additional, queryCycle, queryEvent, orphans, lmActive, lmCycle>>
        /\ lmFinish' = [lmFinish EXCEPT ![l] = Off]
        /\ lmCommands' = [lmCommands EXCEPT ![l] = {}]
    BY <1>5, FinishCases DEF setVars
  <2>1. FinishedLate \/ Answered(l) \/ AnsweredLast(l)
    BY <1>5, FinishCases
  <2>2. FixedLms' /\ DeployedActive' /\ Deployed' = Deployed /\ IdleInv'
    BY <2>0 DEF RoundInv, FixedLms, DeployedActive, Deployed, IdleInv
  <2>3. \A m \in Lms : Running(m)' <=> m # l /\ Running(m)
    BY <1>t, <2>0 DEF Running
  <2>4. processEvent' \in {processEvent, Off}
    BY <2>1 DEF FinishedLate, Answered, AnsweredLast
  <2>5. ProcessInv'
    BY <2>0, <2>4 DEF RoundInv, ProcessInv
  <2>6. \A m \in Lms : Running(m)' => lmFinish'[m] = lmFinish[m] /\ lmCommands'[m] = lmCommands[m]
    BY <1>t, <2>0, <2>3
  <2>7. ASSUME NEW m \in Lms, Running(m)'
        PROVE  processEvent' = processEvent
    <3>1. CASE AnsweredLast(l)
      <4>1. m # l /\ Running(m) /\ m \in Deployed
        BY <2>3, <2>7 DEF RoundInv, RunsInv
      <4>2. Key(m) \in DOMAIN collected
        BY <3>1, <4>1 DEF AnsweredLast, DeployedKeys, Key
      <4> QED  BY <4>1, <4>2 DEF RoundInv, AnswersInv, Key
    <3> QED  BY <2>1, <3>1 DEF FinishedLate, Answered
  <2>8. RunsInv'
    BY <2>0, <2>2, <2>3, <2>6, <2>7 DEF RoundInv, RunsInv, CommandsOf
  <2>9. AnswersInv'
    <3>0. \A m : Key(m)' = Key(m) /\ CommandsOf(m)' = CommandsOf(m)
      BY <2>0 DEF Key, CommandsOf
    <3>1. CASE FinishedLate
      <4>1. DOMAIN collected' = {}
        BY <3>1 DEF FinishedLate, RoundInv, AnswersInv
      <4>2. ~RoundOpen'
        BY <3>1, <2>3 DEF FinishedLate, RoundOpen
      <4> QED  BY <4>1, <4>2 DEF AnswersInv
    <3>2. CASE Answered(l)
      <4>1. DOMAIN collected' = DOMAIN collected \cup {Key(l)}
            /\ \A k \in DOMAIN collected' :
                 collected'[k] = IF k = Key(l) THEN CommandsOf(l) ELSE collected[k]
        BY <3>2 DEF Answered, With
      <4>2. \A k \in DOMAIN collected' : \E m \in Deployed :
               k = Key(m) /\ ~Running(m)' /\ collected'[k] = CommandsOf(m)
        BY <1>t, <2>0, <2>3, <4>1 DEF RoundInv, AnswersInv
      <4>3. \A m \in Deployed : Running(m)' \/ Key(m) \in DOMAIN collected'
        BY <1>t, <2>3, <3>2, <4>1 DEF Answered, RoundInv, AnswersInv
      <4>4. PICK m \in Deployed : Key(m) \notin DOMAIN collected'
        <5>1. DOMAIN collected' \subseteq DeployedKeys
          BY <4>2 DEF DeployedKeys
        <5> QED  BY <3>2, <4>1, <5>1 DEF Answered, DeployedKeys
      <4>5. RoundOpen'
        BY <1>t, <3>2, <4>3, <4>4 DEF Answered, RoundOpen
      <4> QED  BY <2>2, <3>0, <4>2, <4>3, <4>5 DEF AnswersInv
    <3>3. CASE AnsweredLast(l)
      <4>1. DOMAIN collected' = {} /\ processEvent' = Off
        BY <3>3 DEF AnsweredLast, NoneCollected
      <4>2. ASSUME NEW m \in Lms PROVE ~Running(m)'
        <5> SUFFICES ASSUME m # l, Running(m) PROVE FALSE
          BY <2>3
        <5>1. m \in Deployed
          BY DEF RoundInv, RunsInv
        <5>2. Key(m) \in DOMAIN collected
          BY <3>3, <5>1 DEF AnsweredLast, DeployedKeys, Key
        <5> QED  BY <5>2 DEF RoundInv, AnswersInv, Key
      <4>3. ~RoundOpen'
        BY <4>1, <4>2 DEF RoundOpen
      <4> QED  BY <4>1, <4>3 DEF AnswersInv
    <3> QED  BY <2>1, <3>1, <3>2, <3>3
  <2> QED  BY <1>0, <2>2, <2>5, <2>8, <2>9 DEF RoundInv
<1>6. CASE UNCHANGED vars
  <2>1. UNCHANGED <<now, active, defaultLm, additional, queryCycle, queryEvent, processEvent, orphans,
                    collected, lmActive, lmFinish, lmCycle, lmCommands>>
    BY <1>6 DEF vars, setVars, eventVars, lmVars
  <2> QED  BY <1>0, <2>1 DEF RoundInv, FixedLms, DeployedActive, RunsInv, ProcessInv, AnswersInv,
                IdleInv, Deployed, RoundOpen, Running, CommandsOf, Key
<1> QED  BY <1>1, <1>2, <1>3, <1>4, <1>5, <1>6, TimelySteps

\* The invariant holds in every reachable state of a timely RIC.
LEMMA RoundKept ==
    ASSUME Timely
    PROVE  Spec => []RoundInv
<1>1. RoundInv /\ [Next]_vars => RoundInv'
  BY NextRound
<1> QED  BY <1>1, InitRound, PTL DEF Spec

-----------------------------------------------------------------------------
(* The refinement of QueryRound.                                           *)

\* The initial state of the RIC is the initial state of QueryRound.
LEMMA InitRefines == Init => Round!Init
<1> SUFFICES ASSUME Init PROVE Round!Init
  OBVIOUS
<1>1. ~RoundOpen
  BY DEF Init, RoundOpen, Running
<1>2. {k[1] : k \in DOMAIN collected} = {}
  BY DEF Init, NoneCollected
<1> QED  BY <1>1, <1>2 DEF Init, Round!Init, RoundOpen

\* Every step of a timely RIC is a step of QueryRound or changes nothing of it.
LEMMA NextRefines ==
    ASSUME Timely, RoundInv, RoundInv', [Next]_vars
    PROVE  [Round!Next]_(Round!vars)
<1> USE ConstantsAssumption
<1> DEFINE who == {k[1] : k \in DOMAIN collected}
<1>0. /\ now \in Nat /\ queryCycle \in Nat /\ queryCycle <= now
      /\ Deployed = Additional \cup {Default} /\ Deployed \subseteq Lms
      /\ processEvent \in Nat \cup {Off} /\ lmFinish \in [Lms -> Nat \cup {Off}]
  BY DEF RoundInv, TypeOK, FixedLms, Deployed
<1>k. \A l : Key(l)[1] = l
  BY DEF Key
<1>1. CASE PeriodicQuery
  <2>1. ~RoundOpen /\ DOMAIN collected = {}
    BY <1>1, QueryComesLater DEF PeriodicQuery
  <2>2. queryCycle' = now /\ UNCHANGED <<collected, sent>>
    BY <1>1, QueryOpens
  <2>3. RoundOpen'
    <3>1. CASE MaxWait > 0
      BY <1>0, <1>1, <3>1, QueryOpens DEF RoundOpen, Off
    <3>2. CASE MaxWait = 0
      <4>1. Default \in Deployed /\ Default \in Lms
        BY <1>0
      <4>2. lmFinish'[Default] # Off
        BY <1>0, <1>1, <4>1, QueryOpens DEF Off
      <4> QED  BY <3>2, <4>1, <4>2 DEF RoundOpen, Running
    <3> QED  BY <3>1, <3>2
  <2>4. Round!Open
    BY <1>0, <2>1, <2>2, <2>3 DEF Round!Open, RoundOpen
  <2> QED  BY <2>4 DEF Round!Next
<1>2. CASE ProcessEvent
  <2>1. /\ processEvent = now /\ processEvent' = Off
        /\ sent' = sent \cup CollectedCommands(collected)
        /\ collected' = NoneCollected /\ queryCycle' = queryCycle
    BY <1>2 DEF ProcessEvent, ProcessLmQueryCommands
  <2>2. MaxWait > 0
    BY <1>0, <2>1 DEF RoundInv, ProcessInv, Off
  <2>3. CollectedCommands(collected) = [lm : who, cycle : {queryCycle}]
    <3>1. Answers(collected)
      BY DEF RoundInv, AnswersInv, Answers
    <3> QED  BY <3>1, AnswersAre
  <2>4. {k[1] : k \in DOMAIN collected'} = {}
    BY <2>1 DEF NoneCollected
  <2>5. processEvent # Off
    BY <1>0, <2>1 DEF Off
  <2>6. Round!Expire
    BY <2>1, <2>2, <2>3, <2>4, <2>5 DEF Round!Expire, Round!Batch
  <2> QED  BY <2>6 DEF Round!Next
<1>3. CASE Start
  <2>1. UNCHANGED <<queryCycle, processEvent, collected, lmFinish, sent>>
    BY <1>3 DEF Start
  <2> QED  BY <2>1 DEF Round!vars, Running
<1>4. CASE Tick
  <2>1. UNCHANGED <<queryCycle, processEvent, collected, lmFinish, sent>>
    BY <1>4 DEF Tick, eventVars, lmVars
  <2> QED  BY <2>1 DEF Round!vars, Running
<1>5. ASSUME NEW l \in Lms, FinishRun(l) PROVE [Round!Next]_(Round!vars)
  <2>0. /\ l \in Deployed /\ Key(l) \notin DOMAIN collected /\ queryCycle' = queryCycle
        /\ Running(l) /\ lmFinish' = [lmFinish EXCEPT ![l] = Off]
        /\ UNCHANGED <<defaultLm, additional>>
    BY <1>5, FinishCases DEF setVars
  <2>1. l \notin who
    <3> SUFFICES ASSUME NEW k \in DOMAIN collected, k[1] = l PROVE FALSE
      OBVIOUS
    <3>1. PICK m \in Deployed : k = Key(m)
      BY DEF RoundInv, AnswersInv
    <3> QED  BY <1>k, <2>0, <3>1
  <2>2. CASE FinishedLate
    <3>1. MaxWait > 0 /\ UNCHANGED <<queryCycle, processEvent, collected, sent>>
      BY <2>0, <2>2 DEF FinishedLate, RoundOpen
    <3> QED  BY <3>1 DEF Round!vars
  <2>3. CASE Answered(l)
    <3>1. DOMAIN collected' = DOMAIN collected \cup {Key(l)} /\ sent' = sent /\ RoundOpen
      BY <2>3 DEF Answered, With
    <3>2. {k[1] : k \in DOMAIN collected'} = who \cup {l}
      BY <1>k, <3>1
    <3>3. PICK m \in Deployed : Key(m) \notin DOMAIN collected'
      <4>1. DOMAIN collected \subseteq DeployedKeys
        BY DEF RoundInv, AnswersInv, DeployedKeys
      <4> QED  BY <2>0, <2>3, <3>1, <4>1 DEF Answered, DeployedKeys
    <3>4. m \notin who \cup {l}
      <4>1. \A k \in DOMAIN collected : \E x \in Deployed : k = Key(x)
        BY DEF RoundInv, AnswersInv
      <4> QED  BY <1>k, <3>1, <3>3, <4>1
    <3>5. RoundOpen'
      <4>2. MaxWait > 0 => RoundOpen'
        BY <2>3 DEF Answered, RoundOpen
      <4>3. MaxWait = 0 => RoundOpen'
        <5>1. m # l /\ Running(m)
          BY <2>3, <3>1, <3>3, <3>4 DEF Answered, RoundInv, AnswersInv
        <5>2. Running(m)'
          BY <1>0, <2>0, <5>1 DEF Running
        <5> QED  BY <1>0, <5>2 DEF RoundOpen
      <4> QED  BY <4>2, <4>3
    <3>6. Round!Answer(l)
      BY <1>0, <2>0, <2>1, <3>1, <3>2, <3>3, <3>4, <3>5 DEF Round!Answer, RoundOpen
    <3> QED  BY <1>0, <2>0, <3>6 DEF Round!Next
  <2>4. CASE AnsweredLast(l)
    <3>1. DOMAIN collected \cup {Key(l)} = DeployedKeys /\ RoundOpen /\ collected' = NoneCollected
      BY <2>4 DEF AnsweredLast
    <3>2. who \cup {l} = Deployed
      <4>1. who \cup {l} = {k[1] : k \in DeployedKeys}
        BY <1>k, <3>1
      <4>2. {k[1] : k \in DeployedKeys} = Deployed
        BY <1>k DEF DeployedKeys
      <4> QED  BY <4>1, <4>2
    <3>3. {k[1] : k \in DOMAIN collected'} = {}
      BY <3>1 DEF NoneCollected
    <3>4. ~RoundOpen'
      <4>1. ASSUME NEW m \in Lms, Running(m)' PROVE FALSE
        <5>1. m # l /\ Running(m)
          BY <1>0, <2>0, <4>1 DEF Running
        <5>2. m \in Deployed
          BY <5>1 DEF RoundInv, RunsInv
        <5>3. Key(m) \in DOMAIN collected
          BY <1>k, <3>1, <5>1, <5>2 DEF DeployedKeys
        <5> QED  BY <1>k, <5>1, <5>3 DEF RoundInv, AnswersInv
      <4> QED  BY <2>4, <4>1 DEF RoundOpen, AnsweredLast
    <3>5. Round!LastAnswer(l)
      BY <1>0, <2>0, <2>1, <2>4, <3>1, <3>2, <3>3, <3>4
         DEF Round!LastAnswer, Round!Batch, RoundOpen, AnsweredLast
    <3> QED  BY <1>0, <2>0, <3>5 DEF Round!Next
  <2> QED  BY <1>5, <2>2, <2>3, <2>4, FinishCases
<1>6. CASE UNCHANGED vars
  <2>1. UNCHANGED <<queryCycle, processEvent, collected, lmFinish, sent>>
    BY <1>6 DEF vars, eventVars, lmVars
  <2> QED  BY <2>1 DEF Round!vars, Running
<1> QED  BY <1>1, <1>2, <1>3, <1>4, <1>5, <1>6, TimelySteps

\* The query cycle of the RIC keeps the promise of QueryRound: every round sends, once,
\* the answers to this round and no others, all of them unless the maximum wait time
\* ended it (QueryLms, NotifyLmFinished, ProcessLmQueryCommands).
THEOREM RoundRefined ==
    ASSUME Timely
    PROVE  Spec => ImplementsRound
<1>1. RoundInv /\ RoundInv' /\ [Next]_vars => [Round!Next]_(Round!vars)
  BY NextRefines
<1>2. Spec => []RoundInv
  BY RoundKept
<1> QED  BY <1>1, <1>2, InitRefines, PTL DEF Spec, ImplementsRound, Round!Spec

-----------------------------------------------------------------------------
(* Action properties of a timely RIC.                                      *)

\* Before the maximum wait time is over commands are sent only when every deployed
\* logic module has returned its commands of this cycle, and all of them are sent.
THEOREM AllReturned ==
    ASSUME Timely
    PROVE  Spec => OnlyWhenAllReturned
<1> USE ConstantsAssumption
<1>1. ASSUME RoundInv, [Next]_vars, sent' # sent, MaxWait = 0 \/ now < queryCycle + MaxWait
      PROVE  \A l \in Deployed : [lm |-> l, cycle |-> queryCycle] \in sent'
  <2> USE <1>1
  <2>1. now \in Nat /\ queryCycle \in Nat
    BY DEF RoundInv, TypeOK
  <2>2. ~ProcessEvent
    BY <2>1 DEF ProcessEvent, RoundInv, ProcessInv, Off
  <2>3. ~PeriodicQuery /\ ~Start /\ ~Tick /\ ~UNCHANGED vars
    BY DEF PeriodicQuery, QueryLms, Start, Tick, vars
  <2>4. PICK l \in Lms : FinishRun(l)
    BY <2>2, <2>3, TimelySteps
  <2>5. AnsweredLast(l)
    BY <2>4, FinishCases DEF FinishedLate, Answered
  <2> QED  BY <2>5 DEF AnsweredLast
<1> QED  BY <1>1, RoundKept, PTL DEF Spec, OnlyWhenAllReturned

\* The commands of a run that ends within the maximum wait time are collected or
\* sent by the step that ends it, never taken for late ones.
THEOREM OnTimeKept ==
    ASSUME Timely
    PROVE  Spec => OnTimeNotDropped
<1> USE ConstantsAssumption
<1>1. ASSUME RoundInv, [Next]_vars, NEW l \in Lms, Running(l), lmFinish'[l] = Off,
             MaxWait = 0 \/ now < lmCycle[l] + MaxWait
      PROVE  lmCommands[l] \subseteq CollectedCommands(collected') \cup sent'
  <2> USE <1>1
  <2>1. /\ now \in Nat /\ queryCycle \in Nat /\ lmFinish \in [Lms -> Nat \cup {Off}]
        /\ lmCycle[l] = queryCycle /\ lmCommands[l] = CommandsOf(l) /\ l \in Deployed
    BY DEF RoundInv, TypeOK, RunsInv
  <2>2. RoundOpen
    BY <2>1 DEF RoundOpen, RoundInv, RunsInv
  <2>3. lmFinish' # lmFinish
    BY DEF Running
  <2>4. ~PeriodicQuery
    BY <2>1, QueryOpens DEF Off
  <2>5. ~ProcessEvent /\ ~Start /\ ~Tick /\ ~UNCHANGED vars
    BY <2>3 DEF ProcessEvent, Start, Tick, vars, lmVars
  <2>6. PICK m \in Lms : FinishRun(m)
    BY <2>4, <2>5, TimelySteps
  <2>7. m = l
    BY <2>1, <2>6, FinishCases DEF Running
  <2>8. CASE Answered(l)
    <3>1. Key(l) \in DOMAIN collected' /\ collected'[Key(l)] = CommandsOf(l)
      BY <2>8 DEF Answered, With
    <3> QED  BY <2>1, <3>1 DEF CollectedCommands
  <2>9. CASE AnsweredLast(l)
    BY <2>1, <2>9 DEF AnsweredLast, CommandsOf
  <2> QED  BY <2>2, <2>6, <2>7, <2>8, <2>9, FinishCases DEF FinishedLate
<1>2. ASSUME RoundInv, [Next]_vars
      PROVE  \A l \in Lms : Running(l) /\ lmFinish'[l] = Off /\ active
                              /\ (MaxWait = 0 \/ now < lmCycle[l] + MaxWait)
               => lmCommands[l] \subseteq CollectedCommands(collected') \cup sent'
  BY <1>1, <1>2
<1> QED  BY <1>2, RoundKept, PTL DEF Spec, OnTimeNotDropped

\* What a timely RIC has collected stays collected until it is sent: no later answer
\* takes the place of an earlier one in m_lmQueryCommands.
THEOREM CollectedKept ==
    ASSUME Timely
    PROVE  Spec => NotLost
<1> USE ConstantsAssumption
<1>1. ASSUME RoundInv, [Next]_vars
      PROVE  CollectedCommands(collected) \subseteq CollectedCommands(collected') \cup sent'
  <2> USE <1>1
  <2>1. CASE PeriodicQuery \/ Start \/ Tick \/ UNCHANGED vars
    BY <2>1 DEF PeriodicQuery, QueryLms, Start, Tick, vars
  <2>2. CASE ProcessEvent
    BY <2>2 DEF ProcessEvent, ProcessLmQueryCommands
  <2>3. ASSUME NEW l \in Lms, FinishRun(l)
        PROVE  CollectedCommands(collected) \subseteq CollectedCommands(collected') \cup sent'
    <3>1. CASE FinishedLate
      BY <3>1 DEF FinishedLate
    <3>2. CASE Answered(l)
      <4>1. Key(l) \notin DOMAIN collected
        BY <2>3, FinishCases
      <4>2. \A k \in DOMAIN collected : k \in DOMAIN collected' /\ collected'[k] = collected[k]
        BY <3>2, <4>1 DEF Answered, With
      <4> QED  BY <4>2 DEF CollectedCommands
    <3>3. CASE AnsweredLast(l)
      <4>1. Answers(collected)
        BY DEF RoundInv, AnswersInv, Answers
      <4>2. {k[1] : k \in DOMAIN collected} \subseteq Deployed
        BY <4>1 DEF Answers, Key
      <4>3. CollectedCommands(collected) \subseteq [lm : Deployed, cycle : {queryCycle}]
        <5>1. CollectedCommands(collected) = [lm : {k[1] : k \in DOMAIN collected}, cycle : {queryCycle}]
          BY <4>1, AnswersAre
        <5>2. \A S \in SUBSET Deployed :
                 [lm : S, cycle : {queryCycle}] \subseteq [lm : Deployed, cycle : {queryCycle}]
          OBVIOUS
        <5> QED  BY <4>2, <5>1, <5>2
      <4> QED  BY <3>3, <4>3 DEF AnsweredLast
    <3> QED  BY <2>3, <3>1, <3>2, <3>3, FinishCases
  <2> QED  BY <2>1, <2>2, <2>3, TimelySteps
<1> QED  BY <1>1, RoundKept, PTL DEF Spec, NotLost
=============================================================================

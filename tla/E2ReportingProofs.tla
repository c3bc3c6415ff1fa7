------------------------- MODULE E2ReportingProofs -------------------------
(***************************************************************************)
(* Proofs about reporting for any intervals and delays, and any number of  *)
(* operations and IDs, in a scenario that is careful: the newest row of a  *)
(* node that is registered and reports is never too old.                   *)
(***************************************************************************)
EXTENDS E2Reporting, FiniteSetTheorems, WellFoundedInduction, TLAPS

\* The scenario sets the Trigger again, activates reporters that are not active, and
\* does not ask for an initial report, the default of the trigger.
Steady == Careful /\ ~InitialReport

-----------------------------------------------------------------------------
(* The inductive invariant.                                                *)

MaxT == Max(TriggerIntervals)
MaxS == Max(SendIntervals)
MaxD == Max(Delays)

Timer(E) == E \in [event : {E.event}, orphans : {E.orphans}]
Timers(E) == ({E.event} \ {Off}) \cup BagToSet(E.orphans)

Reporters == [active : BOOLEAN, linked : {TRUE}, event : {Off} \cup 0 .. MaxT, orphans : {EmptyBag}]
Reports == [id : 0 .. MaxIds, age : 0 .. Bound + 1]
Messages == [id : 0 .. MaxIds, age : 0 .. Bound + 1, left : Nat]

NodeTyped ==
    /\ active \in BOOLEAN /\ nodeId \in 0 .. MaxIds
    /\ registered \subseteq 1 .. MaxIds /\ nextId \in 1 .. MaxIds + 1 /\ deregs \in Nat
WireTyped == reports \subseteq Reports /\ net \subseteq Messages /\ rowAge \in 0 .. Bound + 1
SendTyped == Timer(send) /\ Timers(send) \subseteq 0 .. MaxS
RepTyped == rep \in Reporters /\ (rep.active <=> rep.event # Off)
Typed == NodeTyped /\ WireTyped /\ SendTyped /\ RepTyped

\* A node that is not active neither reports nor is registered; one that is registered
\* has a send event.
Registration ==
    /\ ~active => ~rep.active /\ nodeId \notin registered
    /\ nodeId \in registered => send.event # Off

\* What is of age a has a successor: the report of the trigger's next event, or a younger
\* one under way, at most a trigger interval younger.
Follows(x, a) == x.id = nodeId /\ x.age < a /\ a <= x.age + MaxT
Successor(a) ==
    \/ rep.event + a <= MaxT
    \/ \E r \in reports : Follows(r, a)
    \/ \E m \in net : Follows(m, a)

\* What is younger than the newest row has a successor and arrives in time.
Younger(x) == x.id = nodeId /\ x.age < rowAge
Fresh ==
    /\ Successor(rowAge)
    /\ \A r \in reports : Younger(r) =>
         Successor(r.age) /\ \E s \in Timers(send) : r.age + s <= MaxS
    /\ \A m \in net : Younger(m) => Successor(m.age) /\ m.age + m.left <= MaxS + MaxD

Watched == active /\ nodeId \in registered /\ rep.active

ReportInv == Typed /\ Registration /\ ~aborted /\ (Watched => Fresh)

-----------------------------------------------------------------------------
(* The largest of a set, and timers.                                       *)

\* A finite set of natural numbers that is not empty has a largest one: otherwise take a
\* smallest subset without one, and leave an element out.
LEMMA Largest ==
    ASSUME NEW S \in SUBSET Nat, IsFiniteSet(S), S # {}
    PROVE  Max(S) \in S /\ \A y \in S : y <= Max(S)
<1> DEFINE HasMax(X) == \E x \in X : \A y \in X : y <= x
           Sizes == {n \in Nat : \E X \in SUBSET S : X # {} /\ ~HasMax(X) /\ Cardinality(X) = n}
<1>1. ASSUME ~HasMax(S) PROVE FALSE
  <2>1. Cardinality(S) \in Nat
    BY FS_CardinalityType
  <2>2. Sizes \in SUBSET Nat /\ Sizes # {}
    BY <1>1, <2>1
  <2>3. PICK n \in Sizes : \A k \in Sizes : ~(<<k, n>> \in OpToRel(<, Nat))
    BY <2>2, NatLessThanWellFounded, WFMin
  <2>4. \A k \in Sizes : ~(k < n)
    BY <2>2, <2>3 DEF OpToRel
  <2>5. PICK X \in SUBSET S : X # {} /\ ~HasMax(X) /\ Cardinality(X) = n
    BY <2>3
  <2>6. PICK x \in X : TRUE
    BY <2>5
  <2>7. IsFiniteSet(X) /\ n \in Nat
    BY <2>2, <2>5, FS_Subset
  <2>8. IsFiniteSet(X \ {x}) /\ Cardinality(X \ {x}) = n - 1
    BY <2>5, <2>6, <2>7, FS_RemoveElement
  <2>9. n - 1 \in Nat
    BY <2>8, FS_CardinalityType
  <2>10. X \ {x} # {}
    <3>1. X = {x} => HasMax(X)
      BY <2>5, <2>6
    <3> QED  BY <2>5, <2>6, <3>1
  <2>11. HasMax(X \ {x})
    <3>1. ~(n - 1 \in Sizes)
      BY <2>4, <2>7, <2>9
    <3> HIDE DEF HasMax
    <3> QED  BY <2>8, <2>9, <2>10, <3>1
  <2>12. PICK z \in X \ {x} : \A y \in X \ {x} : y <= z
    BY <2>11
  <2>13. \A y \in X : y <= IF z <= x THEN x ELSE z
    BY <2>12
  <2> QED  BY <2>5, <2>6, <2>12, <2>13
<1>2. HasMax(S)
  BY <1>1
<1> QED  BY <1>2 DEF Max

\* The bounds of the timers and the delays.
LEMMA Bounds ==
    /\ MaxT \in Nat /\ MaxS \in Nat /\ MaxD \in Nat /\ Bound = MaxT + MaxS + MaxD
    /\ \A t \in TriggerIntervals : t \in 1 .. MaxT
    /\ \A t \in SendIntervals : t \in 1 .. MaxS
    /\ \A t \in Delays : t \in 0 .. MaxD
<1> USE ConstantsAssumption
<1>1. TriggerIntervals \in SUBSET Nat /\ SendIntervals \in SUBSET Nat /\ Delays \in SUBSET Nat
  OBVIOUS
<1>2. MaxT \in TriggerIntervals /\ \A t \in TriggerIntervals : t <= MaxT
  BY <1>1, Largest DEF MaxT
<1>3. MaxS \in SendIntervals /\ \A t \in SendIntervals : t <= MaxS
  BY <1>1, Largest DEF MaxS
<1>4. MaxD \in Delays /\ \A t \in Delays : t <= MaxD
  BY <1>1, Largest DEF MaxD
<1>5. Bound = MaxT + MaxS + MaxD
  BY DEF Bound, MaxT, MaxS, MaxD
<1> QED  BY <1>1, <1>2, <1>3, <1>4, <1>5

\* Scheduling adds an event.
LEMMA Scheduled ==
    ASSUME NEW E, Timer(E), NEW t, t # Off
    PROVE  /\ Timer(Schedule(E, t)) /\ Schedule(E, t).event = t
           /\ Timers(Schedule(E, t)) = Timers(E) \cup {t}
<1> DEFINE o == IF E.event = Off THEN E.orphans ELSE E.orphans (+) SetToBag({E.event})
<1>1. Schedule(E, t) \in [event : {t}, orphans : {o}]
  <2>1. Schedule(E, t) = [E EXCEPT !.orphans = o, !.event = t]
    BY DEF Schedule
  <2> HIDE DEF o
  <2> QED  BY <2>1 DEF Timer
<1>2. BagToSet(o) = Timers(E)
  BY DEF Timers, BagToSet, SetToBag, (+)
<1> HIDE DEF o
<1> QED  BY <1>1, <1>2 DEF Timer, Timers

\* An event that runs was due.
LEMMA FiredTimer ==
    ASSUME NEW E, Timer(E), NEW F \in Fired(E)
    PROVE  Timer(F) /\ 0 \in Timers(E) /\ Timers(F) \subseteq Timers(E)
<1>1. CASE E.event = 0 /\ F = [E EXCEPT !.event = Off]
  BY <1>1 DEF Timer, Timers, Off
<1>2. CASE BagIn(0, E.orphans) /\ F = [E EXCEPT !.orphans = E.orphans (-) SetToBag({0})]
  <2>1. BagToSet(E.orphans (-) SetToBag({0})) \subseteq BagToSet(E.orphans)
    BY DEF BagToSet, (-)
  <2>2. F \in [event : {E.event}, orphans : {E.orphans (-) SetToBag({0})}]
    BY <1>2 DEF Timer
  <2> QED  BY <1>2, <2>1, <2>2 DEF Timer, Timers, BagIn
<1> QED  BY <1>1, <1>2 DEF Fired

\* Time passes for every event, if none is due.
LEMMA ElapsedTimer ==
    ASSUME NEW E, Timer(E), Fired(E) = {}, Timers(E) \subseteq Nat
    PROVE  /\ Timer(Elapsed(E)) /\ (Elapsed(E).event = Off <=> E.event = Off)
           /\ \A s \in Timers(E) : s > 0
           /\ Timers(Elapsed(E)) = {s - 1 : s \in Timers(E)}
<1> DEFINE o == [t \in {s - 1 : s \in BagToSet(E.orphans)} |-> E.orphans[t + 1]]
<1>1. Elapsed(E) \in [event : {Sooner(E.event)}, orphans : {o}]
  <2>1. Elapsed(E) = [E EXCEPT !.event = Sooner(E.event), !.orphans = o]
    BY DEF Elapsed
  <2> HIDE DEF o
  <2> QED  BY <2>1 DEF Timer
<1>2. BagToSet(o) = {s - 1 : s \in BagToSet(E.orphans)}
  BY DEF BagToSet
<1> HIDE DEF o
<1>3. 0 \notin Timers(E)
  BY DEF Fired, Timers, BagIn, Off
<1>4. E.event = Off \/ E.event \in Nat
  BY DEF Timers
<1>5. /\ E.event = Off => Sooner(E.event) = Off
      /\ E.event # Off => E.event \in Nat /\ E.event > 0 /\ Sooner(E.event) = E.event - 1
  BY <1>3, <1>4 DEF Sooner, Timers
<1>6. Timer(Elapsed(E)) /\ Elapsed(E).event = Sooner(E.event) /\ Elapsed(E).orphans = o
  BY <1>1 DEF Timer
<1>7. E.event # Off => Sooner(E.event) # Off
  BY <1>5 DEF Off
<1>8. \A s \in Timers(E) : s > 0
  BY <1>3
<1>9. CASE E.event = Off
  <2>1. Timers(E) = BagToSet(E.orphans) /\ Timers(Elapsed(E)) = BagToSet(o)
    BY <1>5, <1>6, <1>9, <1>8 DEF Timers, Off
  <2> QED  BY <1>2, <1>5, <1>6, <1>8, <1>9, <2>1
<1>10. CASE E.event # Off
  <2>1. Timers(E) = {E.event} \cup BagToSet(E.orphans)
    BY <1>10 DEF Timers
  <2>2. Timers(Elapsed(E)) = {E.event - 1} \cup BagToSet(o)
    BY <1>5, <1>6, <1>7, <1>10 DEF Timers
  <2> QED  BY <1>2, <1>6, <1>7, <1>8, <1>10, <2>1, <2>2
<1> QED  BY <1>9, <1>10

-----------------------------------------------------------------------------
(* The reporter, and what the invariant says.                              *)

\* The types are those of TypeOK.
LEMMA TypesImply == Typed => TypeOK /\ OneTriggerTimer
<1> SUFFICES ASSUME Typed PROVE TypeOK /\ OneTriggerTimer
  OBVIOUS
<1> USE DEF Typed
<1>1. send.event \in Nat \cup {Off} /\ BagToSet(send.orphans) \subseteq Nat
  BY DEF SendTyped, Timers
<1>2. rep.event \in Nat \cup {Off} /\ rep.orphans = EmptyBag
  <2>1. rep.event \in {Off} \cup 0 .. MaxT /\ rep.orphans = EmptyBag
    BY DEF RepTyped, Reporters
  <2> QED  BY <2>1, Bounds
<1>6. rep.linked = TRUE
  BY DEF RepTyped, Reporters
<1>7. rep.active <=> rep.event # Off
  BY DEF RepTyped
<1>3. BagToSet(rep.orphans) \subseteq Nat
  BY <1>2 DEF EmptyBag, SetToBag, BagToSet
<1>4. \A r \in reports : r.id \in 0 .. MaxIds /\ r.age \in 0 .. Bound + 1
  BY DEF WireTyped, Reports
<1>5. \A m \in net : m.id \in 0 .. MaxIds /\ m.left \in Nat
  BY DEF WireTyped, Messages
<1> QED  BY <1>1, <1>2, <1>3, <1>4, <1>5, <1>6, <1>7 DEF TypeOK, OneTriggerTimer, NodeTyped, WireTyped

\* A reporter that is not active is activated.
LEMMA RepActivated ==
    ASSUME RepTyped, ~rep.active, NEW t \in TriggerIntervals
    PROVE  Activated(rep, t) \in [active : {TRUE}, linked : {TRUE}, event : {t}, orphans : {EmptyBag}]
<1>1. rep \in [active : {FALSE}, linked : {TRUE}, event : {Off}, orphans : {EmptyBag}]
  BY DEF RepTyped, Reporters
<1>2. Activated(rep, t) = [Schedule(rep, t) EXCEPT !.active = TRUE]
  BY <1>1 DEF Activated
<1>3. Schedule(rep, t) = [rep EXCEPT !.orphans = EmptyBag, !.event = t]
  BY <1>1 DEF Schedule
<1> QED  BY <1>1, <1>2, <1>3

\* A reporter is deactivated and linked to its trigger again.
LEMMA RepDeactivated ==
    ASSUME Steady, RepTyped
    PROVE  Relinked(Deactivated(rep)) \in
             [active : {FALSE}, linked : {TRUE}, event : {Off}, orphans : {EmptyBag}]
<1>1. Deactivated(rep) \in [active : {FALSE}, linked : BOOLEAN, event : {Off}, orphans : {EmptyBag}]
  BY DEF RepTyped, Reporters, Deactivated
<1>2. Relinked(Deactivated(rep)) = [Deactivated(rep) EXCEPT !.linked = TRUE]
  BY <1>1 DEF Relinked, Steady
<1> QED  BY <1>1, <1>2

\* The trigger's only event runs, and the next one is scheduled.
LEMMA RepFired ==
    ASSUME RepTyped, NEW R \in Fired(rep), NEW t \in TriggerIntervals
    PROVE  /\ rep.active /\ R.active /\ rep.event = 0
           /\ Schedule(R, t) \in [active : {TRUE}, linked : {TRUE}, event : {t}, orphans : {EmptyBag}]
<1>1. ~BagIn(0, EmptyBag) /\ 0 # Off
  BY DEF BagIn, BagToSet, EmptyBag, SetToBag, Off
<1>2. rep \in Reporters /\ (rep.active <=> rep.event # Off)
  BY DEF RepTyped
<1>3. rep.orphans = EmptyBag
  BY <1>2 DEF Reporters
<1>4. rep.event = 0 /\ R = [rep EXCEPT !.event = Off]
  BY <1>1, <1>3 DEF Fired
<1>5. R \in [active : {TRUE}, linked : {TRUE}, event : {Off}, orphans : {EmptyBag}] /\ rep.active
  BY <1>1, <1>2, <1>4 DEF Reporters
<1>6. Schedule(R, t) = [R EXCEPT !.orphans = EmptyBag, !.event = t]
  BY <1>5 DEF Schedule
<1> QED  BY <1>4, <1>5, <1>6

\* Time passes for the trigger.
LEMMA RepElapsed ==
    ASSUME RepTyped, Fired(rep) = {}
    PROVE  /\ Elapsed(rep) \in [active : {rep.active}, linked : {TRUE}, event : {Sooner(rep.event)},
                                orphans : {EmptyBag}]
           /\ rep.event # Off => rep.event \in 1 .. MaxT /\ Sooner(rep.event) = rep.event - 1
           /\ rep.event = Off => Sooner(rep.event) = Off
<1> DEFINE o == [t \in {s - 1 : s \in BagToSet(EmptyBag)} |-> EmptyBag[t + 1]]
<1>1. rep \in Reporters
  BY DEF RepTyped
<1>2. rep.orphans = EmptyBag /\ rep.event \in {Off} \cup 0 .. MaxT
  BY <1>1 DEF Reporters
<1>3. o = EmptyBag
  BY DEF BagToSet, EmptyBag, SetToBag
<1>4. Elapsed(rep) = [rep EXCEPT !.event = Sooner(rep.event), !.orphans = o]
  BY <1>2 DEF Elapsed
<1> HIDE DEF o
<1>5. rep.event # 0
  BY DEF Fired
<1>6. /\ rep.event # Off => rep.event \in 1 .. MaxT /\ Sooner(rep.event) = rep.event - 1
      /\ rep.event = Off => Sooner(rep.event) = Off
  BY <1>2, <1>5, Bounds DEF Sooner
<1> QED  BY <1>1, <1>3, <1>4, <1>6 DEF Reporters

\* A reporter and its trigger, as they are after an action.
LEMMA RepTypes ==
    ASSUME \/ rep' = rep /\ RepTyped
           \/ \E t \in TriggerIntervals :
                rep' \in [active : {TRUE}, linked : {TRUE}, event : {t}, orphans : {EmptyBag}]
           \/ rep' \in [active : {FALSE}, linked : {TRUE}, event : {Off}, orphans : {EmptyBag}]
    PROVE  RepTyped'
<1>1. ASSUME NEW t \in TriggerIntervals,
             rep' \in [active : {TRUE}, linked : {TRUE}, event : {t}, orphans : {EmptyBag}]
      PROVE  RepTyped'
  <2>1. t \in {Off} \cup 0 .. MaxT /\ t # Off
    BY Bounds DEF Off
  <2>2. rep' \in Reporters
    BY <1>1, <2>1 DEF Reporters
  <2>3. rep'.active /\ rep'.event # Off
    BY <1>1, <2>1
  <2> QED  BY <2>2, <2>3 DEF RepTyped
<1>2. CASE rep' \in [active : {FALSE}, linked : {TRUE}, event : {Off}, orphans : {EmptyBag}]
  BY <1>2 DEF RepTyped, Reporters
<1>3. CASE rep' = rep /\ RepTyped
  BY <1>3 DEF RepTyped
<1> QED  BY <1>1, <1>2, <1>3

\* The newest row is not too old: its successor is under way, and not for too long.
LEMMA RowsFresh == ASSUME ReportInv PROVE FreshRows
<1> SUFFICES ASSUME Watched PROVE rowAge <= Bound
  BY DEF FreshRows, Watched
<1>1. Fresh /\ Typed
  BY DEF ReportInv
<1>2. rowAge \in Nat /\ MaxT \in Nat /\ MaxS \in Nat /\ MaxD \in Nat /\ Bound = MaxT + MaxS + MaxD
  BY <1>1, Bounds DEF Typed, WireTyped
<1>3. CASE rep.event + rowAge <= MaxT
  <2>1. rep.event \in 0 .. MaxT
    BY <1>1 DEF Watched, Typed, RepTyped, Reporters
  <2> QED  BY <1>2, <1>3, <2>1
<1>4. ASSUME NEW r \in reports, Follows(r, rowAge) PROVE rowAge <= Bound
  <2>1. PICK s \in Timers(send) : r.age + s <= MaxS
    BY <1>1, <1>4 DEF Fresh, Younger, Follows
  <2>2. s \in Nat /\ r.age \in Nat /\ rowAge <= r.age + MaxT
    BY <1>1, <1>4, <2>1 DEF Typed, SendTyped, WireTyped, Reports, Follows
  <2> QED  BY <1>2, <2>1, <2>2
<1>5. ASSUME NEW m \in net, Follows(m, rowAge) PROVE rowAge <= Bound
  <2>1. m.age + m.left <= MaxS + MaxD
    BY <1>1, <1>5 DEF Fresh, Younger, Follows
  <2>2. m.left \in Nat /\ m.age \in Nat /\ rowAge <= m.age + MaxT
    BY <1>1, <1>5 DEF Typed, WireTyped, Messages, Follows
  <2> QED  BY <1>2, <2>1, <2>2
<1> QED  BY <1>1, <1>3, <1>4, <1>5 DEF Fresh, Successor

\* Nothing is younger than a row of now.
LEMMA NewRow ==
    ASSUME Typed', rowAge' = 0, Watched'
    PROVE  Fresh'
<1>1. rep'.event \in 0 .. MaxT
  BY DEF Watched, Typed, RepTyped, Reporters
<1>2. Successor(rowAge)'
  BY <1>1, Bounds DEF Successor
<1>3. \A r \in reports' : ~(r.age < rowAge')
  BY DEF Typed, WireTyped, Reports
<1>4. \A m \in net' : ~(m.age < rowAge')
  BY DEF Typed, WireTyped, Messages
<1> QED  BY <1>2, <1>3, <1>4 DEF Fresh, Younger

\* Nothing that Fresh speaks of changes, and no send event is lost.
LEMMA SameFresh ==
    ASSUME Fresh, UNCHANGED <<nodeId, reports, net, rep, rowAge>>, Timers(send) \subseteq Timers(send')
    PROVE  Fresh'
  BY DEF Fresh, Successor, Follows, Younger

\* A step that watches no node, or changes nothing of what is watched.
LEMMA Unwatched ==
    ASSUME ReportInv, Typed', Registration', ~aborted',
           \/ ~Watched'
           \/ Watched' /\ rowAge' = 0
           \/ Watched /\ UNCHANGED <<nodeId, reports, net, rep, rowAge>> /\ Timers(send) \subseteq Timers(send')
    PROVE  ReportInv'
<1>1. Watched' => Fresh'
  BY NewRow, SameFresh DEF ReportInv
<1> QED  BY <1>1 DEF ReportInv

-----------------------------------------------------------------------------
(* Operations of the node and of the scenario.                             *)

LEMMA ActivateStep == ASSUME Steady, ReportInv, Activate PROVE ReportInv'
<1> USE DEF Activate
<1>1. ~active /\ ~rep.active /\ nodeId \notin registered /\ ~aborted /\ Typed
  BY DEF ReportInv, Registration
<1>2. UNCHANGED <<nodeId, send, net, registered, nextId, deregs, rowAge, aborted>>
  BY DEF repoVars
<1>3. NodeTyped'
  BY <1>1, <1>2 DEF Typed, NodeTyped
<1>4. WireTyped'
  BY <1>1, <1>2 DEF Typed, WireTyped
<1>5. SendTyped'
  BY <1>1, <1>2 DEF Typed, SendTyped
<1>6. RepTyped'
  BY <1>1, RepActivated, RepTypes DEF Typed
<1>7. Registration'
  BY <1>1, <1>2 DEF ReportInv, Registration
<1>8. ~Watched'
  BY <1>1, <1>2 DEF Watched
<1> QED  BY <1>1, <1>2, <1>3, <1>4, <1>5, <1>6, <1>7, <1>8, Unwatched DEF Typed

LEMMA DeactivateStep == ASSUME Steady, ReportInv, Deactivate PROVE ReportInv'
<1> USE DEF Deactivate
<1>1. Typed /\ ~aborted
  BY DEF ReportInv
<1>2. rep' \in [active : {FALSE}, linked : {TRUE}, event : {Off}, orphans : {EmptyBag}]
  BY <1>1, RepDeactivated DEF Typed
<1>3. ~rep'.active /\ RepTyped'
  BY <1>2, RepTypes
<1>4. NodeTyped'
  <2>1. deregs' \in Nat
    BY <1>1 DEF Typed, NodeTyped
  <2> QED  BY <1>1, <2>1 DEF Typed, NodeTyped
<1>5. WireTyped'
  BY <1>1 DEF Typed, WireTyped
<1>6. send' \in [event : {Off}, orphans : {send.orphans}]
  BY <1>1 DEF Typed, SendTyped, Timer
<1>7. SendTyped'
  BY <1>1, <1>6 DEF Typed, SendTyped, Timer, Timers
<1>8. Registration'
  BY <1>3 DEF Registration
<1>9. ~Watched'
  BY <1>3 DEF Watched
<1> QED  BY <1>1, <1>3, <1>4, <1>5, <1>7, <1>8, <1>9, Unwatched DEF Typed

LEMMA ActivateReporterStep == ASSUME Steady, ReportInv, ActivateReporter PROVE ReportInv'
<1> USE DEF ActivateReporter
<1>1. active /\ ~rep.active /\ ~aborted /\ Typed
  BY DEF ReportInv, Steady
<1>2. RepTyped'
  BY <1>1, RepActivated, RepTypes DEF Typed
<1>3. NodeTyped'
  BY <1>1 DEF Typed, NodeTyped
<1>4. WireTyped'
  <2>1. 0 \in 0 .. Bound + 1
    BY Bounds
  <2> QED  BY <1>1, <2>1 DEF Typed, WireTyped
<1>5. SendTyped'
  BY <1>1 DEF Typed, SendTyped
<1>6. Registration'
  BY <1>1 DEF ReportInv, Registration
<1> QED  BY <1>1, <1>2, <1>3, <1>4, <1>5, <1>6, Unwatched DEF Typed

LEMMA DeactivateReporterStep == ASSUME Steady, ReportInv, DeactivateReporter PROVE ReportInv'
<1> USE DEF DeactivateReporter
<1>1. Typed /\ ~aborted
  BY DEF ReportInv
<1>2. rep' \in [active : {FALSE}, linked : {TRUE}, event : {Off}, orphans : {EmptyBag}]
  BY <1>1, RepDeactivated DEF Typed
<1>3. ~rep'.active /\ RepTyped'
  BY <1>2, RepTypes
<1>4. NodeTyped' /\ WireTyped' /\ SendTyped'
  BY <1>1 DEF Typed, NodeTyped, WireTyped, SendTyped, repoVars
<1>5. Registration'
  BY <1>3 DEF ReportInv, Registration, repoVars
<1>6. ~Watched'
  BY <1>3 DEF Watched
<1> QED  BY <1>1, <1>3, <1>4, <1>5, <1>6, Unwatched DEF Typed

-----------------------------------------------------------------------------
(* Responses of the repository.                                            *)

\* The registration completes under the node's ID, or under a new one.  Without an initial
\* report the reporter does nothing.
LEMMA RegistrationStep == ASSUME Steady, ReportInv, ReceiveRegistrationResponse PROVE ReportInv'
<1>1. Typed /\ ~aborted /\ active /\ active' = active /\ net' = net /\ deregs' = deregs
  BY DEF ReportInv, ReceiveRegistrationResponse
<1>2. PICK i \in ({nodeId} \ {0}) \cup ({nextId} \cap (1 .. MaxIds)) :
         /\ nodeId' = i
         /\ registered' = registered \cup {i}
         /\ nextId' = IF i = nextId THEN nextId + 1 ELSE nextId
         /\ rowAge' = IF i = nodeId /\ i \in registered THEN rowAge ELSE 0
         /\ IF i # nodeId THEN NotifyRegistrationComplete(i) ELSE UNCHANGED <<rep, reports, aborted>>
  BY DEF ReceiveRegistrationResponse
<1>3. rep.linked = TRUE
  BY <1>1 DEF Typed, RepTyped, Reporters
<1>4. UNCHANGED <<rep, reports, aborted>>
  BY <1>2, <1>3 DEF NotifyRegistrationComplete, Steady
<1>5. PICK t \in SendIntervals : send' = Schedule(send, t)
  BY DEF ReceiveRegistrationResponse, ScheduleNextSend
<1>6. t \in 0 .. MaxS /\ t # Off
  BY Bounds DEF Off
<1>7. Timer(send') /\ send'.event = t /\ Timers(send') = Timers(send) \cup {t}
  BY <1>1, <1>5, <1>6, Scheduled DEF Typed, SendTyped
<1>8. SendTyped'
  BY <1>1, <1>6, <1>7 DEF Typed, SendTyped
<1>9. NodeTyped'
  <2>1. i \in 1 .. MaxIds
    BY <1>1, <1>2 DEF Typed, NodeTyped
  <2>2. nextId' \in 1 .. MaxIds + 1
    BY <1>1, <1>2, <2>1, ConstantsAssumption DEF Typed, NodeTyped
  <2>3. i \in 0 .. MaxIds /\ registered' \subseteq 1 .. MaxIds
    BY <1>1, <1>2, <2>1 DEF Typed, NodeTyped
  <2> QED  BY <1>1, <1>2, <2>2, <2>3 DEF Typed, NodeTyped
<1>10. WireTyped'
  <2>1. 0 \in 0 .. Bound + 1
    BY Bounds
  <2> QED  BY <1>1, <1>2, <1>4, <2>1 DEF Typed, WireTyped
<1>11. RepTyped'
  BY <1>1, <1>4 DEF Typed, RepTyped
<1>12. Registration'
  BY <1>1, <1>6, <1>7 DEF Registration
<1>13. CASE i = nodeId /\ i \in registered
  <2>1. UNCHANGED <<nodeId, reports, net, rep, rowAge>> /\ Timers(send) \subseteq Timers(send')
    BY <1>1, <1>2, <1>4, <1>7, <1>13
  <2>2. Watched' => Watched
    BY <1>1, <1>4, <1>13 DEF Watched
  <2> QED  BY <1>1, <1>4, <1>8, <1>9, <1>10, <1>11, <1>12, <2>1, <2>2, Unwatched DEF Typed
<1>14. CASE ~(i = nodeId /\ i \in registered)
  <2>1. rowAge' = 0
    BY <1>2, <1>14
  <2> QED  BY <1>1, <1>4, <1>8, <1>9, <1>10, <1>11, <1>12, <2>1, Unwatched DEF Typed
<1> QED  BY <1>13, <1>14

LEMMA ExpireStep == ASSUME Steady, ReportInv, Expire PROVE ReportInv'
<1> USE DEF Expire
<1>1. Typed /\ ~aborted
  BY DEF ReportInv
<1>2. NodeTyped' /\ WireTyped' /\ SendTyped' /\ RepTyped'
  BY <1>1 DEF Typed, NodeTyped, WireTyped, SendTyped, RepTyped
<1>3. Registration'
  BY DEF ReportInv, Registration
<1>4. ~Watched'
  BY DEF Watched
<1> QED  BY <1>1, <1>2, <1>3, <1>4, Unwatched DEF Typed

\* No node is registered under the ID 0.
LEMMA DeregistrationStep == ASSUME Steady, ReportInv, ReceiveDeregistrationResponse PROVE ReportInv'
<1> USE DEF ReceiveDeregistrationResponse
<1>1. Typed /\ ~aborted
  BY DEF ReportInv
<1>2. 0 \notin registered /\ 0 \in 0 .. MaxIds /\ deregs' \in Nat
  BY <1>1, ConstantsAssumption DEF Typed, NodeTyped
<1>3. NodeTyped' /\ WireTyped' /\ SendTyped' /\ RepTyped'
  BY <1>1, <1>2 DEF Typed, NodeTyped, WireTyped, SendTyped, RepTyped
<1>4. Registration' /\ ~Watched'
  BY <1>2 DEF ReportInv, Registration, Watched
<1> QED  BY <1>1, <1>3, <1>4, Unwatched DEF Typed

-----------------------------------------------------------------------------
(* Reports: generated, sent and received.                                  *)

\* The report that is generated succeeds whatever waited for the trigger's event.
LEMMA TriggerStep == ASSUME Steady, ReportInv, TriggerReport PROVE ReportInv'
<1>1. PICK R \in Fired(rep), t \in TriggerIntervals :
         /\ IF R.active
            THEN rep' = Schedule(R, t) /\ UNCHANGED aborted
            ELSE rep' = R /\ aborted' = TRUE
         /\ reports' = PerformReport(R, nodeId)
         /\ UNCHANGED <<active, nodeId, send, net, repoVars, ops>>
  BY DEF TriggerReport
<1>2. Typed /\ Registration /\ ~aborted /\ (Watched => Fresh)
  BY DEF ReportInv
<1>3. /\ rep.active /\ R.active /\ rep.event = 0
      /\ Schedule(R, t) \in [active : {TRUE}, linked : {TRUE}, event : {t}, orphans : {EmptyBag}]
  BY <1>2, RepFired DEF Typed
<1>4. rep' \in [active : {TRUE}, linked : {TRUE}, event : {t}, orphans : {EmptyBag}] /\ ~aborted'
  BY <1>1, <1>2, <1>3
<1>15. PICK new : new = [id |-> nodeId, age |-> 0]
  OBVIOUS
<1>5. active /\ reports' = reports \cup {new}
  BY <1>1, <1>2, <1>3, <1>15 DEF Registration, PerformReport, StoreReport
<1>6. UNCHANGED <<active, nodeId, send, net, registered, nextId, deregs, rowAge>>
  BY <1>1 DEF repoVars
<1>7. RepTyped' /\ NodeTyped' /\ SendTyped'
  BY <1>2, <1>4, <1>6, RepTypes DEF Typed, NodeTyped, SendTyped
<1>8. new \in Reports /\ new.id = nodeId /\ new.age = 0
  <2>1. 0 \in 0 .. Bound + 1
    BY Bounds
  <2> QED  BY <1>2, <1>15, <2>1 DEF Typed, NodeTyped, Reports
<1>9. WireTyped'
  BY <1>2, <1>5, <1>6, <1>8 DEF Typed, WireTyped
<1>10. Registration'
  BY <1>2, <1>5, <1>6 DEF Registration
<1>11. Watched' => Watched
  BY <1>3, <1>6 DEF Watched
<1>12. rep'.event = t /\ t \in 1 .. MaxT /\ MaxT \in Nat /\ MaxS \in Nat
  BY <1>4, Bounds
<1>13. \A a \in Nat : Successor(a) => Successor(a)'
  <2> SUFFICES ASSUME NEW a \in Nat, Successor(a) PROVE Successor(a)'
    OBVIOUS
  <2>1. CASE rep.event + a <= MaxT /\ a = 0
    BY <1>12, <2>1 DEF Successor
  <2>2. CASE rep.event + a <= MaxT /\ a # 0
    <3>1. (new.id = nodeId') /\ new.age < a /\ a <= new.age + MaxT /\ new \in reports'
      BY <1>3, <1>5, <1>6, <1>8, <1>12, <2>2
    <3> QED  BY <3>1 DEF Successor, Follows
  <2>3. CASE \E r \in reports : Follows(r, a)
    BY <1>5, <1>6, <2>3 DEF Successor, Follows
  <2>4. CASE \E m \in net : Follows(m, a)
    BY <1>6, <2>4 DEF Successor, Follows
  <2> QED  BY <2>1, <2>2, <2>3, <2>4 DEF Successor
<1>14. ASSUME Watched' PROVE Fresh'
  <2>1. Fresh /\ nodeId \in registered
    BY <1>2, <1>11, <1>14 DEF Watched
  <2>2. Successor(rowAge)'
    BY <1>2, <1>6, <1>13, <2>1 DEF Fresh, Typed, WireTyped
  <2>3. Successor(new.age)' /\ \E s \in Timers(send') : new.age + s <= MaxS
    <3>1. send.event \in Timers(send) /\ send.event \in 0 .. MaxS
      BY <1>2, <2>1 DEF Registration, Timers, Typed, SendTyped
    <3>2. rep'.event + new.age <= MaxT
      BY <1>8, <1>12
    <3>3. new.age + send.event <= MaxS
      BY <1>8, <3>1
    <3> QED  BY <1>6, <3>1, <3>2, <3>3 DEF Successor
  <2>4. ASSUME NEW r \in reports, Younger(r)'
        PROVE  Successor(r.age)' /\ \E s \in Timers(send') : r.age + s <= MaxS
    <3>1. r.age \in Nat
      BY <1>2 DEF Typed, WireTyped, Reports
    <3>2. Younger(r)
      BY <1>6, <2>4 DEF Younger
    <3>3. Successor(r.age) /\ \E s \in Timers(send) : r.age + s <= MaxS
      BY <2>1, <3>2 DEF Fresh
    <3> QED  BY <1>6, <1>13, <3>1, <3>3
  <2>5. ASSUME NEW m \in net, Younger(m)'
        PROVE  Successor(m.age)' /\ m.age + m.left <= MaxS + MaxD
    <3>1. m.age \in Nat
      BY <1>2 DEF Typed, WireTyped, Messages
    <3>2. Younger(m)
      BY <1>6, <2>5 DEF Younger
    <3>3. Successor(m.age) /\ m.age + m.left <= MaxS + MaxD
      BY <2>1, <3>2 DEF Fresh
    <3> QED  BY <1>13, <3>1, <3>3
  <2> QED  BY <1>5, <1>6, <2>2, <2>3, <2>4, <2>5 DEF Fresh
<1> QED  BY <1>4, <1>7, <1>9, <1>10, <1>14 DEF ReportInv, Typed

\* The reports collected are sent; they keep their age.
LEMMA SendStep == ASSUME Steady, ReportInv, DoSendReports PROVE ReportInv'
<1>1. Typed /\ Registration /\ ~aborted /\ (Watched => Fresh)
  BY DEF ReportInv
<1>2. PICK E \in Fired(send) :
         /\ IF active
            THEN /\ reports' = {}
                 /\ \E left \in [reports -> Delays] :
                      net' = net \cup {[id |-> r.id, age |-> r.age, left |-> left[r]] : r \in reports}
                 /\ ScheduleNextSend(E)
            ELSE send' = E /\ UNCHANGED <<reports, net>>
         /\ UNCHANGED <<active, nodeId, rep, repoVars, aborted, ops>>
  BY DEF DoSendReports
<1>3. UNCHANGED <<active, nodeId, rep, registered, nextId, deregs, rowAge, aborted>>
  BY <1>2 DEF repoVars
<1>4. Timer(E) /\ 0 \in Timers(send) /\ Timers(E) \subseteq Timers(send)
  BY <1>1, <1>2, FiredTimer DEF Typed, SendTyped
<1>5. RepTyped' /\ NodeTyped'
  BY <1>1, <1>3 DEF Typed, RepTyped, NodeTyped
<1>6. CASE ~active
  <2>1. SendTyped' /\ WireTyped'
    BY <1>1, <1>2, <1>3, <1>4, <1>6 DEF Typed, SendTyped, WireTyped
  <2>2. Registration' /\ ~Watched'
    BY <1>1, <1>3, <1>6 DEF Registration, Watched
  <2> QED  BY <1>1, <1>3, <1>5, <2>1, <2>2 DEF ReportInv, Typed
<1>7. CASE active
  <2>1. PICK left \in [reports -> Delays] :
          net' = net \cup {[id |-> r.id, age |-> r.age, left |-> left[r]] : r \in reports}
    BY <1>2, <1>7
  <2>2. PICK t \in SendIntervals : send' = Schedule(E, t)
    BY <1>2, <1>7 DEF ScheduleNextSend
  <2>3. t \in 0 .. MaxS /\ t # Off /\ MaxS \in Nat /\ MaxD \in Nat
    BY Bounds DEF Off
  <2>4. Timer(send') /\ send'.event = t /\ Timers(send') = Timers(E) \cup {t}
    BY <1>4, <2>2, <2>3, Scheduled
  <2>5. SendTyped'
    BY <1>1, <1>4, <2>3, <2>4 DEF Typed, SendTyped
  <2>6. reports' = {}
    BY <1>2, <1>7
  <2>7. \A r \in reports : left[r] \in 0 .. MaxD
    BY <2>1, Bounds
  <2>8. \A r \in reports : \E m \in net' : m.id = r.id /\ m.age = r.age
    <3> TAKE r \in reports
    <3>1. [id |-> r.id, age |-> r.age, left |-> left[r]] \in net'
      BY <2>1
    <3> QED  BY <3>1
  <2>9. \A m \in net' : m \in net \/ \E r \in reports : /\ m = [id |-> r.id, age |-> r.age, left |-> left[r]]
                                                        /\ m.id = r.id /\ m.age = r.age /\ m.left = left[r]
    BY <2>1
  <2>10. WireTyped'
    <3>1. \A r \in reports : [id |-> r.id, age |-> r.age, left |-> left[r]] \in Messages
      BY <1>1, <2>7 DEF Typed, WireTyped, Reports, Messages
    <3>2. net' \subseteq Messages
      BY <1>1, <2>1, <3>1 DEF Typed, WireTyped
    <3> QED  BY <1>1, <1>3, <2>6, <3>2 DEF Typed, WireTyped
  <2>11. Registration'
    BY <1>3, <1>7, <2>3, <2>4 DEF Registration
  <2>12. Watched' => Watched
    BY <1>3 DEF Watched
  <2>13. \A a : Successor(a) => Successor(a)'
    <3> SUFFICES ASSUME NEW a, Successor(a) PROVE Successor(a)'
      OBVIOUS
    <3>1. CASE rep.event + a <= MaxT
      BY <1>3, <3>1 DEF Successor
    <3>2. CASE \E r \in reports : Follows(r, a)
      BY <1>3, <2>8, <3>2 DEF Successor, Follows
    <3>3. CASE \E m \in net : Follows(m, a)
      BY <1>3, <2>1, <3>3 DEF Successor, Follows
    <3> QED  BY <3>1, <3>2, <3>3 DEF Successor
  <2>14. ASSUME Watched' PROVE Fresh'
    <3>1. Fresh
      BY <1>1, <2>12, <2>14
    <3>2. Successor(rowAge)'
      BY <1>3, <2>13, <3>1 DEF Fresh
    <3>3. ASSUME NEW m \in net, Younger(m)'
          PROVE  Successor(m.age)' /\ m.age + m.left <= MaxS + MaxD
      BY <1>3, <2>13, <3>1, <3>3 DEF Fresh, Younger
    <3>4. ASSUME NEW m, NEW r \in reports, m.id = r.id, m.age = r.age, m.left = left[r], Younger(m)'
          PROVE  Successor(m.age)' /\ m.age + m.left <= MaxS + MaxD
      <4>1. Younger(r)
        BY <1>3, <3>4 DEF Younger
      <4>2. Successor(r.age) /\ \E s \in Timers(send) : r.age + s <= MaxS
        BY <3>1, <4>1 DEF Fresh
      <4>3. r.age \in Nat /\ Timers(send) \subseteq Nat
        BY <1>1 DEF Typed, WireTyped, Reports, SendTyped
      <4>4. r.age <= MaxS
        BY <2>3, <4>2, <4>3
      <4>5. r.age + left[r] <= MaxS + MaxD
        BY <2>3, <2>7, <4>3, <4>4
      <4> QED  BY <2>13, <3>4, <4>2, <4>5
    <3>5. \A m \in net' : Younger(m)' => Successor(m.age)' /\ m.age + m.left <= MaxS + MaxD
      BY <2>9, <3>3, <3>4
    <3> QED  BY <2>6, <3>2, <3>5 DEF Fresh
  <2> QED  BY <1>1, <1>3, <1>5, <2>5, <2>10, <2>11, <2>14 DEF ReportInv, Typed
<1> QED  BY <1>6, <1>7

\* The successors of what is at least as young as the row are younger than the report
\* that the row came from.
LEMMA ReceiveStep == ASSUME Steady, ReportInv, ReceiveReport PROVE ReportInv'
<1>1. Typed /\ Registration /\ ~aborted /\ (Watched => Fresh)
  BY DEF ReportInv
<1>2. PICK m \in net :
         /\ net' = net \ {m}
         /\ rowAge' = IF m.id \in registered /\ m.id = nodeId THEN NewestRow(m) ELSE rowAge
         /\ UNCHANGED <<active, nodeId, send, reports, rep, registered, nextId, deregs, aborted, ops>>
  BY DEF ReceiveReport
<1>3. m.age \in 0 .. Bound + 1 /\ rowAge \in 0 .. Bound + 1
  BY <1>1 DEF Typed, WireTyped, Messages
<1>4. /\ rowAge' \in 0 .. Bound + 1 /\ rowAge' <= rowAge
      /\ rowAge' = rowAge \/ (rowAge' = m.age /\ Younger(m))
  <2>1. CASE m.id = nodeId /\ m.age < rowAge /\ rowAge' = m.age
    BY <1>3, <2>1, Bounds DEF Younger
  <2>2. CASE rowAge' = rowAge
    BY <1>3, <2>2, Bounds
  <2> QED  BY <1>2, <2>1, <2>2 DEF NewestRow
<1>5. SendTyped' /\ NodeTyped' /\ RepTyped' /\ Registration'
  BY <1>1, <1>2 DEF Typed, SendTyped, NodeTyped, RepTyped, Registration
<1>6. WireTyped'
  BY <1>1, <1>2, <1>4 DEF Typed, WireTyped
<1>7. ASSUME Watched' PROVE Fresh'
  <2>1. Fresh /\ nodeId \in registered
    BY <1>1, <1>2, <1>7 DEF Watched
  <2>2. m.id = nodeId => rowAge' <= m.age
    BY <1>2, <1>3, <2>1, Bounds DEF NewestRow
  <2>3. \A x \in net : x.age \in Nat
    BY <1>1 DEF Typed, WireTyped, Messages
  <2>4. ASSUME NEW a \in Nat, a <= rowAge', Successor(a) PROVE Successor(a)'
    <3>1. ASSUME NEW x \in net, Follows(x, a) PROVE x \in net' /\ Follows(x, a)'
      <4>1. x # m
        BY <1>3, <1>4, <2>2, <2>3, <2>4, <3>1 DEF Follows
      <4> QED  BY <1>2, <3>1, <4>1 DEF Follows
    <3> QED  BY <1>2, <2>4, <3>1 DEF Successor, Follows
  <2>5. Successor(rowAge)'
    <3>1. Successor(rowAge') /\ rowAge' \in Nat /\ rowAge' <= rowAge'
      BY <1>2, <1>3, <1>4, <2>1 DEF Fresh
    <3>2. PICK a \in Nat : a = rowAge'
      BY <3>1
    <3>3. Successor(a)'
      BY <2>4, <3>1, <3>2
    <3> QED  BY <3>2, <3>3 DEF Successor, Follows
  <2>6. ASSUME NEW r \in reports, Younger(r)'
        PROVE  Successor(r.age)' /\ \E s \in Timers(send') : r.age + s <= MaxS
    <3>1. r.age \in Nat
      BY <1>1 DEF Typed, WireTyped, Reports
    <3>2. Younger(r) /\ r.age <= rowAge'
      BY <1>2, <1>3, <1>4, <2>6, <3>1 DEF Younger
    <3> QED  BY <1>2, <2>1, <2>4, <3>1, <3>2 DEF Fresh
  <2>7. ASSUME NEW x \in net, Younger(x)'
        PROVE  Successor(x.age)' /\ x.age + x.left <= MaxS + MaxD
    <3>1. Younger(x) /\ x.age <= rowAge'
      BY <1>2, <1>3, <1>4, <2>3, <2>7 DEF Younger
    <3> QED  BY <2>1, <2>3, <2>4, <3>1 DEF Fresh
  <2> QED  BY <1>2, <2>5, <2>6, <2>7 DEF Fresh
<1> QED  BY <1>1, <1>2, <1>5, <1>6, <1>7 DEF ReportInv, Typed

-----------------------------------------------------------------------------
(* Time.                                                                   *)

\* An age stays in its bounds; one that is at most Bound grows.
LEMMA Ageing ==
    ASSUME NEW t \in 0 .. Bound + 1
    PROVE  /\ Older(t) \in 0 .. Bound + 1
           /\ t <= Bound => Older(t) = t + 1
           /\ t > Bound => Older(t) = t
<1>1. Bound \in Nat
  BY Bounds
<1> QED  BY <1>1 DEF Older

\* Everything grows older at the same pace, and every timer comes closer.
LEMMA TickStep == ASSUME Steady, ReportInv, Tick PROVE ReportInv'
<1>1. Typed /\ Registration /\ ~aborted /\ (Watched => Fresh)
  BY DEF ReportInv
<1>2. /\ Fired(send) = {} /\ Fired(rep) = {}
      /\ \A m \in net : m.left > 0
      /\ send' = Elapsed(send)
      /\ rep' = Elapsed(rep)
      /\ reports' = {[r EXCEPT !.age = Older(r.age)] : r \in reports}
      /\ net' = {[m EXCEPT !.age = Older(m.age), !.left = m.left - 1] : m \in net}
      /\ rowAge' = Older(rowAge)
      /\ UNCHANGED <<active, nodeId, registered, nextId, deregs, aborted, ops>>
  BY DEF Tick
<1>3. Bound \in Nat /\ MaxT \in Nat /\ MaxS \in Nat /\ MaxD \in Nat
  BY Bounds
<1>4. \A r \in reports : /\ r.age \in 0 .. Bound + 1
                         /\ [r EXCEPT !.age = Older(r.age)] \in Reports
                         /\ [r EXCEPT !.age = Older(r.age)].id = r.id
                         /\ [r EXCEPT !.age = Older(r.age)].age = Older(r.age)
  <2> TAKE r \in reports
  <2>1. r \in Reports
    BY <1>1 DEF Typed, WireTyped
  <2>2. Older(r.age) \in 0 .. Bound + 1
    BY <2>1, Ageing DEF Reports
  <2> QED  BY <2>1, <2>2 DEF Reports
<1> DEFINE aged(m) == [m EXCEPT !.age = Older(m.age), !.left = m.left - 1]
<1>5. \A m \in net : /\ m.age \in 0 .. Bound + 1 /\ m.left \in Nat /\ aged(m) \in Messages
                     /\ aged(m).id = m.id /\ aged(m).age = Older(m.age) /\ aged(m).left = m.left - 1
  <2> TAKE m \in net
  <2>1. m \in Messages /\ m.left > 0
    BY <1>1, <1>2 DEF Typed, WireTyped
  <2>2. Older(m.age) \in 0 .. Bound + 1 /\ m.left - 1 \in Nat
    BY <2>1, Ageing DEF Messages
  <2> QED  BY <2>1, <2>2 DEF Messages
<1> HIDE DEF aged
<1>6. \A x \in reports' : \E r \in reports : x.id = r.id /\ x.age = Older(r.age) /\ x \in Reports
  BY <1>2, <1>4
<1>7. \A r \in reports : \E x \in reports' : x.id = r.id /\ x.age = Older(r.age)
  BY <1>2, <1>4
<1>8. net' = {aged(m) : m \in net}
  BY <1>2 DEF aged
<1>9. \A x \in net' : \E m \in net :
        x.id = m.id /\ x.age = Older(m.age) /\ x.left = m.left - 1 /\ x \in Messages
  BY <1>5, <1>8
<1>10. \A m \in net : \E x \in net' : x.id = m.id /\ x.age = Older(m.age)
  BY <1>5, <1>8
<1>11. rowAge \in 0 .. Bound + 1
  BY <1>1 DEF Typed, WireTyped
<1>24. nodeId' = nodeId /\ rowAge' = Older(rowAge)
  BY <1>2
<1>25. (\A r \in reports : r.age \in 0 .. Bound + 1) /\ (\A m \in net : m.age \in 0 .. Bound + 1)
  BY <1>4, <1>5
<1>12. WireTyped'
  <2>1. rowAge' \in 0 .. Bound + 1
    BY <1>2, <1>11, Ageing
  <2> QED  BY <1>6, <1>9, <2>1 DEF WireTyped
<1>13. /\ Timer(send') /\ (send'.event = Off <=> send.event = Off)
       /\ \A s \in Timers(send) : s > 0
       /\ Timers(send') = {s - 1 : s \in Timers(send)}
  <2>1. Timer(send) /\ Timers(send) \subseteq Nat
    BY <1>1, <1>3 DEF Typed, SendTyped
  <2> QED  BY <1>2, <2>1, ElapsedTimer
<1>14. SendTyped'
  <2>1. \A s \in Timers(send) : s - 1 \in 0 .. MaxS
    BY <1>1, <1>3, <1>13 DEF Typed, SendTyped
  <2> QED  BY <1>13, <2>1 DEF SendTyped
<1>15. /\ rep' \in [active : {rep.active}, linked : {TRUE}, event : {Sooner(rep.event)}, orphans : {EmptyBag}]
       /\ rep.event # Off => rep.event \in 1 .. MaxT /\ Sooner(rep.event) = rep.event - 1
       /\ rep.event = Off => Sooner(rep.event) = Off
  BY <1>1, <1>2, RepElapsed DEF Typed
<1>16. rep.active \in BOOLEAN /\ (rep.active <=> rep.event # Off)
  BY <1>1 DEF Typed, RepTyped, Reporters
<1>17. /\ Sooner(rep.event) \in {Off} \cup 0 .. MaxT
       /\ Sooner(rep.event) = Off <=> rep.event = Off
  BY <1>3, <1>15 DEF Off
<1>18. rep'.active = rep.active /\ rep'.event = Sooner(rep.event)
  BY <1>15
<1>19. RepTyped'
  <2>1. rep' \in Reporters
    BY <1>15, <1>16, <1>17 DEF Reporters
  <2> QED  BY <1>16, <1>17, <1>18, <2>1 DEF RepTyped
<1>20. NodeTyped'
  BY <1>1, <1>2 DEF Typed, NodeTyped
<1>21. Registration'
  BY <1>1, <1>2, <1>13, <1>18 DEF Registration
<1>22. Watched' => Watched
  BY <1>2, <1>18 DEF Watched
<1>23. ASSUME Watched' PROVE Fresh'
  <2>1. Fresh /\ Watched
    BY <1>1, <1>22, <1>23
  <2>2. rowAge <= Bound
    BY <2>1, RowsFresh DEF FreshRows, Watched
  <2>3. rowAge' = rowAge + 1
    BY <1>2, <1>11, <2>2, Ageing
  <2>4. rep.event \in 1 .. MaxT /\ rep'.event = rep.event - 1
    BY <1>15, <1>16, <1>18, <2>1 DEF Watched
  <2>5. ASSUME NEW a \in Nat, a <= Bound, Successor(a), NEW b, b = a + 1 PROVE Successor(b)'
    <3>1. CASE rep.event + a <= MaxT
      <4>1. rep'.event + b <= MaxT
        BY <1>3, <2>4, <2>5, <3>1
      <4> QED  BY <4>1 DEF Successor
    <3>2. CASE \E r \in reports : Follows(r, a)
      <4>1. PICK r \in reports : Follows(r, a)
        BY <3>2
      <4>5. r.id = nodeId /\ r.age < a /\ a <= r.age + MaxT /\ r.age \in 0 .. Bound + 1
        BY <1>25, <4>1 DEF Follows
      <4>2. Older(r.age) = r.age + 1 /\ r.age \in Nat
        BY <1>3, <2>5, <4>5, Ageing
      <4>3. PICK x \in reports' : x.id = r.id /\ x.age = Older(r.age)
        BY <1>7
      <4>4. x.id = nodeId' /\ x.age < b /\ b <= x.age + MaxT
        BY <1>3, <1>24, <2>5, <4>2, <4>3, <4>5
      <4> QED  BY <4>4 DEF Successor, Follows
    <3>3. CASE \E m \in net : Follows(m, a)
      <4>1. PICK m \in net : Follows(m, a)
        BY <3>3
      <4>5. m.id = nodeId /\ m.age < a /\ a <= m.age + MaxT /\ m.age \in 0 .. Bound + 1
        BY <1>25, <4>1 DEF Follows
      <4>2. Older(m.age) = m.age + 1 /\ m.age \in Nat
        BY <1>3, <2>5, <4>5, Ageing
      <4>3. PICK x \in net' : x.id = m.id /\ x.age = Older(m.age)
        BY <1>10
      <4>4. x.id = nodeId' /\ x.age < b /\ b <= x.age + MaxT
        BY <1>3, <1>24, <2>5, <4>2, <4>3, <4>5
      <4> QED  BY <4>4 DEF Successor, Follows
    <3> QED  BY <2>5, <3>1, <3>2, <3>3 DEF Successor
  <2>6. Successor(rowAge)'
    <3>1. PICK b : b = rowAge + 1
      OBVIOUS
    <3>2. Successor(b)'
      BY <1>11, <2>1, <2>2, <2>5, <3>1 DEF Fresh
    <3> QED  BY <2>3, <3>1, <3>2 DEF Successor, Follows
  <2>7. ASSUME NEW x \in reports', Younger(x)'
        PROVE  Successor(x.age)' /\ \E s \in Timers(send') : x.age + s <= MaxS
    <3>1. PICK r \in reports : x.id = r.id /\ x.age = Older(r.age)
      BY <1>6
    <3>2. r.age \in Nat /\ r.age <= Bound /\ x.age = r.age + 1 /\ r.age < rowAge
      <4>1. r.age \in 0 .. Bound + 1
        BY <1>25
      <4>2. Older(r.age) < rowAge + 1
        BY <2>3, <2>7, <3>1 DEF Younger
      <4>3. CASE r.age <= Bound
        BY <1>3, <1>11, <3>1, <4>1, <4>2, <4>3, Ageing
      <4>4. CASE r.age > Bound
        BY <1>3, <1>11, <2>2, <4>1, <4>2, <4>4, Ageing
      <4> QED  BY <1>3, <4>1, <4>3, <4>4
    <3>3. Younger(r)
      BY <1>2, <2>7, <3>1, <3>2 DEF Younger
    <3>4. Successor(r.age) /\ \E s \in Timers(send) : r.age + s <= MaxS
      BY <2>1, <3>3 DEF Fresh
    <3>5. PICK s \in Timers(send) : r.age + s <= MaxS
      BY <3>4
    <3>6. s \in Nat /\ s - 1 \in Timers(send')
      BY <1>1, <1>13 DEF Typed, SendTyped
    <3>7. x.age + (s - 1) <= MaxS
      BY <1>3, <3>2, <3>5, <3>6
    <3> QED  BY <2>5, <3>2, <3>4, <3>6, <3>7
  <2>8. ASSUME NEW x \in net', Younger(x)'
        PROVE  Successor(x.age)' /\ x.age + x.left <= MaxS + MaxD
    <3>1. PICK m \in net : x.id = m.id /\ x.age = Older(m.age) /\ x.left = m.left - 1
      BY <1>9
    <3>2. m.age \in Nat /\ m.age <= Bound /\ x.age = m.age + 1 /\ m.age < rowAge
      <4>1. m.age \in 0 .. Bound + 1
        BY <1>25
      <4>2. Older(m.age) < rowAge + 1
        BY <2>3, <2>8, <3>1 DEF Younger
      <4>3. CASE m.age <= Bound
        BY <1>3, <1>11, <3>1, <4>1, <4>2, <4>3, Ageing
      <4>4. CASE m.age > Bound
        BY <1>3, <1>11, <2>2, <4>1, <4>2, <4>4, Ageing
      <4> QED  BY <1>3, <4>1, <4>3, <4>4
    <3>3. Younger(m)
      BY <1>2, <2>8, <3>1, <3>2 DEF Younger
    <3>4. Successor(m.age) /\ m.age + m.left <= MaxS + MaxD
      BY <2>1, <3>3 DEF Fresh
    <3>5. x.age + x.left <= MaxS + MaxD
      BY <1>3, <1>5, <3>1, <3>2, <3>4
    <3> QED  BY <2>5, <3>2, <3>4, <3>5
  <2> QED  BY <2>6, <2>7, <2>8 DEF Fresh
<1> QED  BY <1>1, <1>2, <1>12, <1>14, <1>19, <1>20, <1>21, <1>23 DEF ReportInv, Typed

-----------------------------------------------------------------------------
(* The theorems.                                                           *)

LEMMA InitReports == Init => ReportInv
<1> SUFFICES ASSUME Init PROVE ReportInv
  OBVIOUS
<1> USE DEF Init
<1>1. 0 \in 0 .. MaxIds /\ 1 \in 1 .. MaxIds + 1 /\ 0 \in 0 .. Bound + 1
  BY Bounds, ConstantsAssumption
<1>2. NodeTyped /\ WireTyped
  BY <1>1 DEF NodeTyped, WireTyped
<1>3. SendTyped
  <2>1. BagToSet(EmptyBag) = {}
    BY DEF BagToSet, EmptyBag, SetToBag
  <2>2. send \in [event : {Off}, orphans : {EmptyBag}]
    BY DEF NoEvent
  <2> QED  BY <2>1, <2>2 DEF SendTyped, Timer, Timers
<1>4. RepTyped
  <2>1. rep \in [active : {FALSE}, linked : {TRUE}, event : {Off}, orphans : {EmptyBag}]
    OBVIOUS
  <2> QED  BY <2>1 DEF RepTyped, Reporters
<1>5. Registration /\ ~Watched
  BY DEF Registration, Watched
<1> QED  BY <1>2, <1>3, <1>4, <1>5 DEF ReportInv, Typed

LEMMA StepReports == ASSUME Steady, ReportInv, [Next]_vars PROVE ReportInv'
<1>1. CASE UNCHANGED vars
  <2>1. UNCHANGED <<active, nodeId, send, reports, rep, net, registered, nextId, deregs, rowAge, aborted>>
    BY <1>1 DEF vars, repoVars
  <2>2. NodeTyped' /\ WireTyped' /\ SendTyped' /\ RepTyped' /\ Registration' /\ ~aborted'
    BY <2>1 DEF ReportInv, Typed, NodeTyped, WireTyped, SendTyped, RepTyped, Registration
  <2>3. Watched' => Watched
    BY <2>1 DEF Watched
  <2> QED  BY <2>1, <2>2, <2>3, Unwatched DEF Typed
<1>2. CASE Next
  BY <1>2, ActivateStep, DeactivateStep, ActivateReporterStep, DeactivateReporterStep, TriggerStep,
     RegistrationStep, ExpireStep, DeregistrationStep, SendStep, ReceiveStep, TickStep DEF Next
<1> QED  BY <1>1, <1>2

\* ReportInv holds in every reachable state.
LEMMA ReportsKept == ASSUME Steady PROVE Spec => []ReportInv
  BY InitReports, StepReports, PTL DEF Spec

\* Every variable keeps its type, and the trigger's event is pending exactly while the
\* trigger is active (OranReportTriggerPeriodic).
THEOREM TypeCorrect == ASSUME Steady PROVE Spec => []TypeOK
<1>1. ReportInv => TypeOK
  BY TypesImply DEF ReportInv
<1> QED  BY <1>1, ReportsKept, PTL

\* In a careful scenario neither a triggered report nor a completed registration finds a
\* null pointer (TriggerReport, NotifyRegistrationComplete).
THEOREM NeverAborts == ASSUME Steady PROVE Spec => []NoAbort
<1>1. ReportInv => NoAbort
  BY DEF ReportInv, NoAbort
<1> QED  BY <1>1, ReportsKept, PTL

\* The trigger never has two events pending (m_triggerEvent).
THEOREM SingleTimer == ASSUME Steady PROVE Spec => []OneTriggerTimer
<1>1. ReportInv => OneTriggerTimer
  BY TypesImply DEF ReportInv
<1> QED  BY <1>1, ReportsKept, PTL

\* The newest row of a node that is registered and reports is at most one trigger interval,
\* one send interval and one transmission old, whatever the intervals and delays, and
\* however many operations and responses there are (DoSendReports, StoreReport).
THEOREM RowsStayFresh == ASSUME Steady PROVE Spec => []FreshRows
<1>1. ReportInv => FreshRows
  BY RowsFresh
<1> QED  BY <1>1, ReportsKept, PTL
=============================================================================

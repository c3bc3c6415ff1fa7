-------------------------- MODULE SimulatorProofs --------------------------
(***************************************************************************)
(* Proofs about the simulator with MapScheduler, its default event list,   *)
(* for any delays and any numbers of events, posts and operations.         *)
(***************************************************************************)
EXTENDS Simulator, FiniteSetTheorems, SequenceTheorems, WellFoundedInduction, TLAPS

-----------------------------------------------------------------------------
(* The inductive invariant.                                                *)

Current == [ts |-> m_currentTs, uid |-> m_currentUid]
KeyOf(id) == [ts |-> id.ts, uid |-> id.uid]
Uids == VALID .. m_uid - 1

\* The events that are posted or moved still find a uid.
UidsLeft == m_uid + Len(m_eventsWithContext) + Len(moving) <= MaxUid

\* Only uids that were handed out are in use.
UidsKnown ==
    /\ m_currentUid < m_uid
    /\ \A e \in m_list : e.uid \in Uids
    /\ \A id \in ids : id.impl \in Uids /\ id.uid \in {DESTROY, id.impl}
    /\ revoked \subseteq Uids

\* An event of the list and an id of the same EventImpl have the same key; the destroy
\* events are different ones, and each has an id.
UidsApart ==
    /\ \A e \in m_list, id \in ids : e.uid = id.impl => e = KeyOf(id)
    /\ \A i \in DOMAIN m_destroyEvents :
         /\ m_destroyEvents[i] \in ids /\ m_destroyEvents[i].uid = DESTROY
         /\ \A j \in DOMAIN m_destroyEvents :
              m_destroyEvents[i].impl = m_destroyEvents[j].impl => i = j

\* The clock is behind every event of the list, and an event ahead of the clock that was
\* not cancelled is in it.
ClockBehind == \A e \in m_list : Less(Current, e)
NoneMissing ==
    pc # "disposed" =>
      \A id \in ids : id.uid # DESTROY /\ id.impl \notin cancelled /\ Less(Current, KeyOf(id)) =>
                        KeyOf(id) \in m_list

Counted == pc # "disposed" => m_unscheduledEvents = Cardinality(m_list)

\* What was revoked and still waits will not be notified.
RevokedCancelled ==
    /\ \A e \in m_list : e.uid \in revoked => e.uid \in cancelled
    /\ \A i \in DOMAIN m_destroyEvents :
         m_destroyEvents[i].impl \in revoked => m_destroyEvents[i].impl \in cancelled

SimInv ==
    /\ TypeOK /\ scheduler = "map" /\ IsFiniteSet(m_list)
    /\ UidsLeft /\ UidsKnown /\ UidsApart
    /\ ClockBehind /\ NoneMissing /\ Counted /\ RevokedCancelled

-----------------------------------------------------------------------------
(* The order of events and the sequences.                                  *)

\* A set of natural numbers has a least one.
LEMMA Least == ASSUME NEW S \in SUBSET Nat, S # {} PROVE \E n \in S : \A m \in S : n <= m
<1>1. PICK n \in S : \A m \in S : ~(<<m, n>> \in OpToRel(<, Nat))
  BY NatLessThanWellFounded, WFMin
<1>2. \A m \in S : ~(m < n)
  BY <1>1 DEF OpToRel
<1> QED  BY <1>2

\* MapScheduler has a first event, and it precedes all others.
LEMMA MapFirst ==
    ASSUME NEW S \in SUBSET EventKey, S # {}
    PROVE  /\ MapPeekNext(S) \in S
           /\ \A f \in S : f = MapPeekNext(S) \/ Less(MapPeekNext(S), f)
<1> DEFINE Stamps == {e.ts : e \in S}
<1>1. Stamps \in SUBSET Nat /\ Stamps # {}
  BY DEF EventKey
<1>2. PICK t \in Stamps : \A s \in Stamps : t <= s
  BY <1>1, Least
<1> DEFINE Firsts == {e.uid : e \in {f \in S : f.ts = t}}
<1>3. Firsts \in SUBSET Nat /\ Firsts # {}
  BY <1>2 DEF EventKey
<1>4. PICK n \in Firsts : \A m \in Firsts : n <= m
  BY <1>3, Least
<1>5. PICK e \in S : e.ts = t /\ e.uid = n
  BY <1>4
<1>6. ASSUME NEW f \in S, f # e PROVE Less(e, f)
  <2>1. e \in EventKey /\ f \in EventKey
    OBVIOUS
  <2>2. f.ts \in Nat /\ f.uid \in Nat /\ e.ts \in Nat /\ e.uid \in Nat /\ e.ts <= f.ts
    BY <1>2, <1>5, <2>1 DEF EventKey
  <2>3. CASE f.ts = t
    <3>1. e.uid <= f.uid
      BY <1>4, <1>5, <2>3
    <3>2. e.uid # f.uid
      BY <1>5, <1>6, <2>1, <2>3 DEF EventKey
    <3> QED  BY <1>5, <2>2, <2>3, <3>1, <3>2 DEF Less
  <2>4. CASE f.ts # t
    BY <1>5, <2>2, <2>4 DEF Less
  <2> QED  BY <2>3, <2>4
<1>7. MapPeekNext(S) = CHOOSE x \in S : \A f \in S : f = x \/ Less(x, f)
  BY DEF MapPeekNext
<1> QED  BY <1>6, <1>7

\* Events are ordered: no event precedes itself or two in a row the other way round.
LEMMA LessOrder ==
    ASSUME NEW a \in EventKey, NEW b \in EventKey, NEW c \in EventKey
    PROVE  /\ ~Less(a, a)
           /\ Less(a, b) /\ Less(b, c) => Less(a, c)
           /\ Less(a, b) => ~Less(b, a)
BY DEF Less, EventKey

\* The first occurrence of an element goes, and the others keep their order.
LEMMA FirstRemoved ==
    ASSUME NEW S, NEW s \in Seq(S), NEW e, NEW r, r = RemoveFirst(s, e)
    PROVE  /\ r \in Seq(S)
           /\ \E from \in [DOMAIN r -> DOMAIN s] :
                /\ \A i \in DOMAIN r : r[i] = s[from[i]]
                /\ \A i \in DOMAIN r, j \in DOMAIN r : from[i] = from[j] => i = j
                /\ e \in Range(s) => \E k \in DOMAIN s : s[k] = e /\ \A i \in DOMAIN r : from[i] # k
<1>0. Len(s) \in Nat /\ DOMAIN s = 1 .. Len(s) /\ \A i \in 1 .. Len(s) : s[i] \in S
  OBVIOUS
<1>1. CASE ~\E i \in 1 .. Len(s) : s[i] = e
  <2>1. r = s /\ e \notin Range(s)
    BY <1>0, <1>1 DEF RemoveFirst, Range
  <2> DEFINE from == [i \in DOMAIN r |-> i]
  <2>2. from \in [DOMAIN r -> DOMAIN s] /\ \A i \in DOMAIN r : from[i] = i
    BY <2>1
  <2> HIDE DEF from
  <2> QED  BY <2>1, <2>2
<1>2. CASE \E i \in 1 .. Len(s) : s[i] = e
  <2> DEFINE I == {i \in 1 .. Len(s) : s[i] = e}
  <2>1. I \in SUBSET Nat /\ I # {}
    BY <1>0, <1>2
  <2>2. r = RemoveAt(s, Min(I))
    BY <1>2, <2>1 DEF RemoveFirst, SelectInSeq
  <2>3. Min(I) \in I
    BY <2>1, Least DEF Min
  <2>4. PICK k \in 1 .. Len(s) : s[k] = e /\ r = SubSeq(s, 1, k - 1) \o SubSeq(s, k + 1, Len(s))
    BY <2>2, <2>3 DEF RemoveAt
  <2> DEFINE a == SubSeq(s, 1, k - 1)
             b == SubSeq(s, k + 1, Len(s))
  <2>5. /\ a \in Seq(S) /\ Len(a) = k - 1 /\ \A i \in 1 .. k - 1 : a[i] = s[i]
        /\ b \in Seq(S) /\ Len(b) = Len(s) - k /\ \A i \in 1 .. Len(s) - k : b[i] = s[k + i]
    <3>1. /\ a \in Seq(S) /\ Len(a) = IF 1 <= k - 1 THEN k - 1 ELSE 0
          /\ \A i \in 1 .. k - 1 : a[i] = s[1 + i - 1]
      BY <1>0, SubSeqProperties
    <3>2. /\ b \in Seq(S) /\ Len(b) = IF k + 1 <= Len(s) THEN Len(s) - (k + 1) + 1 ELSE 0
          /\ \A i \in 1 .. Len(s) - (k + 1) + 1 : b[i] = s[k + 1 + i - 1]
      BY <1>0, SubSeqProperties
    <3> HIDE DEF a, b
    <3>3. Len(a) = k - 1 /\ Len(b) = Len(s) - k
      <4>1. Len(a) = IF 1 <= k - 1 THEN k - 1 ELSE 0
        BY <3>1
      <4>2. Len(b) = IF k + 1 <= Len(s) THEN Len(s) - (k + 1) + 1 ELSE 0
        BY <3>2
      <4>3. k \in Nat /\ 1 <= k /\ k <= Len(s) /\ Len(s) \in Nat
        BY <1>0
      <4> QED  BY <4>1, <4>2, <4>3
    <3>4. ASSUME NEW i \in 1 .. k - 1 PROVE a[i] = s[i]
      <4>1. 1 + i - 1 = i
        OBVIOUS
      <4> QED  BY <3>1, <4>1
    <3>5. ASSUME NEW i \in 1 .. Len(s) - k PROVE b[i] = s[k + i]
      <4>1. k + 1 + i - 1 = k + i /\ i \in 1 .. Len(s) - (k + 1) + 1
        BY <1>0
      <4> QED  BY <3>2, <4>1
    <3> QED  BY <3>1, <3>2, <3>3, <3>4, <3>5
  <2>6. r = a \o b
    BY <2>4
  <2> HIDE DEF a, b
  <2>7. /\ r \in Seq(S) /\ Len(r) = Len(s) - 1 /\ DOMAIN r = 1 .. Len(s) - 1
        /\ \A i \in 1 .. Len(s) - 1 : r[i] = IF i <= k - 1 THEN a[i] ELSE b[i - (k - 1)]
    <3>1. /\ a \o b \in Seq(S) /\ Len(a \o b) = Len(a) + Len(b)
          /\ \A i \in 1 .. Len(a) + Len(b) : (a \o b)[i] = IF i <= Len(a) THEN a[i] ELSE b[i - Len(a)]
      BY <2>5, ConcatProperties
    <3>2. Len(a) + Len(b) = Len(s) - 1
      BY <1>0, <2>5
    <3>3. r \in Seq(S) /\ Len(r) = Len(s) - 1
      BY <2>6, <3>1, <3>2
    <3>4. DOMAIN r = 1 .. Len(r)
      BY <3>3
    <3> QED  BY <2>5, <2>6, <3>1, <3>2, <3>3, <3>4
  <2> DEFINE from == [i \in DOMAIN r |-> IF i < k THEN i ELSE i + 1]
  <2>8. from \in [DOMAIN r -> DOMAIN s] /\ \A i \in DOMAIN r : from[i] # k
    BY <1>0, <2>7
  <2>9. \A i \in DOMAIN r : r[i] = s[from[i]]
    <3> SUFFICES ASSUME NEW i \in 1 .. Len(s) - 1 PROVE r[i] = s[IF i < k THEN i ELSE i + 1]
      BY <2>7
    <3>1. CASE i < k
      <4>1. i <= k - 1 /\ i \in 1 .. k - 1
        BY <3>1
      <4> QED  BY <2>5, <2>7, <3>1, <4>1
    <3>2. CASE ~(i < k)
      <4>1. i - (k - 1) \in 1 .. Len(s) - k /\ k + (i - (k - 1)) = i + 1
        BY <1>0, <3>2
      <4>2. ~(i <= k - 1)
        BY <3>2
      <4>3. r[i] = b[i - (k - 1)]
        BY <2>7, <4>2
      <4>4. b[i - (k - 1)] = s[k + (i - (k - 1))]
        BY <2>5, <4>1
      <4> QED  BY <3>2, <4>1, <4>3, <4>4
    <3> QED  BY <3>1, <3>2
  <2>10. \A i \in DOMAIN r, j \in DOMAIN r : from[i] = from[j] => i = j
    BY <1>0, <2>7
  <2> HIDE DEF from
  <2>11. k \in DOMAIN s /\ s[k] = e
    BY <1>0, <2>4
  <2>12. \E q \in DOMAIN s : s[q] = e /\ \A i \in DOMAIN r : from[i] # q
    BY <2>8, <2>11
  <2> QED  BY <2>7, <2>8, <2>9, <2>10, <2>12
<1> QED  BY <1>1, <1>2

-----------------------------------------------------------------------------
(* Steps that leave the events alone.                                      *)

\* The parts of TypeOK: what the events are, and where the main thread is.
EventsTyped ==
    /\ scheduler \in Schedulers
    /\ m_list \subseteq EventKey /\ m_heap \in Seq(EventKey)
    /\ m_currentTs \in Nat /\ m_currentUid \in Nat /\ m_unscheduledEvents \in Nat
    /\ cancelled \subseteq Nat /\ revoked \subseteq Nat /\ running \in Nat
    /\ m_destroyEvents \in Seq(EventIds) /\ ids \subseteq EventIds
ThreadTyped ==
    /\ m_uid \in VALID .. MaxUid /\ m_stop \in BOOLEAN
    /\ m_eventsWithContext \in Seq(Delays) /\ moving \in Seq(Delays)
    /\ m_eventsWithContextEmpty \in BOOLEAN
    /\ pc \in {"idle", "flag", "swap", "move", "loop", "event", "destroy",
               "destroyEvent", "drop", "disposed"}
    /\ caller \in {"Run", "ProcessOneEvent", "DoDispose"}
    /\ posts \in 0 .. MaxPosts /\ ops \in 0 .. MaxOps

\* TypeOK is its parts.
LEMMA TypeParts == TypeOK <=> EventsTyped /\ ThreadTyped
BY DEF TypeOK, EventsTyped, ThreadTyped

dataVars == <<listVars, clockVars, eventVars, m_unscheduledEvents>>

\* Without a step of the events, what is left is the types and the uids.
LEMMA DataKept ==
    ASSUME SimInv, UNCHANGED <<dataVars, m_uid>>, ThreadTyped', UidsLeft',
           pc' # "disposed" => pc # "disposed"
    PROVE  SimInv'
<1> USE DEF dataVars, listVars, clockVars, eventVars
<1>1. TypeOK'
  <2>1. EventsTyped
    BY TypeParts DEF SimInv
  <2>2. EventsTyped'
    BY <2>1 DEF EventsTyped
  <2> QED  BY <2>2 DEF TypeOK, EventsTyped, ThreadTyped
<1>2. UidsKnown' /\ UidsApart'
  BY DEF SimInv, UidsKnown, UidsApart, Uids, KeyOf
<1>3. ClockBehind' /\ NoneMissing'
  BY DEF SimInv, ClockBehind, NoneMissing, Current, KeyOf
<1>4. Counted' /\ RevokedCancelled'
  BY DEF SimInv, Counted, RevokedCancelled
<1> QED  BY <1>1, <1>2, <1>3, <1>4 DEF SimInv

\* The main thread goes from one place to another, and the program asks Run to stop.
LEMMA ControlKept ==
    ASSUME SimInv,
           \/ Stop \/ Run \/ FlagSeenEmpty \/ FlagSeenSet \/ EventReturns \/ RunReturns
           \/ Destroy \/ DestroyEventReturns \/ DoDispose
    PROVE  SimInv'
<1> USE SimulatorAssumption
<1>1. ThreadTyped /\ UidsLeft
  BY TypeParts DEF SimInv
<1>2. UNCHANGED <<dataVars, postVars, m_uid>> /\ pc # "disposed" /\ pc' # "disposed"
      /\ pc' \in {"idle", "flag", "swap", "loop", "event", "destroy", "destroyEvent", "drop"}
      /\ (caller' = caller \/ caller' \in {"Run", "DoDispose"})
      /\ (m_stop' = m_stop \/ m_stop' = TRUE \/ m_stop' = FALSE)
  BY DEF Stop, Run, FlagSeenEmpty, FlagSeenSet, EventReturns, RunReturns, Destroy,
         DestroyEventReturns, DoDispose, Goto, ReturnToCaller, Operation, InProgram, dataVars, pcVars
<1>3. ops' = ops \/ (ops < MaxOps /\ ops' = ops + 1)
  BY DEF Stop, Run, FlagSeenEmpty, FlagSeenSet, EventReturns, RunReturns, Destroy,
         DestroyEventReturns, DoDispose, Operation
<1>4. ThreadTyped'
  <2>1. ops' \in 0 .. MaxOps
    BY <1>1, <1>3 DEF ThreadTyped
  <2>2. m_stop' \in BOOLEAN
    BY <1>1, <1>2 DEF ThreadTyped
  <2> QED  BY <1>1, <1>2, <2>1, <2>2 DEF ThreadTyped, postVars
<1>5. UidsLeft'
  BY <1>1, <1>2 DEF UidsLeft, postVars
<1> QED  BY <1>2, <1>4, <1>5, DataKept

\* Another thread posts an event, and the main thread takes the queue over.
LEMMA QueueKept ==
    ASSUME SimInv, SwapQueue \/ \E d \in Delays : Post(d)
    PROVE  SimInv'
<1> USE SimulatorAssumption
<1>1. ThreadTyped /\ UidsLeft
  BY TypeParts DEF SimInv
<1>2. Len(m_eventsWithContext) \in Nat /\ Len(moving) \in Nat /\ m_uid \in Nat
  BY <1>1 DEF ThreadTyped, VALID
<1>3. CASE SwapQueue
  <2>1. UNCHANGED <<dataVars, m_uid, caller, ops, posts, m_stop>>
        /\ pc = "swap" /\ pc' = "move" /\ moving' = m_eventsWithContext
        /\ m_eventsWithContext' = <<>> /\ m_eventsWithContextEmpty' = TRUE
    BY <1>3 DEF SwapQueue, dataVars, Goto
  <2>2. ThreadTyped'
    BY <1>1, <2>1 DEF ThreadTyped
  <2>3. UidsLeft'
    BY <1>1, <1>2, <2>1 DEF UidsLeft
  <2> QED  BY <2>1, <2>2, <2>3, DataKept
<1>4. ASSUME NEW d \in Delays, Post(d) PROVE SimInv'
  <2>1. UNCHANGED <<dataVars, m_uid, pc, caller, ops, moving, m_stop>>
        /\ posts < MaxPosts /\ posts' = posts + 1 /\ UidLeft
        /\ m_eventsWithContext' = Append(m_eventsWithContext, d) /\ m_eventsWithContextEmpty' = FALSE
    BY <1>4 DEF Post, dataVars, pcVars
  <2>2. Len(m_eventsWithContext') = Len(m_eventsWithContext) + 1
        /\ m_eventsWithContext' \in Seq(Delays)
    BY <1>1, <2>1 DEF ThreadTyped
  <2>3. ThreadTyped'
    <3>1. posts' \in 0 .. MaxPosts
      BY <1>1, <2>1 DEF ThreadTyped
    <3>2. m_eventsWithContextEmpty' \in BOOLEAN
      BY <2>1
    <3> QED  BY <1>1, <2>1, <2>2, <3>1, <3>2 DEF ThreadTyped
  <2>4. UidsLeft'
    BY <1>2, <2>1, <2>2 DEF UidsLeft, UidLeft
  <2> QED  BY <2>1, <2>3, <2>4, DataKept
<1> QED  BY <1>3, <1>4

-----------------------------------------------------------------------------
(* Steps that add events.                                                  *)

\* An interval of numbers handed out, before and after more of them were.
LEMMA IntervalGrows ==
    ASSUME NEW a \in Nat, NEW b \in Nat, NEW c \in Nat, a <= b, b <= c
    PROVE  a .. b - 1 \subseteq a .. c - 1 /\ b .. c - 1 \subseteq a .. c - 1
OBVIOUS

\* New events, not before the present and with new uids, and ids of some of them.
LEMMA InsertKept ==
    ASSUME SimInv, pc # "disposed", ThreadTyped', UidsLeft',
           UNCHANGED <<scheduler, m_heap, clockVars, cancelled, m_destroyEvents, running, revoked>>,
           NEW N \in SUBSET EventKey, IsFiniteSet(N), m_list' = m_list \cup N,
           m_unscheduledEvents' = m_unscheduledEvents + Cardinality(N),
           m_uid' \in Nat, m_uid' >= m_uid,
           \A e \in N : e.ts >= m_currentTs /\ e.uid \in m_uid .. m_uid' - 1,
           NEW new \in SUBSET EventIds, ids' = ids \cup new,
           \A id \in new : id.uid = id.impl /\ id.impl \in m_uid .. m_uid' - 1,
           \A id \in new : KeyOf(id) \in N,
           \A id \in new, e \in N : e.uid = id.impl => e = KeyOf(id)
    PROVE  SimInv'
<1> USE SimulatorAssumption DEF VALID, DESTROY
<1>1. EventsTyped /\ ThreadTyped
  BY TypeParts DEF SimInv
<1>2. m_uid \in Nat /\ m_uid >= 4 /\ m_currentTs \in Nat /\ m_currentUid \in Nat
      /\ m_unscheduledEvents \in Nat /\ IsFiniteSet(m_list) /\ m_list \subseteq EventKey
  BY <1>1 DEF EventsTyped, ThreadTyped, SimInv
<1>3. Cardinality(N) \in Nat
  BY FS_CardinalityType
<1>4. TypeOK'
  <2>1. EventsTyped'
    BY <1>1, <1>2, <1>3 DEF EventsTyped, clockVars
  <2> QED  BY <2>1 DEF TypeOK, EventsTyped, ThreadTyped
<1>5. IsFiniteSet(m_list') /\ Counted'
  <2>1. m_list \cap N = {}
    BY <1>2 DEF SimInv, UidsKnown, Uids
  <2>2. Cardinality(m_list) \in Nat /\ Cardinality({}) = 0
    BY <1>2, FS_CardinalityType, FS_EmptySet
  <2>3. IsFiniteSet(m_list \cup N) /\ Cardinality(m_list \cup N) = Cardinality(m_list) + Cardinality(N)
    BY <1>2, <1>3, <2>1, <2>2, FS_Union
  <2> QED  BY <2>3 DEF SimInv, Counted
<1>6. UidsKnown'
  <2>0. VALID \in Nat /\ VALID <= m_uid /\ m_uid <= m_uid'
    BY <1>2
  <2> HIDE DEF VALID
  <2>1. Uids \subseteq Uids' /\ m_uid .. m_uid' - 1 \subseteq Uids'
    BY <1>2, <2>0, IntervalGrows DEF Uids
  <2>2. \A k \in m_uid .. m_uid' - 1 : k \in Uids'
    BY <2>1
  <2>3. m_currentUid' < m_uid'
    BY <1>2 DEF SimInv, UidsKnown, clockVars
  <2>4. \A e \in m_list' : e.uid \in Uids'
    BY <2>1, <2>2 DEF SimInv, UidsKnown
  <2>5. \A id \in ids' : id.impl \in Uids' /\ id.uid \in {DESTROY, id.impl}
    BY <2>1, <2>2 DEF SimInv, UidsKnown
  <2>6. revoked' \subseteq Uids'
    BY <2>1 DEF SimInv, UidsKnown
  <2> QED  BY <2>3, <2>4, <2>5, <2>6 DEF UidsKnown
<1>7. UidsApart'
  <2>1. \A e \in m_list : e.uid \notin m_uid .. m_uid' - 1
    BY <1>2 DEF SimInv, UidsKnown, Uids
  <2>2. \A id \in ids : id.impl \notin m_uid .. m_uid' - 1
    BY <1>2 DEF SimInv, UidsKnown, Uids
  <2>3. \A e \in m_list', id \in ids' : e.uid = id.impl => e = KeyOf(id)
    BY <2>1, <2>2 DEF SimInv, UidsApart
  <2> QED  BY <2>3 DEF SimInv, UidsApart, KeyOf
<1>8. ClockBehind'
  <2>1. \A e \in N : Less(Current, e)
    BY <1>2 DEF SimInv, UidsKnown, Less, Current, EventKey
  <2> QED  BY <2>1 DEF SimInv, ClockBehind, Current, clockVars
<1>9. NoneMissing'
  BY DEF SimInv, NoneMissing, Current, clockVars, KeyOf
<1>10. RevokedCancelled'
  <2>1. \A e \in N : e.uid \notin revoked
    BY <1>2 DEF SimInv, UidsKnown, Uids
  <2> QED  BY <2>1 DEF SimInv, RevokedCancelled
<1> QED  BY <1>4, <1>5, <1>6, <1>7, <1>8, <1>9, <1>10 DEF SimInv

\* Schedule adds an event and its id.
LEMMA ScheduleKept == ASSUME SimInv, NEW d \in Delays, Schedule(d) PROVE SimInv'
<1> USE SimulatorAssumption
<1> DEFINE ev == [ts |-> m_currentTs + d, uid |-> m_uid]
           id == [ts |-> m_currentTs + d, uid |-> m_uid, impl |-> m_uid]
<1>1. EventsTyped /\ ThreadTyped /\ scheduler = "map"
  BY TypeParts DEF SimInv
<1>2. /\ InProgram /\ UidLeft /\ InsertSeq(<<ev>>)
      /\ m_uid' = m_uid + 1 /\ m_unscheduledEvents' = m_unscheduledEvents + 1
      /\ ids' = ids \cup {id}
      /\ UNCHANGED <<clockVars, postVars, pcVars, ops, cancelled, m_destroyEvents, running, revoked,
                     m_stop>>
  BY DEF Schedule
<1>3. /\ m_uid \in Nat /\ m_uid >= VALID /\ m_currentTs \in Nat /\ d \in Nat
      /\ Len(m_eventsWithContext) \in Nat /\ Len(moving) \in Nat
  BY <1>1 DEF EventsTyped, ThreadTyped, VALID
<1>4. ev \in EventKey /\ ev.ts = m_currentTs + d /\ ev.uid = m_uid
  BY <1>3 DEF EventKey
<1>5. id \in EventIds /\ id.uid = m_uid /\ id.impl = m_uid /\ KeyOf(id) = ev
  BY <1>3 DEF EventIds, KeyOf
<1>6. m_list' = m_list \cup {ev} /\ UNCHANGED <<scheduler, m_heap>>
  <2>1. Range(<<ev>>) = {ev}
    BY DEF Range
  <2> QED  BY <1>1, <1>2, <2>1 DEF InsertSeq
<1> HIDE DEF ev, id
<1>7. ThreadTyped'
  <2>1. m_uid' \in VALID .. MaxUid
    BY <1>2, <1>3 DEF UidLeft, VALID
  <2> QED  BY <1>1, <1>2, <2>1 DEF ThreadTyped, postVars, pcVars
<1>8. UidsLeft'
  BY <1>2, <1>3 DEF UidsLeft, UidLeft, postVars
<1>9. IsFiniteSet({ev}) /\ Cardinality({ev}) = 1
  BY FS_Singleton
<1>10. pc # "disposed"
  BY <1>2 DEF InProgram
<1>11. /\ m_uid' \in Nat /\ m_uid' >= m_uid
       /\ \A e \in {ev} : e.ts >= m_currentTs /\ e.uid \in m_uid .. m_uid' - 1
       /\ \A x \in {id} : x.uid = x.impl /\ x.impl \in m_uid .. m_uid' - 1
  BY <1>2, <1>3, <1>4, <1>5
<1>12. /\ {ev} \in SUBSET EventKey /\ {id} \in SUBSET EventIds
       /\ \A x \in {id} : KeyOf(x) \in {ev}
       /\ \A x \in {id}, e \in {ev} : e.uid = x.impl => e = KeyOf(x)
  BY <1>4, <1>5
<1> QED  BY <1>2, <1>6, <1>7, <1>8, <1>9, <1>10, <1>11, <1>12, InsertKept

\* The posted events move to the list with consecutive uids.
LEMMA MoveKept == ASSUME SimInv, MoveEvents PROVE SimInv'
<1> USE SimulatorAssumption
<1> DEFINE n == Len(moving)
           evs == [i \in DOMAIN moving |-> [ts |-> m_currentTs + moving[i], uid |-> m_uid + i - 1]]
           N == Range(evs)
<1>1. EventsTyped /\ ThreadTyped /\ scheduler = "map" /\ UidsLeft
  BY TypeParts DEF SimInv
<1>2. /\ pc = "move" /\ InsertSeq(evs) /\ m_uid' = m_uid + n
      /\ m_unscheduledEvents' = m_unscheduledEvents + n
      /\ moving' = <<>> /\ ReturnToCaller
      /\ UNCHANGED <<clockVars, eventVars, caller, ops, m_eventsWithContext, m_eventsWithContextEmpty,
                     posts>>
  BY DEF MoveEvents
<1>3. /\ m_uid \in Nat /\ m_uid >= VALID /\ m_currentTs \in Nat
      /\ Len(m_eventsWithContext) \in Nat /\ n \in Nat
      /\ DOMAIN moving = 1 .. n /\ \A i \in 1 .. n : moving[i] \in Nat
  <2>1. moving \in Seq(Delays) /\ m_eventsWithContext \in Seq(Delays)
    BY <1>1 DEF ThreadTyped
  <2>2. n \in Nat /\ DOMAIN moving = 1 .. n /\ \A i \in 1 .. n : moving[i] \in Delays
    BY <2>1
  <2>3. m_uid \in Nat /\ m_uid >= VALID /\ m_currentTs \in Nat
    BY <1>1 DEF EventsTyped, ThreadTyped, VALID
  <2>4. Len(m_eventsWithContext) \in Nat
    BY <2>1
  <2>5. \A i \in 1 .. n : moving[i] \in Nat
    BY <2>2
  <2> QED  BY <2>2, <2>3, <2>4, <2>5
<1>4. \A i \in 1 .. n : evs[i] \in EventKey /\ evs[i].ts >= m_currentTs /\ evs[i].uid = m_uid + i - 1
  BY <1>3 DEF EventKey
<1>5. DOMAIN evs = 1 .. n
  BY <1>3
<1> HIDE DEF evs, n
<1>6. m_list' = m_list \cup N /\ UNCHANGED <<scheduler, m_heap>>
  BY <1>1, <1>2 DEF InsertSeq
<1>7. N \in SUBSET EventKey /\ \A e \in N : e.ts >= m_currentTs /\ e.uid \in m_uid .. m_uid + n - 1
  BY <1>3, <1>4, <1>5 DEF Range
<1>8. IsFiniteSet(N) /\ Cardinality(N) = n
  <2> DEFINE f == [i \in 1 .. n |-> evs[i]]
  <2>1. f \in [1 .. n -> N] /\ \A e \in N : \E i \in 1 .. n : f[i] = e
    BY <1>5 DEF Range
  <2>2. ASSUME NEW i \in 1 .. n, NEW j \in 1 .. n, f[i] = f[j] PROVE i = j
    <3>1. evs[i].uid = evs[j].uid
      BY <2>2
    <3>2. m_uid + i - 1 = m_uid + j - 1
      BY <1>4, <3>1
    <3> QED  BY <1>3, <3>2
  <2> HIDE DEF f, N
  <2>3. f \in Bijection(1 .. n, N)
    BY <2>1, <2>2 DEF Bijection, Injection, IsInjective, Surjection
  <2>4. IsFiniteSet(1 .. n) /\ Cardinality(1 .. n) = n
    BY <1>3, FS_Interval
  <2> QED  BY <2>3, <2>4, FS_Bijection DEF ExistsBijection
<1> HIDE DEF N
<1>9. ThreadTyped'
  <2>1. m_uid' \in VALID .. MaxUid
    BY <1>1, <1>2, <1>3 DEF UidsLeft, VALID, n
  <2>2. m_stop' \in BOOLEAN /\ pc' \in {"drop", "loop"}
    BY <1>1, <1>2 DEF ReturnToCaller, ThreadTyped
  <2>3. moving' \in Seq(Delays)
    BY <1>2
  <2> QED  BY <1>1, <1>2, <2>1, <2>2, <2>3 DEF ThreadTyped
<1>10. UidsLeft'
  <2>1. Len(moving') = 0
    BY <1>2
  <2> QED  BY <1>1, <1>2, <1>3, <2>1 DEF UidsLeft, n
<1>11. m_uid' \in Nat /\ m_uid' >= m_uid /\ ids' = ids \cup {}
  BY <1>2, <1>3 DEF eventVars
<1>12. UNCHANGED <<clockVars, cancelled, m_destroyEvents, running, revoked>> /\ pc # "disposed"
  BY <1>2 DEF eventVars
<1>13. /\ \A e \in N : e.ts >= m_currentTs /\ e.uid \in m_uid .. m_uid' - 1
       /\ m_unscheduledEvents' = m_unscheduledEvents + Cardinality(N)
  <2>1. m_uid' - 1 = m_uid + n - 1
    BY <1>2, <1>3
  <2> QED  BY <1>2, <1>7, <1>8, <2>1
<1>14. PICK new \in SUBSET EventIds : new = {} /\ ids' = ids \cup new
  BY <1>11
<1> QED  BY <1>6, <1>7, <1>8, <1>9, <1>10, <1>11, <1>12, <1>13, <1>14, InsertKept

\* A destroy event is queued with an id of its own.
LEMMA ScheduleDestroyKept == ASSUME SimInv, ScheduleDestroy PROVE SimInv'
<1> USE SimulatorAssumption
<1> DEFINE id == [ts |-> m_currentTs, uid |-> DESTROY, impl |-> m_uid]
<1>1. EventsTyped /\ ThreadTyped /\ UidsLeft
  BY TypeParts DEF SimInv
<1>2. /\ InProgram /\ ops < MaxOps /\ ops' = ops + 1 /\ UidLeft
      /\ m_destroyEvents' = Append(m_destroyEvents, id)
      /\ m_uid' = m_uid + 1 /\ ids' = ids \cup {id}
      /\ UNCHANGED <<listVars, clockVars, postVars, pcVars, cancelled, running, revoked,
                     m_unscheduledEvents, m_stop>>
  BY DEF ScheduleDestroy, Operation
<1>3. /\ m_uid \in Nat /\ m_uid >= VALID /\ m_currentTs \in Nat /\ m_currentUid \in Nat
      /\ Len(m_eventsWithContext) \in Nat /\ Len(moving) \in Nat
      /\ m_destroyEvents \in Seq(EventIds)
  BY <1>1 DEF EventsTyped, ThreadTyped, VALID
<1>4. id \in EventIds /\ id.uid = DESTROY /\ id.impl = m_uid
  BY <1>3 DEF EventIds, DESTROY
<1> HIDE DEF id
<1>5. ThreadTyped'
  <2>1. m_uid' \in VALID .. MaxUid
    BY <1>2, <1>3 DEF UidLeft, VALID
  <2>2. ops' \in 0 .. MaxOps
    BY <1>1, <1>2 DEF ThreadTyped
  <2> QED  BY <1>1, <1>2, <2>1, <2>2 DEF ThreadTyped, postVars, pcVars
<1>6. UidsLeft'
  BY <1>2, <1>3 DEF UidsLeft, UidLeft, postVars
<1>7. /\ m_destroyEvents' \in Seq(EventIds)
      /\ DOMAIN m_destroyEvents' = DOMAIN m_destroyEvents \cup {Len(m_destroyEvents) + 1}
      /\ \A i \in DOMAIN m_destroyEvents : m_destroyEvents'[i] = m_destroyEvents[i]
      /\ m_destroyEvents'[Len(m_destroyEvents) + 1] = id
  BY <1>2, <1>3, <1>4
<1>8. TypeOK'
  <2>1. EventsTyped'
    BY <1>1, <1>2, <1>4, <1>7 DEF EventsTyped, listVars, clockVars
  <2> QED  BY <1>5, <2>1 DEF TypeOK, EventsTyped, ThreadTyped
<1>9. UidsKnown'
  <2>1. Uids \subseteq Uids' /\ m_uid \in Uids'
    BY <1>2, <1>3 DEF Uids, VALID
  <2>2. m_currentUid' < m_uid'
    BY <1>2, <1>3 DEF SimInv, UidsKnown, clockVars
  <2>3. \A x \in ids' : x.impl \in Uids' /\ x.uid \in {DESTROY, x.impl}
    BY <1>2, <1>4, <2>1 DEF SimInv, UidsKnown
  <2> QED  BY <1>2, <2>1, <2>2, <2>3 DEF SimInv, UidsKnown, listVars
<1>10. m_uid \notin Uids
  BY <1>3 DEF Uids
<1>11. UidsApart'
  <2>1. \A e \in m_list', x \in ids' : e.uid = x.impl => e = KeyOf(x)
    BY <1>2, <1>4, <1>10 DEF SimInv, UidsApart, UidsKnown, listVars
  <2>2. \A i \in DOMAIN m_destroyEvents' :
           m_destroyEvents'[i] \in ids' /\ m_destroyEvents'[i].uid = DESTROY
    BY <1>2, <1>4, <1>7 DEF SimInv, UidsApart
  <2>3. \A i \in DOMAIN m_destroyEvents : m_destroyEvents[i].impl # m_uid
    BY <1>10 DEF SimInv, UidsApart, UidsKnown
  <2>4. \A i \in DOMAIN m_destroyEvents', j \in DOMAIN m_destroyEvents' :
           m_destroyEvents'[i].impl = m_destroyEvents'[j].impl => i = j
    BY <1>4, <1>7, <2>3 DEF SimInv, UidsApart
  <2> QED  BY <2>1, <2>2, <2>4 DEF UidsApart, KeyOf
<1>12. ClockBehind' /\ IsFiniteSet(m_list') /\ scheduler' = "map"
  BY <1>2 DEF SimInv, ClockBehind, Current, clockVars, listVars
<1>13. NoneMissing'
  BY <1>2, <1>4 DEF SimInv, NoneMissing, Current, KeyOf, clockVars, listVars, pcVars
<1>14. Counted'
  BY <1>2 DEF SimInv, Counted, listVars, pcVars
<1>15. RevokedCancelled'
  <2>1. m_uid \notin revoked
    BY <1>10 DEF SimInv, UidsKnown
  <2>2. \A i \in DOMAIN m_destroyEvents' :
           m_destroyEvents'[i].impl \in revoked => m_destroyEvents'[i].impl \in cancelled
    BY <1>4, <1>7, <2>1 DEF SimInv, RevokedCancelled
  <2> QED  BY <1>2, <2>2 DEF SimInv, RevokedCancelled, listVars
<1> QED  BY <1>6, <1>8, <1>9, <1>11, <1>12, <1>13, <1>14, <1>15 DEF SimInv

-----------------------------------------------------------------------------
(* Steps that revoke events.                                               *)

\* IsExpired, computed from the clock, tells whether an event is still to come.
LEMMA Expiry ==
    ASSUME SimInv, pc # "disposed", NEW id \in ids
    PROVE  ~IsExpired(id) <=> (Waiting(id) /\ id.impl \notin cancelled)
<1>1. EventsTyped /\ Pending = m_list
  BY TypeParts DEF SimInv, Pending
<1>2. CASE id.uid = DESTROY
  BY <1>2 DEF IsExpired, Waiting
<1>3. CASE id.uid # DESTROY
  <2>1. /\ id.ts \in Nat /\ id.uid \in Nat /\ m_currentTs \in Nat /\ m_currentUid \in Nat
        /\ KeyOf(id).ts = id.ts /\ KeyOf(id).uid = id.uid
        /\ Current.ts = m_currentTs /\ Current.uid = m_currentUid
    BY <1>1 DEF EventsTyped, EventIds, KeyOf, Current
  <2>2. ~IsExpired(id) <=> Less(Current, KeyOf(id)) /\ id.impl \notin cancelled
    BY <1>3, <2>1 DEF IsExpired, Less
  <2>3. Waiting(id) <=> KeyOf(id) \in m_list
    BY <1>1, <1>3 DEF Waiting, KeyOf
  <2> QED  BY <1>3, <2>2, <2>3 DEF SimInv, ClockBehind, NoneMissing
<1> QED  BY <1>2, <1>3

\* An operation counts.
LEMMA OperationTyped ==
    ASSUME SimInv, Operation, UNCHANGED <<postVars, pcVars, m_uid, m_stop>>
    PROVE  ThreadTyped' /\ UidsLeft' /\ pc # "disposed"
<1> USE SimulatorAssumption
<1>1. ThreadTyped /\ UidsLeft
  BY TypeParts DEF SimInv
<1>2. ops' \in 0 .. MaxOps /\ pc # "disposed"
  BY <1>1 DEF Operation, InProgram, ThreadTyped
<1> QED  BY <1>1, <1>2 DEF ThreadTyped, UidsLeft, postVars, pcVars

\* Cancel: an event that still waits is cancelled from now on.
LEMMA CancelKept == ASSUME SimInv, NEW id \in ids, Cancel(id) PROVE SimInv'
<1>1. EventsTyped
  BY TypeParts DEF SimInv
<1>2. /\ Operation /\ Revoke(id)
      /\ cancelled' = (IF IsExpired(id) THEN cancelled ELSE cancelled \cup {id.impl})
      /\ UNCHANGED <<listVars, clockVars, postVars, pcVars, m_destroyEvents, ids, running, m_uid,
                     m_unscheduledEvents, m_stop>>
  BY DEF Cancel
<1>3. ThreadTyped' /\ UidsLeft' /\ pc # "disposed"
  BY <1>2, OperationTyped
<1>4. id.impl \in Nat /\ id.impl \in Uids
  BY <1>1 DEF EventsTyped, EventIds, SimInv, UidsKnown
<1>5. /\ cancelled \subseteq cancelled' /\ cancelled' \subseteq cancelled \cup {id.impl}
      /\ revoked' \subseteq revoked \cup {id.impl}
      /\ id.impl \in revoked' => id.impl \in revoked \/ id.impl \in cancelled'
  BY <1>2, <1>3, Expiry DEF Revoke
<1>6. TypeOK'
  <2>1. EventsTyped'
    BY <1>1, <1>2, <1>4, <1>5 DEF EventsTyped, listVars, clockVars
  <2> QED  BY <1>3, <2>1 DEF TypeOK, EventsTyped, ThreadTyped
<1>7. UidsKnown' /\ UidsApart'
  BY <1>2, <1>4, <1>5 DEF SimInv, UidsKnown, UidsApart, Uids, KeyOf, listVars, clockVars
<1>8. ClockBehind' /\ NoneMissing' /\ Counted' /\ IsFiniteSet(m_list') /\ scheduler' = "map"
  BY <1>2, <1>5 DEF SimInv, ClockBehind, NoneMissing, Counted, Current, KeyOf, listVars, clockVars, pcVars
<1>9. RevokedCancelled'
  BY <1>2, <1>5 DEF SimInv, RevokedCancelled, listVars
<1> QED  BY <1>3, <1>6, <1>7, <1>8, <1>9 DEF SimInv

\* Remove of a destroy event: no other one has its EventImpl.
LEMMA RemoveDestroyKept == ASSUME SimInv, NEW id \in ids, RemoveDestroy(id) PROVE SimInv'
<1>1. EventsTyped /\ m_destroyEvents \in Seq(EventIds)
  BY TypeParts DEF SimInv, EventsTyped
<1>2. /\ Operation /\ Revoke(id) /\ id.uid = DESTROY
      /\ m_destroyEvents' = RemoveFirst(m_destroyEvents, id)
      /\ UNCHANGED <<listVars, clockVars, postVars, pcVars, cancelled, ids, running, m_uid,
                     m_unscheduledEvents, m_stop>>
  BY DEF RemoveDestroy
<1>3. ThreadTyped' /\ UidsLeft' /\ pc # "disposed"
  BY <1>2, OperationTyped
<1>4. id.impl \in Nat /\ id.impl \in Uids
  BY <1>1 DEF EventsTyped, EventIds, SimInv, UidsKnown
<1>5. m_destroyEvents' \in Seq(EventIds)
  BY <1>1, <1>2, FirstRemoved
<1>6. PICK from \in [DOMAIN m_destroyEvents' -> DOMAIN m_destroyEvents] :
        /\ \A i \in DOMAIN m_destroyEvents' : m_destroyEvents'[i] = m_destroyEvents[from[i]]
        /\ \A i \in DOMAIN m_destroyEvents', j \in DOMAIN m_destroyEvents' : from[i] = from[j] => i = j
        /\ id \in Range(m_destroyEvents) =>
             \E k \in DOMAIN m_destroyEvents :
               m_destroyEvents[k] = id /\ \A i \in DOMAIN m_destroyEvents' : from[i] # k
  BY <1>1, <1>2, FirstRemoved
<1>7. revoked' \subseteq revoked \cup {id.impl}
      /\ (id \notin Range(m_destroyEvents) => revoked' = revoked)
  BY <1>2 DEF Revoke, Waiting
<1>8. TypeOK'
  <2>1. EventsTyped'
    BY <1>1, <1>2, <1>4, <1>5, <1>7 DEF EventsTyped, listVars, clockVars
  <2> QED  BY <1>3, <2>1 DEF TypeOK, EventsTyped, ThreadTyped
<1>9. UidsKnown'
  BY <1>2, <1>4, <1>7 DEF SimInv, UidsKnown, Uids, listVars, clockVars
<1>10. UidsApart'
  <2>1. \A e \in m_list', x \in ids' : e.uid = x.impl => e = KeyOf(x)
    BY <1>2 DEF SimInv, UidsApart, listVars
  <2>2. \A i \in DOMAIN m_destroyEvents' :
           m_destroyEvents'[i] \in ids' /\ m_destroyEvents'[i].uid = DESTROY
    BY <1>2, <1>6 DEF SimInv, UidsApart
  <2>3. \A i \in DOMAIN m_destroyEvents', j \in DOMAIN m_destroyEvents' :
           m_destroyEvents'[i].impl = m_destroyEvents'[j].impl => i = j
    BY <1>6 DEF SimInv, UidsApart
  <2> QED  BY <2>1, <2>2, <2>3 DEF UidsApart, KeyOf
<1>11. ClockBehind' /\ NoneMissing' /\ Counted' /\ IsFiniteSet(m_list') /\ scheduler' = "map"
  BY <1>2 DEF SimInv, ClockBehind, NoneMissing, Counted, Current, KeyOf, listVars, clockVars, pcVars
<1>12. \A e \in m_list : e.uid # id.impl
  <2>1. \A e \in m_list : e.uid = id.impl => e.uid = DESTROY
    BY <1>2 DEF SimInv, UidsApart, KeyOf
  <2> QED  BY <1>4, <2>1 DEF Uids, VALID, DESTROY
<1>13. \A i \in DOMAIN m_destroyEvents' :
          m_destroyEvents'[i].impl \in revoked' => m_destroyEvents'[i].impl \in cancelled
  <2>1. CASE id \in Range(m_destroyEvents)
    <3>1. PICK k \in DOMAIN m_destroyEvents :
            m_destroyEvents[k] = id /\ \A i \in DOMAIN m_destroyEvents' : from[i] # k
      BY <1>6, <2>1
    <3>2. \A i \in DOMAIN m_destroyEvents' : m_destroyEvents[from[i]].impl # id.impl
      BY <3>1 DEF SimInv, UidsApart
    <3> QED  BY <1>6, <1>7, <3>2 DEF SimInv, RevokedCancelled
  <2>2. CASE id \notin Range(m_destroyEvents)
    BY <1>6, <1>7, <2>2 DEF SimInv, RevokedCancelled
  <2> QED  BY <2>1, <2>2
<1>14. RevokedCancelled'
  <2>1. \A e \in m_list : e.uid \in revoked' => e.uid \in cancelled
    BY <1>7, <1>12 DEF SimInv, RevokedCancelled
  <2> QED  BY <1>2, <1>13, <2>1 DEF RevokedCancelled, listVars
<1> QED  BY <1>3, <1>8, <1>9, <1>10, <1>11, <1>14 DEF SimInv

\* Remove of another event: it was in the list, since it had not expired.
LEMMA RemoveEventKept == ASSUME SimInv, NEW id \in ids, RemoveEvent(id) PROVE SimInv'
<1> DEFINE ev == KeyOf(id)
<1>1. EventsTyped
  BY TypeParts DEF SimInv
<1>2. /\ Operation /\ Revoke(id) /\ id.uid # DESTROY /\ ~IsExpired(id)
      /\ m_list' = m_list \ {ev} /\ m_heap' = m_heap
      /\ cancelled' = cancelled \cup {id.impl}
      /\ m_unscheduledEvents' = m_unscheduledEvents - 1
      /\ UNCHANGED <<scheduler, clockVars, postVars, pcVars, m_destroyEvents, ids, running, m_uid,
                     m_stop>>
  <2>1. scheduler = "map"
    BY DEF SimInv
  <2> QED  BY <2>1 DEF RemoveEvent, MapRemove, KeyOf
<1>3. ThreadTyped' /\ UidsLeft' /\ pc # "disposed"
  BY <1>2, OperationTyped
<1>4. id.impl \in Nat /\ id.impl \in Uids
  BY <1>1 DEF EventsTyped, EventIds, SimInv, UidsKnown
<1>5. revoked' \subseteq revoked \cup {id.impl}
  BY <1>2 DEF Revoke
<1>6. ev \in m_list
  <2>1. Waiting(id)
    BY <1>2, <1>3, Expiry
  <2> QED  BY <1>2, <2>1 DEF Waiting, SimInv, Pending, KeyOf
<1>7. IsFiniteSet(m_list') /\ Counted' /\ m_unscheduledEvents' \in Nat
  <2>1. IsFiniteSet(m_list) /\ Cardinality(m_list) \in Nat /\ m_unscheduledEvents = Cardinality(m_list)
    BY <1>3, FS_CardinalityType DEF SimInv, Counted
  <2>2. IsFiniteSet(m_list \ {ev}) /\ Cardinality(m_list \ {ev}) = Cardinality(m_list) - 1
    BY <1>6, <2>1, FS_RemoveElement
  <2>3. Cardinality(m_list \ {ev}) \in Nat
    BY <2>2, FS_CardinalityType
  <2> QED  BY <1>2, <2>1, <2>2, <2>3 DEF Counted
<1>8. TypeOK'
  <2>1. EventsTyped'
    BY <1>1, <1>2, <1>4, <1>5, <1>7 DEF EventsTyped, clockVars
  <2> QED  BY <1>3, <2>1 DEF TypeOK, EventsTyped, ThreadTyped
<1>9. UidsKnown' /\ UidsApart'
  BY <1>2, <1>4, <1>5 DEF SimInv, UidsKnown, UidsApart, Uids, KeyOf, clockVars
<1>10. ClockBehind'
  BY <1>2 DEF SimInv, ClockBehind, Current, clockVars
<1>11. NoneMissing'
  <2>1. \A x \in ids : x.uid # DESTROY /\ x.impl # id.impl => KeyOf(x) # ev
    BY <1>2 DEF KeyOf, SimInv, UidsKnown
  <2> QED  BY <1>2, <1>3, <2>1 DEF SimInv, NoneMissing, Current, KeyOf, clockVars
<1>12. RevokedCancelled'
  BY <1>2, <1>5 DEF SimInv, RevokedCancelled
<1>13. scheduler' = "map"
  BY <1>2 DEF SimInv
<1> QED  BY <1>3, <1>7, <1>8, <1>9, <1>10, <1>11, <1>12, <1>13 DEF SimInv

\* With one kind of list, a new list is as the old one.
LEMMA SetSchedulerKept ==
    ASSUME Schedulers = {"map"}, SimInv, NEW s \in Schedulers, SetScheduler(s)
    PROVE  SimInv'
<1>1. EventsTyped /\ scheduler = "map" /\ s = "map"
  BY TypeParts DEF SimInv
<1>2. /\ Operation /\ scheduler' = scheduler /\ m_list' = m_list /\ m_heap' = <<>>
      /\ UNCHANGED <<clockVars, postVars, pcVars, eventVars, m_uid, m_unscheduledEvents, m_stop>>
  BY <1>1 DEF SetScheduler
<1>3. ThreadTyped' /\ UidsLeft' /\ pc # "disposed"
  BY <1>2, OperationTyped
<1>4. TypeOK'
  <2>1. EventsTyped'
    BY <1>1, <1>2 DEF EventsTyped, clockVars, eventVars
  <2> QED  BY <1>3, <2>1 DEF TypeOK, EventsTyped, ThreadTyped
<1>5. UidsKnown' /\ UidsApart'
  BY <1>2 DEF SimInv, UidsKnown, UidsApart, Uids, KeyOf, clockVars, eventVars
<1>6. ClockBehind' /\ NoneMissing' /\ Counted' /\ IsFiniteSet(m_list')
  BY <1>2 DEF SimInv, ClockBehind, NoneMissing, Counted, Current, KeyOf, clockVars, eventVars, pcVars
<1>7. RevokedCancelled'
  BY <1>2 DEF SimInv, RevokedCancelled, eventVars
<1> QED  BY <1>1, <1>2, <1>3, <1>4, <1>5, <1>6, <1>7 DEF SimInv

-----------------------------------------------------------------------------
(* Steps that execute and drop events.                                     *)

\* The first event of the list is executed and becomes the present: all others are after
\* it, and none that is gone or was before it comes back.
LEMMA ProcessKept == ASSUME SimInv, ProcessOneEvent PROVE SimInv'
<1>1. EventsTyped /\ ThreadTyped /\ UidsLeft /\ Pending = m_list /\ IsFiniteSet(m_list)
  BY TypeParts DEF SimInv, Pending
<1>2. PICK next : next = PeekNext
  OBVIOUS
<1>3. /\ m_list # {} /\ pc = "loop" /\ m_list' = m_list \ {next} /\ m_heap' = m_heap
      /\ m_unscheduledEvents' = m_unscheduledEvents - 1
      /\ m_currentTs' = next.ts /\ m_currentUid' = next.uid
      /\ (running' = next.uid \/ running' = running)
      /\ pc' \in {"event", "flag"} /\ caller' = "ProcessOneEvent"
      /\ UNCHANGED <<scheduler, postVars, ops, cancelled, m_destroyEvents, ids, revoked, m_uid, m_stop>>
  <2>1. scheduler = "map"
    BY DEF SimInv
  <2> QED  BY <1>1, <1>2, <2>1 DEF ProcessOneEvent, MapRemove
<1>4. /\ next \in m_list /\ next \in EventKey /\ Less(Current, next) /\ next.uid \in Uids
      /\ \A e \in m_list : e = next \/ Less(next, e)
  <2>1. next = MapPeekNext(m_list)
    BY <1>2 DEF SimInv, PeekNext
  <2>2. m_list \in SUBSET EventKey
    BY <1>1 DEF EventsTyped
  <2>3. next \in m_list /\ \A e \in m_list : e = next \/ Less(next, e)
    BY <1>3, <2>1, <2>2, MapFirst
  <2> QED  BY <2>2, <2>3 DEF SimInv, ClockBehind, UidsKnown
<1>5. next.ts \in Nat /\ next.uid \in Nat /\ Current' = next /\ next.uid < m_uid /\ Current \in EventKey
  BY <1>1, <1>3, <1>4 DEF EventKey, Current, Uids, EventsTyped, ThreadTyped, VALID
<1>6. IsFiniteSet(m_list') /\ Counted' /\ m_unscheduledEvents' \in Nat
  <2>1. IsFiniteSet(m_list) /\ Cardinality(m_list) \in Nat /\ m_unscheduledEvents = Cardinality(m_list)
    BY <1>3, FS_CardinalityType DEF SimInv, Counted
  <2>2. IsFiniteSet(m_list \ {next}) /\ Cardinality(m_list \ {next}) = Cardinality(m_list) - 1
    BY <1>4, <2>1, FS_RemoveElement
  <2>3. Cardinality(m_list \ {next}) \in Nat
    BY <2>2, FS_CardinalityType
  <2> QED  BY <1>3, <2>1, <2>2, <2>3 DEF Counted
<1>7. ThreadTyped' /\ UidsLeft'
  <2>1. ThreadTyped'
    BY <1>1, <1>3 DEF ThreadTyped, postVars
  <2> QED  BY <1>1, <1>3, <2>1 DEF UidsLeft, postVars
<1>8. TypeOK'
  <2>1. EventsTyped'
    BY <1>1, <1>3, <1>5, <1>6 DEF EventsTyped
  <2> QED  BY <1>7, <2>1 DEF TypeOK, EventsTyped, ThreadTyped
<1>9. UidsKnown' /\ UidsApart'
  BY <1>3, <1>5 DEF SimInv, UidsKnown, UidsApart, Uids, KeyOf
<1>10. ClockBehind'
  BY <1>3, <1>4, <1>5 DEF ClockBehind
<1>11. NoneMissing'
  <2>1. ASSUME NEW id \in ids, id.uid # DESTROY, id.impl \notin cancelled, Less(next, KeyOf(id))
        PROVE  KeyOf(id) \in m_list \ {next}
    <3>1. KeyOf(id) \in EventKey
      BY <1>1 DEF EventsTyped, EventIds, KeyOf, EventKey
    <3>2. Less(Current, KeyOf(id)) /\ KeyOf(id) # next
      BY <1>4, <1>5, <2>1, <3>1, LessOrder
    <3> QED  BY <1>3, <2>1, <3>2 DEF SimInv, NoneMissing
  <2> QED  BY <1>3, <1>5, <2>1 DEF NoneMissing, KeyOf
<1>12. RevokedCancelled' /\ scheduler' = "map"
  BY <1>3 DEF SimInv, RevokedCancelled
<1> QED  BY <1>6, <1>7, <1>8, <1>9, <1>10, <1>11, <1>12 DEF SimInv

\* The first destroy event is executed.
LEMMA RunDestroyKept == ASSUME SimInv, RunDestroyEvent PROVE SimInv'
<1>1. EventsTyped /\ ThreadTyped /\ UidsLeft /\ m_destroyEvents \in Seq(EventIds)
  BY TypeParts DEF SimInv, EventsTyped
<1>2. /\ pc = "destroy" /\ m_destroyEvents # <<>> /\ m_destroyEvents' = Tail(m_destroyEvents)
      /\ (running' = Head(m_destroyEvents).impl \/ running' = running)
      /\ pc' \in {"destroyEvent", "destroy"}
      /\ UNCHANGED <<listVars, clockVars, postVars, caller, ops, cancelled, ids, revoked, m_uid,
                     m_unscheduledEvents, m_stop>>
  BY DEF RunDestroyEvent
<1>3. /\ m_destroyEvents' \in Seq(EventIds) /\ Head(m_destroyEvents) \in EventIds
      /\ \A i \in DOMAIN m_destroyEvents' :
           i + 1 \in DOMAIN m_destroyEvents /\ m_destroyEvents'[i] = m_destroyEvents[i + 1] /\ i \in Nat
  BY <1>1, <1>2
<1>4. ThreadTyped' /\ UidsLeft'
  <2>1. ThreadTyped'
    BY <1>1, <1>2 DEF ThreadTyped, postVars
  <2> QED  BY <1>1, <1>2, <2>1 DEF UidsLeft, postVars
<1>5. TypeOK'
  <2>1. running' \in Nat
    BY <1>1, <1>2, <1>3 DEF EventsTyped, EventIds
  <2>2. EventsTyped'
    BY <1>1, <1>2, <1>3, <2>1 DEF EventsTyped, listVars, clockVars
  <2> QED  BY <1>4, <2>2 DEF TypeOK, EventsTyped, ThreadTyped
<1>6. UidsKnown'
  BY <1>2 DEF SimInv, UidsKnown, Uids, listVars, clockVars
<1>7. UidsApart'
  <2>1. \A e \in m_list', x \in ids' : e.uid = x.impl => e = KeyOf(x)
    BY <1>2 DEF SimInv, UidsApart, listVars
  <2>2. \A i \in DOMAIN m_destroyEvents' :
           m_destroyEvents'[i] \in ids' /\ m_destroyEvents'[i].uid = DESTROY
    BY <1>2, <1>3 DEF SimInv, UidsApart
  <2>3. \A i \in DOMAIN m_destroyEvents', j \in DOMAIN m_destroyEvents' :
           m_destroyEvents'[i].impl = m_destroyEvents'[j].impl => i = j
    <3> SUFFICES ASSUME NEW i \in DOMAIN m_destroyEvents', NEW j \in DOMAIN m_destroyEvents',
                        m_destroyEvents'[i].impl = m_destroyEvents'[j].impl
                 PROVE  i = j
      OBVIOUS
    <3>1. i + 1 = j + 1
      BY <1>3 DEF SimInv, UidsApart
    <3> QED  BY <1>3, <3>1
  <2> QED  BY <2>1, <2>2, <2>3 DEF UidsApart, KeyOf
<1>8. ClockBehind' /\ NoneMissing' /\ Counted' /\ IsFiniteSet(m_list') /\ scheduler' = "map"
  BY <1>2 DEF SimInv, ClockBehind, NoneMissing, Counted, Current, KeyOf, listVars, clockVars
<1>9. RevokedCancelled'
  <2>1. \A i \in DOMAIN m_destroyEvents' :
           m_destroyEvents'[i].impl \in revoked => m_destroyEvents'[i].impl \in cancelled
    BY <1>3 DEF SimInv, RevokedCancelled
  <2> QED  BY <1>2, <2>1 DEF SimInv, RevokedCancelled, listVars
<1> QED  BY <1>4, <1>5, <1>6, <1>7, <1>8, <1>9 DEF SimInv

\* DoDispose drops the events, after which nothing is claimed of them.
LEMMA DropKept == ASSUME SimInv, DropEvents PROVE SimInv'
<1>1. EventsTyped /\ ThreadTyped /\ UidsLeft
  BY TypeParts DEF SimInv
<1>2. /\ pc' = "disposed" /\ m_list' = {} /\ m_heap' = <<>>
      /\ UNCHANGED <<scheduler, clockVars, postVars, eventVars, caller, ops, m_uid,
                     m_unscheduledEvents, m_stop>>
  BY DEF DropEvents, Goto
<1>3. TypeOK'
  <2>1. EventsTyped'
    BY <1>1, <1>2 DEF EventsTyped, clockVars, eventVars
  <2>2. ThreadTyped'
    BY <1>1, <1>2 DEF ThreadTyped, postVars
  <2> QED  BY <2>1, <2>2 DEF TypeOK, EventsTyped, ThreadTyped
<1>4. IsFiniteSet(m_list') /\ UidsLeft' /\ scheduler' = "map"
  BY <1>1, <1>2, FS_EmptySet DEF UidsLeft, postVars, SimInv
<1>5. UidsKnown' /\ UidsApart'
  BY <1>2 DEF SimInv, UidsKnown, UidsApart, Uids, KeyOf, clockVars, eventVars
<1>6. ClockBehind' /\ NoneMissing' /\ Counted' /\ RevokedCancelled'
  BY <1>2 DEF SimInv, ClockBehind, NoneMissing, Counted, RevokedCancelled, eventVars
<1> QED  BY <1>3, <1>4, <1>5, <1>6 DEF SimInv

-----------------------------------------------------------------------------
(* The theorems.                                                           *)

\* The initial state.
LEMMA InitSim == ASSUME Schedulers = {"map"} PROVE Init => SimInv
<1> SUFFICES ASSUME Init PROVE SimInv
  OBVIOUS
<1> USE SimulatorAssumption DEF Init, VALID, INVALID
<1>1. TypeOK
  <2>1. EventsTyped
    BY DEF EventsTyped
  <2>2. m_stop \in BOOLEAN /\ m_eventsWithContextEmpty \in BOOLEAN
    OBVIOUS
  <2>3. m_uid \in VALID .. MaxUid /\ posts \in 0 .. MaxPosts /\ ops \in 0 .. MaxOps
    OBVIOUS
  <2>4. ThreadTyped
    BY <2>2, <2>3 DEF ThreadTyped
  <2> QED  BY <2>1, <2>4, TypeParts
<1>2. IsFiniteSet(m_list) /\ Counted
  BY FS_EmptySet DEF Counted
<1>3. UidsLeft /\ UidsKnown /\ UidsApart
  BY DEF UidsLeft, UidsKnown, UidsApart
<1>4. ClockBehind /\ NoneMissing /\ RevokedCancelled
  BY DEF ClockBehind, NoneMissing, RevokedCancelled
<1> QED  BY <1>1, <1>2, <1>3, <1>4 DEF SimInv

\* Every step keeps the invariant.
LEMMA NextSim == ASSUME Schedulers = {"map"} PROVE SimInv /\ [Next]_vars => SimInv'
<1> SUFFICES ASSUME SimInv, [Next]_vars PROVE SimInv'
  OBVIOUS
<1>1. CASE UNCHANGED vars
  <2>1. UNCHANGED <<dataVars, m_uid, postVars, pc, caller, ops, m_stop>>
    BY <1>1 DEF vars, dataVars, pcVars
  <2>2. ThreadTyped /\ UidsLeft
    BY TypeParts DEF SimInv
  <2>3. ThreadTyped' /\ UidsLeft'
    BY <2>1, <2>2 DEF ThreadTyped, UidsLeft, postVars
  <2> QED  BY <2>1, <2>3, DataKept
<1>2. CASE Operations
  BY <1>2, ScheduleKept, ScheduleDestroyKept, CancelKept, RemoveDestroyKept, RemoveEventKept, ControlKept,
     SetSchedulerKept DEF Operations
<1>3. CASE MainLoop \/ FlagSeenSet \/ Run \/ Destroy \/ \E d \in Delays : Post(d)
  BY <1>3, ControlKept, QueueKept, MoveKept, ProcessKept, RunDestroyKept, DropKept DEF MainLoop
<1> QED  BY <1>1, <1>2, <1>3 DEF Next

\* The invariant holds throughout.
LEMMA SimAlways == ASSUME Schedulers = {"map"} PROVE Spec => []SimInv
<1>1. Init => SimInv
  BY InitSim
<1>2. SimInv /\ [Next]_vars => SimInv'
  BY NextSim
<1> QED  BY <1>1, <1>2, PTL DEF Spec

\* Types, with m_uid and m_unscheduledEvents never below 0 (they are unsigned in the code).
THEOREM TypeCorrect == ASSUME Schedulers = {"map"} PROVE Spec => []TypeOK
<1>1. SimInv => TypeOK
  BY DEF SimInv
<1> QED  BY <1>1, SimAlways, PTL

\* The assertion of ProcessOneEvent, that time does not run backwards, holds with
\* MapScheduler; with HeapScheduler it does not.
THEOREM TimeAdvances == ASSUME Schedulers = {"map"} PROVE Spec => []NextNotPast
<1>1. SimInv => NextNotPast
  <2> SUFFICES ASSUME SimInv, Pending # {} PROVE PeekNext.ts >= m_currentTs
    BY DEF NextNotPast
  <2>1. /\ Pending = m_list /\ PeekNext = MapPeekNext(m_list) /\ m_list \in SUBSET EventKey
        /\ m_currentTs \in Nat
    BY DEF SimInv, Pending, PeekNext, TypeOK
  <2>2. PeekNext \in m_list
    BY <2>1, MapFirst
  <2>3. Less(Current, PeekNext) /\ PeekNext.ts \in Nat
    BY <2>1, <2>2 DEF SimInv, ClockBehind, EventKey
  <2> QED  BY <2>1, <2>3 DEF Less, Current
<1> QED  BY <1>1, SimAlways, PTL

\* IsExpired, which looks at the clock only, is right about every id ever handed out.
THEOREM ExpiryExact == ASSUME Schedulers = {"map"} PROVE Spec => []ExpiredIffGone
<1>1. SimInv => ExpiredIffGone
  BY Expiry DEF ExpiredIffGone
<1> QED  BY <1>1, SimAlways, PTL

\* The count of unscheduled events is the number of events in the list.
THEOREM CountExact == ASSUME Schedulers = {"map"} PROVE Spec => []NoEventLost
<1>1. SimInv => NoEventLost
  BY DEF SimInv, Counted, NoEventLost, Pending
<1> QED  BY <1>1, SimAlways, PTL

\* An event that was cancelled or removed while it waited is never notified.
THEOREM RevokedStays == ASSUME Schedulers = {"map"} PROVE Spec => RevokedNeverRuns
<1>1. ASSUME SimInv, [Next]_vars, running' # running PROVE running' \notin revoked
  <2>1. ProcessOneEvent \/ RunDestroyEvent
    BY <1>1 DEF Next, vars, Operations, MainLoop, Schedule, ScheduleDestroy, Cancel, RemoveDestroy,
       RemoveEvent, Stop, SetScheduler, FlagSeenEmpty, SwapQueue, MoveEvents, EventReturns, RunReturns,
       DestroyEventReturns, DoDispose, DropEvents, FlagSeenSet, Run, Destroy, Post, eventVars
  <2>2. CASE ProcessOneEvent
    <3>1. running' = PeekNext.uid /\ PeekNext.uid \notin cancelled /\ m_list # {}
      BY <1>1, <2>2 DEF ProcessOneEvent, SimInv, Pending
    <3>2. PeekNext = MapPeekNext(m_list) /\ m_list \in SUBSET EventKey
      BY <1>1 DEF SimInv, PeekNext, TypeOK
    <3>3. PeekNext \in m_list
      BY <3>1, <3>2, MapFirst
    <3> QED  BY <1>1, <3>1, <3>3 DEF SimInv, RevokedCancelled
  <2>3. CASE RunDestroyEvent
    <3>1. running' = Head(m_destroyEvents).impl /\ Head(m_destroyEvents).impl \notin cancelled
          /\ m_destroyEvents # <<>> /\ m_destroyEvents \in Seq(EventIds)
      BY <1>1, <2>3 DEF RunDestroyEvent, SimInv, TypeOK
    <3>2. 1 \in DOMAIN m_destroyEvents /\ Head(m_destroyEvents) = m_destroyEvents[1]
      BY <3>1
    <3> QED  BY <1>1, <3>1, <3>2 DEF SimInv, RevokedCancelled
  <2> QED  BY <2>1, <2>2, <2>3
<1>2. SimInv /\ [Next]_vars => [running' \notin revoked]_running
  BY <1>1
<1> QED  BY <1>2, SimAlways, PTL DEF Spec, RevokedNeverRuns

\* The flag that the main thread reads without the lock never hides a posted event, for
\* every kind of event list.
THEOREM FlagCovers == Spec => []FlagCoversQueue
<1>1. Init => FlagCoversQueue
  BY DEF Init, FlagCoversQueue
<1>2. FlagCoversQueue /\ [Next]_vars => FlagCoversQueue'
  <2> SUFFICES ASSUME FlagCoversQueue, [Next]_vars PROVE FlagCoversQueue'
    OBVIOUS
  <2>1. \/ UNCHANGED <<m_eventsWithContext, m_eventsWithContextEmpty>>
        \/ m_eventsWithContext' = <<>> \/ m_eventsWithContextEmpty' = FALSE
    BY DEF Next, vars, Operations, MainLoop, Schedule, ScheduleDestroy, Cancel, RemoveDestroy,
       RemoveEvent, Stop, SetScheduler, FlagSeenEmpty, SwapQueue, MoveEvents, ProcessOneEvent,
       EventReturns, RunReturns, RunDestroyEvent, DestroyEventReturns, DoDispose, DropEvents,
       FlagSeenSet, Run, Destroy, Post, postVars
  <2> QED  BY <2>1 DEF FlagCoversQueue
<1> QED  BY <1>1, <1>2, PTL DEF Spec
=============================================================================

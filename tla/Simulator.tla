----------------------------- MODULE Simulator -----------------------------
(***************************************************************************)
(* DefaultSimulatorImpl, the discrete event engine every timer, delayed    *)
(* message and callback of the O-RAN models runs on.  The main thread      *)
(* calls the operations, either outside Run or from inside the event that  *)
(* is being executed; other threads may only post an event through         *)
(* ScheduleWithContext, which queues it under a mutex until the main       *)
(* thread moves it to the event list.                                      *)
(*                                                                         *)
(* An event is its key; its EventImpl is named by the uid it was created   *)
(* with.  Contexts, reference counts and what an event does are left out.  *)
(***************************************************************************)
EXTENDS EventScheduler, FiniteSets

CONSTANTS
    Delays,      \* delays events are scheduled with
    Schedulers,  \* the event lists the program selects
    MaxUid,      \* bound: uids handed out
    MaxPending,  \* bound: events in the event list or on the way to it
    MaxPosts,    \* bound: events posted by other threads
    MaxOps       \* bound: operations other than Schedule

INVALID == 0
DESTROY == 2
VALID == 4

\* What the rest of the module relies on; the first uid is VALID.
ASSUME SimulatorAssumption ==
    /\ Delays \subseteq Nat
    /\ Schedulers \subseteq {"map", "heap"} /\ Schedulers # {}
    /\ MaxUid \in Nat /\ MaxUid >= VALID /\ MaxPending \in Nat
    /\ MaxPosts \in Nat /\ MaxOps \in Nat

VARIABLES
    scheduler,                \* the kind of list m_events is
    m_list,                   \* MapScheduler::m_list
    m_heap,                   \* HeapScheduler::m_heap
    m_uid,                    \* the uid of the next event
    m_currentTs,              \* the time and the uid of the event that is or
    m_currentUid,             \*   was last executed
    m_unscheduledEvents,      \* count of events in the list
    m_stop,
    cancelled,                \* the EventImpls whose m_cancel is set
    m_destroyEvents,          \* queue of ids, run by Destroy
    m_eventsWithContext,      \* delays of the posted events
    m_eventsWithContextEmpty, \* the flag the main thread reads without the lock
    moving,                   \* local queue of ProcessEventsWithContext
    pc, caller,               \* where the main thread is; who called
                              \*   ProcessEventsWithContext
    ids,                      \* every EventId handed out
    running,                  \* history: EventImpl last notified
    revoked,                  \* history: those cancelled or removed in time
    posts, ops                \* counts of posts and of operations

listVars == <<scheduler, m_list, m_heap>>
clockVars == <<m_currentTs, m_currentUid>>
postVars == <<m_eventsWithContext, m_eventsWithContextEmpty, moving, posts>>
pcVars == <<pc, caller>>
eventVars == <<cancelled, m_destroyEvents, ids, running, revoked>>
vars == <<listVars, clockVars, postVars, pcVars, eventVars, m_uid,
          m_unscheduledEvents, m_stop, ops>>

Pending == IF scheduler = "map" THEN m_list ELSE Range(m_heap)

PeekNext ==
    IF scheduler = "map" THEN MapPeekNext(m_list) ELSE HeapPeekNext(m_heap)

\* m_events->Insert(ev) for the events of a sequence, one after the other.
InsertSeq(evs) ==
    /\ m_list' = IF scheduler = "map" THEN m_list \cup Range(evs) ELSE m_list
    /\ m_heap' = IF scheduler = "heap" THEN FoldLeft(HeapInsert, m_heap, evs)
                                      ELSE m_heap
    /\ UNCHANGED scheduler

\* Bounds: an event still has a uid, and a place in the list.
UidLeft == m_uid + Len(m_eventsWithContext) + Len(moving) < MaxUid
Room ==
    Cardinality(Pending) + Len(m_eventsWithContext) + Len(moving) < MaxPending

\* The main thread runs code of the program: outside Run, in an event or in a
\* destroy event.
InProgram == pc \in {"idle", "event", "destroyEvent"}
Operation == InProgram /\ ops < MaxOps /\ ops' = ops + 1

-----------------------------------------------------------------------------
Init ==
    /\ scheduler \in Schedulers
    /\ m_list = {} /\ m_heap = <<>>
    /\ m_uid = VALID
    /\ m_currentTs = 0 /\ m_currentUid = INVALID
    /\ m_unscheduledEvents = 0
    /\ m_stop = FALSE
    /\ cancelled = {}
    /\ m_destroyEvents = <<>>
    /\ m_eventsWithContext = <<>> /\ m_eventsWithContextEmpty = TRUE
    /\ moving = <<>>
    /\ pc = "idle" /\ caller = "Run"
    /\ ids = {} /\ running = 0 /\ revoked = {} /\ posts = 0 /\ ops = 0

-----------------------------------------------------------------------------
(* Operations the program calls from the main thread *)

\* Schedule, ScheduleNow (delay 0), ScheduleWithContext of the main thread.
Schedule(delay) ==
    LET ev == [ts |-> m_currentTs + delay, uid |-> m_uid]
    IN /\ InProgram /\ UidLeft /\ Room
       /\ InsertSeq(<<ev>>)
       /\ m_uid' = m_uid + 1
       /\ m_unscheduledEvents' = m_unscheduledEvents + 1
       /\ ids' = ids \cup {[ts |-> ev.ts, uid |-> ev.uid, impl |-> ev.uid]}
       /\ UNCHANGED <<clockVars, postVars, pcVars, ops, cancelled, m_destroyEvents,
                      running, revoked, m_stop>>

\* All destroy events have the same uid.
ScheduleDestroy ==
    LET id == [ts |-> m_currentTs, uid |-> DESTROY, impl |-> m_uid]
    IN /\ Operation /\ UidLeft
       /\ m_destroyEvents' = Append(m_destroyEvents, id)
       /\ m_uid' = m_uid + 1
       /\ ids' = ids \cup {id}
       /\ UNCHANGED <<listVars, clockVars, postVars, pcVars, cancelled, running,
                      revoked, m_unscheduledEvents, m_stop>>

\* Mutant: the event that is being executed has not expired.
IsExpiredAfterwards(id) ==
    IF id.uid = DESTROY
      THEN id.impl \in cancelled \/ id \notin Range(m_destroyEvents)
      ELSE \/ id.ts < m_currentTs
           \/ id.ts = m_currentTs /\ id.uid < m_currentUid
           \/ id.impl \in cancelled

\* Mutant: every event of the current time has expired.
IsExpiredByTime(id) ==
    IF id.uid = DESTROY
      THEN id.impl \in cancelled \/ id \notin Range(m_destroyEvents)
      ELSE id.ts <= m_currentTs \/ id.impl \in cancelled

IsExpired(id) ==
    IF id.uid = DESTROY
      THEN id.impl \in cancelled \/ id \notin Range(m_destroyEvents)
      ELSE \/ id.ts < m_currentTs
           \/ id.ts = m_currentTs /\ id.uid <= m_currentUid
           \/ id.impl \in cancelled

\* The event is still to come: it is in the event list or in the destroy list.
Waiting(id) ==
    IF id.uid = DESTROY THEN id \in Range(m_destroyEvents)
                        ELSE [ts |-> id.ts, uid |-> id.uid] \in Pending

Revoke(id) == revoked' = IF Waiting(id) THEN revoked \cup {id.impl} ELSE revoked

\* Mutant: a cancelled event is no longer counted though it stays in the list.
CancelCounts(id) ==
    /\ Operation
    /\ cancelled' = IF IsExpired(id) THEN cancelled ELSE cancelled \cup {id.impl}
    /\ m_unscheduledEvents' = IF IsExpired(id) THEN m_unscheduledEvents
                                              ELSE m_unscheduledEvents - 1
    /\ Revoke(id)
    /\ UNCHANGED <<listVars, clockVars, postVars, pcVars, m_destroyEvents, ids,
                   running, m_uid, m_stop>>

Cancel(id) ==
    /\ Operation
    /\ cancelled' = IF IsExpired(id) THEN cancelled ELSE cancelled \cup {id.impl}
    /\ Revoke(id)
    /\ UNCHANGED <<listVars, clockVars, postVars, pcVars, m_destroyEvents, ids,
                   running, m_uid, m_unscheduledEvents, m_stop>>

RemoveDestroy(id) ==
    /\ Operation /\ id.uid = DESTROY
    /\ m_destroyEvents' = RemoveFirst(m_destroyEvents, id)
    /\ Revoke(id)
    /\ UNCHANGED <<listVars, clockVars, postVars, pcVars, cancelled, ids,
                   running, m_uid, m_unscheduledEvents, m_stop>>

RemoveEvent(id) ==
    LET ev == [ts |-> id.ts, uid |-> id.uid]
    IN /\ Operation /\ id.uid # DESTROY /\ ~IsExpired(id)
       /\ m_list' = IF scheduler = "map" THEN MapRemove(m_list, ev) ELSE m_list
       /\ m_heap' = IF scheduler = "heap" THEN HeapRemove(m_heap, ev) ELSE m_heap
       /\ cancelled' = cancelled \cup {id.impl}
       /\ m_unscheduledEvents' = m_unscheduledEvents - 1
       /\ Revoke(id)
       /\ UNCHANGED <<scheduler, clockVars, postVars, pcVars, m_destroyEvents,
                      ids, running, m_uid, m_stop>>

Stop ==
    /\ Operation
    /\ m_stop' = TRUE
    /\ UNCHANGED <<listVars, clockVars, postVars, pcVars, eventVars, m_uid,
                   m_unscheduledEvents>>

\* The events move to a new list in the order RemoveNext gives; a map has an order of
\* its own.
SetScheduler(s) ==
    LET evs == IF scheduler = "map" THEN MapDrain(m_list) ELSE HeapDrain[m_heap]
    IN /\ Operation
       /\ scheduler' = s
       /\ m_list' = CASE s # "map"         -> {}
                     [] scheduler = "map" -> m_list
                     [] OTHER             -> Range(evs)
       /\ m_heap' = IF s = "heap" THEN FoldLeft(HeapInsert, <<>>, evs) ELSE <<>>
       /\ UNCHANGED <<clockVars, postVars, pcVars, eventVars, m_uid,
                      m_unscheduledEvents, m_stop>>

-----------------------------------------------------------------------------
(* The main loop *)

\* A step of the main thread from one place to another.
Goto(from, to) == pc = from /\ pc' = to

Run ==
    /\ Goto("idle", "flag") /\ caller' = "Run"
    /\ UNCHANGED <<listVars, clockVars, postVars, eventVars, ops, m_uid,
                   m_unscheduledEvents, m_stop>>

\* What follows the call of ProcessEventsWithContext: Run clears m_stop and
\* enters its loop, ProcessOneEvent returns to it, DoDispose drops the events.
ReturnToCaller ==
    /\ m_stop' = IF caller = "Run" THEN FALSE ELSE m_stop
    /\ pc' = IF caller = "DoDispose" THEN "drop" ELSE "loop"

\* ProcessEventsWithContext: the flag is read without the lock, so that the
\* value another thread wrote may be seen late ...
FlagSeenEmpty ==
    /\ pc = "flag"
    /\ ReturnToCaller
    /\ UNCHANGED <<listVars, clockVars, postVars, eventVars, caller, ops, m_uid,
                   m_unscheduledEvents>>

FlagSeenSet ==
    /\ ~m_eventsWithContextEmpty
    /\ Goto("flag", "swap")
    /\ UNCHANGED <<listVars, clockVars, postVars, eventVars, caller, ops, m_uid,
                   m_unscheduledEvents, m_stop>>

\* ... then the queue is taken over and the flag is set, under the lock ...
SwapQueue ==
    /\ Goto("swap", "move")
    /\ moving' = m_eventsWithContext
    /\ m_eventsWithContext' = <<>>
    /\ m_eventsWithContextEmpty' = TRUE
    /\ UNCHANGED <<listVars, clockVars, eventVars, caller, ops, posts, m_uid,
                   m_unscheduledEvents, m_stop>>

\* Mutant: the flag is set once more after the queue was emptied.
MoveEventsSetsFlag ==
    /\ pc = "move"
    /\ InsertSeq([i \in DOMAIN moving |->
                    [ts |-> m_currentTs + moving[i], uid |-> m_uid + i - 1]])
    /\ m_uid' = m_uid + Len(moving)
    /\ m_unscheduledEvents' = m_unscheduledEvents + Len(moving)
    /\ moving' = <<>>
    /\ m_eventsWithContextEmpty' = TRUE
    /\ ReturnToCaller
    /\ UNCHANGED <<clockVars, eventVars, caller, ops, m_eventsWithContext,
                   posts>>

\* ... and the events move to the event list, their delay counted from now.
MoveEvents ==
    /\ pc = "move"
    /\ InsertSeq([i \in DOMAIN moving |->
                    [ts |-> m_currentTs + moving[i], uid |-> m_uid + i - 1]])
    /\ m_uid' = m_uid + Len(moving)
    /\ m_unscheduledEvents' = m_unscheduledEvents + Len(moving)
    /\ moving' = <<>>
    /\ ReturnToCaller
    /\ UNCHANGED <<clockVars, eventVars, caller, ops, m_eventsWithContext,
                   m_eventsWithContextEmpty, posts>>

\* An event that was cancelled is taken from the list and not notified.
ProcessOneEvent ==
    LET next == PeekNext
        notify == next.uid \notin cancelled
    IN /\ pc = "loop" /\ Pending # {} /\ ~m_stop
       /\ m_list' = IF scheduler = "map" THEN MapRemove(m_list, next) ELSE m_list
       /\ m_heap' = IF scheduler = "heap" THEN HeapRemoveNext(m_heap) ELSE m_heap
       /\ m_unscheduledEvents' = m_unscheduledEvents - 1
       /\ m_currentTs' = next.ts /\ m_currentUid' = next.uid
       /\ running' = IF notify THEN next.uid ELSE running
       /\ pc' = IF notify THEN "event" ELSE "flag"
       /\ caller' = "ProcessOneEvent"
       /\ UNCHANGED <<scheduler, postVars, ops, cancelled, m_destroyEvents, ids,
                      revoked, m_uid, m_stop>>

EventReturns ==
    /\ Goto("event", "flag")
    /\ UNCHANGED <<listVars, clockVars, postVars, eventVars, caller, ops, m_uid,
                   m_unscheduledEvents, m_stop>>

RunReturns ==
    /\ Pending = {} \/ m_stop
    /\ Goto("loop", "idle")
    /\ UNCHANGED <<listVars, clockVars, postVars, eventVars, caller, ops, m_uid,
                   m_unscheduledEvents, m_stop>>

-----------------------------------------------------------------------------
(* Simulator::Destroy: the destroy events, then DoDispose *)

Destroy ==
    /\ Goto("idle", "destroy")
    /\ UNCHANGED <<listVars, clockVars, postVars, eventVars, caller, ops, m_uid,
                   m_unscheduledEvents, m_stop>>

RunDestroyEvent ==
    LET id == Head(m_destroyEvents)
        notify == id.impl \notin cancelled
    IN /\ pc = "destroy" /\ m_destroyEvents # <<>>
       /\ m_destroyEvents' = Tail(m_destroyEvents)
       /\ running' = IF notify THEN id.impl ELSE running
       /\ pc' = IF notify THEN "destroyEvent" ELSE "destroy"
       /\ UNCHANGED <<listVars, clockVars, postVars, caller, ops, cancelled, ids,
                      revoked, m_uid, m_unscheduledEvents, m_stop>>

DestroyEventReturns ==
    /\ Goto("destroyEvent", "destroy")
    /\ UNCHANGED <<listVars, clockVars, postVars, eventVars, caller, ops, m_uid,
                   m_unscheduledEvents, m_stop>>

DoDispose ==
    /\ m_destroyEvents = <<>>
    /\ Goto("destroy", "flag") /\ caller' = "DoDispose"
    /\ UNCHANGED <<listVars, clockVars, postVars, eventVars, ops, m_uid,
                   m_unscheduledEvents, m_stop>>

DropEvents ==
    /\ Goto("drop", "disposed")
    /\ m_list' = {} /\ m_heap' = <<>>
    /\ UNCHANGED <<scheduler, clockVars, postVars, eventVars, caller, ops, m_uid,
                   m_unscheduledEvents, m_stop>>

-----------------------------------------------------------------------------
(* Another thread: ScheduleWithContext, under the lock *)

Post(delay) ==
    /\ pc # "disposed" /\ posts < MaxPosts /\ Room /\ UidLeft
    /\ m_eventsWithContext' = Append(m_eventsWithContext, delay)
    /\ m_eventsWithContextEmpty' = FALSE
    /\ posts' = posts + 1
    /\ UNCHANGED <<listVars, clockVars, pcVars, ops, eventVars, moving, m_uid,
                   m_unscheduledEvents, m_stop>>

-----------------------------------------------------------------------------
Operations ==
    \/ \E d \in Delays : Schedule(d)
    \/ ScheduleDestroy
    \/ \E id \in ids : Cancel(id) \/ RemoveDestroy(id) \/ RemoveEvent(id)
    \/ Stop
    \/ \E s \in Schedulers : SetScheduler(s)

MainLoop ==
    \/ FlagSeenEmpty \/ SwapQueue \/ MoveEvents
    \/ ProcessOneEvent \/ EventReturns \/ RunReturns
    \/ RunDestroyEvent \/ DestroyEventReturns \/ DoDispose \/ DropEvents

Next ==
    \/ Operations \/ MainLoop \/ FlagSeenSet
    \/ Run \/ Destroy
    \/ \E d \in Delays : Post(d)

\* The main thread makes progress, events and the program return, and the
\* program calls Run or Destroy; a write to the flag is seen in the end by a
\* thread that reads it again and again.
Fairness ==
    /\ WF_vars(MainLoop)
    /\ WF_vars(Run \/ Destroy)
    /\ SF_vars(FlagSeenSet)

Spec == Init /\ [][Next]_vars /\ Fairness

-----------------------------------------------------------------------------
EventIds == [ts : Nat, uid : Nat, impl : Nat]

\* Every variable holds a value of its type.
TypeOK ==
    /\ scheduler \in Schedulers
    /\ m_list \subseteq EventKey /\ m_heap \in Seq(EventKey)
    /\ m_uid \in VALID .. MaxUid /\ m_currentTs \in Nat /\ m_currentUid \in Nat
    /\ m_unscheduledEvents \in Nat
    /\ m_stop \in BOOLEAN
    /\ cancelled \subseteq Nat /\ revoked \subseteq Nat /\ running \in Nat
    /\ m_destroyEvents \in Seq(EventIds) /\ ids \subseteq EventIds
    /\ m_eventsWithContext \in Seq(Delays) /\ moving \in Seq(Delays)
    /\ m_eventsWithContextEmpty \in BOOLEAN
    /\ pc \in {"idle", "flag", "swap", "move", "loop", "event", "destroy",
               "destroyEvent", "drop", "disposed"}
    /\ caller \in {"Run", "ProcessOneEvent", "DoDispose"}
    /\ posts \in 0 .. MaxPosts /\ ops \in 0 .. MaxOps

\* IsExpired is computed from the clock and never from the list, and still
\* tells the two apart: an id is not expired exactly when its event waits and
\* was not cancelled, so that Remove always finds what it looks for.
ExpiredIffGone ==
    pc # "disposed" =>
        \A id \in ids : ~IsExpired(id) <=> (Waiting(id) /\ id.impl \notin cancelled)

\* The count that Run asserts to be 0 when it ends without events is the number
\* of events in the list, after cancelled, removed and posted events as well.
NoEventLost ==
    pc # "disposed" => m_unscheduledEvents = Cardinality(Pending)

\* A posted event is never behind a flag that says there is none: the flag is
\* read without the lock but written only with it.
FlagCoversQueue == m_eventsWithContext # <<>> => ~m_eventsWithContextEmpty

\* No pending event lies behind the clock (the assertion of ProcessOneEvent).
NextNotPast ==
    pc = "loop" /\ Pending # {} => PeekNext.ts >= m_currentTs

\* The function of an event that was cancelled or removed while it waited is
\* never called, whether the event waited in the event list or for Destroy.
RevokedNeverRuns == [][running' \notin revoked]_running

\* An event posted by another thread reaches the event list, unless the
\* simulator is destroyed first (ProcessEventsWithContext).
PostedIsMoved ==
    m_eventsWithContext # <<>> ~> (m_eventsWithContext = <<>> \/ pc = "disposed")
=============================================================================

---------------------------- MODULE E2Reporting ----------------------------
(***************************************************************************)
(* Reporting by one E2 node: an OranE2NodeTerminator with an OranReporter  *)
(* and its OranReportTriggerPeriodic, the timers that generate and send    *)
(* reports, and the repository that stores them.                           *)
(*                                                                         *)
(* An EventId holds one event: scheduling overwrites it without cancelling *)
(* the event it held, which stays scheduled (an orphan) and out of reach   *)
(* of Cancel.  Times are relative to now; events due at the same time run  *)
(* in any order.  Registration is module E2Registration's; here its        *)
(* responses arrive in any order.  The scenario holds its own reference to *)
(* the trigger, so that the reporter dropping it does not destroy it.      *)
(***************************************************************************)
EXTENDS Integers, FiniteSets, FiniteSetsExt, Bags

CONSTANTS
    SendIntervals,      \* the values of SendIntervalRv
    TriggerIntervals,   \* the values of the trigger's IntervalRv
    Delays,             \* the values of TransmissionDelayRv
    InitialReport,      \* InitialReport of the trigger
    Allowed,            \* what happens: "deactivate", "switch", "expire"
    Careful,            \* TRUE: the scenario sets Trigger again after every Deactivate
                        \* and activates only reporters that are not active
    MaxIds,             \* bound: E2 node IDs
    MaxOps              \* bound: operations and responses

ASSUME ConstantsAssumption ==
    /\ SendIntervals \subseteq Nat \ {0} /\ TriggerIntervals \subseteq Nat \ {0}
    /\ Delays \subseteq Nat
    /\ \A S \in {SendIntervals, TriggerIntervals, Delays} : IsFiniteSet(S) /\ S # {}
    /\ InitialReport \in BOOLEAN
    /\ Allowed \subseteq {"deactivate", "switch", "expire"}
    /\ Careful \in BOOLEAN
    /\ MaxIds \in Nat /\ MaxOps \in Nat

VARIABLES
    active,     \* OranE2NodeTerminator::m_active
    nodeId,     \* OranE2NodeTerminator::m_e2NodeId
    send,       \* OranE2NodeTerminator::m_sendEvent and its orphans
    reports,    \* OranE2NodeTerminator::m_reports
    rep,        \* the reporter and its trigger
    net,        \* reports under way to the RIC
    registered, \* IDs the repository holds as registered
    nextId,     \* the next ID the repository hands out
    deregs,     \* deregistration responses under way
    rowAge,     \* age of the newest row under nodeId since the node registered and its
                \* reporter was activated, or the time since then
    aborted,    \* NS_ABORT was reached
    ops         \* operations and responses so far

repoVars == <<registered, nextId, deregs, rowAge>>
vars     == <<active, nodeId, send, reports, rep, net, repoVars, aborted, ops>>

Off == -1

\* No row may be older: one interval of each timer and the longest transmission.
Bound == Max(TriggerIntervals) + Max(SendIntervals) + Max(Delays)

NoEvent == [event |-> Off, orphans |-> EmptyBag]

\* rep.active is m_active of the reporter and of its trigger (m_reporter is not null),
\* rep.linked that the reporter's m_trigger is not null.
Init ==
    /\ active = FALSE
    /\ nodeId = 0
    /\ send = NoEvent
    /\ reports = {}
    /\ rep = [active |-> FALSE, linked |-> TRUE, event |-> Off, orphans |-> EmptyBag]
    /\ net = {}
    /\ registered = {}
    /\ nextId = 1
    /\ deregs = 0
    /\ rowAge = 0
    /\ aborted = FALSE
    /\ ops = 0

Operation == ops < MaxOps /\ ops' = ops + 1

-----------------------------------------------------------------------------
(* Timers and the reporter.                                                *)

\* m_event = Simulator::Schedule(t, ...)
Schedule(E, t) ==
    [E EXCEPT !.orphans = IF E.event = Off THEN @ ELSE @ (+) SetToBag({E.event}),
              !.event   = t]

\* What a timer becomes when one of its events runs.
Fired(E) ==
    (IF E.event = 0 THEN {[E EXCEPT !.event = Off]} ELSE {})
      \cup (IF BagIn(0, E.orphans) THEN {[E EXCEPT !.orphans = @ (-) SetToBag({0})]} ELSE {})

\* Mutant: the trigger's event is not cancelled.
DeactivatedKeepsEvent(R) ==
    IF R.active THEN [R EXCEPT !.active = FALSE, !.linked = FALSE] ELSE R

\* OranReporter::Deactivate: the trigger cancels its event and unlinks itself from the
\* reporter, whose m_trigger becomes null.
Deactivated(R) ==
    IF R.active THEN [R EXCEPT !.active = FALSE, !.linked = FALSE, !.event = Off] ELSE R

\* A careful scenario sets the reporter's Trigger again.
Relinked(R) == [R EXCEPT !.linked = @ \/ Careful]

\* OranReporter::Activate, which deactivates a reporter that is active.
Activated(R, t) ==
    IF ~R.active /\ R.linked THEN [Schedule(R, t) EXCEPT !.active = TRUE] ELSE Deactivated(R)

StoreReport(r) == IF active THEN reports \cup {r} ELSE reports

\* The reporter generates a report under ID i.
PerformReport(R, i) == IF R.active THEN StoreReport([id |-> i, age |-> 0]) ELSE reports

\* An event of the trigger: TriggerReport.
TriggerReport ==
    \E R \in Fired(rep), t \in TriggerIntervals :
        /\ IF R.active
           THEN rep' = Schedule(R, t) /\ UNCHANGED aborted
           ELSE rep' = R /\ aborted' = TRUE
        /\ reports' = PerformReport(R, nodeId)
        /\ UNCHANGED <<active, nodeId, send, net, repoVars, ops>>

-----------------------------------------------------------------------------
(* The node's terminator.                                                  *)

Activate ==
    /\ Operation
    /\ ~active
    /\ active' = TRUE
    /\ reports' = {}
    /\ \E t \in TriggerIntervals : rep' = Activated(rep, t)
    /\ UNCHANGED <<nodeId, send, net, repoVars, aborted>>

\* CancelNextSend reaches the newest send event only.
Deactivate ==
    /\ Operation
    /\ "deactivate" \in Allowed
    /\ active
    /\ active' = FALSE
    /\ rep' = Relinked(Deactivated(rep))
    /\ send' = [send EXCEPT !.event = Off]
    /\ registered' = registered \ {nodeId}
    /\ deregs' = IF nodeId = 0 THEN deregs ELSE deregs + 1
    /\ UNCHANGED <<nodeId, reports, net, nextId, rowAge, aborted>>

\* The scenario activates the reporter.
ActivateReporter ==
    /\ Operation
    /\ "switch" \in Allowed
    /\ Careful => active /\ ~rep.active
    /\ \E t \in TriggerIntervals : rep' = Activated(rep, t)
    /\ rowAge' = 0
    /\ UNCHANGED <<active, nodeId, send, reports, net, registered, nextId, deregs, aborted>>

\* The scenario deactivates the reporter.
DeactivateReporter ==
    /\ Operation
    /\ "switch" \in Allowed
    /\ rep' = Relinked(Deactivated(rep))
    /\ UNCHANGED <<active, nodeId, send, reports, net, repoVars, aborted>>

ScheduleNextSend(E) == \E t \in SendIntervals : send' = Schedule(E, t)

\* NotifyRegistrationComplete of the reporter and of its trigger, for the new ID i.
NotifyRegistrationComplete(i) ==
    IF ~rep.linked
    THEN aborted' = TRUE /\ UNCHANGED <<rep, reports>>
    ELSE /\ UNCHANGED aborted
         /\ IF rep.active /\ InitialReport
            THEN /\ \E t \in TriggerIntervals : rep' = Schedule(rep, t)
                 /\ reports' = PerformReport(rep, i)
            ELSE UNCHANGED <<rep, reports>>

\* The response to a request under the node's ID, or to one it sent without an ID.
\* Every response schedules a send event.
ReceiveRegistrationResponse ==
    /\ Operation
    /\ active
    /\ \E i \in ({nodeId} \ {0}) \cup ({nextId} \cap (1..MaxIds)) :
         /\ nodeId' = i
         /\ registered' = registered \cup {i}
         /\ nextId' = IF i = nextId THEN nextId + 1 ELSE nextId
         /\ rowAge' = IF i = nodeId /\ i \in registered THEN rowAge ELSE 0
         /\ IF i # nodeId THEN NotifyRegistrationComplete(i)
                          ELSE UNCHANGED <<rep, reports, aborted>>
    /\ ScheduleNextSend(send)
    /\ UNCHANGED <<active, net, deregs>>

\* The repository ends a registration that was not renewed in time.
Expire ==
    /\ Operation
    /\ "expire" \in Allowed
    /\ nodeId \in registered
    /\ registered' = registered \ {nodeId}
    /\ deregs' = deregs + 1
    /\ UNCHANGED <<active, nodeId, send, reports, rep, net, nextId, rowAge, aborted>>

ReceiveDeregistrationResponse ==
    /\ deregs > 0
    /\ deregs' = deregs - 1
    /\ nodeId' = 0
    /\ UNCHANGED <<active, send, reports, rep, net, registered, nextId, rowAge, aborted, ops>>

DoSendReports ==
    \E E \in Fired(send) :
        /\ IF active
           THEN /\ reports' = {}
                /\ \E left \in [reports -> Delays] :
                     net' = net \cup {[id |-> r.id, age |-> r.age, left |-> left[r]] : r \in reports}
                /\ ScheduleNextSend(E)
           ELSE send' = E /\ UNCHANGED <<reports, net>>
        /\ UNCHANGED <<active, nodeId, rep, repoVars, aborted, ops>>

-----------------------------------------------------------------------------
(* The repository and the simulator.                                       *)

\* Mutant: the row that arrived last is taken for the newest.
NewestRowLast(m) == m.age

\* The age of the newest row when the row of m is stored: rows are ordered by the time
\* the report was generated.
NewestRow(m) == IF m.age < rowAge THEN m.age ELSE rowAge

\* ReceiveReport: a report under an ID that is not registered is ignored.
ReceiveReport ==
    \E m \in net :
        /\ m.left = 0
        /\ net' = net \ {m}
        /\ rowAge' = IF m.id \in registered /\ m.id = nodeId THEN NewestRow(m) ELSE rowAge
        /\ UNCHANGED <<active, nodeId, send, reports, rep, registered, nextId, deregs, aborted, ops>>

Older(t)   == IF t > Bound THEN t ELSE t + 1
Sooner(t)  == IF t = Off THEN Off ELSE t - 1
Elapsed(E) == [E EXCEPT !.event   = Sooner(@),
                        !.orphans = [t \in {s - 1 : s \in BagToSet(@)} |-> @[t + 1]]]

Tick ==
    /\ Fired(send) = {} /\ Fired(rep) = {}
    /\ \A m \in net : m.left > 0
    /\ send' = Elapsed(send)
    /\ rep' = Elapsed(rep)
    /\ reports' = {[r EXCEPT !.age = Older(@)] : r \in reports}
    /\ net' = {[m EXCEPT !.age = Older(@), !.left = @ - 1] : m \in net}
    /\ rowAge' = Older(rowAge)
    /\ UNCHANGED <<active, nodeId, registered, nextId, deregs, aborted, ops>>

\* An abort ends the simulation.
Next ==
    /\ ~aborted
    /\ \/ Activate
       \/ Deactivate
       \/ ActivateReporter
       \/ DeactivateReporter
       \/ TriggerReport
       \/ ReceiveRegistrationResponse
       \/ Expire
       \/ ReceiveDeregistrationResponse
       \/ DoSendReports
       \/ ReceiveReport
       \/ Tick

Spec == Init /\ [][Next]_vars

-----------------------------------------------------------------------------
(* Properties.                                                             *)

\* Every variable has its type, and the trigger's event is pending exactly while the
\* trigger is active.
TypeOK ==
    /\ active \in BOOLEAN
    /\ nodeId \in 0..MaxIds
    /\ registered \subseteq 1..MaxIds
    /\ nextId \in 1..(MaxIds + 1)
    /\ deregs \in Nat
    /\ rowAge \in 0..(Bound + 1)
    /\ \A r \in reports : r.id \in 0..MaxIds /\ r.age \in 0..(Bound + 1)
    /\ \A m \in net : m.id \in 0..MaxIds /\ m.left \in Nat
    /\ send.event \in Nat \cup {Off} /\ BagToSet(send.orphans) \subseteq Nat
    /\ rep.event \in Nat \cup {Off} /\ BagToSet(rep.orphans) \subseteq Nat
    /\ rep.active => rep.linked
    /\ rep.active <=> rep.event # Off

\* Neither a report that is triggered nor a registration that completes finds a null
\* pointer (TriggerReport, NotifyRegistrationComplete): "Activation and deactivation
\* for individual components".
NoAbort == ~aborted

\* While the node is registered and its reporter active, the newest row the
\* repository holds of it is never older than one trigger interval, one send interval
\* and one transmission, through re-registrations, reactivations, and responses and
\* reports that arrive out of order (DoSendReports, StoreReport).
FreshRows == active /\ nodeId \in registered /\ rep.active => rowAge <= Bound

\* The trigger never has two events pending: reports are generated with at least the
\* "delay (in seconds) between periodic reports" between them (m_triggerEvent).
OneTriggerTimer == rep.orphans = EmptyBag
=============================================================================

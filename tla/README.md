# Verification of contrib/oran

TLA+ models, TLC runs and TLAPS proofs for the O-RAN module of this repository,
`contrib/oran`: a Near-RT RIC, the E2 nodes that register with it and report to it, the
Logic Modules (LMs) it queries, and the handover commands they issue. Of the rest of the
repository, the ns-3 simulator with its network models, two parts are modelled because the
O-RAN module stands on them: the simulator's event engine, on which every timer and message
runs, and the X2 handover of the NR module, which carries the commands out.

The program is one thread, but its components talk through events: every message is a call
scheduled after a random transmission delay, every timer a call scheduled after a random
interval. Whatever is scheduled can be overtaken, can find its component stopped, restarted
or reconfigured, and stays scheduled when the variable that held its `EventId` is
overwritten. Those interleavings are what the modules explore.

## Inventory

Paths are relative to `contrib/oran/model`.

| Component | State | Operations | Interacts with |
|---|---|---|---|
| `OranE2NodeTerminator` (+ NR UE, NR gNB, LTE, wired) | active, E2 node ID, registration event, send event, collected reports, reporters | Activate, Deactivate, Register, Deregister, the two responses, StoreReport, DoSendReports, ReceiveCommand | requests and reports to the RIC's terminator; calls its reporters |
| `OranReporter`, `OranReportTrigger*` | active, link between reporter and trigger, trigger event | Activate, Deactivate, TriggerReport, NotifyRegistrationComplete | StoreReport of the node's terminator |
| `OranNearRtRicE2Terminator` | active, map from ID to node terminator | receive (de)registration requests and reports, SendCommand, ProcessCommands | repository, RIC, node terminators |
| `OranDataRepositorySqlite` | tables of nodes, registrations, roles, cells, RSRP, load, location, logs | RegisterNode*, DeregisterNode, Save*, Get*, Activate, Deactivate | everyone reads it; nobody is told of changes |
| `OranNearRtRic` | active, LMs, query cycle, collected commands, three events | Start, Stop, QueryLms, NotifyLmFinished, ProcessLmQueryCommands, NotifyReportReceived, CheckForInactivity, Add/Remove/SetDefaultLogicModule | LMs, conflict mitigation, E2 terminator, query triggers |
| `OranLm` and the LMs | active, cycle, finish event, commands; the NR LMs keep static maps per E2 node ID | Activate, Deactivate, Run, CancelRun, FinishRun | repository (read), RIC |
| `OranCmm*` | pending commands (`OranCmmHandover`) | Filter | RIC, repository |
| `OranQueryTrigger*` | none or the user's | QueryLms | RIC |
| `NrGnbRrc`, `NrUeManager`, `NrUeRrc` (`src/nr/model`) | UE managers by RNTI with state, source, target, timers; state, cell and RNTI of a UE | SendHandoverRequest, the X2 and RRC messages, two handover timeouts | X2 between gNBs, ideal RRC protocol, gNB application and MME |
| `DefaultSimulatorImpl`, `MapScheduler`, `HeapScheduler` (`src/core/model`) | event list, clock, uid, destroy events, queue of posted events | Schedule*, Cancel, Remove, IsExpired, Stop, SetScheduler, Run, Destroy | every component; other threads through ScheduleWithContext |

What makes each correct:

* registration: an ID belongs to one node for ever; a node that renews in time keeps its ID
  and is visible to the LMs;
* query cycle: a run answers to the query that started it; answers are sent once, when all
  have answered or the maximum wait time is over; the next query is always scheduled;
* reporting: nothing is called through a null pointer however components are switched; one
  chain of events per timer; the repository's newest row is fresh;
* handover LM: the capacity of a cell is not exceeded although attachments are seen late;
  one command at a time per UE, not more often than configured, and only for a neighbour
  that stayed better;
* conflict mitigation and handover execution: one command per UE and batch, whatever cycles
  its commands are of; a command that
  arrives late starts nothing or the handover of the UE it was meant for; gNBs, UE and core
  end up with the same idea of where a UE is;
* simulator: events run in order, none is lost, a cancelled or removed event never runs.

What is hard to test is listed under `hazards` in `PROJECT.json`, each with its line.

## Modules

| Module | Models |
|---|---|
| `E2Registration` | terminators of the nodes and the RIC, registration tables, inactivity check, command routing |
| `RicQueryCycle` | `OranNearRtRic`'s query cycle and `OranLm` |
| `QueryRound` | the promise of one query, abstractly; `RicQueryCycle` implements it |
| `E2Reporting` | one node's reporter, trigger, send timer, and the rows they produce |
| `CellLoadHandover` | the loop around `OranLmNr2NrRsrpHandoverWithCellLoad`: reports, rows, decision, execution |
| `NrHandover` | the X2 handover a command starts: terminator of the gNB, RRC of gNBs and UE, X2, MME |
| `ConflictMitigation` | the filters, as operators on a batch of commands |
| `HandoverControl` | composition: reports, rows, decisions of two LMs, filter, commands, `NrHandover` |
| `EventScheduler` | the event lists as operators: map and binary heap |
| `Simulator` | `DefaultSimulatorImpl` on either list, with a second thread |
| `MC*` | instances for TLC |
| `*Proofs` | theorems about the module named, and in `QueryRoundProofs` the refinement |
| `HandoverProtocolProofs` | the invariant of the RRC and X2 procedure, on top of `HandoverControlProofs` |

`PROJECT.json` maps every definition to its lines. Conventions:

* A variable is named in its declaration after the member it stands for. Actions have the
  names of the methods; operations the user's scenario may call (`Activate`, `Stop`, ...)
  are bounded by `MaxOps`.
* Events due at the same time run in any order. ns-3 runs them in the order they were
  scheduled; which that is depends on the scenario and on random delays, so every order is
  admitted. `Tick` is enabled only when nothing is due, so nothing is ever skipped.
* An `EventId` that is overwritten leaves its event scheduled: `orphans` in `RicQueryCycle`
  and `E2Reporting` hold them.
* SQLite's bare column beside `MAX(simulationtime)` may come from any row of the largest
  time: `E2Registration` keeps the set of values of those rows and chooses.
* Modules that never read absolute time keep times relative to now, which makes their state
  space finite; `RicQueryCycle` compares cycles, which are times, and bounds the clock.

### E2Registration

`Register` sends a request under the node's current ID (0 when it has none) and rearms its
timer. `ReceiveRegistrationRequest` stores a row, routes the ID to the sender and answers.
`RegisterNode` stores the role row (`nrue`, `nrgnb`) under the ID of the *request*, as the
code does. `CheckForInactivity` is part of every LM query; here it may run at any time.
`LmDecide` and `SendCommand` are the two ends of a command's way through the RIC.
`KeepDb = FALSE` is the `:memory:` database, which a stop of the RIC loses.

### RicQueryCycle and QueryRound

`collected` is `m_lmQueryCommands`, a map from LM name and a flag for the default LM, with
the code's rules: a finished run first empties its entry, and the size of the map, not
its keys, decides whether all have answered. `QueryLms` overwrites the process event. `Stop`
does not cancel runs: `OranLm::Deactivate` clears `m_active` before calling `CancelRun`,
which returns at once. All commands of a run are one record of LM and cycle, which is enough
to tell early, late, lost and foreign commands apart. `started` is a history variable, the
time of the last `Start`: `SentInTime` is about commands of later cycles, since `Stop` leaves
what was collected in the map.

`QueryRound` opens a round, collects answers, and closes it with the last answer or, with a
maximum wait time, earlier; nothing of another round is sent. Refinement mapping: the round
is open while the process event is pending (or, without a wait time, while a run is).

### E2Reporting

`Activated` and `Deactivated` are the reporter together with its trigger: deactivating the
trigger also sets the reporter's `Trigger` attribute to null. `Careful` describes the
scenario, not the code: with `TRUE` it sets the attribute again after each deactivation and
does not activate an active reporter. `rowAge` is the age of the newest row, or the time
since the node registered and its reporter was activated when there is none.
Requests to the RIC, which `E2Registration` delays, take effect at once here, and the RIC is
active throughout; responses to them, and reports, are delayed and overtake each other.

### CellLoadHandover

The unit of time is the query interval; a UE generates one set of rows and the LM runs once
per interval, at any point of it. Rows arrive one at a time, so a run may see neighbour rows
without the serving row, or a cell info without a location, and then leaves the UE out. Of the
location rows only the first one stored under an ID matters and is kept. A UE that has lost
its registration registers again under its ID or under a new one, under which the LM has no
pending handover and no cooldown for it. `After[i]` is the state of the code's loop after the UEs with IDs up to `i`,
the LM's static maps and `effectiveLoad`: `Start` before the loop, then `Evaluate` for one
UE after the other. `GetHandoverCommands` is the state after the last. Equal RSRP values are ordered by cell ID, which is what the code's sort does with the
few candidates at hand. `ReceiveCommand` may drop a command: the code does so when the UE is
unknown to the gNB or busy. The RRC procedure behind it is modelled by its outcome here, and
in detail in `NrHandover`. Commands name the UE instead of gNB and RNTI; that this is sound
is `RightUe` of `HandoverControl`.

### NrHandover, ConflictMitigation and HandoverControl

A *place* is a cell and an RNTI. `ueMap` holds the UE managers of all gNBs. A command names
its UE by the place in the newest serving row (`servingRow`), which may be old; the filter
looks up the UE of a place in another table (`ueAt`), which may be older or have no row.
Both kinds of rows are stored at any time, and the LMs choose any target but the cell in the
row, so every LM of the repository is covered by `Decisions`. `lmQueryCommands` is
`m_lmQueryCommands`: the last answer of each of the two LMs that has one. `NotifyLmFinished`
and `ProcessLmQueryCommands` are steps of their own, and an answer that is not in time stays
collected, as the SAVE policy, or a query that overwrites the process event, leaves it; so
rows are stored between two answers and a batch may hold the commands of several cycles, which
may name different places for one UE. When each happens is what `RicQueryCycle` models and is
left open here. Of the commands for one node
`FilterSingleCommandPerNode` keeps the one nothing else `Prevails` over: that is what the
code's loop ends up with in whichever order it meets the LMs, since a command of the default
LM replaces another's and nothing replaces it.

The states, messages and handlers are those of `nr-gnb-rrc.cc` and `nr-ue-rrc.cc`; every
`NS_ASSERT` and `NS_FATAL_ERROR` on the way is a value of `abort`. Assumptions:

* the ideal RRC protocol, NrHelper's default: messages to and from a UE arrive, in order,
  and a connection release or failed random access ends the simulation (`"RLF"`);
* X2 messages between two gNBs arrive in order (UDP over point-to-point links without loss,
  as the helper sets them up); between different pairs any order is possible;
* timers may expire whenever they run. After one has expired the UE is told to release and
  the simulation ends, so the control loop starts nothing more and most properties are
  about the time before (`expired`);
* a request may be refused at any time, for admission, SRS or capacity, and there may be no
  preamble left; whether a cell is full is computed only to *admit*;
* RNTIs are those of `AddUe`, the next free one. `MaxRnti` bounds them in the guard of
  `RecvHandoverRequest`; the wrap at 65535 and the reuse it brings are outside.

SN status transfer, PDCP and RLC state, bearers and user data are left out: they change no
state of the procedure, except that setting up bearers at the target leaves an RRC
reconfiguration pending, which is modelled (`pending`).

### EventScheduler and Simulator

The heap is the code's array with its loops as recursive functions; the map is a set. The
program's calls are actions possible wherever the program runs: outside `Run`, in an event,
in a destroy event. `pc` is where the main thread is; `ProcessEventsWithContext` has three
steps (read the flag, swap under the lock, move), between which another thread may post.
The flag is a plain `bool` read without the lock, a data race: a write of another thread may
be seen late (`FlagSeenEmpty` is always possible). `Schedule` stands for `ScheduleNow` and for `ScheduleWithContext` on
the main thread, which do the same. `running` and `revoked` are history variables.

## Runs

| Run | Shows | Bounds |
|---|---|---|
| `registration_safety` | an ID has one owner, in nodes, messages and routes; routes never move | 2 UEs, 2 IDs, delays 0..1, 4 operations |
| `registration_timing` | timely renewal keeps the ID, and the ID registered; active nodes end up listed (liveness) | UE and gNB, interval 3, threshold 4, delays 0..1 |
| `query_interleavings` | the abort on an unexpected cycle is unreachable; runs belong to the current cycle; no command is sent after the wait of its cycle | 2 LMs, delays 0, 1, 3, interval 2, wait 3, 4 operations, time 6 |
| `query_operations` | the next query is armed and nothing is overdue, LM replacement included | 3 LMs, 3 operations, time 4 |
| `query_timely` | `QueryRound` is implemented; nothing early, dropped on time, or lost | 3 LMs, delays 0, 1, 2, 4, interval 3, wait 2, time 9 |
| `query_save` (violation) | a saved late command is erased by the LM's next run | 2 LMs, policy SAVE |
| `reporting_steady` | no abort, one trigger event, rows at most one of each interval and a transmission old | 2 IDs, intervals 2, delays 0..1, 5 operations |
| `handover_capacity` | capacity and one command per UE, with gNB registrations that come and go | 2 UEs, 2 cells, one place |
| `handover_reregister` | a reservation is held until its command ends; one command under way although the UE changes its ID; continuous time-to-trigger | 1 UE, 2 IDs, registration of the UE comes and goes, a weak target, warmup 1, cooldown 3 |
| `handover_execution` | RRC, core and UE agree through racing handovers; commands hit the right UE; one command per UE and batch, of several cycles too; handovers end (liveness) | 2 UEs, 2 LMs, 2 cells, 3 commands, 4 RNTIs per cell |
| `simulator_order` | expiry, count, cancelled events, cross-thread posts (liveness) | 4 events in all, 2 of them posted, 2 operations besides scheduling |
| `simulator_remove` (violation) | `HeapScheduler::Remove` breaks the order of events | 6 pending events, one removal |

Why the bounds are enough to be interesting: with two IDs and four operations a node can
lose its ID, register again and meet the delayed response of its first life while another
node holds the other ID. Delays of an LM below, at and above the interval, and a wait time
above it, give every order of finish, process and query events; three queries fit into the
time. Several bounds are sharp: the threshold of `registration_timing` cannot be 3, the
freshness bound of `reporting_steady` is reached, and `HoAttemptTimeout` of
`handover_capacity` (command delay + twice the report delay + 2 intervals) cannot be smaller,
also with a report delay of one. Three commands let a UE be sent away and back while a third
command, decided before, is still under way; four RNTIs are as many as they can use up.
Two cells do not let a UE go on to a third cell before the release for the first has
arrived; that is covered by the proofs, and `PlacesAgree` and `NoUnexpectedState` pass as
well with three cells (99,310 states with one UE and three commands, 105,407 with two UEs
and two commands).
Of three commands one LM may have two collected while the other's answer completes the batch
a cycle later. The RIC stops with the first timer that expires. `Settled` lets it expire only
when the RIC has nothing left to do, which leaves 283,746 of 734,364 states; no state of the
gNBs and UEs is lost, since reports can be stored and commands be displaced by the LM's next
answer without touching them.
In `handover_reregister` the time to trigger is one interval, as long as a command takes:
with 0 `OneCommandPerUe` fails. The second cell has two places there, so that the reservation
left under the old ID does not keep the UE out; and measurements send the UE one way only.
The invariants of the proofs were checked with measurements that send it back as well.
Four events give the heap three levels, so that an insertion and a removal move an element
through one, and the two kinds of list are exchanged while filled; with `MaxUid = 9` and one
post (five events, 3.2 million states) `simulator_order` passes as well. Six pending events
are what `simulator_remove` needs: with five it passes, since the element that fills the gap
is then never earlier than its new parent. `CHECK_DEADLOCK FALSE` stands where the scenario may end:
nothing is scheduled before anything is activated, `RicQueryCycle` stops at `MaxTime`, a
destroyed simulator does nothing, and neither does one that has aborted.

Fairness. `E2Registration`: `WF_vars(Event \/ Tick)`. The simulator takes
events from its queue until it is empty, so it never stops while one is scheduled; nothing
is assumed about the scenario's operations, nor about which of the due events is first.
`EventuallyListed` needs no more, since each due event is consumed or replaced by a later one.
`HandoverControl`: weak fairness of the events of messages and random access as a whole, for
the same reason; the timers, reports and commands need none, and `HandoversEnd` does not rely
on a timer. `Simulator`: weak fairness of the main loop (events and the program return), of
calling `Run` or `Destroy` when idle, and strong fairness of seeing the flag set, since a
thread that reads the flag again after every event does see the write in the end (the read
cannot be moved across the call of the event's function).

## Proofs

The theorems hold for every value of the constants that meets the modules'
`ConstantsAssumption` and the hypothesis named in the theorem: any number of nodes, LMs, UEs,
cells, events and operations, any delays and intervals. Each inductive invariant was an
invariant of a TLC run before it was proved.

| Theorem | Property | Hypothesis |
|---|---|---|
| `E2RegistrationProofs!TypeCorrect` | `TypeOK` | |
| `E2RegistrationProofs!OwnersKept`, `Ownership`, `Routing` | `OwnerInv`, `UniqueOwner`, `RoutingStable` | `KeepDb` |
| `E2RegistrationProofs!IdentityKept`, `HeldRegistered` | `KeepsIdentity`, `HeldIsRegistered` | `InTime` |
| `RicQueryCycleProofs!TypeCorrect`, `AlwaysArmed` | `TypeOK`, `QueryArmed` | |
| `RicQueryCycleProofs!CyclesAgree`, `RunsAreCurrent` | `NoAbort`, `CycleAgreement` | LMs are not replaced at run time |
| `RicQueryCycleProofs!CommandsInTime` | `SentInTime` | LMs are not replaced at run time, `MaxWait > 0`, `Policy = "DROP"` |
| `QueryRoundProofs!RoundRefined` | `ImplementsRound` | `Timely` |
| `QueryRoundProofs!AllReturned`, `OnTimeKept`, `CollectedKept` | `OnlyWhenAllReturned`, `OnTimeNotDropped`, `NotLost` | `Timely` |
| `E2ReportingProofs!TypeCorrect`, `NeverAborts`, `SingleTimer`, `RowsStayFresh` | `TypeOK`, `NoAbort`, `OneTriggerTimer`, `FreshRows` | `Steady` |
| `CellLoadHandoverProofs!TypeCorrect` | `TypeOK` | |
| `CellLoadHandoverProofs!ReservationsHeld` | `ReservationHeld` | `Patient` |
| `CellLoadHandoverProofs!OneCommand` | `OneCommandPerUe` | `Patient`, `Registered` |
| `CellLoadHandoverProofs!OneCommandAcross` | `OneCommandPerUe` | `Patient`, `Spaced` |
| `CellLoadHandoverProofs!CapacityKept` | `CapacityRespected` | `Observed`, `Registered` |
| `CellLoadHandoverProofs!TriggerContinuous` | `TttContinuous` | gNBs stay registered |
| `HandoverControlProofs!TypeCorrect`, `AffectedMeant`, `RightUeMoved` | `TypeOK`, `AffectedIsMeant`, `RightUe` | |
| `HandoverControlProofs!SingleCommand` | `OneCommandPerNode` | `Cmm = "single"` |
| `HandoverProtocolProofs!StatesExpected`, `PlacesKept` | `NoUnexpectedState`, `PlacesAgree` | |
| `SimulatorProofs!TypeCorrect`, `TimeAdvances`, `ExpiryExact`, `CountExact`, `RevokedStays` | `TypeOK`, `NextNotPast`, `ExpiredIffGone`, `NoEventLost`, `RevokedNeverRuns` | `Schedulers = {"map"}` |
| `SimulatorProofs!FlagCovers` | `FlagCoversQueue` | |

The hypotheses describe the scenario or a configuration, and each is met by the run that
checks the property (`simulator_order` checks the heap as well). The section on disagreements
says what fails without them. They are:

* `KeepDb`: the database is a file, which survives a stop of the RIC.
* `InTime`: nothing is stopped; a request is answered before the next one is sent (two
  delays are less than a registration interval), and the next one arrives at most
  `Threshold` after the last, also when the last was fast and the next is slow (interval +
  delay - other delay). Both bounds are sharp: with the delays of `registration_timing`
  TLC finds a violation with interval 2 (the answers to two requests under ID 0 differ) and
  with threshold 3.
* `Timely`: no query is triggered and nothing is stopped, and a query is over before the next
  one: the wait time is below the interval and late commands are dropped, or there is no wait
  time and every LM is faster than the interval.
* `Steady`: the scenario sets the `Trigger` attribute again after a deactivation, does not
  activate an active reporter, and leaves `InitialReport` at its default, off. It stands for
  all four theorems since they come from one invariant.
* `Patient`: `HoAttemptTimeout` is longer than the transmission of a command. `Registered`:
  UEs renew in time. `Spaced`: the time to trigger is at least the transmission of a command. `Observed`: `HoAttemptTimeout` also outlives the reports that show the
  UE in its new cell (command delay + twice the report delay + one interval), and the warmup
  outlives the first report. TLC finds a violation of `CapacityRespected` when the timeout is
  one interval shorter, for report delays of 0 and of 1. The attribute's default of 2 s meets
  `Observed` when the LM is queried often enough, not with the RIC's default query interval of
  5 s: then no reservation lasts until the next query, and that the cap holds rests on every
  UE reporting its new cell between two queries, which the model does not assume.
* `Schedulers = {"map"}`: `MapScheduler`, the default of ns-3. For `HeapScheduler`
  `simulator_remove` shows that the order of events does break.

The arguments:

* **Registration.** `TypeOK` is inductive as it stands. That two nodes do not hold one ID is
  not: a response in flight may carry any ID. `OwnerInv` adds that the ID of every message
  that names a node is routed to that node, and that IDs not yet handed out by
  AUTOINCREMENT are routed nowhere. The step that matters is `ReceiveRegistrationRequest`
  (lemma `RequestOwner`): it routes either an ID that is routed to the sender already or a
  fresh one, so no fact about another node is disturbed.
  That a node keeps its ID needs the timing: `RenewalInv` (checked on 11,970 states with the
  constants of the run, 44,280 with intervals 3 and 4, and 28,008 with delays 1 and 2)
  says that no deregistration and at most one registration message of a node is under way,
  the latter in a single copy and due before the node's timer; and for every ID with a
  row, that its node has the ID or is about to learn it, and that the age of the row plus
  the time until the next request arrives, whether it is under way or still to be sent, is
  within the threshold. `Tick` moves one from the other; nothing can expire (lemma
  `NoneExpires`), so no deregistration is ever sent.
* **Query cycle.** `CycleInv`: types, no abort, every unfinished run is a deployed LM's and of
  the current cycle, and the deployed LMs are active while the RIC is. The last part is what
  makes a query restart *every* unfinished run; without it an LM could keep an old one.
  `WaitInv` (checked on 552,517 states, those of `query_interleavings`): for the cycle of every
  command collected since the start some event that ends its wait is still to be executed, the
  process event or one that a query has overwritten. When a query overwrites it, what it still
  has to end is exactly what is collected by then, so nothing can be sent later.
* **Refinement of `QueryRound`.** `RoundInv` (checked on 15,154 states with a wait time and
  1,116 without) says that in an open round every LM either runs, for this cycle, or has its
  commands of this cycle in `m_lmQueryCommands`, and not both; in a closed one nothing is
  collected; and that the process event and, without a wait time, the finish events come
  before the next query. `TimelySteps` reduces `Next` to the steps a timely RIC takes,
  and each of these is a step of `QueryRound` or a stutter.
* **Reporting.** Freshness is not inductive: a row is young only because a younger report is
  under way. `ReportInv` (checked on 21,790,588 states) says that the newest row, and every
  report younger than it that is stored or under way, has a *successor* at most one trigger
  interval younger: another report, or the one the trigger's next event will generate; that
  every stored report has a send event that comes in time; and that every report under way
  arrives in time. When a report overtakes another, the overtaken one is older than the row
  and drops out of the argument.
* **Cell load.** `LoopInv` and, on top of it, `Held`, `Fixed`, and `Arrived`, `Located`,
  `Room` and `Waiting` (checked on the instance of `handover_capacity`, 1,924,012
  states, on one like that of `handover_reregister` with a way back, 7,025,804 states, and on one with a report delay of 1, 12,536,092 states). The capacity argument: a UE whose
  command is under way, or has ended so recently that the LM may not have seen it in its new
  cell, still has its target pending, so `effectiveLoad` counts at least as many UEs of a cell
  as it has or will have. What one run does follows from an invariant of the loop, lifted
  over the IDs by lemma `UpTo`. The proof shows as well that the branch of `Evaluate` that
  clears a reached target is never taken.
  For a UE that changes its ID the pending gate says nothing. `Apart`, checked on the same instance, bounds the time to
  trigger under the new ID by the time the command has been under way: it begins after the
  command was issued, and the command is over when it is.
* **Handover execution.** A place, a cell and an RNTI in it, is handed out once. `OwnersInv`
  (checked on 23,337 states, with two commands) says that there is an assignment of UEs to places with which
  everything that mentions a place agrees: the UE managers, the UEs, the rows of the
  repository, the commands collected and under way, and X2 and RRC messages under way; and that no mention is above
  the last RNTI handed out, so `AddUe` extends the assignment without touching it. A command
  can then meet a manager of no other UE.
* **The handover procedure.** `NoUnexpectedState` and `PlacesAgree` say nothing of the
  messages under way, which decide what the next handler finds. `ProtocolInv` (checked on
  the instance of the run, 283,746 states, and on the two with three cells) adds them. A UE
  is in one of six phases, given by the state of the manager at its place, and each phase
  fixes what is under way between UE and gNB, the path switch, and what the MME and the
  gNB's map hold. Of the X2 messages, there is at most one of a preparation (request,
  acknowledgement, failure) about a place, and it finds the manager there in
  `HANDOVER_PREPARATION` for the cell it comes from; a release finds a place that
  its UE has left (`Vacated`), with a manager that waits for it or none at all; and there is no cancel,
  since no timer has expired. Since an RNTI is not handed out again, a vacated place stays
  vacated while the UE goes on to further cells. Lemma `GoesOn` reduces a step to
  the one UE, the one place and the channel it touches; one lemma per handler then shows
  that the UE passes to its next phase. The proof needs no hypothesis: commands, rows,
  refusals and the order of messages between different gNBs are arbitrary.

  The proof attempt corrected the property. `PlacesAgree` used to say that a manager in
  `HANDOVER_LEAVING` belongs to a handover that is not over, which holds for two cells. With
  three, the UE may be handed on to the third before the UE CONTEXT RELEASE for the
  first has arrived, and the first gNB's manager is then left over from an earlier
  handover until that message comes.
* **Simulator.** `SimInv` (checked on 455,201 states): the uids in the list, in the ids, and
  in the destroy events are handed out and apart; the clock is behind every event of the
  list; an id ahead of the clock that was not cancelled is in it, which is what makes
  `IsExpired`, computed from the clock alone, right; and revoked events that still wait are
  marked as cancelled. `FlagCoversQueue` does not depend on the list.

The library's induction theorems take an operator as a parameter, which the provers do not
instantiate. Where a proof goes along numbers (the loop over IDs, the least of a set of
events or ages), it takes the least counterexample instead, which `WFMin` provides for
a set.

Only model-checked:

* `EventuallyListed`, `HandoversEnd` and `PostedIsMoved`: liveness under fairness;
* the properties of `Simulator` with `HeapScheduler`: what its recursive sift functions
  compute needs induction over the heap.

Every other property of a run expected to pass is stated by a theorem.

## Where the code and its documentation disagree

The two runs expected to fail are recorded as findings. The following came up as well;
each is reproduced by changing the constants named.

* Registration. A second request before the answer to the first gets a second ID
  (`oran-data-repository-sqlite.cc:144`; `oran-data-repository.h:137` promises the current
  one): a registration interval below twice the delay. The first request stores the role row
  under ID 0, so a registered UE is not listed until it renews (`sqlite.cc:234`,
  `oran-data-repository.h:348`). Commands are sent to a node that was deregistered meanwhile
  (`oran-near-rt-ric-e2terminator.cc:356`, `doc/source/oran-architecture.rst:121`). With
  `KeepDb = FALSE` `UniqueOwner` fails: IDs restart at 1 while nodes keep theirs.
* Query cycle. With `MaxWait = 0` and an LM slower than the interval `OnlyWhenAllReturned`
  fails: an answer of the last cycle counts for this one (`oran-near-rt-ric.cc:456`). With
  triggered queries and a wait time `OnTimeNotDropped` fails: the overwritten event ends the
  next wait (`:547`). With `"reconfigure"` `NoAbort` fails (an LM removed while it runs,
  `:312`). An LM added to an active RIC is not activated (`:291`), so its runs do nothing, and
  without a wait time no batch is complete before the next `Start`; against `README.md:97` of
  the module. With the policy SAVE `SentInTime` fails, as that policy intends.
* Reporting. With `Careful = FALSE` `NoAbort` fails: a deactivated trigger unlinks itself
  (`oran-report-trigger.cc:105`), and activating an active reporter deactivates it
  (`oran-reporter.cc:91`), so the next registration aborts (`:146`). With
  `InitialReport = TRUE` `OneTriggerTimer` fails (`oran-report-trigger-periodic.cc:126`).
  Every registration response, of a renewal too, starts another chain of send events
  (`oran-e2-node-terminator.cc:226`; `doc/source/oran-architecture.rst:172` speaks of "a
  timer"): `send.orphans` in `E2Reporting` grows with every renewal.
  Reports generated before the first response carry ID 0 and are ignored.
* Handover. With `HoAttemptTimeout` one interval shorter than in `handover_capacity`,
  `CapacityRespected` fails: the reservation of a UE that has moved is given up before its
  new cell is reported (`oran-lm-nr-2-nr-rsrp-handover-with-cell-load.cc:257`, against the
  "Hard cap" of `:69`). With `"ue"` in `Faults`, `CapacityRespected` fails (a UE whose registration ended
  is not counted, `:153`). The maps are keyed by E2 node ID (`:227`), so a UE's cooldown
  does not follow it to its next ID, against the "Minimum time between HO commands for the same
  UE" of the attribute `MinHoInterval`; in `handover_reregister` the next command may come as
  soon as the time to trigger allows. With `"gnb"`, `TttContinuous`
  fails: a UE skipped because its serving gNB is not registered keeps its time-to-trigger
  (`:461`); `TttContinuous` is checked without that fault. With `Warmup = 0`, UEs that have not reported yet are not counted.
  A pending handover ends only by its timeout: the code that clears it when the UE has
  reached its target runs after a gate that skips every UE with a pending handover.
* Execution. `ReceiveCommand` lets a command through in `CONNECTION_RECONFIGURATION`
  (`oran-e2-node-terminator-nr-gnb.cc:134`, "Safe to trigger HO now"), and `PrepareHandover`
  aborts in that state (`nr-gnb-rrc.cc:769`). Every handover passes through it when the
  pending reconfiguration of the new bearers is sent. `NoUnexpectedState` names it as an
  exception (`abort = "reconfiguring"`); without the exception TLC reaches it within one
  handover and a second command.
* Conflict mitigation. Commands for UEs without a row all affect node 0 and displace each
  other, whichever UEs they are for (`oran-cmm-single-command-per-node.cc:124`).
  A batch of several cycles may name a UE by two places, and when no row names one of them the
  UE gets two commands, against `doc/source/oran-architecture.rst:95` ("makes sure that in a
  single set we do not have more than one Command affecting the same node"): with
  `known == {e \in batch : e.cmd.ue = u}` in `OneCommandPerNode` TLC finds one. The command
  that is kept need not be the one for the place the UE is at: a default LM's old command
  displaces the other LM's new one and is then dropped by the gNB.
  `OranCmmHandover` filters, although its header calls it a "No Operation module"
  (`oran-cmm-handover.h:66`), and never forgets a command (`oran-cmm-handover.cc:109`).

## Not modelled

* The TN/NTN and secrecy aware LMs (the same loop as `CellLoadHandover` with further
  floating point criteria; what their commands may do is covered by `HandoverControl`, which
  lets an LM decide anything) and the cell load reporter (sums over a window).
* `OranCmmHandover`: it looks at LTE commands only.
* The rest of ns-3 and of the NR module: attach, re-establishment, the real RRC protocol,
  bearers and user data, MAC and PHY; the other schedulers and simulator implementations:
  a million lines of network models the O-RAN module only observes.
  Behind them are hazards no property covers: a HandoverCancel stops the joining timer and
  keeps the UE manager (`nr-gnb-rrc.cc:2981`), a bearer set up in `HANDOVER_PATH_SWITCH`
  aborts (`:695`), and the simulator's 32-bit uid wraps (`default-simulator-impl.cc:224`).
* LTE counterparts of the NR classes (same structure), ONNX and Torch LMs (the decision is
  an inference of an external model), location and handover report triggers (trace
  callbacks), helpers, logging, examples, and the trace tables nobody reads back.
* The numbers in measurements: RSRP is a small set of levels, which keeps order and
  hysteresis; RSRQ and positions decide nothing in the LMs modelled.

## Plan

The runs ask one question each; what is added joins a run whose constants already raise the
question, and gets one of its own only when none does.

1. The load window of the cell load reporter, and the choice of the best cell in the LTE LMs,
   as pure operators against reference definitions.
2. Composition of `E2Registration` with `E2Reporting`, so that a report's ID and the
   registration it is checked against come from one state.

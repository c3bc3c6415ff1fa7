--------------------------- MODULE E2Registration ---------------------------
(***************************************************************************)
(* The E2 registration protocol of contrib/oran: the OranE2NodeTerminator  *)
(* of every node, the OranNearRtRicE2Terminator of the Near-RT RIC, the    *)
(* registration tables of OranDataRepositorySqlite, the inactivity check   *)
(* of OranNearRtRic, and the routing of commands to registered nodes.      *)
(*                                                                         *)
(* The program is a discrete event simulation: every message is an event   *)
(* scheduled after a random transmission delay, every timer an event       *)
(* scheduled after a random interval.  Times are kept relative to now:     *)
(* a message holds the delay that is left, a timer the interval that is    *)
(* left, a registration row its age.  Time advances (Tick) only when no    *)
(* event is due, and events due at the same time run in any order.         *)
(***************************************************************************)
EXTENDS Integers, FiniteSets, Bags

CONSTANTS
    Nodes,          \* the E2 nodes, one OranE2NodeTerminator each
    Ues,            \* the nodes whose role table has a unique key (the IMSI)
    NoNode,         \* a null Ptr<OranE2NodeTerminator>
    Delays,         \* the values of the two TransmissionDelayRv
    RegIntervals,   \* the values of RegistrationIntervalRv
    Threshold,      \* E2NodeInactivityThreshold
    KeepDb,         \* TRUE: DatabaseFile is a file; FALSE: it is ":memory:"
    MaxIds,         \* bound: E2 node IDs the repository hands out
    CanStop,        \* TRUE: the scenario may deactivate nodes and stop the RIC
    MaxOps          \* bound: operations of the scenario and of logic modules

ASSUME ConstantsAssumption ==
    /\ NoNode \notin Nodes
    /\ Ues \subseteq Nodes
    /\ Delays \subseteq Nat
    /\ RegIntervals \subseteq Nat \ {0}
    /\ Threshold \in Nat
    /\ KeepDb \in BOOLEAN
    /\ MaxIds \in Nat
    /\ CanStop \in BOOLEAN
    /\ MaxOps \in Nat

VARIABLES
    nodeActive,     \* OranE2NodeTerminator::m_active
    nodeId,         \* OranE2NodeTerminator::m_e2NodeId, 0 when it has none
    regTimer,       \* OranE2NodeTerminator::m_registrationEvent, Off or time left
    ricActive,      \* m_active of the RIC, its E2 terminator and its repository
    terminators,    \* OranNearRtRicE2Terminator::m_nodeTerminators
    nextId,         \* AUTOINCREMENT sequence of table node
    newest,         \* values of column registered in an ID's newest rows
    latest,         \* registered in the row that was inserted last
    age,            \* age of the newest rows, Threshold + 1 when older
    roleRow,        \* the rows of tables nrue and nrgnb: node of an ID
    pendingCmd,     \* ID a logic module targets, until the command is processed
    net,            \* the bag of messages in flight
    ops             \* number of operations so far

nodeVars == <<nodeActive, nodeId, regTimer>>
rowVars  == <<newest, latest, age>>
dbVars   == <<nextId, rowVars, roleRow>>
ricVars  == <<ricActive, terminators, pendingCmd>>
vars     == <<nodeVars, ricVars, dbVars, net, ops>>

Off   == -1
Ids   == 1..MaxIds
Id0   == 0..MaxIds
Owner == Nodes \cup {NoNode}

\* A message is a scheduled call.  A deregistration request names no sender;
\* the others are calls on, or carry, a terminator that is not null.
Messages ==
    [type : {"RegReq"}, node : Nodes, id : Id0, delay : Nat]
      \cup [type : {"RegResp", "DeregResp", "Command"}, node : Nodes, id : Ids, delay : Nat]
      \cup [type : {"DeregReq"}, node : {NoNode}, id : Id0, delay : Nat]

Msg(t, n, i, d) == [type |-> t, node |-> n, id |-> i, delay |-> d]

Add(B, m)    == B (+) SetToBag({m})
Remove(B, m) == B (-) SetToBag({m})

\* The events of one type that are due now.
Due(t) == {m \in BagToSet(net) : m.type = t /\ m.delay = 0}

-----------------------------------------------------------------------------
(* The node's terminator.                                                  *)

Init ==
    /\ nodeActive = [n \in Nodes |-> FALSE]
    /\ nodeId = [n \in Nodes |-> 0]
    /\ regTimer = [n \in Nodes |-> Off]
    /\ ricActive = FALSE
    /\ terminators = [i \in Ids |-> NoNode]
    /\ nextId = 1
    /\ newest = [i \in Ids |-> {}]
    /\ latest = [i \in Ids |-> 0]
    /\ age = [i \in Ids |-> 0]
    /\ roleRow = [i \in Ids |-> NoNode]
    /\ pendingCmd = 0
    /\ net = EmptyBag
    /\ ops = 0

\* Mutant: one request only, no periodic registration.
DoRegisterOnce(n) ==
    \E d \in Delays :
        /\ net' = Add(net, Msg("RegReq", n, nodeId[n], d))
        /\ regTimer' = [regTimer EXCEPT ![n] = Off]

\* OranE2NodeTerminator::Register: send a request and rearm the timer.
DoRegister(n) ==
    \E d \in Delays, t \in RegIntervals :
        /\ net' = Add(net, Msg("RegReq", n, nodeId[n], d))
        /\ regTimer' = [regTimer EXCEPT ![n] = t]

NodeActivate(n) ==
    /\ ops < MaxOps
    /\ ops' = ops + 1
    /\ ~nodeActive[n]
    /\ nodeActive' = [nodeActive EXCEPT ![n] = TRUE]
    /\ DoRegister(n)
    /\ UNCHANGED <<nodeId, ricVars, dbVars>>

\* Mutant: the registration event is not cancelled.
DeregisterKeepsTimer(n) ==
    /\ \E d \in Delays : net' = Add(net, Msg("DeregReq", NoNode, nodeId[n], d))
    /\ UNCHANGED regTimer

Deregister(n) ==
    /\ regTimer' = [regTimer EXCEPT ![n] = Off]
    /\ \E d \in Delays : net' = Add(net, Msg("DeregReq", NoNode, nodeId[n], d))

NodeDeactivate(n) ==
    /\ ops < MaxOps
    /\ ops' = ops + 1
    /\ CanStop
    /\ nodeActive[n]
    /\ Deregister(n)
    /\ nodeActive' = [nodeActive EXCEPT ![n] = FALSE]
    /\ UNCHANGED <<nodeId, ricVars, dbVars>>

Register(n) ==
    /\ regTimer[n] = 0
    /\ nodeActive[n]
    /\ DoRegister(n)
    /\ UNCHANGED <<nodeActive, nodeId, ricVars, dbVars, ops>>

ReceiveRegistrationResponse(m) ==
    /\ nodeId' = IF nodeActive[m.node] THEN [nodeId EXCEPT ![m.node] = m.id]
                                       ELSE nodeId
    /\ net' = Remove(net, m)
    /\ UNCHANGED <<nodeActive, regTimer, ricVars, dbVars, ops>>

\* Clears the ID whatever ID the response is about.
ReceiveDeregistrationResponse(m) ==
    /\ nodeId' = [nodeId EXCEPT ![m.node] = 0]
    /\ net' = Remove(net, m)
    /\ UNCHANGED <<nodeActive, regTimer, ricVars, dbVars, ops>>

\* What a node does with a command is not part of this module.
ReceiveCommand(m) ==
    /\ net' = Remove(net, m)
    /\ UNCHANGED <<nodeVars, ricVars, dbVars, ops>>

-----------------------------------------------------------------------------
(* The repository.                                                         *)

\* Rows of table noderegistration with the largest simulationtime, after a
\* row with value v is inserted now.
NewestAfter(i, v) == IF age[i] = 0 THEN newest[i] \cup {v} ELSE {v}

InsertRegistration(i, v) ==
    /\ newest' = [newest EXCEPT ![i] = NewestAfter(i, v)]
    /\ latest' = [latest EXCEPT ![i] = v]
    /\ age' = [age EXCEPT ![i] = 0]

IsNodeRegistered(i) == latest[i] = 1

\* MAX(simulationtime) ... HAVING registered = 1: when rows of both values
\* share the largest time, SQLite takes the bare column from any of them.
CertainlyListed == {i \in Ids : newest[i] = {1}}
PossiblyListed  == {i \in Ids : 1 \in newest[i]}

\* IDs GetNrUeE2NodeIds and GetNrGnbE2NodeIds may return.
ListedIds == {i \in PossiblyListed : roleRow[i] # NoNode}

\* Mutant: the IDs of deregistered nodes are handed out again.
AssignedIdRecycled(i) ==
    LET free == {j \in 1..(nextId - 1) : latest[j] = 0}
    IN  IF i # 0 THEN i ELSE IF free = {} THEN nextId ELSE CHOOSE j \in free : TRUE

\* The repository's answer to a request under ID i: INSERT or INSERT OR REPLACE.
AssignedId(i) == IF i = 0 THEN nextId ELSE i

\* RegisterNode{Nr,Lte}{Ue,Gnb,Enb}: RegisterNode, then the role row under the ID
\* of the request (0 when the node has none), not under the assigned ID.
RegisterNode(n, i) ==
    /\ AssignedId(i) \in Ids
    /\ nextId' = IF AssignedId(i) >= nextId THEN AssignedId(i) + 1 ELSE nextId
    /\ InsertRegistration(AssignedId(i), 1)
    /\ roleRow' = [j \in Ids |-> IF j = i THEN n
                                 ELSE IF n \in Ues /\ roleRow[j] = n THEN NoNode
                                 ELSE roleRow[j]]

-----------------------------------------------------------------------------
(* The RIC's terminator and the RIC.                                       *)

ReceiveRegistrationRequest(m) ==
    /\ IF ricActive
       THEN /\ RegisterNode(m.node, m.id)
            /\ terminators' = [terminators EXCEPT ![AssignedId(m.id)] = m.node]
            /\ \E d \in Delays :
                 net' = Add(Remove(net, m),
                            Msg("RegResp", m.node, AssignedId(m.id), d))
       ELSE /\ net' = Remove(net, m)
            /\ UNCHANGED <<terminators, dbVars>>
    /\ UNCHANGED <<nodeVars, ricActive, pendingCmd, ops>>

\* ID 0 has no terminator and no row that any query lists.
ReceiveDeregistrationRequest(m) ==
    /\ IF ricActive /\ m.id # 0
       THEN /\ InsertRegistration(m.id, 0)
            /\ IF terminators[m.id] # NoNode
               THEN \E d \in Delays :
                      net' = Add(Remove(net, m),
                                 Msg("DeregResp", terminators[m.id], m.id, d))
               ELSE net' = Remove(net, m)
       ELSE net' = Remove(net, m) /\ UNCHANGED rowVars
    /\ UNCHANGED <<nodeVars, ricVars, nextId, roleRow, ops>>

\* Mutant: a registration that is exactly as old as the threshold has expired.
ExpiredTooEarly(i) == age[i] >= Threshold

Expired(i) == age[i] > Threshold

\* Deregister every listed ID whose newest registration is too old.
CheckForInactivity ==
    /\ ricActive
    /\ \E tied \in SUBSET (PossiblyListed \ CertainlyListed) :
       LET expired == {i \in CertainlyListed \cup tied : Expired(i)}
           routed  == {i \in expired : terminators[i] # NoNode}
       IN  /\ expired # {}
           /\ newest' = [i \in Ids |-> IF i \in expired THEN {0} ELSE newest[i]]
           /\ latest' = [i \in Ids |-> IF i \in expired THEN 0 ELSE latest[i]]
           /\ age' = [i \in Ids |-> IF i \in expired THEN 0 ELSE age[i]]
           /\ \E d \in [routed -> Delays] :
                net' = net (+) SetToBag({Msg("DeregResp", terminators[i], i, d[i]) :
                                            i \in routed})
    /\ UNCHANGED <<nodeVars, ricVars, nextId, roleRow, ops>>

RicStart ==
    /\ ops < MaxOps
    /\ ops' = ops + 1
    /\ ~ricActive
    /\ ricActive' = TRUE
    /\ UNCHANGED <<nodeVars, terminators, pendingCmd, dbVars, net>>

\* CloseDb loses the tables of an in-memory database, AUTOINCREMENT included.
RicStop ==
    /\ ops < MaxOps
    /\ ops' = ops + 1
    /\ CanStop
    /\ ricActive
    /\ ricActive' = FALSE
    /\ IF KeepDb
       THEN UNCHANGED dbVars
       ELSE /\ nextId' = 1
            /\ newest' = [i \in Ids |-> {}]
            /\ latest' = [i \in Ids |-> 0]
            /\ age' = [i \in Ids |-> 0]
            /\ roleRow' = [i \in Ids |-> NoNode]
    /\ UNCHANGED <<nodeVars, terminators, pendingCmd, net>>

\* A logic module runs: it targets an ID the repository lists.
LmDecide ==
    /\ ops < MaxOps
    /\ ops' = ops + 1
    /\ ricActive
    /\ pendingCmd = 0
    /\ \E i \in ListedIds : pendingCmd' = i
    /\ UNCHANGED <<nodeVars, ricActive, terminators, dbVars, net>>

\* ProcessCommands and SendCommand, when the logic module's run has finished.
SendCommand ==
    /\ pendingCmd # 0
    /\ pendingCmd' = 0
    /\ IF ricActive /\ terminators[pendingCmd] # NoNode
       THEN \E d \in Delays :
              net' = Add(net, Msg("Command", terminators[pendingCmd], pendingCmd, d))
       ELSE UNCHANGED net
    /\ UNCHANGED <<nodeVars, ricActive, terminators, dbVars, ops>>

-----------------------------------------------------------------------------
(* The simulator.                                                          *)

Shift(m, k) == Msg(m.type, m.node, m.id, m.delay + k)

Tick ==
    /\ \A n \in Nodes : regTimer[n] # 0
    /\ \A m \in BagToSet(net) : m.delay > 0
    /\ regTimer' = [n \in Nodes |-> IF regTimer[n] = Off THEN Off ELSE regTimer[n] - 1]
    /\ net' = [c \in {Shift(m, -1) : m \in BagToSet(net)} |-> net[Shift(c, 1)]]
    /\ age' = [i \in Ids |-> IF newest[i] # {} /\ age[i] <= Threshold
                             THEN age[i] + 1 ELSE age[i]]
    /\ UNCHANGED <<nodeActive, nodeId, ricVars, nextId, newest, latest, roleRow, ops>>

Event ==
    \/ \E n \in Nodes : Register(n)
    \/ \E m \in Due("RegReq") : ReceiveRegistrationRequest(m)
    \/ \E m \in Due("RegResp") : ReceiveRegistrationResponse(m)
    \/ \E m \in Due("DeregReq") : ReceiveDeregistrationRequest(m)
    \/ \E m \in Due("DeregResp") : ReceiveDeregistrationResponse(m)
    \/ \E m \in Due("Command") : ReceiveCommand(m)
    \/ CheckForInactivity
    \/ SendCommand

Operation ==
    \/ \E n \in Nodes : NodeActivate(n) \/ NodeDeactivate(n)
    \/ RicStart
    \/ RicStop
    \/ LmDecide

Next == Event \/ Operation \/ Tick

-----------------------------------------------------------------------------
\* The simulator never stops while an event is scheduled.
Spec == Init /\ [][Next]_vars /\ WF_vars(Event \/ Tick)

-----------------------------------------------------------------------------
(* Properties.                                                             *)

\* Every variable has its type: no message calls a null terminator, and a node's
\* registration event is pending exactly while the node is active.
TypeOK ==
    /\ \A n \in Nodes : nodeActive[n] <=> regTimer[n] # Off
    /\ nodeActive \in [Nodes -> BOOLEAN]
    /\ nodeId \in [Nodes -> Id0]
    /\ regTimer \in [Nodes -> Nat \cup {Off}]
    /\ ricActive \in BOOLEAN
    /\ terminators \in [Ids -> Owner]
    /\ nextId \in 1..(MaxIds + 1)
    /\ newest \in [Ids -> SUBSET {0, 1}]
    /\ latest \in [Ids -> {0, 1}]
    /\ age \in [Ids -> 0..(Threshold + 1)]
    /\ roleRow \in [Ids -> Owner]
    /\ pendingCmd \in Id0
    /\ BagToSet(net) \subseteq Messages
    /\ ops \in Nat

\* No two nodes ever use the same E2 node ID, whatever the order in which
\* requests, responses and inactivity deregistrations arrive, and across RIC
\* restarts on a database file (RegisterNode, m_e2NodeId).
UniqueOwner ==
    \A n1, n2 \in Nodes : nodeId[n1] = nodeId[n2] /\ nodeId[n1] # 0 => n1 = n2

\* Whoever mentions an ID owns it: the ID a node holds, and the ID in each request,
\* response or command in flight, is routed to that node, and no ID is routed
\* before AUTOINCREMENT has handed it out (m_nodeTerminators, RegisterNode).
OwnerInv ==
    /\ \A n \in Nodes : nodeId[n] # 0 => terminators[nodeId[n]] = n
    /\ \A m \in BagToSet(net) :
          m.type # "DeregReq" /\ m.id # 0 => terminators[m.id] = m.node
    /\ \A i \in Ids : i >= nextId => terminators[i] = NoNode

\* Once the RIC routes an ID to a node it never routes it to another one
\* (m_nodeTerminators): a command decided for a node cannot reach another node.
RoutingStable ==
    [][\A i \in Ids : terminators[i] # NoNode => terminators'[i] = terminators[i]]_vars

\* An active node that renews its registration in time keeps its ID: neither
\* CheckForInactivity nor a late response takes it away.
KeepsIdentity ==
    [][\A n \in Nodes : nodeActive[n] /\ nodeActive'[n] /\ nodeId[n] # 0
                            => nodeId'[n] = nodeId[n]]_vars

\* The ID of a node that renews its registration in time is registered for both
\* questions the code asks: by the row inserted last (IsNodeRegistered, for reports)
\* and by all of the newest rows (GetNrUeE2NodeIds, for the logic modules), whichever
\* of them SQLite takes.
HeldIsRegistered ==
    \A n \in Nodes : nodeId[n] # 0 => nodeId[n] \in CertainlyListed
                                       /\ IsNodeRegistered(nodeId[n])

\* A node and a RIC that are active end up with the node's ID registered and
\* visible to the logic modules (GetNrUeE2NodeIds, GetNrGnbE2NodeIds) for good,
\* in whatever order the two were activated.
EventuallyListed ==
    \A n \in Nodes : (nodeActive[n] /\ ricActive) ~>
                        [](nodeId[n] # 0 /\ nodeId[n] \in ListedIds
                                         /\ IsNodeRegistered(nodeId[n]))
=============================================================================

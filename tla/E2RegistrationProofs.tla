------------------------ MODULE E2RegistrationProofs ------------------------
(***************************************************************************)
(* Proofs about E2Registration for any nodes, delays, intervals and bounds. *)
(***************************************************************************)
EXTENDS E2Registration, TLAPS

-----------------------------------------------------------------------------
(* The bag of messages.                                                    *)

\* Scheduling a message puts that message, and nothing else, in flight.
LEMMA AddMessages ==
    ASSUME NEW B, NEW m
    PROVE  BagToSet(Add(B, m)) = BagToSet(B) \cup {m}
BY DEF BagToSet, Add, (+), SetToBag

\* Scheduling a set of messages puts exactly those in flight.
LEMMA AddSetMessages ==
    ASSUME NEW B, NEW S
    PROVE  BagToSet(B (+) SetToBag(S)) = BagToSet(B) \cup S
BY DEF BagToSet, (+), SetToBag

\* Delivering a message puts no other one in flight.
LEMMA RemoveMessages ==
    ASSUME NEW B, NEW m
    PROVE  BagToSet(Remove(B, m)) \subseteq BagToSet(B)
BY DEF BagToSet, Remove, (-), SetToBag
-----------------------------------------------------------------------------
(* Type correctness.                                                       *)

\* The initial state has the types.
LEMMA InitType == Init => TypeOK
<1> SUFFICES ASSUME Init PROVE TypeOK
  OBVIOUS
<1> USE ConstantsAssumption
<1>1. BagToSet(net) = {}
  BY DEF Init, EmptyBag, SetToBag, BagToSet
<1>2. newest \in [Ids -> SUBSET {0, 1}] /\ latest \in [Ids -> {0, 1}]
      /\ age \in [Ids -> 0..(Threshold + 1)] /\ nextId \in 1..(MaxIds + 1)
  BY DEF Init
<1>3. terminators \in [Ids -> Owner] /\ roleRow \in [Ids -> Owner]
  BY DEF Init, Owner
<1>4. /\ nodeActive \in [Nodes -> BOOLEAN]
      /\ regTimer \in [Nodes -> Nat \cup {Off}]
      /\ \A n \in Nodes : nodeActive[n] <=> regTimer[n] # Off
  BY DEF Init
<1>5. nodeId \in [Nodes -> Id0] /\ pendingCmd \in Id0
  BY DEF Init, Id0
<1>6. ricActive \in BOOLEAN /\ ops \in Nat
  BY DEF Init
<1> QED  BY <1>1, <1>2, <1>3, <1>4, <1>5, <1>6 DEF TypeOK

\* A response or a command to a node is a message.
LEMMA ResponseType ==
    ASSUME NEW t \in {"RegResp", "DeregResp", "Command"},
           NEW n \in Nodes, NEW i \in Ids, NEW d \in Delays
    PROVE  Msg(t, n, i, d) \in Messages
BY ConstantsAssumption DEF Messages, Msg

\* A registration row keeps the types of the registration table.
LEMMA InsertType ==
    ASSUME TypeOK, NEW i \in Ids, NEW v \in {0, 1}, InsertRegistration(i, v)
    PROVE  /\ newest' \in [Ids -> SUBSET {0, 1}]
           /\ latest' \in [Ids -> {0, 1}]
           /\ age' \in [Ids -> 0..(Threshold + 1)]
<1>1. NewestAfter(i, v) \in SUBSET {0, 1}
  BY DEF NewestAfter, TypeOK
<1> QED  BY <1>1, ConstantsAssumption DEF InsertRegistration, TypeOK

\* What Due returns.
LEMMA DueType ==
    ASSUME NEW t, NEW m \in Due(t)
    PROVE  m \in BagToSet(net) /\ m.type = t
BY DEF Due

\* Every step keeps the types.
LEMMA NextType == TypeOK /\ [Next]_vars => TypeOK'
<1> SUFFICES ASSUME TypeOK, [Next]_vars PROVE TypeOK'
  OBVIOUS
<1> USE ConstantsAssumption
<1>1. ASSUME NEW n \in Nodes, Register(n) PROVE TypeOK'
  <2>1. PICK d \in Delays, t \in RegIntervals :
             /\ net' = Add(net, Msg("RegReq", n, nodeId[n], d))
             /\ regTimer' = [regTimer EXCEPT ![n] = t]
    BY <1>1 DEF Register, DoRegister
  <2>2. BagToSet(net') \subseteq Messages
    BY <2>1, AddMessages DEF TypeOK, Messages, Msg
  <2> QED  BY <1>1, <2>1, <2>2 DEF Register, TypeOK, ricVars, dbVars, rowVars, Off
<1>2. ASSUME NEW n \in Nodes, NodeActivate(n) PROVE TypeOK'
  <2>1. PICK d \in Delays, t \in RegIntervals :
             /\ net' = Add(net, Msg("RegReq", n, nodeId[n], d))
             /\ regTimer' = [regTimer EXCEPT ![n] = t]
    BY <1>2 DEF NodeActivate, DoRegister
  <2>2. BagToSet(net') \subseteq Messages
    BY <2>1, AddMessages DEF TypeOK, Messages, Msg
  <2> QED  BY <1>2, <2>1, <2>2 DEF NodeActivate, TypeOK, ricVars, dbVars, rowVars, Off
<1>3. ASSUME NEW n \in Nodes, NodeDeactivate(n) PROVE TypeOK'
  <2>1. BagToSet(net') \subseteq Messages
    BY <1>3, AddMessages DEF NodeDeactivate, Deregister, TypeOK, Messages, Msg
  <2> QED  BY <1>3, <2>1 DEF NodeDeactivate, Deregister, TypeOK, ricVars, dbVars, rowVars, Off
<1>4. ASSUME NEW m \in Due("RegReq"), ReceiveRegistrationRequest(m) PROVE TypeOK'
  <2>1. m \in BagToSet(net) /\ m.type = "RegReq" /\ m.node \in Nodes /\ m.id \in Id0
    BY DueType DEF TypeOK, Messages
  <2>2. CASE ricActive
    <3> DEFINE a == AssignedId(m.id)
    <3>1. a \in Ids
      BY <1>4, <2>2 DEF ReceiveRegistrationRequest, RegisterNode
    <3>2. BagToSet(net') \subseteq Messages
      BY <1>4, <2>1, <2>2, <3>1, AddMessages, RemoveMessages, ResponseType
         DEF ReceiveRegistrationRequest, TypeOK
    <3>3. newest' \in [Ids -> SUBSET {0, 1}] /\ latest' \in [Ids -> {0, 1}]
          /\ age' \in [Ids -> 0..(Threshold + 1)]
      BY <1>4, <2>2, <3>1, InsertType DEF ReceiveRegistrationRequest, RegisterNode
    <3>4. nextId' \in 1..(MaxIds + 1)
      BY <1>4, <2>2, <3>1 DEF ReceiveRegistrationRequest, RegisterNode, TypeOK, Ids
    <3>6. roleRow' \in [Ids -> Owner]
      BY <1>4, <2>1, <2>2 DEF ReceiveRegistrationRequest, RegisterNode, TypeOK, Owner
    <3>5. terminators' \in [Ids -> Owner]
      BY <1>4, <2>1, <2>2, <3>1 DEF ReceiveRegistrationRequest, TypeOK, Owner
    <3> QED  BY <1>4, <3>2, <3>3, <3>4, <3>5, <3>6 DEF ReceiveRegistrationRequest, TypeOK, nodeVars
  <2>3. CASE ~ricActive
    <3>1. BagToSet(net') \subseteq Messages
      BY <1>4, <2>3, RemoveMessages DEF ReceiveRegistrationRequest, TypeOK
    <3> QED  BY <1>4, <2>3, <3>1
                DEF ReceiveRegistrationRequest, TypeOK, nodeVars, dbVars, rowVars
  <2> QED  BY <2>2, <2>3
<1>5. ASSUME NEW m \in Due("RegResp"), ReceiveRegistrationResponse(m) PROVE TypeOK'
  <2>1. m.node \in Nodes /\ m.id \in Id0
    BY DueType DEF TypeOK, Messages, Ids, Id0
  <2>2. BagToSet(net') \subseteq Messages
    BY <1>5, RemoveMessages DEF ReceiveRegistrationResponse, TypeOK
  <2> QED  BY <1>5, <2>1, <2>2
              DEF ReceiveRegistrationResponse, TypeOK, ricVars, dbVars, rowVars
<1>6. ASSUME NEW m \in Due("DeregReq"), ReceiveDeregistrationRequest(m) PROVE TypeOK'
  <2>1. m.id \in Id0
    BY DueType DEF TypeOK, Messages, Ids, Id0
  <2>2. CASE ricActive /\ m.id # 0
    <3>1. m.id \in Ids
      BY <2>1, <2>2 DEF Ids, Id0
    <3>2. newest' \in [Ids -> SUBSET {0, 1}] /\ latest' \in [Ids -> {0, 1}]
          /\ age' \in [Ids -> 0..(Threshold + 1)]
      BY <1>6, <2>2, <3>1, InsertType DEF ReceiveDeregistrationRequest
    <3>3. BagToSet(net') \subseteq Messages
      BY <1>6, <2>2, <3>1, AddMessages, RemoveMessages, ResponseType
         DEF ReceiveDeregistrationRequest, TypeOK, Owner
    <3> QED  BY <1>6, <3>2, <3>3 DEF ReceiveDeregistrationRequest, TypeOK, nodeVars, ricVars
  <2>3. CASE ~(ricActive /\ m.id # 0)
    <3>1. BagToSet(net') \subseteq Messages
      BY <1>6, <2>3, RemoveMessages DEF ReceiveDeregistrationRequest, TypeOK
    <3> QED  BY <1>6, <2>3, <3>1
                DEF ReceiveDeregistrationRequest, TypeOK, nodeVars, ricVars, rowVars
  <2> QED  BY <2>2, <2>3
<1>7. ASSUME NEW m \in Due("DeregResp"), ReceiveDeregistrationResponse(m) PROVE TypeOK'
  <2>1. BagToSet(net') \subseteq Messages
    BY <1>7, RemoveMessages DEF ReceiveDeregistrationResponse, TypeOK
  <2>2. nodeId' \in [Nodes -> Id0]
    <3>1. 0 \in Id0
      BY DEF Id0
    <3> QED  BY <1>7, <3>1 DEF ReceiveDeregistrationResponse, TypeOK
  <2> QED  BY <1>7, <2>1, <2>2
              DEF ReceiveDeregistrationResponse, TypeOK, ricVars, dbVars, rowVars
<1>8. ASSUME NEW m \in Due("Command"), ReceiveCommand(m) PROVE TypeOK'
  <2>1. BagToSet(net') \subseteq Messages
    BY <1>8, RemoveMessages DEF ReceiveCommand, TypeOK
  <2> QED  BY <1>8, <2>1 DEF ReceiveCommand, TypeOK, nodeVars, ricVars, dbVars, rowVars
<1>9. CASE CheckForInactivity
  <2>1. PICK tied \in SUBSET (PossiblyListed \ CertainlyListed) :
          LET expired == {i \in CertainlyListed \cup tied : Expired(i)}
              routed  == {i \in expired : terminators[i] # NoNode}
          IN  /\ newest' = [i \in Ids |-> IF i \in expired THEN {0} ELSE newest[i]]
              /\ latest' = [i \in Ids |-> IF i \in expired THEN 0 ELSE latest[i]]
              /\ age' = [i \in Ids |-> IF i \in expired THEN 0 ELSE age[i]]
              /\ \E d \in [routed -> Delays] :
                   net' = net (+) SetToBag({Msg("DeregResp", terminators[i], i, d[i]) :
                                               i \in routed})
    BY <1>9 DEF CheckForInactivity
  <2> DEFINE expired == {i \in CertainlyListed \cup tied : Expired(i)}
             routed  == {i \in expired : terminators[i] # NoNode}
  <2>2. routed \subseteq Ids /\ \A i \in routed : terminators[i] \in Nodes
    BY DEF TypeOK, Owner, PossiblyListed, CertainlyListed
  <2>3. PICK d \in [routed -> Delays] :
          net' = net (+) SetToBag({Msg("DeregResp", terminators[i], i, d[i]) : i \in routed})
    BY <2>1
  <2>4. {Msg("DeregResp", terminators[i], i, d[i]) : i \in routed} \subseteq Messages
    BY <2>2, ResponseType
  <2>5. BagToSet(net') \subseteq Messages
    BY <2>3, <2>4, AddSetMessages DEF TypeOK
  <2>6. newest' \in [Ids -> SUBSET {0, 1}] /\ latest' \in [Ids -> {0, 1}]
        /\ age' \in [Ids -> 0..(Threshold + 1)]
    BY <2>1 DEF TypeOK
  <2> QED  BY <1>9, <2>5, <2>6 DEF CheckForInactivity, TypeOK, nodeVars, ricVars
<1>10. CASE SendCommand
  <2>1. pendingCmd \in Ids
    BY <1>10 DEF SendCommand, TypeOK, Ids, Id0
  <2>2. BagToSet(net') \subseteq Messages
    BY <1>10, <2>1, AddMessages, ResponseType DEF SendCommand, TypeOK, Owner
  <2> QED  BY <1>10, <2>2 DEF SendCommand, TypeOK, nodeVars, dbVars, rowVars, Id0
<1>11. CASE RicStart
  BY <1>11 DEF RicStart, TypeOK, nodeVars, dbVars, rowVars
<1>12. CASE RicStop
  <2>0. /\ UNCHANGED <<nodeActive, nodeId, regTimer, terminators, pendingCmd, net>>
        /\ ricActive' \in BOOLEAN /\ ops' = ops + 1
    BY <1>12 DEF RicStop, nodeVars
  <2>1. CASE KeepDb
    <3>1. UNCHANGED <<nextId, newest, latest, age, roleRow>>
      BY <1>12, <2>1 DEF RicStop, dbVars, rowVars
    <3> QED  BY <2>0, <3>1 DEF TypeOK
  <2>2. CASE ~KeepDb
    <3>1. nextId' = 1 /\ newest' = [i \in Ids |-> {}] /\ latest' = [i \in Ids |-> 0]
          /\ age' = [i \in Ids |-> 0] /\ roleRow' = [i \in Ids |-> NoNode]
      BY <1>12, <2>2 DEF RicStop
    <3>2. nextId' \in 1..(MaxIds + 1) /\ newest' \in [Ids -> SUBSET {0, 1}]
          /\ latest' \in [Ids -> {0, 1}] /\ age' \in [Ids -> 0..(Threshold + 1)]
          /\ roleRow' \in [Ids -> Owner]
      BY <3>1 DEF Owner
    <3> QED  BY <2>0, <3>2 DEF TypeOK
  <2> QED  BY <2>1, <2>2
<1>13. CASE LmDecide
  BY <1>13 DEF LmDecide, ListedIds, PossiblyListed, TypeOK, nodeVars, dbVars, rowVars, Ids, Id0
<1>14. CASE Tick
  <2>1. BagToSet(net') = {Shift(m, -1) : m \in BagToSet(net)}
    BY <1>14 DEF Tick, BagToSet
  <2>2. ASSUME NEW m \in BagToSet(net) PROVE Shift(m, -1) \in Messages
    <3>1. m \in Messages /\ m.delay - 1 \in Nat
      BY <1>14 DEF Tick, TypeOK, Messages
    <3> QED  BY <3>1 DEF Shift, Msg, Messages
  <2>3. BagToSet(net') \subseteq Messages
    BY <2>1, <2>2
  <2>4. regTimer' \in [Nodes -> Nat \cup {Off}]
        /\ \A n \in Nodes : regTimer'[n] # Off <=> regTimer[n] # Off
    BY <1>14 DEF Tick, TypeOK, Off
  <2>5. age' \in [Ids -> 0..(Threshold + 1)]
    BY <1>14 DEF Tick, TypeOK
  <2> QED  BY <1>14, <2>3, <2>4, <2>5 DEF Tick, TypeOK, ricVars
<1>15. CASE UNCHANGED vars
  BY <1>15 DEF vars, nodeVars, ricVars, dbVars, rowVars, TypeOK
<1> QED
  BY <1>1, <1>2, <1>3, <1>4, <1>5, <1>6, <1>7, <1>8, <1>9, <1>10, <1>11, <1>12, <1>13,
     <1>14, <1>15 DEF Next, Event, Operation

\* The types hold in every reachable state: no event of the E2 interface is a
\* call on a null terminator, and exactly the active nodes have a registration
\* event pending.
THEOREM TypeCorrect == Spec => []TypeOK
BY InitType, NextType, PTL DEF Spec
-----------------------------------------------------------------------------
(* Ownership of the E2 node IDs, on a database that survives a RIC stop.   *)

\* Initially nobody has an ID.
LEMMA InitOwner == Init => OwnerInv
BY DEF Init, OwnerInv, EmptyBag, SetToBag, BagToSet

\* The only step that changes the routing table routes a request's assigned ID to
\* the sender: an ID of the sender already, or one never handed out before.
LEMMA RequestOwner ==
    ASSUME TypeOK, OwnerInv, NEW m \in Due("RegReq"), ReceiveRegistrationRequest(m), ricActive
    PROVE  /\ m.node \in Nodes /\ m \in BagToSet(net)
           /\ AssignedId(m.id) \in Ids
           /\ terminators' = [terminators EXCEPT ![AssignedId(m.id)] = m.node]
           /\ terminators[AssignedId(m.id)] \in {NoNode, m.node}
           /\ nextId' \in Nat /\ nextId' > AssignedId(m.id) /\ nextId' >= nextId
<1> USE ConstantsAssumption
<1>1. m \in BagToSet(net) /\ m.type = "RegReq" /\ m.node \in Nodes /\ m.id \in Id0
  BY DueType DEF TypeOK, Messages
<1>2. /\ AssignedId(m.id) \in Ids
      /\ nextId' = IF AssignedId(m.id) >= nextId THEN AssignedId(m.id) + 1 ELSE nextId
      /\ terminators' = [terminators EXCEPT ![AssignedId(m.id)] = m.node]
  BY DEF ReceiveRegistrationRequest, RegisterNode
<1>3. nextId' \in Nat /\ nextId' > AssignedId(m.id) /\ nextId' >= nextId
  BY <1>2 DEF TypeOK, Ids
<1>4. CASE m.id = 0
  <2>1. AssignedId(m.id) = nextId /\ nextId \in Ids
    BY <1>2, <1>4 DEF AssignedId
  <2>2. terminators[nextId] = NoNode
    BY <2>1 DEF OwnerInv, TypeOK
  <2> QED  BY <1>1, <1>2, <1>3, <2>1, <2>2
<1>5. CASE m.id # 0
  <2>1. AssignedId(m.id) = m.id
    BY <1>5 DEF AssignedId
  <2>2. terminators[m.id] = m.node
    BY <1>1, <1>5 DEF OwnerInv
  <2> QED  BY <1>1, <1>2, <1>3, <2>1, <2>2
<1> QED  BY <1>4, <1>5

\* Every step keeps the ownership when the tables survive.
LEMMA NextOwner == KeepDb /\ TypeOK /\ OwnerInv /\ [Next]_vars => OwnerInv'
<1> SUFFICES ASSUME KeepDb, TypeOK, OwnerInv, [Next]_vars PROVE OwnerInv'
  OBVIOUS
<1> USE ConstantsAssumption
<1>a. ASSUME NEW n \in Nodes, DoRegister(n),
             UNCHANGED <<nodeId, terminators, nextId>>
      PROVE  OwnerInv'
  <2>1. PICK d \in Delays : net' = Add(net, Msg("RegReq", n, nodeId[n], d))
    BY <1>a DEF DoRegister
  <2>2. ASSUME NEW m \in BagToSet(net'), m.type # "DeregReq", m.id # 0
        PROVE  terminators[m.id] = m.node
    BY <2>1, <2>2, AddMessages DEF OwnerInv, Msg
  <2> QED  BY <1>a, <2>2 DEF OwnerInv
<1>1. ASSUME NEW n \in Nodes, Register(n) PROVE OwnerInv'
  BY <1>a, <1>1 DEF Register, ricVars, dbVars
<1>2. ASSUME NEW n \in Nodes, NodeActivate(n) PROVE OwnerInv'
  BY <1>a, <1>2 DEF NodeActivate, ricVars, dbVars
<1>3. ASSUME NEW n \in Nodes, NodeDeactivate(n) PROVE OwnerInv'
  <2>1. PICK d \in Delays : net' = Add(net, Msg("DeregReq", NoNode, nodeId[n], d))
    BY <1>3 DEF NodeDeactivate, Deregister
  <2>2. ASSUME NEW m \in BagToSet(net'), m.type # "DeregReq"
        PROVE  m \in BagToSet(net)
    BY <2>1, <2>2, AddMessages DEF Msg
  <2> QED  BY <1>3, <2>2 DEF NodeDeactivate, OwnerInv, ricVars, dbVars
<1>4. ASSUME NEW m \in Due("RegReq"), ReceiveRegistrationRequest(m) PROVE OwnerInv'
  <2>1. CASE ricActive
    <3> DEFINE a == AssignedId(m.id)
    <3>1. PICK d \in Delays : net' = Add(Remove(net, m), Msg("RegResp", m.node, a, d))
      BY <1>4, <2>1 DEF ReceiveRegistrationRequest
    <3>2. \A i \in Ids : terminators[i] # NoNode => terminators'[i] = terminators[i]
      BY <1>4, <2>1, RequestOwner DEF TypeOK
    <3>3. terminators'[a] = m.node /\ a \in Ids
      BY <1>4, <2>1, RequestOwner DEF TypeOK
    <3>4. ASSUME NEW x \in BagToSet(net'), x.type # "DeregReq", x.id # 0
          PROVE  terminators'[x.id] = x.node
      <4>1. CASE x = Msg("RegResp", m.node, a, d)
        BY <4>1, <3>3 DEF Msg
      <4>2. CASE x # Msg("RegResp", m.node, a, d)
        <5>1. x \in BagToSet(net)
          BY <3>1, <3>4, <4>2, AddMessages, RemoveMessages
        <5>2. terminators[x.id] = x.node /\ x.id \in Ids /\ x.node # NoNode
          BY <3>4, <5>1 DEF OwnerInv, TypeOK, Messages, Ids, Id0
        <5> QED  BY <3>2, <5>2
      <4> QED  BY <4>1, <4>2
    <3>5. ASSUME NEW n \in Nodes, nodeId'[n] # 0 PROVE terminators'[nodeId'[n]] = n
      <4>1. nodeId' = nodeId
        BY <1>4 DEF ReceiveRegistrationRequest, nodeVars
      <4>2. terminators[nodeId[n]] = n /\ nodeId[n] \in Ids
        BY <3>5, <4>1 DEF OwnerInv, TypeOK, Ids, Id0
      <4> QED  BY <3>2, <4>1, <4>2
    <3>6. ASSUME NEW i \in Ids, i >= nextId' PROVE terminators'[i] = NoNode
      <4>1. i # a /\ i >= nextId
        BY <1>4, <2>1, <3>6, RequestOwner DEF TypeOK, Ids
      <4> QED  BY <1>4, <2>1, <4>1, RequestOwner DEF OwnerInv, TypeOK
    <3> QED  BY <3>4, <3>5, <3>6 DEF OwnerInv
  <2>2. CASE ~ricActive
    <3>1. BagToSet(net') \subseteq BagToSet(net)
      BY <1>4, <2>2, RemoveMessages DEF ReceiveRegistrationRequest
    <3> QED  BY <1>4, <2>2, <3>1 DEF ReceiveRegistrationRequest, OwnerInv, nodeVars, dbVars
  <2> QED  BY <2>1, <2>2
<1>5. ASSUME NEW m \in Due("RegResp"), ReceiveRegistrationResponse(m) PROVE OwnerInv'
  <2>0. m \in BagToSet(net) /\ m.type = "RegResp"
    BY DueType
  <2>3. m.node \in Nodes /\ m.id \in Ids /\ m.id # 0
    BY <2>0 DEF TypeOK, Messages, Ids
  <2>1. m.node \in Nodes /\ m.id \in Ids /\ terminators[m.id] = m.node
    BY <2>0, <2>3 DEF OwnerInv
  <2>2. BagToSet(net') \subseteq BagToSet(net)
    BY <1>5, RemoveMessages DEF ReceiveRegistrationResponse
  <2> QED  BY <1>5, <2>1, <2>2 DEF ReceiveRegistrationResponse, TypeOK, OwnerInv, ricVars, dbVars
<1>6. ASSUME NEW m \in Due("DeregReq"), ReceiveDeregistrationRequest(m) PROVE OwnerInv'
  <2>1. UNCHANGED <<nodeId, terminators, nextId>>
    BY <1>6 DEF ReceiveDeregistrationRequest, nodeVars, ricVars
  <2>2. ASSUME NEW x \in BagToSet(net') \ BagToSet(net)
        PROVE  terminators[x.id] = x.node
    <3>1. \E d \in Delays :
             net' = Add(Remove(net, m), Msg("DeregResp", terminators[m.id], m.id, d))
      BY <1>6, <2>2, RemoveMessages DEF ReceiveDeregistrationRequest
    <3>2. \E d \in Delays : x = Msg("DeregResp", terminators[m.id], m.id, d)
      BY <2>2, <3>1, AddMessages, RemoveMessages
    <3> QED  BY <3>2 DEF Msg
  <2> QED  BY <2>1, <2>2 DEF OwnerInv
<1>7. ASSUME NEW m \in Due("DeregResp"), ReceiveDeregistrationResponse(m) PROVE OwnerInv'
  <2>1. BagToSet(net') \subseteq BagToSet(net)
    BY <1>7, RemoveMessages DEF ReceiveDeregistrationResponse
  <2> QED  BY <1>7, <2>1 DEF ReceiveDeregistrationResponse, TypeOK, OwnerInv, ricVars, dbVars
<1>8. ASSUME NEW m \in Due("Command"), ReceiveCommand(m) PROVE OwnerInv'
  <2>1. BagToSet(net') \subseteq BagToSet(net)
    BY <1>8, RemoveMessages DEF ReceiveCommand
  <2> QED  BY <1>8, <2>1 DEF ReceiveCommand, OwnerInv, nodeVars, ricVars, dbVars
<1>9. CASE CheckForInactivity
  <2>0. PICK tied \in SUBSET (PossiblyListed \ CertainlyListed) :
          LET expired == {i \in CertainlyListed \cup tied : Expired(i)}
              routed  == {i \in expired : terminators[i] # NoNode}
          IN  \E d \in [routed -> Delays] :
                net' = net (+) SetToBag({Msg("DeregResp", terminators[i], i, d[i]) :
                                            i \in routed})
    BY <1>9 DEF CheckForInactivity
  <2> DEFINE routed == {i \in {j \in CertainlyListed \cup tied : Expired(j)} :
                           terminators[i] # NoNode}
  <2>1. PICK d \in [routed -> Delays] :
          net' = net (+) SetToBag({Msg("DeregResp", terminators[i], i, d[i]) : i \in routed})
    BY <2>0
  <2>2. UNCHANGED <<nodeId, terminators, nextId>>
    BY <1>9 DEF CheckForInactivity, nodeVars, ricVars
  <2>3. ASSUME NEW x \in BagToSet(net') \ BagToSet(net)
        PROVE  terminators[x.id] = x.node
    BY <2>1, AddSetMessages DEF Msg
  <2> QED  BY <2>2, <2>3 DEF OwnerInv
<1>10. CASE SendCommand
  <2>1. UNCHANGED <<nodeId, terminators, nextId>>
    BY <1>10 DEF SendCommand, nodeVars, dbVars
  <2>2. ASSUME NEW x \in BagToSet(net') \ BagToSet(net)
        PROVE  terminators[x.id] = x.node
    <3>1. \E d \in Delays :
             net' = Add(net, Msg("Command", terminators[pendingCmd], pendingCmd, d))
      BY <1>10, <2>2 DEF SendCommand
    <3>2. \E d \in Delays : x = Msg("Command", terminators[pendingCmd], pendingCmd, d)
      BY <2>2, <3>1, AddMessages
    <3> QED  BY <3>2 DEF Msg
  <2> QED  BY <2>1, <2>2 DEF OwnerInv
<1>11. CASE RicStart
  BY <1>11 DEF RicStart, OwnerInv, nodeVars, dbVars
<1>12. CASE RicStop
  <2>1. UNCHANGED <<nodeId, terminators, nextId, net>>
    BY <1>12 DEF RicStop, nodeVars, dbVars
  <2> QED  BY <2>1 DEF OwnerInv
<1>13. CASE LmDecide
  BY <1>13 DEF LmDecide, OwnerInv, nodeVars, dbVars
<1>14. CASE Tick
  <2>1. BagToSet(net') = {Shift(m, -1) : m \in BagToSet(net)}
    BY <1>14 DEF Tick, BagToSet
  <2>2. UNCHANGED <<nodeId, terminators, nextId>>
    BY <1>14 DEF Tick, ricVars
  <2> QED  BY <2>1, <2>2 DEF OwnerInv, Shift, Msg
<1>15. CASE UNCHANGED vars
  BY <1>15 DEF vars, nodeVars, ricVars, dbVars, OwnerInv
<1> QED
  BY <1>1, <1>2, <1>3, <1>4, <1>5, <1>6, <1>7, <1>8, <1>9, <1>10, <1>11, <1>12, <1>13,
     <1>14, <1>15 DEF Next, Event, Operation

\* On a database that survives a RIC stop everything that carries an E2 node ID, a
\* node or a message under way, belongs to the node the routing table knows under
\* that ID, and IDs not yet handed out are routed to nobody.
THEOREM OwnersKept ==
    ASSUME KeepDb
    PROVE  Spec => []OwnerInv
<1>1. Init => TypeOK /\ OwnerInv
  BY InitType, InitOwner
<1>2. (TypeOK /\ OwnerInv) /\ [Next]_vars => (TypeOK /\ OwnerInv)'
  BY NextType, NextOwner
<1> QED  BY <1>1, <1>2, PTL DEF Spec

\* Two nodes that the routing table knows under their IDs have different IDs.
LEMMA OwnerUnique == OwnerInv => UniqueOwner
BY DEF OwnerInv, UniqueOwner

\* On a database that survives a RIC stop no two nodes ever use the same E2 node
\* ID, for any number of nodes, any delays and any order of delivery.
THEOREM Ownership ==
    ASSUME KeepDb
    PROVE  Spec => []UniqueOwner
BY OwnersKept, OwnerUnique, PTL

\* On such a database an ID, once routed to a node, is never routed to another
\* one: a command decided for one node cannot be delivered to another.
THEOREM Routing ==
    ASSUME KeepDb
    PROVE  Spec => RoutingStable
<1>1. Init => TypeOK /\ OwnerInv
  BY InitType, InitOwner
<1>2. (TypeOK /\ OwnerInv) /\ [Next]_vars => (TypeOK /\ OwnerInv)'
  BY NextType, NextOwner
<1>3. ASSUME TypeOK, OwnerInv, [Next]_vars
      PROVE  \A i \in Ids : terminators[i] # NoNode => terminators'[i] = terminators[i]
  <2>1. CASE \E m \in Due("RegReq") : ReceiveRegistrationRequest(m)
    <3>1. PICK m \in Due("RegReq") : ReceiveRegistrationRequest(m)
      BY <2>1
    <3>2. CASE ricActive
      BY <1>3, <3>1, <3>2, RequestOwner DEF TypeOK
    <3>3. CASE ~ricActive
      BY <3>1, <3>3 DEF ReceiveRegistrationRequest
    <3> QED  BY <3>2, <3>3
  <2>2. CASE ~\E m \in Due("RegReq") : ReceiveRegistrationRequest(m)
    <3>1. UNCHANGED terminators
      BY <1>3, <2>2
         DEF Next, Event, Operation, Register, NodeActivate, NodeDeactivate,
             ReceiveRegistrationResponse, ReceiveDeregistrationRequest,
             ReceiveDeregistrationResponse, ReceiveCommand, CheckForInactivity,
             SendCommand, RicStart, RicStop, LmDecide, Tick, vars, ricVars
    <3> QED  BY <3>1
  <2> QED  BY <2>1, <2>2
<1> QED  BY <1>1, <1>2, <1>3, PTL DEF Spec, RoutingStable

-----------------------------------------------------------------------------
(* A node keeps its ID when it renews its registration in time.            *)

\* The scenario in which nodes renew in time: nothing is stopped, a request is
\* answered before the next one is sent, and the next one arrives before the
\* registration that the last one renewed is older than the threshold, also when
\* the last one was fast and the next one is slow.
InTime ==
    /\ ~CanStop
    /\ Delays # {}
    /\ \A t \in RegIntervals, d, e \in Delays : d + e < t /\ t + d - e <= Threshold

\* The registration messages under way.
Exchange == {m \in BagToSet(net) : m.type \in {"RegReq", "RegResp"}}

\* A message that is under way once, comes before the next request, and is about
\* the ID its node has or has none in the place of.
OnSchedule(m) ==
    LET n == m.node
    IN  /\ net[m] = 1
        /\ nodeActive[n]
        /\ m.delay < regTimer[n]
        /\ m.type = "RegReq" =>
             /\ m.id = nodeId[n]
             /\ \A e \in Delays : /\ m.delay + e < regTimer[n]
                                  /\ regTimer[n] - m.delay + e <= Threshold
        /\ m.type = "RegResp" => nodeId[n] \in {0, m.id}

\* The node of ID i has it or is about to learn it, and the request that renews it,
\* under way or still to be sent, arrives in time.
Renewed(i) ==
    LET n == terminators[i]
    IN  /\ newest[i] = {1}
        /\ ricActive
        /\ n \in Nodes /\ nodeActive[n]
        /\ nodeId[n] = i \/ \E m \in Exchange : m.type = "RegResp" /\ m.node = n /\ m.id = i
        /\ \/ \E m \in Exchange : m.type = "RegReq" /\ m.node = n /\ age[i] + m.delay <= Threshold
           \/ \A d \in Delays : age[i] + regTimer[n] + d <= Threshold

\* No deregistration is under way, at most one registration message of a node is, and
\* every ID with a row is renewed.
RenewalInv ==
    /\ \A m \in BagToSet(net) : m.type \notin {"DeregReq", "DeregResp"}
    /\ \A m \in Exchange : OnSchedule(m)
    /\ \A m1, m2 \in Exchange : m1.node = m2.node => m1 = m2
    /\ \A i \in Ids : newest[i] = {} \/ Renewed(i)

\* Scheduling a message leaves the copies of the others alone.
LEMMA AddCopies ==
    ASSUME NEW B, NEW m
    PROVE  /\ m \notin BagToSet(B) => Add(B, m)[m] = 1
           /\ \A c \in BagToSet(B) : c # m /\ B[c] = 1 => Add(B, m)[c] = 1
BY DEF BagToSet, Add, (+), SetToBag

\* Delivering the only copy of a message takes it out, and leaves the others alone.
LEMMA RemoveCopies ==
    ASSUME NEW B, NEW m
    PROVE  /\ B[m] = 1 => m \notin BagToSet(Remove(B, m))
           /\ \A c \in BagToSet(B) :
                c # m /\ B[c] = 1 => c \in BagToSet(Remove(B, m)) /\ Remove(B, m)[c] = 1
BY DEF BagToSet, Remove, (-), SetToBag

\* What the types say of a registration message.
LEMMA ExchangeType ==
    ASSUME TypeOK, NEW m \in Exchange
    PROVE  /\ m \in BagToSet(net) /\ m.type \in {"RegReq", "RegResp"}
           /\ m.node \in Nodes /\ m.id \in Id0 /\ m.delay \in Nat
           /\ m.type = "RegResp" => m.id \in Ids
           /\ m = Msg(m.type, m.node, m.id, m.delay)
<1>1. m \in BagToSet(net) /\ m.type \in {"RegReq", "RegResp"} /\ m \in Messages
  BY DEF Exchange, TypeOK
<1> QED  BY <1>1 DEF Messages, Msg, Ids, Id0

\* A step that leaves the registration messages, the nodes and the rows alone.
LEMMA RenewalSame ==
    ASSUME RenewalInv,
           \A m \in BagToSet(net') : m.type \notin {"DeregReq", "DeregResp"},
           Exchange' = Exchange, \A m \in Exchange : net'[m] = net[m],
           UNCHANGED <<nodeActive, nodeId, regTimer, terminators, newest, age>>,
           ricActive => ricActive'
    PROVE  RenewalInv'
<1>1. ASSUME NEW m \in Exchange PROVE OnSchedule(m)'
  <2>1. OnSchedule(m)
    BY DEF RenewalInv
  <2> QED  BY <2>1 DEF OnSchedule
<1>2. ASSUME NEW i \in Ids, newest'[i] # {} PROVE Renewed(i)'
  <2>1. Renewed(i)
    BY <1>2 DEF RenewalInv
  <2> QED  BY <2>1 DEF Renewed
<1> QED  BY <1>1, <1>2 DEF RenewalInv

\* A request is sent when the timer runs out or the node is activated: no message of the
\* node is under way then.
LEMMA RegisterRenewal ==
    ASSUME InTime, TypeOK, RenewalInv, NEW n \in Nodes, DoRegister(n),
           regTimer[n] = 0 \/ ~nodeActive[n],
           nodeActive' = [nodeActive EXCEPT ![n] = TRUE],
           UNCHANGED <<nodeId, ricActive, terminators, newest, age>>
    PROVE  RenewalInv'
<1> USE ConstantsAssumption
<1>1. PICK d \in Delays, t \in RegIntervals :
           /\ net' = Add(net, Msg("RegReq", n, nodeId[n], d))
           /\ regTimer' = [regTimer EXCEPT ![n] = t]
  BY DEF DoRegister
<1> DEFINE r == Msg("RegReq", n, nodeId[n], d)
<1>2. r.type = "RegReq" /\ r.node = n /\ r.id = nodeId[n] /\ r.delay = d
  BY DEF Msg
<1>3. d \in Nat /\ t \in Nat /\ \A e \in Delays : e \in Nat /\ d + e < t /\ t - d + e <= Threshold
  <2>1. d \in Nat /\ t \in Nat /\ Threshold \in Nat
    OBVIOUS
  <2>2. ASSUME NEW e \in Delays PROVE e \in Nat /\ d + e < t /\ t - d + e <= Threshold
    <3>1. e \in Nat /\ d + e < t /\ t + e - d <= Threshold
      BY DEF InTime
    <3> QED  BY <2>1, <3>1
  <2> QED  BY <2>1, <2>2
<1>4. \A m \in Exchange : m.node # n
  <2> SUFFICES ASSUME NEW m \in Exchange, m.node = n PROVE FALSE
    OBVIOUS
  <2>1. nodeActive[n] /\ m.delay < regTimer[n] /\ m.delay \in Nat
    BY ExchangeType DEF RenewalInv, OnSchedule
  <2> QED  BY <2>1
<1>5. r \notin BagToSet(net)
  BY <1>2, <1>4 DEF Exchange
<1>6. BagToSet(net') = BagToSet(net) \cup {r} /\ Exchange' = Exchange \cup {r}
  BY <1>1, <1>2, AddMessages DEF Exchange
<1>7. /\ \A k \in Nodes : k # n => regTimer'[k] = regTimer[k] /\ nodeActive'[k] = nodeActive[k]
      /\ regTimer'[n] = t /\ nodeActive'[n]
  BY <1>1 DEF TypeOK
<1>8. OnSchedule(r)'
  <2>1. net'[r] = 1
    BY <1>1, <1>5, AddCopies
  <2>2. d < t
    BY <1>3
  <2> QED  BY <1>2, <1>3, <1>7, <2>1, <2>2 DEF OnSchedule
<1>9. ASSUME NEW m \in Exchange PROVE OnSchedule(m)'
  <2>1. OnSchedule(m) /\ m.node \in Nodes /\ m.node # n /\ m \in BagToSet(net) /\ m # r
    BY <1>2, <1>4, ExchangeType DEF RenewalInv
  <2>2. net'[m] = 1
    BY <1>1, <2>1, AddCopies DEF OnSchedule
  <2> QED  BY <1>7, <2>1, <2>2 DEF OnSchedule
<1>10. ASSUME NEW i \in Ids, newest'[i] # {} PROVE Renewed(i)'
  <2>1. Renewed(i)
    BY <1>10 DEF RenewalInv
  <2>2. CASE terminators[i] = n
    <3>1. nodeActive[n] /\ regTimer[n] = 0
      BY <2>1, <2>2 DEF Renewed
    <3>2. nodeId[n] = i
      BY <1>4, <2>1, <2>2 DEF Renewed
    <3>3. age[i] + 0 + d <= Threshold
      BY <1>4, <2>1, <2>2, <3>1 DEF Renewed
    <3>4. age[i] + d <= Threshold
      BY <1>3, <3>3 DEF TypeOK
    <3> QED  BY <1>2, <1>6, <1>7, <2>1, <2>2, <3>2, <3>4 DEF Renewed
  <2>3. CASE terminators[i] # n
    BY <1>6, <1>7, <2>1, <2>3 DEF Renewed
  <2> QED  BY <2>2, <2>3
<1>11. \A m \in BagToSet(net') : m.type \notin {"DeregReq", "DeregResp"}
  BY <1>2, <1>6 DEF RenewalInv
<1>12. \A m1, m2 \in Exchange' : m1.node = m2.node => m1 = m2
  BY <1>2, <1>4, <1>6 DEF RenewalInv
<1> QED  BY <1>6, <1>8, <1>9, <1>10, <1>11, <1>12 DEF RenewalInv

\* The RIC answers a request: it renews the ID of the node or hands out one, and the
\* next request is still to be sent.
LEMMA RequestRenewal ==
    ASSUME InTime, TypeOK, RenewalInv, NEW m \in Due("RegReq"), ReceiveRegistrationRequest(m),
           ricActive
    PROVE  RenewalInv'
<1> USE ConstantsAssumption
<1> DEFINE n == m.node
<1>0. PICK a : a = AssignedId(m.id)
  OBVIOUS
<1>1. m \in Exchange /\ m.type = "RegReq" /\ m.delay = 0
  BY DEF Due, Exchange
<1>2. OnSchedule(m) /\ n \in Nodes /\ m.id = nodeId[n] /\ m.id \in Id0
  BY <1>1, ExchangeType DEF RenewalInv, OnSchedule
<1>3. PICK d \in Delays : net' = Add(Remove(net, m), Msg("RegResp", n, a, d))
  BY <1>0 DEF ReceiveRegistrationRequest
<1>17. PICK r : r = Msg("RegResp", n, a, d)
  OBVIOUS
<1>4. /\ r = Msg("RegResp", n, a, d)
      /\ r.type = "RegResp" /\ r.node = n /\ r.id = a /\ r.delay = d
  BY <1>17 DEF Msg
<1>5. /\ a \in Ids /\ terminators' = [terminators EXCEPT ![a] = n]
      /\ newest' = [newest EXCEPT ![a] = NewestAfter(a, 1)]
      /\ age' = [age EXCEPT ![a] = 0]
      /\ UNCHANGED <<nodeActive, nodeId, regTimer, ricActive>>
  BY <1>0 DEF ReceiveRegistrationRequest, RegisterNode, InsertRegistration, nodeVars
<1>6. \A x \in Exchange : x # m => x.node # n
  BY <1>1 DEF RenewalInv
<1>7. m \notin BagToSet(Remove(net, m)) /\ r \notin BagToSet(Remove(net, m))
  <2>1. net[m] = 1
    BY <1>2 DEF OnSchedule
  <2>2. m \notin BagToSet(Remove(net, m))
    BY <2>1, RemoveCopies
  <2>3. r \notin BagToSet(net)
    BY <1>1, <1>4, <1>6 DEF Exchange
  <2> QED  BY <2>2, <2>3, RemoveMessages
<1>8. ASSUME NEW x \in Exchange, x # m
      PROVE  x \in BagToSet(Remove(net, m)) /\ x # r /\ net'[x] = 1
  <2>1. x \in BagToSet(net) /\ net[x] = 1 /\ x # r
    BY <1>4, <1>6, <1>8 DEF RenewalInv, OnSchedule, Exchange
  <2>2. x \in BagToSet(Remove(net, m)) /\ Remove(net, m)[x] = 1
    BY <1>8, <2>1, RemoveCopies
  <2> QED  BY <1>3, <1>4, <2>1, <2>2, AddCopies
<1>9. Exchange' = (Exchange \ {m}) \cup {r}
  <2>1. BagToSet(net') = BagToSet(Remove(net, m)) \cup {r}
    BY <1>3, <1>4, AddMessages
  <2>2. BagToSet(Remove(net, m)) \subseteq BagToSet(net)
    BY RemoveMessages
  <2>3. \A x \in Exchange \ {m} : x \in BagToSet(Remove(net, m))
    BY <1>8
  <2> QED  BY <1>4, <1>7, <2>1, <2>2, <2>3 DEF Exchange
<1>10. d \in Nat /\ \A e \in Delays : e \in Nat /\ 0 + e < regTimer[n]
                                      /\ regTimer[n] - 0 + e <= Threshold
  BY <1>1, <1>2 DEF OnSchedule
<1>11. OnSchedule(r)'
  <2>1. net'[r] = 1
    BY <1>3, <1>4, <1>7, AddCopies
  <2>2. d < regTimer[n]
    BY <1>10
  <2>3. nodeId[n] \in {0, a}
    BY <1>0, <1>2 DEF AssignedId
  <2>4. nodeActive[n]
    BY <1>2 DEF OnSchedule
  <2> QED  BY <1>4, <1>5, <2>1, <2>2, <2>3, <2>4 DEF OnSchedule
<1>12. ASSUME NEW x \in Exchange, x # m PROVE OnSchedule(x)'
  <2>1. OnSchedule(x) /\ net'[x] = 1
    BY <1>8, <1>12 DEF RenewalInv
  <2> QED  BY <1>5, <2>1 DEF OnSchedule
<1>13. Renewed(a)'
  <2>1. newest'[a] = {1}
    <3>1. newest[a] = {} \/ newest[a] = {1}
      BY <1>5 DEF RenewalInv, Renewed
    <3>2. newest'[a] = NewestAfter(a, 1)
      BY <1>5 DEF TypeOK
    <3> QED  BY <3>1, <3>2 DEF NewestAfter
  <2>2. terminators'[a] = n /\ age'[a] = 0
    BY <1>5 DEF TypeOK
  <2>3. nodeActive'[n] /\ ricActive'
    BY <1>2, <1>5 DEF OnSchedule
  <2>4. \A e \in Delays : 0 + regTimer'[n] + e <= Threshold
    <3>1. regTimer[n] \in Nat
      BY <1>2, <2>3, <1>5 DEF TypeOK
    <3> QED  BY <1>5, <1>10, <3>1
  <2>5. \E x \in Exchange' : x.type = "RegResp" /\ x.node = n /\ x.id = a
    BY <1>4, <1>9
  <2> QED  BY <1>2, <2>1, <2>2, <2>3, <2>4, <2>5 DEF Renewed
<1>14. ASSUME NEW i \in Ids, i # a, newest'[i] # {} PROVE Renewed(i)'
  <2>1. newest'[i] = newest[i] /\ age'[i] = age[i] /\ terminators'[i] = terminators[i]
    BY <1>5, <1>14 DEF TypeOK
  <2>2. Renewed(i)
    BY <1>14, <2>1 DEF RenewalInv
  <2>3. terminators[i] # n
    <3> SUFFICES ASSUME terminators[i] = n PROVE FALSE
      OBVIOUS
    <3>1. nodeId[n] = i
      BY <1>1, <1>6, <2>2 DEF Renewed
    <3>2. i # 0
      BY DEF Ids
    <3> QED  BY <1>0, <1>2, <1>14, <3>1, <3>2 DEF AssignedId
  <2>4. \A x \in Exchange : x.node = terminators[i] => x \in Exchange'
    BY <1>9, <2>3
  <2> QED  BY <1>5, <2>1, <2>2, <2>4 DEF Renewed
<1>15. \A x \in BagToSet(net') : x.type \notin {"DeregReq", "DeregResp"}
  BY <1>3, <1>4, AddMessages, RemoveMessages DEF RenewalInv
<1>16. \A m1, m2 \in Exchange' : m1.node = m2.node => m1 = m2
  BY <1>4, <1>6, <1>9 DEF RenewalInv
<1> QED  BY <1>9, <1>11, <1>12, <1>13, <1>14, <1>15, <1>16 DEF RenewalInv

\* A request that finds no RIC is lost: nobody has an ID then.
LEMMA LostRenewal ==
    ASSUME InTime, TypeOK, RenewalInv, NEW m \in Due("RegReq"), ReceiveRegistrationRequest(m),
           ~ricActive
    PROVE  RenewalInv'
<1>1. /\ net' = Remove(net, m)
      /\ UNCHANGED <<nodeActive, nodeId, regTimer, ricActive, terminators, newest, age>>
  BY DEF ReceiveRegistrationRequest, nodeVars, dbVars, rowVars
<1>2. BagToSet(net') \subseteq BagToSet(net) /\ Exchange' \subseteq Exchange
  BY <1>1, RemoveMessages DEF Exchange
<1>3. \A i \in Ids : newest[i] = {}
  BY DEF RenewalInv, Renewed
<1>4. ASSUME NEW x \in Exchange' PROVE OnSchedule(x)'
  <2>1. x \in Exchange /\ OnSchedule(x)
    BY <1>2 DEF RenewalInv
  <2>3. net[m] = 1
    BY DueType DEF RenewalInv, Exchange, OnSchedule
  <2>2. net'[x] = 1
    <3>1. x # m
      BY <1>1, <1>2, <2>3, RemoveCopies DEF Exchange
    <3> QED  BY <1>1, <2>1, <3>1, RemoveCopies DEF OnSchedule, Exchange
  <2> QED  BY <1>1, <2>1, <2>2 DEF OnSchedule
<1> QED  BY <1>1, <1>2, <1>3, <1>4 DEF RenewalInv

\* A response gives a node the ID it has, or its first one.
LEMMA ResponseRenewal ==
    ASSUME TypeOK, RenewalInv, NEW m \in Due("RegResp"), ReceiveRegistrationResponse(m)
    PROVE  RenewalInv'
<1> DEFINE n == m.node
<1>1. m \in Exchange /\ m.type = "RegResp"
  BY DEF Due, Exchange
<1>2. OnSchedule(m) /\ n \in Nodes /\ m.id \in Ids
  BY <1>1, ExchangeType DEF RenewalInv
<1>3. /\ nodeId' = [nodeId EXCEPT ![n] = m.id] /\ net' = Remove(net, m)
      /\ UNCHANGED <<nodeActive, regTimer, ricActive, terminators, newest, age>>
  BY <1>2 DEF ReceiveRegistrationResponse, OnSchedule, ricVars, dbVars, rowVars
<1>4. nodeId'[n] = m.id /\ \A k \in Nodes : k # n => nodeId'[k] = nodeId[k]
  BY <1>2, <1>3 DEF TypeOK
<1>5. \A x \in Exchange : x # m => x.node # n
  BY <1>1 DEF RenewalInv
<1>6. ASSUME NEW x \in Exchange, x # m PROVE x \in BagToSet(net') /\ net'[x] = 1
  BY <1>3, <1>6, RemoveCopies DEF RenewalInv, OnSchedule, Exchange
<1>7. Exchange' = Exchange \ {m} /\ BagToSet(net') \subseteq BagToSet(net)
  <2>1. net[m] = 1
    BY <1>2 DEF OnSchedule
  <2>2. BagToSet(net') \subseteq BagToSet(net) /\ m \notin BagToSet(net')
    BY <1>3, <2>1, RemoveMessages, RemoveCopies
  <2> QED  BY <1>6, <2>2 DEF Exchange
<1>8. ASSUME NEW x \in Exchange, x # m PROVE OnSchedule(x)'
  <2>1. OnSchedule(x) /\ net'[x] = 1 /\ x.node \in Nodes /\ x.node # n
    BY <1>5, <1>6, <1>8, ExchangeType DEF RenewalInv
  <2> QED  BY <1>3, <1>4, <2>1 DEF OnSchedule
<1>9. ASSUME NEW i \in Ids, newest'[i] # {} PROVE Renewed(i)'
  <2>1. Renewed(i)
    BY <1>3, <1>9 DEF RenewalInv
  <2>2. CASE terminators[i] = n
    <3>1. m.id = i
      <4>1. CASE nodeId[n] = i
        BY <1>1, <1>2, <4>1 DEF OnSchedule, Ids
      <4>2. CASE nodeId[n] # i
        BY <1>1, <1>5, <2>1, <2>2, <4>2 DEF Renewed
      <4> QED  BY <4>1, <4>2
    <3>2. \A d \in Delays : age[i] + regTimer[n] + d <= Threshold
      BY <1>1, <1>5, <2>1, <2>2 DEF Renewed
    <3> QED  BY <1>3, <1>4, <2>1, <2>2, <3>1, <3>2 DEF Renewed
  <2>3. CASE terminators[i] # n
    <3>1. \A x \in Exchange : x.node = terminators[i] => x \in Exchange'
      BY <1>7, <2>3
    <3> QED  BY <1>3, <1>4, <2>1, <2>3, <3>1 DEF Renewed
  <2> QED  BY <2>2, <2>3
<1> QED  BY <1>7, <1>8, <1>9 DEF RenewalInv

\* Nothing expires.
LEMMA NoneExpires ==
    ASSUME InTime, TypeOK, RenewalInv
    PROVE  ~CheckForInactivity
<1> USE ConstantsAssumption
<1> SUFFICES ASSUME NEW i \in PossiblyListed, Expired(i) PROVE FALSE
  BY DEF CheckForInactivity, PossiblyListed, CertainlyListed
<1>1. i \in Ids /\ Renewed(i) /\ age[i] \in Nat /\ age[i] > Threshold /\ Threshold \in Nat
  BY DEF PossiblyListed, RenewalInv, Expired, TypeOK
<1>2. regTimer[terminators[i]] \in Nat
  BY <1>1 DEF Renewed, TypeOK
<1>3. CASE \E x \in Exchange : age[i] + x.delay <= Threshold
  BY <1>1, <1>3, ExchangeType
<1>4. CASE \A d \in Delays : age[i] + regTimer[terminators[i]] + d <= Threshold
  <2>1. PICK d \in Delays : d \in Nat
    BY DEF InTime
  <2> QED  BY <1>1, <1>2, <1>4, <2>1
<1> QED  BY <1>1, <1>3, <1>4 DEF Renewed

\* Time brings a message nearer and the timer of its node with it, and makes the
\* registrations as much older as the next request is nearer.
LEMMA TickRenewal ==
    ASSUME TypeOK, RenewalInv, Tick
    PROVE  RenewalInv'
<1> USE ConstantsAssumption
<1>1. /\ UNCHANGED <<nodeActive, nodeId, ricActive, terminators, newest>>
      /\ BagToSet(net') = {Shift(m, -1) : m \in BagToSet(net)}
      /\ \A c \in BagToSet(net') : net'[c] = net[Shift(c, 1)]
  BY DEF Tick, ricVars, BagToSet
<1>2. ASSUME NEW m \in Exchange
      PROVE  /\ Shift(m, -1).type = m.type /\ Shift(m, -1).node = m.node
             /\ Shift(m, -1).id = m.id /\ Shift(m, -1).delay = m.delay - 1
             /\ Shift(Shift(m, -1), 1) = m /\ m.delay \in Nat /\ m.node \in Nodes
             /\ Shift(m, -1) \in Exchange'
  <2>1. m.delay \in Nat /\ m.node \in Nodes /\ m = Msg(m.type, m.node, m.id, m.delay)
    BY ExchangeType
  <2>2. /\ Shift(m, -1).type = m.type /\ Shift(m, -1).node = m.node
        /\ Shift(m, -1).id = m.id /\ Shift(m, -1).delay = m.delay - 1
    BY <2>1 DEF Shift, Msg
  <2>3. m.delay - 1 + 1 = m.delay
    BY <2>1
  <2>4. Shift(Shift(m, -1), 1) = m
    BY <2>1, <2>2, <2>3 DEF Shift
  <2>5. Shift(m, -1) \in Exchange'
    BY <1>1, <2>2 DEF Exchange
  <2> QED  BY <2>1, <2>2, <2>4, <2>5
<1>3. ASSUME NEW c \in Exchange' PROVE \E m \in Exchange : c = Shift(m, -1)
  <2>1. PICK m \in BagToSet(net) : c = Shift(m, -1)
    BY <1>1 DEF Exchange
  <2>2. m.type = c.type
    BY <2>1 DEF Shift, Msg
  <2> QED  BY <2>1, <2>2 DEF Exchange
<1>4. ASSUME NEW n \in Nodes, nodeActive[n]
      PROVE  regTimer[n] \in Nat /\ regTimer'[n] = regTimer[n] - 1
  BY <1>4 DEF Tick, TypeOK
<1>5. ASSUME NEW c \in Exchange' PROVE OnSchedule(c)'
  <2>1. PICK m \in Exchange : c = Shift(m, -1)
    BY <1>3
  <2>2. OnSchedule(m)
    BY DEF RenewalInv
  <2>3. net'[c] = 1
    BY <1>1, <1>2, <2>1, <2>2 DEF OnSchedule, Exchange
  <2>4. c.node = m.node /\ c.type = m.type /\ c.id = m.id /\ c.delay = m.delay - 1
        /\ m.delay \in Nat /\ regTimer[m.node] \in Nat /\ regTimer'[m.node] = regTimer[m.node] - 1
    BY <1>2, <1>4, <2>1, <2>2 DEF OnSchedule
  <2>5. c.delay < regTimer'[c.node]
    BY <2>2, <2>4 DEF OnSchedule
  <2>6. ASSUME c.type = "RegReq", NEW e \in Delays
        PROVE  c.delay + e < regTimer'[c.node] /\ regTimer'[c.node] - c.delay + e <= Threshold
    <3>1. m.delay + e < regTimer[m.node] /\ regTimer[m.node] - m.delay + e <= Threshold
          /\ e \in Nat
      BY <2>2, <2>4, <2>6 DEF OnSchedule
    <3>2. regTimer'[c.node] - c.delay = regTimer[m.node] - m.delay
      BY <2>4
    <3> QED  BY <2>4, <3>1, <3>2
  <2> QED  BY <1>1, <2>2, <2>3, <2>4, <2>5, <2>6 DEF OnSchedule
<1>6. ASSUME NEW i \in Ids, newest'[i] # {} PROVE Renewed(i)'
  <2>1. Renewed(i)
    BY <1>1, <1>6 DEF RenewalInv
  <2> DEFINE n == terminators[i]
  <2>2. n \in Nodes /\ regTimer[n] \in Nat /\ regTimer'[n] = regTimer[n] - 1
    BY <1>4, <2>1 DEF Renewed
  <2>3. age[i] \in Nat /\ age'[i] \in {age[i], age[i] + 1}
    BY DEF Tick, TypeOK
  <2>4. nodeId[n] = i \/ \E c \in Exchange' : c.type = "RegResp" /\ c.node = n /\ c.id = i
    BY <1>2, <2>1 DEF Renewed
  <2>5. CASE \E m \in Exchange : m.type = "RegReq" /\ m.node = n /\ age[i] + m.delay <= Threshold
    <3>1. PICK m \in Exchange : m.type = "RegReq" /\ m.node = n /\ age[i] + m.delay <= Threshold
      BY <2>5
    <3>2. Shift(m, -1).delay = m.delay - 1 /\ m.delay \in Nat
      BY <1>2
    <3>3. age'[i] + Shift(m, -1).delay <= Threshold
      BY <2>3, <3>1, <3>2
    <3> QED  BY <1>1, <1>2, <2>1, <2>4, <3>1, <3>3 DEF Renewed
  <2>6. CASE \A d \in Delays : age[i] + regTimer[n] + d <= Threshold
    <3>1. \A d \in Delays : age'[i] + regTimer'[n] + d <= Threshold
      BY <2>2, <2>3, <2>6
    <3> QED  BY <1>1, <2>1, <2>4, <3>1 DEF Renewed
  <2> QED  BY <2>1, <2>5, <2>6 DEF Renewed
<1>7. \A c \in BagToSet(net') : c.type \notin {"DeregReq", "DeregResp"}
  BY <1>1 DEF RenewalInv, Shift, Msg
<1>8. \A c1, c2 \in Exchange' : c1.node = c2.node => c1 = c2
  BY <1>2, <1>3 DEF RenewalInv
<1> QED  BY <1>5, <1>6, <1>7, <1>8 DEF RenewalInv

\* Commands have no part in it.
LEMMA CommandRenewal ==
    ASSUME TypeOK, RenewalInv,
           SendCommand \/ \E m \in Due("Command") : ReceiveCommand(m)
    PROVE  RenewalInv'
<1>1. UNCHANGED <<nodeActive, nodeId, regTimer, ricActive, terminators, newest, age>>
  BY DEF SendCommand, ReceiveCommand, nodeVars, ricVars, dbVars, rowVars
<1>2. CASE \E c : c.type = "Command" /\ net' = Add(net, c)
  <2>1. PICK c : c.type = "Command" /\ net' = Add(net, c)
    BY <1>2
  <2>2. BagToSet(net') = BagToSet(net) \cup {c}
    BY <2>1, AddMessages
  <2>3. Exchange' = Exchange
    BY <2>1, <2>2 DEF Exchange
  <2>4. \A m \in Exchange : net'[m] = net[m]
    BY <2>1, AddCopies DEF Exchange, RenewalInv, OnSchedule
  <2>5. \A m \in BagToSet(net') : m.type \notin {"DeregReq", "DeregResp"}
    BY <2>1, <2>2 DEF RenewalInv
  <2> QED  BY <1>1, <2>3, <2>4, <2>5, RenewalSame
<1>3. CASE \E c : c.type = "Command" /\ net' = Remove(net, c)
  <2>1. PICK c : c.type = "Command" /\ net' = Remove(net, c)
    BY <1>3
  <2>2. BagToSet(net') \subseteq BagToSet(net)
    BY <2>1, RemoveMessages
  <2>3. \A m \in Exchange : m \in BagToSet(net') /\ net'[m] = net[m]
    BY <2>1, RemoveCopies DEF Exchange, RenewalInv, OnSchedule
  <2>4. Exchange' = Exchange
    BY <2>2, <2>3 DEF Exchange
  <2>5. \A m \in BagToSet(net') : m.type \notin {"DeregReq", "DeregResp"}
    BY <2>2 DEF RenewalInv
  <2> QED  BY <1>1, <2>3, <2>4, <2>5, RenewalSame
<1>4. CASE UNCHANGED net
  BY <1>1, <1>4, RenewalSame DEF RenewalInv, Exchange
<1>5. CASE SendCommand
  <2>1. \A n, i, d : Msg("Command", n, i, d).type = "Command"
    BY DEF Msg
  <2> QED  BY <1>2, <1>4, <1>5, <2>1 DEF SendCommand
<1>6. CASE \E m \in Due("Command") : ReceiveCommand(m)
  BY <1>3, <1>6, DueType DEF ReceiveCommand
<1> QED  BY <1>5, <1>6

\* Initially nobody has an ID and nothing is under way.
LEMMA InitRenewal == Init => RenewalInv
BY DEF Init, RenewalInv, Exchange, EmptyBag, SetToBag, BagToSet

\* Every step of a scenario in which nodes renew in time goes on with it.
LEMMA NextRenewal == InTime /\ TypeOK /\ RenewalInv /\ [Next]_vars => RenewalInv'
<1> SUFFICES ASSUME InTime, TypeOK, RenewalInv, [Next]_vars PROVE RenewalInv'
  OBVIOUS
<1>1. ASSUME NEW n \in Nodes, Register(n) PROVE RenewalInv'
  <2>1. nodeActive' = [nodeActive EXCEPT ![n] = TRUE]
    BY <1>1 DEF Register, TypeOK
  <2> QED  BY <1>1, <2>1, RegisterRenewal DEF Register, ricVars, dbVars, rowVars
<1>2. ASSUME NEW n \in Nodes, NodeActivate(n) PROVE RenewalInv'
  BY <1>2, RegisterRenewal DEF NodeActivate, ricVars, dbVars, rowVars
<1>3. ASSUME NEW m \in Due("RegReq"), ReceiveRegistrationRequest(m) PROVE RenewalInv'
  BY <1>3, RequestRenewal, LostRenewal DEF TypeOK
<1>4. ASSUME NEW m \in Due("RegResp"), ReceiveRegistrationResponse(m) PROVE RenewalInv'
  BY <1>4, ResponseRenewal
<1>5. Due("DeregReq") = {} /\ Due("DeregResp") = {}
  BY DEF Due, RenewalInv
<1>6. CASE RicStart \/ LmDecide \/ UNCHANGED vars
  <2>1. /\ UNCHANGED <<nodeActive, nodeId, regTimer, terminators, newest, age, net>>
        /\ ricActive => ricActive'
    BY <1>6 DEF RicStart, LmDecide, vars, nodeVars, ricVars, dbVars, rowVars
  <2> QED  BY <2>1, RenewalSame DEF RenewalInv, Exchange
<1>7. ~RicStop /\ \A n \in Nodes : ~NodeDeactivate(n)
  BY DEF InTime, RicStop, NodeDeactivate
<1> QED
  BY <1>1, <1>2, <1>3, <1>4, <1>5, <1>6, <1>7, TickRenewal, CommandRenewal, NoneExpires
     DEF Next, Event, Operation

\* For any nodes, delays, intervals and threshold: a node that renews its registration in
\* time keeps its ID, neither the inactivity check nor a response takes it away
\* (CheckForInactivity, ReceiveRegistrationResponse, ReceiveDeregistrationResponse).
THEOREM IdentityKept == ASSUME InTime PROVE Spec => KeepsIdentity
<1>1. Init => TypeOK /\ RenewalInv
  BY InitType, InitRenewal
<1>2. (TypeOK /\ RenewalInv) /\ [Next]_vars => (TypeOK /\ RenewalInv)'
  BY NextType, NextRenewal
<1>3. ASSUME TypeOK, RenewalInv, [Next]_vars
      PROVE  \A n \in Nodes : nodeActive[n] /\ nodeActive'[n] /\ nodeId[n] # 0
                                => nodeId'[n] = nodeId[n]
  <2>1. CASE \E m \in Due("RegResp") : ReceiveRegistrationResponse(m)
    <3>1. PICK m \in Due("RegResp") : ReceiveRegistrationResponse(m)
      BY <2>1
    <3>2. m \in Exchange /\ OnSchedule(m) /\ m.node \in Nodes /\ m.type = "RegResp"
      BY <1>3, ExchangeType DEF Due, Exchange, RenewalInv
    <3> QED  BY <1>3, <3>1, <3>2 DEF ReceiveRegistrationResponse, OnSchedule, TypeOK
  <2>2. CASE ~\E m \in Due("RegResp") : ReceiveRegistrationResponse(m)
    <3>1. Due("DeregResp") = {}
      BY <1>3 DEF Due, RenewalInv
    <3>2. UNCHANGED nodeId
      BY <1>3, <2>2, <3>1
         DEF Next, Event, Operation, Register, NodeActivate, NodeDeactivate,
             ReceiveRegistrationRequest, ReceiveDeregistrationRequest, ReceiveCommand,
             CheckForInactivity, SendCommand, RicStart, RicStop, LmDecide, Tick, vars, nodeVars
    <3> QED  BY <3>2
  <2> QED  BY <2>1, <2>2
<1> QED  BY <1>1, <1>2, <1>3, PTL DEF Spec, KeepsIdentity

\* The IDs that nodes hold or are told of have a row, and no row says otherwise.
HeldInv ==
    /\ \A n \in Nodes : nodeId[n] # 0 => newest[nodeId[n]] # {}
    /\ \A m \in Exchange : m.type = "RegResp" => newest[m.id] # {}
    /\ \A i \in Ids : newest[i] # {} => latest[i] = 1

\* Every step keeps them registered.
LEMMA NextHeld == InTime /\ TypeOK /\ RenewalInv /\ HeldInv /\ [Next]_vars => HeldInv'
<1> SUFFICES ASSUME InTime, TypeOK, RenewalInv, HeldInv, [Next]_vars PROVE HeldInv'
  OBVIOUS
<1>1. Due("DeregReq") = {} /\ Due("DeregResp") = {}
  BY DEF Due, RenewalInv
<1>2. CASE \E m \in Due("RegReq") : ReceiveRegistrationRequest(m) /\ ricActive
  <2>1. PICK m \in Due("RegReq") : ReceiveRegistrationRequest(m) /\ ricActive
    BY <1>2
  <2>2. PICK a : a = AssignedId(m.id)
    OBVIOUS
  <2>3. PICK d \in Delays : net' = Add(Remove(net, m), Msg("RegResp", m.node, a, d))
    BY <2>1, <2>2 DEF ReceiveRegistrationRequest
  <2>4. /\ a \in Ids /\ nodeId' = nodeId
        /\ newest' = [newest EXCEPT ![a] = NewestAfter(a, 1)]
        /\ latest' = [latest EXCEPT ![a] = 1]
    BY <2>1, <2>2
       DEF ReceiveRegistrationRequest, RegisterNode, InsertRegistration, nodeVars
  <2>5. /\ newest'[a] # {} /\ latest'[a] = 1
        /\ \A i \in Ids : i # a => newest'[i] = newest[i] /\ latest'[i] = latest[i]
    BY <2>4 DEF NewestAfter, TypeOK
  <2>6. ASSUME NEW x \in Exchange', x.type = "RegResp" PROVE newest'[x.id] # {}
    <3>1. CASE x = Msg("RegResp", m.node, a, d)
      BY <2>5, <3>1 DEF Msg
    <3>2. CASE x # Msg("RegResp", m.node, a, d)
      <4>1. x \in Exchange
        BY <2>3, <3>2, AddMessages, RemoveMessages DEF Exchange
      <4>2. x.id \in Ids /\ newest[x.id] # {}
        BY <2>6, <4>1, ExchangeType DEF HeldInv
      <4> QED  BY <2>5, <4>2
    <3> QED  BY <3>1, <3>2
  <2>7. ASSUME NEW n \in Nodes, nodeId'[n] # 0 PROVE newest'[nodeId'[n]] # {}
    <3>1. nodeId[n] \in Ids /\ newest[nodeId[n]] # {}
      BY <2>4, <2>7 DEF HeldInv, TypeOK, Ids, Id0
    <3> QED  BY <2>4, <2>5, <3>1
  <2> QED  BY <2>5, <2>6, <2>7 DEF HeldInv
<1>3. CASE \E m \in Due("RegResp") : ReceiveRegistrationResponse(m)
  <2>1. PICK m \in Due("RegResp") : ReceiveRegistrationResponse(m)
    BY <1>3
  <2>2. m \in Exchange /\ m.type = "RegResp" /\ newest[m.id] # {}
    BY DEF Due, Exchange, HeldInv
  <2>3. /\ UNCHANGED <<newest, latest>> /\ Exchange' \subseteq Exchange
        /\ \A n \in Nodes : nodeId'[n] \in {nodeId[n], m.id}
    BY <2>1, RemoveMessages DEF ReceiveRegistrationResponse, dbVars, rowVars, Exchange, TypeOK
  <2> QED  BY <2>2, <2>3 DEF HeldInv
<1>4. CASE /\ ~\E m \in Due("RegReq") : ReceiveRegistrationRequest(m) /\ ricActive
           /\ ~\E m \in Due("RegResp") : ReceiveRegistrationResponse(m)
  <2>1. UNCHANGED <<nodeId, newest, latest>>
    BY <1>1, <1>4, NoneExpires
       DEF Next, Event, Operation, Register, NodeActivate, NodeDeactivate,
           ReceiveRegistrationRequest, ReceiveCommand, SendCommand, RicStart, RicStop,
           LmDecide, Tick, vars, nodeVars, dbVars, rowVars, InTime
  <2>2. ASSUME NEW x \in Exchange', x.type = "RegResp"
        PROVE  \E m \in Exchange : m.type = "RegResp" /\ m.id = x.id
    <3>1. CASE \E n \in Nodes : Register(n) \/ NodeActivate(n)
      <4>1. PICK n \in Nodes, d \in Delays : net' = Add(net, Msg("RegReq", n, nodeId[n], d))
        BY <3>1 DEF Register, NodeActivate, DoRegister
      <4> QED  BY <2>2, <4>1, AddMessages DEF Exchange, Msg
    <3>2. CASE SendCommand
      <4>1. UNCHANGED net \/ \E n, i, d : net' = Add(net, Msg("Command", n, i, d))
        BY <3>2 DEF SendCommand
      <4>2. \A c \in BagToSet(net') : c \in BagToSet(net) \/ c.type = "Command"
        <5>1. CASE UNCHANGED net
          BY <5>1
        <5>2. CASE \E n, i, d : net' = Add(net, Msg("Command", n, i, d))
          <6>1. PICK c : c.type = "Command" /\ net' = Add(net, c)
            BY <5>2 DEF Msg
          <6> QED  BY <6>1, AddMessages
        <5> QED  BY <4>1, <5>1, <5>2
      <4> QED  BY <2>2, <4>2 DEF Exchange
    <3>3. CASE Tick
      <4>1. BagToSet(net') = {Shift(m, -1) : m \in BagToSet(net)}
        BY <3>3 DEF Tick, BagToSet
      <4> QED  BY <2>2, <4>1 DEF Exchange, Shift, Msg
    <3>4. CASE BagToSet(net') \subseteq BagToSet(net)
      BY <2>2, <3>4 DEF Exchange
    <3>5. \/ \E n \in Nodes : Register(n) \/ NodeActivate(n)
          \/ SendCommand \/ Tick \/ BagToSet(net') \subseteq BagToSet(net)
      BY <1>1, <1>4, NoneExpires, RemoveMessages
         DEF Next, Event, Operation, NodeDeactivate, ReceiveRegistrationRequest,
             ReceiveCommand, RicStart, RicStop, LmDecide, vars, InTime
    <3> QED  BY <3>1, <3>2, <3>3, <3>4, <3>5
  <2> QED  BY <2>1, <2>2 DEF HeldInv
<1> QED  BY <1>2, <1>3, <1>4

\* In the same scenarios the ID a node holds is registered, by the row inserted last and by
\* every one of the newest rows (IsNodeRegistered, GetNrUeE2NodeIds): the part of
\* EventuallyListed that is for good once it is reached.
THEOREM HeldRegistered == ASSUME InTime PROVE Spec => []HeldIsRegistered
<1>1. Init => TypeOK /\ RenewalInv /\ HeldInv
  BY InitType, InitRenewal DEF Init, HeldInv, Exchange, EmptyBag, SetToBag, BagToSet
<1>2. (TypeOK /\ RenewalInv /\ HeldInv) /\ [Next]_vars => (TypeOK /\ RenewalInv /\ HeldInv)'
  BY NextType, NextRenewal, NextHeld
<1>3. TypeOK /\ RenewalInv /\ HeldInv => HeldIsRegistered
  <2> SUFFICES ASSUME TypeOK, RenewalInv, HeldInv, NEW n \in Nodes, nodeId[n] # 0
               PROVE  nodeId[n] \in CertainlyListed /\ IsNodeRegistered(nodeId[n])
    BY DEF HeldIsRegistered
  <2>1. nodeId[n] \in Ids /\ newest[nodeId[n]] # {}
    BY DEF HeldInv, TypeOK, Ids, Id0
  <2> QED  BY <2>1 DEF HeldInv, RenewalInv, Renewed, CertainlyListed, IsNodeRegistered
<1> QED  BY <1>1, <1>2, <1>3, PTL DEF Spec
=============================================================================

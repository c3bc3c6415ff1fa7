---------------------------- MODULE NrHandover -----------------------------
(***************************************************************************)
(* What a handover command does: OranE2NodeTerminatorNrGnb::ReceiveCommand *)
(* starts an X2 handover, which the RRC of the source gNB, of the target   *)
(* gNB and of the UE and the core network carry out with messages.         *)
(*                                                                         *)
(* A place is a cell and an RNTI in it; the UE managers (m_ueMap) of all   *)
(* gNBs are one function from places.  RRC messages are those of the ideal *)
(* protocol, the default: they are never lost, and a connection release or *)
(* a failed random access ends the simulation ("does not have RLF          *)
(* functionality yet").  An assertion or fatal error is a value of abort,  *)
(* after which nothing happens.  Timers may expire at any time.            *)
(***************************************************************************)
EXTENDS Naturals, Sequences, FiniteSets, Bags

CONSTANTS
    NumUes,          \* UEs, by their IMSI, are 1..NumUes
    Cells,           \* cell IDs, one gNB each
    Home,            \* the cell every UE is attached to at first
    MaxUesPerCell,   \* m_maxUesPerCell, 0 is no limit
    MaxRnti          \* bound: RNTIs a gNB hands out

ASSUME NrHandoverAssumption ==
    /\ NumUes \in Nat \ {0}
    /\ Cells \subseteq Nat \ {0} /\ IsFiniteSet(Cells)
    /\ Home \in [1 .. NumUes -> Cells]
    /\ MaxUesPerCell \in Nat
    /\ MaxRnti \in Nat /\ NumUes <= MaxRnti

VARIABLES
    ueMap,      \* the UE manager at a place
    lastRnti,   \* m_lastAllocatedRnti of every gNB
    ue,         \* state, cell and RNTI of a UE's RRC
    x2,         \* X2 messages from one cell's gNB to another's, in order
    down, up,   \* RRC messages to a UE, and the places its answers go to
    mme,        \* cellId of a UE at the MME
    imsiRnti,   \* m_imsiRntiMap of every gNB's application
    modify,     \* ModifyFlowRequests of the MME that are not answered
    cmds,       \* bag of handover commands on their way to a gNB
    expired,    \* history: a handover timer has expired
    abort       \* "none", or why the simulation ended

gnbVars  == <<ueMap, lastRnti>>
rrcVars  == <<ue, down, up>>
coreVars == <<mme, imsiRnti, modify>>
nrVars   == <<gnbVars, rrcVars, x2, coreVars, cmds, expired, abort>>

Ues    == 1 .. NumUes
Rntis  == 1 .. MaxRnti
Places == [cell : Cells, rnti : Rntis]
At(c, r) == [cell |-> c, rnti |-> r]
NoPlace == At(0, 0)

States == {"CONNECTED_NORMALLY", "CONNECTION_RECONFIGURATION", "HANDOVER_PREPARATION",
           "HANDOVER_JOINING", "HANDOVER_LEAVING", "HANDOVER_PATH_SWITCH"}

\* A UE manager; pending is m_pendingRrcConnectionReconfiguration, and timer which of
\* m_handoverJoiningTimeout and m_handoverLeavingTimeout is running.
Managers == [imsi : Ues, state : States, source : Places \cup {NoPlace},
             target : [cell : Cells \cup {0}, rnti : Rntis \cup {0}],
             pending : BOOLEAN, timer : {"none", "joining", "leaving"}]

Manager(u, state) ==
    [imsi |-> u, state |-> state, source |-> NoPlace, target |-> NoPlace,
     pending |-> FALSE, timer |-> "none"]

HasUeManager(p) == p \in DOMAIN ueMap

UesIn(c) == {p \in DOMAIN ueMap : p.cell = c}

\* The UEs are attached, with their first RRC reconfiguration behind them.
FirstPlace(u) == At(Home[u], Cardinality({v \in 1 .. u : Home[v] = Home[u]}))

NrInit ==
    /\ ueMap = [p \in {FirstPlace(u) : u \in Ues} |->
                  Manager(CHOOSE u \in Ues : FirstPlace(u) = p, "CONNECTED_NORMALLY")]
    /\ lastRnti = [c \in Cells |-> Cardinality({u \in Ues : Home[u] = c})]
    /\ ue = [u \in Ues |-> [state |-> "CONNECTED_NORMALLY", at |-> FirstPlace(u)]]
    /\ mme = Home
    /\ imsiRnti = [c \in Cells |->
                     [u \in Ues |-> IF Home[u] = c THEN FirstPlace(u).rnti ELSE 0]]
    /\ x2 = [c \in Cells |-> [d \in Cells |-> <<>>]]
    /\ down = [u \in Ues |-> <<>>] /\ up = [u \in Ues |-> <<>>]
    /\ modify = [u \in Ues |-> 0]
    /\ cmds = EmptyBag /\ expired = FALSE /\ abort = "none"

-----------------------------------------------------------------------------
(* Parts of steps.                                                         *)

Put(p, m) == [q \in DOMAIN ueMap \cup {p} |-> IF q = p THEN m ELSE ueMap[q]]

\* RemoveUe: the manager goes, and its timers with it.
RemoveUe(p) == [q \in DOMAIN ueMap \ {p} |-> ueMap[q]]

\* Mutant: the smallest RNTI that is free.
NewRntiSmallest(c) == CHOOSE r \in Rntis : /\ ~HasUeManager(At(c, r))
                                           /\ \A s \in 1 .. r - 1 : HasUeManager(At(c, s))

\* The next RNTI that is free after the last one (AddUe).
NewRnti(c) == CHOOSE r \in Rntis : /\ r > lastRnti[c] /\ ~HasUeManager(At(c, r))
                                   /\ \A s \in lastRnti[c] + 1 .. r - 1 : HasUeManager(At(c, s))

SendX2(from, to, m) == x2' = [x2 EXCEPT ![from][to] = Append(@, m)]

\* The first message on its way from one gNB to another is of this type, is taken,
\* and the answer, if there is one, is sent back.
Received(from, to, type) == x2[from][to] # <<>> /\ Head(x2[from][to]).type = type

Taken(from, to) == x2' = [x2 EXCEPT ![from][to] = Tail(@)]

TakenAndAnswered(from, to, m) ==
    x2' = [[x2 EXCEPT ![from][to] = Tail(@)] EXCEPT ![to][from] = Append(@, m)]

SendRrc(u, m) == down' = [down EXCEPT ![u] = Append(@, m)]

\* SwitchToState(CONNECTED_NORMALLY): a reconfiguration that had to wait is sent.
SwitchToConnectedNormally(p) ==
    LET m == ueMap[p]
    IN  IF m.pending
        THEN /\ ueMap' = Put(p, [m EXCEPT !.state = "CONNECTION_RECONFIGURATION",
                                          !.pending = FALSE])
             /\ SendRrc(m.imsi, [type |-> "reconfiguration"])
        ELSE /\ ueMap' = Put(p, [m EXCEPT !.state = "CONNECTED_NORMALLY"])
             /\ UNCHANGED down

\* SendRrcConnectionRelease: the UE is told and its manager is removed.
SendRrcConnectionRelease(p) ==
    /\ SendRrc(ueMap[p].imsi, [type |-> "release"])
    /\ ueMap' = RemoveUe(p)

\* Why the simulation may end: the handlers that do not expect the state, or do not find
\* the UE manager, and radio link failure.
Reasons == {"GetUeManager", "HandoverJoiningTimeout", "HandoverLeavingTimeout", "PrepareHandover",
            "RLF", "RecvHandoverCancel", "RecvHandoverPreparationFailure",
            "RecvRrcConnectionReconfiguration", "RecvRrcConnectionReconfigurationCompleted",
            "RecvUeContextRelease", "SendUeContextRelease", "SetUeRrcSapProvider", "reconfiguring"}

\* NS_ASSERT or NS_FATAL_ERROR: the simulation is over and nothing is under way.
Fatal(why) ==
    /\ abort' = why
    /\ x2' = [c \in Cells |-> [d \in Cells |-> <<>>]]
    /\ down' = [u \in Ues |-> <<>>] /\ up' = [u \in Ues |-> <<>>]
    /\ modify' = [u \in Ues |-> 0]
    /\ cmds' = EmptyBag
    /\ UNCHANGED <<gnbVars, ue, mme, imsiRnti, expired>>

-----------------------------------------------------------------------------
(* The source gNB.                                                         *)

Drop(m) ==
    /\ cmds' = cmds (-) SetToBag({m})
    /\ UNCHANGED <<gnbVars, rrcVars, x2, coreVars, expired, abort>>

PrepareHandover(m) ==
    LET p == At(m.cell, m.rnti)
    IN  /\ cmds' = cmds (-) SetToBag({m})
        /\ ueMap' = Put(p, [ueMap[p] EXCEPT !.state = "HANDOVER_PREPARATION",
                                            !.target = At(m.to, 0)])
        /\ SendX2(m.cell, m.to, [type |-> "request", old |-> m.rnti, imsi |-> ueMap[p].imsi])
        /\ UNCHANGED <<lastRnti, rrcVars, coreVars, expired, abort>>

\* Mutant: the state of the UE is not checked.
ReceiveCommandUnchecked(m) ==
    LET p == At(m.cell, m.rnti)
    IN  IF ~HasUeManager(p) THEN Drop(m)
        ELSE IF ueMap[p].state = "CONNECTED_NORMALLY" THEN PrepareHandover(m)
        ELSE Fatal("PrepareHandover")

\* A command for an unknown RNTI or a UE in another state is dropped; in the state
\* CONNECTION_RECONFIGURATION it reaches PrepareHandover, which does not expect it.
ReceiveCommand(m) ==
    LET p == At(m.cell, m.rnti)
    IN  IF ~HasUeManager(p) THEN Drop(m)
        ELSE IF ueMap[p].state = "CONNECTED_NORMALLY" THEN PrepareHandover(m)
        ELSE IF ueMap[p].state = "CONNECTION_RECONFIGURATION" THEN Fatal("reconfiguring")
        ELSE Drop(m)

RecvHandoverRequestAck(t, s) ==
    LET m == Head(x2[t][s])
        p == At(s, m.old)
    IN  /\ Received(t, s, "ack")
        /\ IF ~HasUeManager(p) THEN Fatal("GetUeManager")
           ELSE /\ Taken(t, s)
                /\ ueMap' = Put(p, [ueMap[p] EXCEPT !.state = "HANDOVER_LEAVING",
                                                    !.target = At(t, m.new), !.timer = "leaving"])
                /\ SendRrc(ueMap[p].imsi, [type |-> "handover", at |-> At(t, m.new)])
                /\ UNCHANGED <<lastRnti, ue, up, coreVars, cmds, expired, abort>>

\* Mutant: the failure is not taken up.
RecvHandoverPreparationFailureIgnored(t, s) ==
    /\ Received(t, s, "failure")
    /\ Taken(t, s)
    /\ UNCHANGED <<gnbVars, rrcVars, coreVars, cmds, expired, abort>>

RecvHandoverPreparationFailure(t, s) ==
    LET p == At(s, Head(x2[t][s]).old)
        state == ueMap[p].state
    IN  /\ Received(t, s, "failure")
        /\ IF ~HasUeManager(p)
           THEN /\ Taken(t, s)
                /\ UNCHANGED <<gnbVars, rrcVars, coreVars, cmds, expired, abort>>
           ELSE IF \/ state \notin {"HANDOVER_PREPARATION", "HANDOVER_LEAVING"}
                   \/ ueMap[p].target.cell # t
           THEN Fatal("RecvHandoverPreparationFailure")
           ELSE /\ Taken(t, s)
                /\ IF state = "HANDOVER_PREPARATION" THEN SwitchToConnectedNormally(p)
                                                     ELSE SendRrcConnectionRelease(p)
                /\ UNCHANGED <<lastRnti, ue, up, coreVars, cmds, expired, abort>>

\* Mutant: the UE manager is kept.
RecvUeContextReleaseKeepsUe(t, s) ==
    LET p == At(s, Head(x2[t][s]).old)
    IN  /\ Received(t, s, "release")
        /\ Taken(t, s)
        /\ ueMap' = IF HasUeManager(p) THEN Put(p, [ueMap[p] EXCEPT !.timer = "none"]) ELSE ueMap
        /\ UNCHANGED <<lastRnti, rrcVars, coreVars, cmds, expired, abort>>

RecvUeContextRelease(t, s) ==
    LET p == At(s, Head(x2[t][s]).old)
    IN  /\ Received(t, s, "release")
        /\ IF HasUeManager(p) /\ ueMap[p].state # "HANDOVER_LEAVING"
           THEN Fatal("RecvUeContextRelease")
           ELSE /\ Taken(t, s)
                /\ ueMap' = RemoveUe(p)
                /\ UNCHANGED <<lastRnti, rrcVars, coreVars, cmds, expired, abort>>

HandoverLeavingTimeout(p) ==
    LET t == ueMap[p].target
    IN  /\ ueMap[p].timer = "leaving"
        /\ IF ueMap[p].state # "HANDOVER_LEAVING" THEN Fatal("HandoverLeavingTimeout")
           ELSE /\ expired' = TRUE
                /\ SendX2(p.cell, t.cell, [type |-> "cancel", old |-> p.rnti, new |-> t.rnti])
                /\ SendRrcConnectionRelease(p)
                /\ UNCHANGED <<lastRnti, ue, up, coreVars, cmds, abort>>

-----------------------------------------------------------------------------
(* The target gNB.                                                         *)

Refuse(s, t, old) == TakenAndAnswered(s, t, [type |-> "failure", old |-> old])

\* The request is refused: not admitted, or the cell is full.
RejectHandoverRequest(s, t) ==
    /\ Received(s, t, "request")
    /\ Refuse(s, t, Head(x2[s][t]).old)
    /\ UNCHANGED <<gnbVars, rrcVars, coreVars, cmds, expired, abort>>

\* There is room, but no preamble is left: the new UE manager is removed again.
NoPreambleLeft(s, t) ==
    /\ Received(s, t, "request")
    /\ MaxUesPerCell = 0 \/ Cardinality(UesIn(t)) < MaxUesPerCell
    /\ lastRnti[t] < MaxRnti
    /\ Refuse(s, t, Head(x2[s][t]).old)
    /\ lastRnti' = [lastRnti EXCEPT ![t] = NewRnti(t)]
    /\ UNCHANGED <<ueMap, rrcVars, coreVars, cmds, expired, abort>>

\* Setting up the bearers leaves a reconfiguration pending.
RecvHandoverRequest(s, t) ==
    LET m == Head(x2[s][t])
        p == At(t, NewRnti(t))
    IN  /\ Received(s, t, "request")
        /\ MaxUesPerCell = 0 \/ Cardinality(UesIn(t)) < MaxUesPerCell
        /\ lastRnti[t] < MaxRnti
        /\ lastRnti' = [lastRnti EXCEPT ![t] = p.rnti]
        /\ ueMap' = Put(p, [Manager(m.imsi, "HANDOVER_JOINING") EXCEPT
                               !.source = At(s, m.old), !.pending = TRUE, !.timer = "joining"])
        /\ TakenAndAnswered(s, t, [type |-> "ack", old |-> m.old, new |-> p.rnti])
        /\ UNCHANGED <<rrcVars, coreVars, cmds, expired, abort>>

HandoverJoiningTimeout(p) ==
    LET s == ueMap[p].source
    IN  /\ ueMap[p].timer = "joining"
        /\ IF ueMap[p].state # "HANDOVER_JOINING" THEN Fatal("HandoverJoiningTimeout")
           ELSE /\ expired' = TRUE
                /\ SendX2(p.cell, s.cell, [type |-> "failure", old |-> s.rnti])
                /\ ueMap' = RemoveUe(p)
                /\ UNCHANGED <<lastRnti, rrcVars, coreVars, cmds, abort>>

\* The joining timer ends and the bearers are released at the core, not the manager.
RecvHandoverCancel(s, t) ==
    LET p == At(t, Head(x2[s][t]).new)
    IN  /\ Received(s, t, "cancel")
        /\ IF HasUeManager(p) /\ ueMap[p].state # "HANDOVER_JOINING"
           THEN Fatal("RecvHandoverCancel")
           ELSE /\ Taken(s, t)
                /\ ueMap' = IF HasUeManager(p) THEN Put(p, [ueMap[p] EXCEPT !.timer = "none"])
                                               ELSE ueMap
                /\ UNCHANGED <<lastRnti, rrcVars, coreVars, cmds, expired, abort>>

\* RecvRrcConnectionReconfigurationCompleted, and the path switch it may start at
\* the gNB's application and the MME.
RecvReconfigurationCompleted(u) ==
    LET p == Head(up[u])
        state == ueMap[p].state
        v == ueMap[p].imsi
    IN  /\ up[u] # <<>>
        /\ IF ~HasUeManager(p) THEN Fatal("GetUeManager")
           ELSE IF state \in {"HANDOVER_PREPARATION", "HANDOVER_PATH_SWITCH"}
           THEN Fatal("RecvRrcConnectionReconfigurationCompleted")
           ELSE /\ up' = [up EXCEPT ![u] = Tail(@)]
                /\ IF state = "HANDOVER_JOINING"
                   THEN /\ ueMap' = Put(p, [ueMap[p] EXCEPT !.state = "HANDOVER_PATH_SWITCH",
                                                            !.timer = "none"])
                        /\ imsiRnti' = [imsiRnti EXCEPT ![p.cell][v] = p.rnti]
                        /\ mme' = [mme EXCEPT ![v] = p.cell]
                        /\ modify' = [modify EXCEPT ![v] = @ + 1]
                        /\ UNCHANGED down
                   ELSE /\ IF state = "CONNECTION_RECONFIGURATION"
                           THEN SwitchToConnectedNormally(p) ELSE UNCHANGED <<ueMap, down>>
                        /\ UNCHANGED coreVars
                /\ UNCHANGED <<lastRnti, ue, x2, cmds, expired, abort>>

\* The answer to a ModifyFlowRequest: the gNB the MME has for the UE looks up the
\* RNTI, and SendUeContextRelease ends the handover.
PathSwitchRequestAcknowledge(u) ==
    LET p == At(mme[u], imsiRnti[mme[u]][u])
        m == ueMap[p]
    IN  /\ modify[u] > 0
        /\ IF ~HasUeManager(p) THEN Fatal("GetUeManager")
           ELSE IF m.state # "HANDOVER_PATH_SWITCH" THEN Fatal("SendUeContextRelease")
           ELSE /\ modify' = [modify EXCEPT ![u] = @ - 1]
                /\ SendX2(p.cell, m.source.cell,
                          [type |-> "release", old |-> m.source.rnti, new |-> p.rnti])
                /\ SwitchToConnectedNormally(p)
                /\ UNCHANGED <<lastRnti, ue, up, mme, imsiRnti, cmds, expired, abort>>

-----------------------------------------------------------------------------
(* The UE.                                                                 *)

\* SendRrcConnectionReconfigurationCompleted looks the UE's place up in its gNB.
SendCompleted(u, p) == up' = [up EXCEPT ![u] = Append(@, p)]

RecvReconfiguration(u) ==
    LET m == Head(down[u])
    IN  /\ down[u] # <<>> /\ m.type \in {"reconfiguration", "handover"}
        /\ IF ue[u].state # "CONNECTED_NORMALLY" THEN Fatal("RecvRrcConnectionReconfiguration")
           ELSE IF m.type = "reconfiguration" /\ ~HasUeManager(ue[u].at)
           THEN Fatal("SetUeRrcSapProvider")
           ELSE /\ down' = [down EXCEPT ![u] = Tail(@)]
                /\ IF m.type = "handover"
                   THEN /\ ue' = [ue EXCEPT ![u] = [state |-> "CONNECTED_HANDOVER", at |-> m.at]]
                        /\ UNCHANGED up
                   ELSE SendCompleted(u, ue[u].at) /\ UNCHANGED ue
                /\ UNCHANGED <<gnbVars, x2, coreVars, cmds, expired, abort>>

\* RecvRrcConnectionRelease asks for the removal of the UE's context, which the ideal
\* protocol cannot do.
RecvRelease(u) ==
    /\ down[u] # <<>> /\ Head(down[u]).type = "release"
    /\ Fatal("RLF")

NotifyRandomAccessSuccessful(u) ==
    /\ ue[u].state = "CONNECTED_HANDOVER"
    /\ IF ~HasUeManager(ue[u].at) THEN Fatal("SetUeRrcSapProvider")
       ELSE /\ SendCompleted(u, ue[u].at)
            /\ ue' = [ue EXCEPT ![u].state = "CONNECTED_NORMALLY"]
            /\ UNCHANGED <<gnbVars, down, x2, coreVars, cmds, expired, abort>>

NotifyRandomAccessFailed(u) ==
    /\ ue[u].state = "CONNECTED_HANDOVER"
    /\ Fatal("RLF")

-----------------------------------------------------------------------------
\* Messages, answers and random access: the simulator executes their events.
Events ==
    \/ \E m \in BagToSet(cmds) : ReceiveCommand(m)
    \/ \E c \in Cells, d \in Cells :
         \/ RecvHandoverRequestAck(c, d)
         \/ RecvHandoverPreparationFailure(c, d)
         \/ RecvUeContextRelease(c, d)
         \/ RejectHandoverRequest(c, d)
         \/ NoPreambleLeft(c, d)
         \/ RecvHandoverRequest(c, d)
         \/ RecvHandoverCancel(c, d)
    \/ \E u \in Ues :
         \/ RecvReconfigurationCompleted(u)
         \/ PathSwitchRequestAcknowledge(u)
         \/ RecvReconfiguration(u)
         \/ RecvRelease(u)
         \/ NotifyRandomAccessSuccessful(u)
         \/ NotifyRandomAccessFailed(u)

Timeouts ==
    \E p \in DOMAIN ueMap : HandoverLeavingTimeout(p) \/ HandoverJoiningTimeout(p)
=============================================================================

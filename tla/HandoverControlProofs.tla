----------------------- MODULE HandoverControlProofs ------------------------
(***************************************************************************)
(* Proofs about HandoverControl for any number of UEs, cells and commands: *)
(* types, and that a place, a cell and an RNTI in it, never passes from    *)
(* one UE to another.                                                      *)
(***************************************************************************)
EXTENDS HandoverControl, FiniteSetTheorems, SequenceTheorems, TLAPS

-----------------------------------------------------------------------------
(* The messages under way.                                                 *)

\* X2 messages.  The fields of a failure, a release and a cancel are places of managers,
\* which may be none.
X2Messages ==
    [type : {"request"}, old : Rntis, imsi : Ues]
      \cup [type : {"ack"}, old : Rntis, new : Rntis]
      \cup [type : {"failure"}, old : Rntis \cup {0}]
      \cup [type : {"release", "cancel"}, old : Rntis \cup {0}, new : Rntis \cup {0}]

RrcMessages ==
    [type : {"reconfiguration", "release"}] \cup [type : {"handover"}, at : Places]

WireTypes ==
    /\ x2 \in [Cells -> [Cells -> Seq(X2Messages)]]
    /\ down \in [Ues -> Seq(RrcMessages)]
    /\ up \in [Ues -> Seq(Places)]
    /\ IsABag(cmds) /\ BagToSet(cmds) \subseteq HandoverCommands
    /\ issued \in Nat

-----------------------------------------------------------------------------
(* Ownership.  own is the UE a place was handed out for; every mention of  *)
(* a place that has been handed out agrees with it.                        *)

Used(p) == p.rnti <= lastRnti[p.cell]

Mine(own, p, u) == Used(p) /\ own[p] = u

MapOwned(own) == \A p \in DOMAIN ueMap : Mine(own, p, ueMap[p].imsi)

UeOwned(own) == \A u \in Ues : Mine(own, ue[u].at, u)

RowsOwned(own) ==
    /\ \A u \in Ues : Mine(own, servingRow[u], u)
    /\ \A p \in Places : ueAt[p] # 0 => Mine(own, p, ueAt[p])
    /\ \A l \in DOMAIN lmQueryCommands : \A m \in lmQueryCommands[l] :
          Mine(own, At(m.cell, m.rnti), m.ue)

CmdsOwned(own) == \A m \in BagToSet(cmds) : Mine(own, At(m.cell, m.rnti), m.ue)

DownOwned(own) ==
    \A u \in Ues : \A m \in Range(down[u]) : m.type = "handover" => Mine(own, m.at, u)

\* A request names a place of its UE, an acknowledgement two places of the same UE.
RequestOwned(own, c, m) == Mine(own, At(c, m.old), m.imsi)
AckOwned(own, c, d, m) ==
    /\ Used(At(d, m.old))
    /\ Mine(own, At(c, m.new), own[At(d, m.old)])
X2Owned(own) ==
    \A c \in Cells, d \in Cells : \A m \in Range(x2[c][d]) :
        /\ m.type = "request" => RequestOwned(own, c, m)
        /\ m.type = "ack" => AckOwned(own, c, d, m)

Owned(own) ==
    /\ MapOwned(own) /\ UeOwned(own) /\ RowsOwned(own)
    /\ CmdsOwned(own) /\ DownOwned(own) /\ X2Owned(own)

Typed == TypeOK /\ WireTypes

\* The inductive invariant: some assignment of places to UEs agrees with everything.
OwnersInv == Typed /\ \E own \in [Places -> Ues] : Owned(own)

-----------------------------------------------------------------------------
(* Sequences, bags and RNTIs.                                              *)

\* What is left after the head is taken was there before, and so was the head.
LEMMA TailRange ==
    ASSUME NEW S, NEW s \in Seq(S), s # <<>>
    PROVE  /\ Tail(s) \in Seq(S) /\ Range(Tail(s)) \subseteq Range(s)
           /\ Head(s) \in Range(s) /\ Head(s) \in S
<1>1. /\ Tail(s) \in Seq(S) /\ Len(Tail(s)) = Len(s) - 1 /\ Head(s) \in S
      /\ \A i \in 1 .. Len(Tail(s)) : Tail(s)[i] = s[i + 1]
  BY HeadTailProperties
<1>2. Len(s) \in Nat /\ DOMAIN s = 1 .. Len(s) /\ DOMAIN Tail(s) = 1 .. Len(Tail(s)) /\ Len(s) # 0
  BY <1>1, LenProperties, EmptySeq
<1>3. Head(s) = s[1] /\ 1 \in DOMAIN s
  BY <1>2
<1>4. \A i \in DOMAIN Tail(s) : i + 1 \in DOMAIN s /\ Tail(s)[i] = s[i + 1]
  BY <1>1, <1>2
<1> QED  BY <1>1, <1>3, <1>4 DEF Range

\* Appending adds one element.
LEMMA AppendRange ==
    ASSUME NEW S, NEW s \in Seq(S), NEW m \in S
    PROVE  Append(s, m) \in Seq(S) /\ Range(Append(s, m)) = Range(s) \cup {m}
<1>1. /\ Append(s, m) \in Seq(S) /\ Len(Append(s, m)) = Len(s) + 1 /\ Len(s) \in Nat
      /\ DOMAIN s = 1 .. Len(s) /\ DOMAIN Append(s, m) = 1 .. Len(s) + 1
      /\ \A i \in 1 .. Len(s) : Append(s, m)[i] = s[i]
      /\ Append(s, m)[Len(s) + 1] = m
  OBVIOUS
<1>2. \A i \in DOMAIN Append(s, m) : i \in DOMAIN s \/ i = Len(s) + 1
  BY <1>1
<1>3. DOMAIN s \subseteq DOMAIN Append(s, m) /\ Len(s) + 1 \in DOMAIN Append(s, m)
  BY <1>1
<1> QED  BY <1>1, <1>2, <1>3 DEF Range

\* The elements of the empty sequence.
LEMMA EmptyRange == Range(<<>>) = {}
BY DEF Range

\* A message that is sent is the only new one.
LEMMA X2Sent ==
    ASSUME WireTypes, NEW f \in Cells, NEW t, NEW m \in X2Messages, SendX2(f, t, m)
    PROVE  /\ x2' \in [Cells -> [Cells -> Seq(X2Messages)]]
           /\ \A c \in Cells, d \in Cells :
                Range(x2'[c][d]) \subseteq Range(x2[c][d]) \cup (IF c = f /\ d = t THEN {m} ELSE {})
<1>1. x2 \in [Cells -> [Cells -> Seq(X2Messages)]]
  BY DEF WireTypes
<1>2. CASE t \in Cells
  <2>1. x2[f][t] \in Seq(X2Messages)
    BY <1>1, <1>2
  <2>2. Append(x2[f][t], m) \in Seq(X2Messages)
        /\ Range(Append(x2[f][t], m)) = Range(x2[f][t]) \cup {m}
    BY <2>1, AppendRange
  <2>3. x2' = [x2 EXCEPT ![f][t] = Append(x2[f][t], m)]
    BY DEF SendX2
  <2> QED  BY <1>1, <1>2, <2>2, <2>3
<1>3. CASE t \notin Cells
  <2>1. x2' = x2
    BY <1>1, <1>3 DEF SendX2
  <2> QED  BY <1>1, <2>1
<1> QED  BY <1>2, <1>3

\* The message that is received was on its way.
LEMMA X2Received ==
    ASSUME WireTypes, NEW f \in Cells, NEW t \in Cells, NEW type, Received(f, t, type)
    PROVE  /\ x2[f][t] \in Seq(X2Messages) /\ x2[f][t] # <<>>
           /\ Head(x2[f][t]) \in Range(x2[f][t]) /\ Head(x2[f][t]) \in X2Messages
           /\ Head(x2[f][t]).type = type
<1>1. x2[f][t] \in Seq(X2Messages)
  BY DEF WireTypes
<1> QED  BY <1>1, TailRange DEF Received

\* A message that is taken leaves the others.
LEMMA X2Taken ==
    ASSUME WireTypes, NEW f \in Cells, NEW t \in Cells, x2[f][t] # <<>>, Taken(f, t)
    PROVE  /\ x2' \in [Cells -> [Cells -> Seq(X2Messages)]]
           /\ \A c \in Cells, d \in Cells : Range(x2'[c][d]) \subseteq Range(x2[c][d])
<1>1. x2 \in [Cells -> [Cells -> Seq(X2Messages)]] /\ x2[f][t] \in Seq(X2Messages)
  BY DEF WireTypes
<1>2. Tail(x2[f][t]) \in Seq(X2Messages) /\ Range(Tail(x2[f][t])) \subseteq Range(x2[f][t])
  BY <1>1, TailRange
<1>3. x2' = [x2 EXCEPT ![f][t] = Tail(x2[f][t])]
  BY DEF Taken
<1> QED  BY <1>1, <1>2, <1>3

\* A message that is taken and answered leaves the others and the answer.
LEMMA X2Answered ==
    ASSUME WireTypes, NEW f \in Cells, NEW t \in Cells, x2[f][t] # <<>>,
           NEW m \in X2Messages, TakenAndAnswered(f, t, m)
    PROVE  /\ x2' \in [Cells -> [Cells -> Seq(X2Messages)]]
           /\ \A c \in Cells, d \in Cells :
                Range(x2'[c][d]) \subseteq Range(x2[c][d]) \cup (IF c = t /\ d = f THEN {m} ELSE {})
<1> DEFINE y == [x2 EXCEPT ![f][t] = Tail(x2[f][t])]
<1>1. x2 \in [Cells -> [Cells -> Seq(X2Messages)]] /\ x2[f][t] \in Seq(X2Messages)
  BY DEF WireTypes
<1>2. Tail(x2[f][t]) \in Seq(X2Messages) /\ Range(Tail(x2[f][t])) \subseteq Range(x2[f][t])
  BY <1>1, TailRange
<1>3. /\ y \in [Cells -> [Cells -> Seq(X2Messages)]]
      /\ \A c \in Cells, d \in Cells : Range(y[c][d]) \subseteq Range(x2[c][d])
  BY <1>1, <1>2
<1>4. x2' = [y EXCEPT ![t][f] = Append(y[t][f], m)]
  BY DEF TakenAndAnswered
<1> HIDE DEF y
<1>5. y[t][f] \in Seq(X2Messages)
  BY <1>3
<1>6. Append(y[t][f], m) \in Seq(X2Messages) /\ Range(Append(y[t][f], m)) = Range(y[t][f]) \cup {m}
  BY <1>5, AppendRange
<1> QED  BY <1>3, <1>4, <1>6

\* An RRC message that is sent is the only new one.
LEMMA RrcSent ==
    ASSUME WireTypes, NEW u \in Ues, NEW m \in RrcMessages, SendRrc(u, m)
    PROVE  /\ down' \in [Ues -> Seq(RrcMessages)]
           /\ \A v \in Ues : Range(down'[v]) \subseteq Range(down[v]) \cup (IF v = u THEN {m} ELSE {})
<1>1. down \in [Ues -> Seq(RrcMessages)] /\ down[u] \in Seq(RrcMessages)
  BY DEF WireTypes
<1>2. Append(down[u], m) \in Seq(RrcMessages) /\ Range(Append(down[u], m)) = Range(down[u]) \cup {m}
  BY <1>1, AppendRange
<1>3. down' = [down EXCEPT ![u] = Append(down[u], m)]
  BY DEF SendRrc
<1> QED  BY <1>1, <1>2, <1>3

\* A command that is taken leaves the others.
LEMMA CommandTaken ==
    ASSUME IsABag(cmds), NEW m, cmds' = cmds (-) SetToBag({m})
    PROVE  IsABag(cmds') /\ BagToSet(cmds') \subseteq BagToSet(cmds)
<1>1. IsABag(SetToBag({m}))
  BY DEF IsABag, SetToBag
<1> QED  BY <1>1 DEF IsABag, SetToBag, BagToSet, (-)

\* AddUe finds an RNTI that was never handed out.
LEMMA NewRntiUnused ==
    ASSUME TypeOK, NEW t \in Cells, lastRnti[t] < MaxRnti
    PROVE  NewRnti(t) \in Rntis /\ NewRnti(t) > lastRnti[t]
<1> USE NrHandoverAssumption
<1> DEFINE Free(r) == /\ r > lastRnti[t] /\ ~HasUeManager(At(t, r))
                      /\ \A s \in lastRnti[t] + 1 .. r - 1 : HasUeManager(At(t, s))
<1>1. lastRnti[t] \in 0 .. MaxRnti
  BY DEF TypeOK
<1>2. lastRnti[t] + 1 \in Rntis
  BY <1>1 DEF Rntis
<1>3. ~HasUeManager(At(t, lastRnti[t] + 1))
  BY <1>1 DEF TypeOK, HasUeManager, At
<1>4. Free(lastRnti[t] + 1)
  BY <1>1, <1>3
<1>5. NewRnti(t) = CHOOSE r \in Rntis : Free(r)
  BY DEF NewRnti
<1> HIDE DEF Free
<1>6. NewRnti(t) \in Rntis /\ Free(NewRnti(t))
  BY <1>2, <1>4, <1>5
<1> QED  BY <1>6 DEF Free

-----------------------------------------------------------------------------
(* The initial state.                                                      *)

\* The UEs attached to a cell at first have different RNTIs, up to their number.
LEMMA FirstPlaces ==
    /\ \A c \in Cells : Cardinality({u \in Ues : Home[u] = c}) \in 0 .. MaxRnti
    /\ \A u \in Ues : /\ FirstPlace(u) \in Places
                      /\ FirstPlace(u).cell = Home[u]
                      /\ FirstPlace(u).rnti <= Cardinality({v \in Ues : Home[v] = Home[u]})
    /\ \A u \in Ues, w \in Ues : FirstPlace(u) = FirstPlace(w) => u = w
<1> USE NrHandoverAssumption
<1> DEFINE All(c) == {u \in Ues : Home[u] = c}
           Upto(u) == {v \in 1 .. u : Home[v] = Home[u]}
<1>1. IsFiniteSet(Ues) /\ Cardinality(Ues) = NumUes
  BY FS_Interval DEF Ues
<1>2. ASSUME NEW c \in Cells
      PROVE  IsFiniteSet(All(c)) /\ Cardinality(All(c)) \in 0 .. MaxRnti
  <2>1. All(c) \in SUBSET Ues
    OBVIOUS
  <2>2. IsFiniteSet(All(c)) /\ Cardinality(All(c)) <= NumUes
    BY <1>1, <2>1, FS_Subset
  <2>3. Cardinality(All(c)) \in Nat
    BY <2>2, FS_CardinalityType
  <2> QED  BY <2>2, <2>3
<1>3. ASSUME NEW u \in Ues
      PROVE  /\ IsFiniteSet(Upto(u)) /\ Cardinality(Upto(u)) \in Rntis
             /\ Cardinality(Upto(u)) <= Cardinality(All(Home[u]))
  <2>0. u \in 1 .. NumUes /\ Home[u] \in Cells
    BY DEF Ues
  <2>1. Upto(u) \in SUBSET All(Home[u])
    BY <2>0 DEF Ues
  <2>2. IsFiniteSet(Upto(u)) /\ Cardinality(Upto(u)) <= Cardinality(All(Home[u]))
    BY <1>2, <2>0, <2>1, FS_Subset
  <2>3. u \in Upto(u)
    BY <2>0
  <2>4. Cardinality(Upto(u)) \in Nat /\ Cardinality(Upto(u)) # 0
    BY <2>2, <2>3, FS_CardinalityType, FS_EmptySet
  <2>5. Cardinality(All(Home[u])) \in 0 .. MaxRnti
    BY <1>2, <2>0
  <2> HIDE DEF Upto, All
  <2> QED  BY <2>2, <2>4, <2>5 DEF Rntis
<1>4. ASSUME NEW u \in Ues, NEW w \in Ues, u < w, Home[u] = Home[w]
      PROVE  Cardinality(Upto(u)) # Cardinality(Upto(w))
  <2>1. Upto(u) \in SUBSET Upto(w) /\ w \in Upto(w) /\ w \notin Upto(u)
    BY <1>4 DEF Ues
  <2> QED  BY <1>3, <2>1, FS_Subset
<1>5. \A u \in Ues : FirstPlace(u) = [cell |-> Home[u], rnti |-> Cardinality(Upto(u))] /\ Home[u] \in Cells
  BY DEF FirstPlace, At, Ues
<1>6. ASSUME NEW u \in Ues, NEW w \in Ues, FirstPlace(u) = FirstPlace(w) PROVE u = w
  <2>1. Home[u] = Home[w] /\ Cardinality(Upto(u)) = Cardinality(Upto(w))
    BY <1>5, <1>6
  <2>2. u < w \/ w < u \/ u = w
    BY DEF Ues
  <2> QED  BY <1>4, <2>1, <2>2
<1>7. ASSUME NEW u \in Ues
      PROVE  FirstPlace(u) \in Places /\ FirstPlace(u).cell = Home[u]
             /\ FirstPlace(u).rnti <= Cardinality(All(Home[u]))
  <2>1. Cardinality(Upto(u)) \in Rntis /\ Cardinality(Upto(u)) <= Cardinality(All(Home[u]))
    BY <1>3
  <2> HIDE DEF Upto, All
  <2> QED  BY <1>5, <2>1 DEF Places
<1> QED  BY <1>2, <1>6, <1>7

\* The parts of TypeOK.
MapTyped ==
    /\ DOMAIN ueMap \subseteq Places
    /\ \A p \in DOMAIN ueMap : ueMap[p] \in Managers /\ Used(p)
NodeTyped ==
    /\ lastRnti \in [Cells -> 0 .. MaxRnti]
    /\ ue \in [Ues -> [state : {"CONNECTED_NORMALLY", "CONNECTED_HANDOVER"}, at : Places]]
CoreTyped ==
    /\ mme \in [Ues -> Cells]
    /\ imsiRnti \in [Cells -> [Ues -> Rntis \cup {0}]]
    /\ modify \in [Ues -> Nat]
RowsTyped ==
    /\ servingRow \in [Ues -> Places]
    /\ ueAt \in [Places -> Ues \cup {0}]
    /\ DOMAIN lmQueryCommands \subseteq Lms
    /\ \A l \in DOMAIN lmQueryCommands :
          /\ lmQueryCommands[l] \subseteq HandoverCommands
          /\ \A m, n \in lmQueryCommands[l] : m.ue = n.ue => m = n
FlagsTyped == expired \in BOOLEAN /\ abort \in Reasons \cup {"none"}

\* TypeOK is its parts.
LEMMA TypeParts == TypeOK <=> MapTyped /\ NodeTyped /\ CoreTyped /\ RowsTyped /\ FlagsTyped
BY DEF TypeOK, MapTyped, NodeTyped, CoreTyped, RowsTyped, FlagsTyped, Used, Range

\* Initially every UE has its first place and nobody else has it.
LEMMA InitOwners == Init => OwnersInv
<1> SUFFICES ASSUME Init PROVE OwnersInv
  OBVIOUS
<1> USE NrHandoverAssumption DEF Init, NrInit
<1> DEFINE First == {FirstPlace(u) : u \in Ues}
           own == [p \in Places |-> IF p \in First THEN CHOOSE u \in Ues : FirstPlace(u) = p ELSE 1]
<1>1. \A u \in Ues : own[FirstPlace(u)] = u
  BY FirstPlaces
<1>2. own \in [Places -> Ues]
  <2>1. 1 \in Ues
    BY DEF Ues
  <2>2. \A p \in First : (CHOOSE u \in Ues : FirstPlace(u) = p) \in Ues
    OBVIOUS
  <2> QED  BY <2>1, <2>2
<1>3. First \subseteq Places /\ Ues = 1 .. NumUes
  BY FirstPlaces DEF Ues
<1>4. \A u \in Ues : Used(FirstPlace(u))
  BY <1>3, FirstPlaces DEF Used, Ues
<1>5. DOMAIN ueMap = First /\ \A p \in First : ueMap[p] = Manager(own[p], "CONNECTED_NORMALLY")
  <2>1. \A p \in First : own[p] = CHOOSE u \in Ues : FirstPlace(u) = p
    BY <1>3
  <2>2. ueMap = [p \in First |-> Manager(CHOOSE u \in Ues : FirstPlace(u) = p, "CONNECTED_NORMALLY")]
    OBVIOUS
  <2> HIDE DEF First, own
  <2> QED  BY <2>1, <2>2
<1>6. \A p \in First : \E u \in Ues : p = FirstPlace(u) /\ own[p] = u
  BY <1>1
<1> HIDE DEF First, own
<1>7. MapTyped
  <2>1. ASSUME NEW p \in First PROVE ueMap[p] \in Managers /\ Used(p)
    <3>1. PICK u \in Ues : p = FirstPlace(u) /\ own[p] = u
      BY <1>6
    <3>2. Manager(u, "CONNECTED_NORMALLY") \in Managers
      BY DEF Manager, Managers, States, NoPlace, At
    <3> QED  BY <1>4, <1>5, <3>1, <3>2
  <2> QED  BY <1>3, <1>5, <2>1 DEF MapTyped
<1>8. NodeTyped
  BY <1>3, FirstPlaces DEF NodeTyped
<1>9. CoreTyped
  <2>1. \A u \in Ues : FirstPlace(u).rnti \in Rntis
    BY FirstPlaces DEF Places
  <2> QED  BY <1>3, <2>1 DEF CoreTyped
<1>10. RowsTyped
  <2>1. ASSUME NEW p \in Places PROVE (IF HasUeManager(p) THEN ueMap[p].imsi ELSE 0) \in Ues \cup {0}
    BY <1>7 DEF MapTyped, HasUeManager, Managers
  <2>2. ueAt \in [Places -> Ues \cup {0}]
    BY <2>1
  <2> QED  BY <2>2, FirstPlaces DEF RowsTyped, NoCommands
<1>11. FlagsTyped
  <2>1. expired \in BOOLEAN
    OBVIOUS
  <2>2. abort \in Reasons \cup {"none"}
    <3>1. abort = "none"
      OBVIOUS
    <3> HIDE DEF Init, NrInit
    <3> QED  BY <3>1
  <2> QED  BY <2>1, <2>2 DEF FlagsTyped
<1>12. WireTypes
  <2>1. IsABag(cmds) /\ BagToSet(cmds) = {}
    BY DEF EmptyBag, SetToBag, IsABag, BagToSet
  <2> QED  BY <2>1 DEF WireTypes
<1>13. MapOwned(own) /\ UeOwned(own)
  <2>1. MapOwned(own)
    <3>1. \A u : Manager(u, "CONNECTED_NORMALLY").imsi = u
      BY DEF Manager
    <3> HIDE DEF Init, NrInit
    <3>2. \A p \in First : Used(p) /\ ueMap[p].imsi = own[p]
      BY <1>4, <1>5, <1>6, <3>1
    <3> QED  BY <1>5, <3>2 DEF MapOwned, Mine
  <2>2. UeOwned(own)
    BY <1>1, <1>4 DEF UeOwned, Mine
  <2> QED  BY <2>1, <2>2
<1>14. RowsOwned(own)
  <2>1. \A u \in Ues : Mine(own, servingRow[u], u)
    BY <1>1, <1>4 DEF Mine
  <2>2. ASSUME NEW p \in Places, ueAt[p] # 0 PROVE Mine(own, p, ueAt[p])
    BY <1>13, <2>2 DEF MapOwned, HasUeManager
  <2>3. DOMAIN lmQueryCommands = {}
    BY DEF NoCommands
  <2> QED  BY <2>1, <2>2, <2>3 DEF RowsOwned
<1>15. CmdsOwned(own) /\ DownOwned(own) /\ X2Owned(own)
  <2>1. BagToSet(cmds) = {}
    BY DEF EmptyBag, SetToBag, BagToSet
  <2> QED  BY <2>1, EmptyRange DEF CmdsOwned, DownOwned, X2Owned
<1>16. Typed
  BY <1>7, <1>8, <1>9, <1>10, <1>11, <1>12, TypeParts DEF Typed
<1> QED  BY <1>2, <1>13, <1>14, <1>15, <1>16 DEF OwnersInv, Owned

-----------------------------------------------------------------------------
(* What steps do to the managers and the messages.                         *)

\* The managers stay, or one changes and stays its UE's, or one goes.
MapStep ==
    \/ ueMap' = ueMap
    \/ \E p \in DOMAIN ueMap, m \in Managers : m.imsi = ueMap[p].imsi /\ ueMap' = Put(p, m)
    \/ \E p : ueMap' = RemoveUe(p)

\* Every new X2 message is neither a request nor an acknowledgement, every new RRC
\* message no handover.
X2Step ==
    /\ x2' \in [Cells -> [Cells -> Seq(X2Messages)]]
    /\ \A c \in Cells, d \in Cells : \A m \in Range(x2'[c][d]) :
          m \in Range(x2[c][d]) \/ m.type \notin {"request", "ack"}
RrcStep ==
    /\ down' \in [Ues -> Seq(RrcMessages)]
    /\ \A u \in Ues : \A m \in Range(down'[u]) : m \in Range(down[u]) \/ m.type # "handover"

\* A step that hands out no RNTI keeps the managers typed and owned.
LEMMA MapKept ==
    ASSUME Typed, NEW own, MapOwned(own), MapStep, lastRnti' = lastRnti
    PROVE  MapTyped' /\ MapOwned(own)'
<1>1. MapTyped
  BY TypeParts DEF Typed
<1>2. CASE ueMap' = ueMap
  BY <1>1, <1>2 DEF MapTyped, MapOwned, Mine, Used
<1>3. ASSUME NEW p \in DOMAIN ueMap, NEW m \in Managers,
             m.imsi = ueMap[p].imsi, ueMap' = Put(p, m)
      PROVE  MapTyped' /\ MapOwned(own)'
  <2>1. DOMAIN ueMap' = DOMAIN ueMap
        /\ \A q \in DOMAIN ueMap : ueMap'[q] = IF q = p THEN m ELSE ueMap[q]
    BY <1>3 DEF Put
  <2> QED  BY <1>1, <1>3, <2>1 DEF MapTyped, MapOwned, Mine, Used
<1>4. ASSUME NEW p, ueMap' = RemoveUe(p)
      PROVE  MapTyped' /\ MapOwned(own)'
  <2>1. DOMAIN ueMap' \subseteq DOMAIN ueMap /\ \A q \in DOMAIN ueMap' : ueMap'[q] = ueMap[q]
    BY <1>4 DEF RemoveUe
  <2> QED  BY <1>1, <2>1 DEF MapTyped, MapOwned, Mine, Used
<1> QED  BY <1>2, <1>3, <1>4 DEF MapStep

\* Without new requests and acknowledgements the X2 messages stay owned.
LEMMA X2Kept ==
    ASSUME NEW own, X2Owned(own), X2Step, lastRnti' = lastRnti
    PROVE  X2Owned(own)'
BY DEF X2Owned, X2Step, RequestOwned, AckOwned, Mine, Used

\* Without new handovers the RRC messages stay owned.
LEMMA DownKept ==
    ASSUME NEW own, DownOwned(own), RrcStep, lastRnti' = lastRnti
    PROVE  DownOwned(own)'
BY DEF DownOwned, RrcStep, Mine, Used

\* The parts that a handler leaves alone.
LEMMA OthersKept ==
    ASSUME Typed, NEW own, Owned(own), lastRnti' = lastRnti
    PROVE  /\ UNCHANGED ueMap => MapTyped' /\ MapOwned(own)'
           /\ UNCHANGED ue => NodeTyped' /\ UeOwned(own)'
           /\ UNCHANGED coreVars => CoreTyped'
           /\ UNCHANGED ricVars => RowsTyped' /\ RowsOwned(own)' /\ issued' \in Nat
           /\ UNCHANGED up => up' \in [Ues -> Seq(Places)]
           /\ UNCHANGED down => down' \in [Ues -> Seq(RrcMessages)] /\ DownOwned(own)'
           /\ UNCHANGED x2 => x2' \in [Cells -> [Cells -> Seq(X2Messages)]] /\ X2Owned(own)'
           /\ UNCHANGED cmds => IsABag(cmds') /\ BagToSet(cmds') \subseteq HandoverCommands
                                /\ CmdsOwned(own)'
           /\ UNCHANGED <<expired, abort>> => FlagsTyped'
<1>1. MapTyped /\ NodeTyped /\ CoreTyped /\ RowsTyped /\ FlagsTyped /\ WireTypes
  BY TypeParts DEF Typed
<1>2. UNCHANGED ueMap => MapTyped' /\ MapOwned(own)'
  BY MapKept DEF Owned, MapStep
<1>3. UNCHANGED ue => NodeTyped' /\ UeOwned(own)'
  BY <1>1 DEF NodeTyped, Owned, UeOwned, Mine, Used
<1>4. UNCHANGED coreVars => CoreTyped'
  BY <1>1 DEF CoreTyped, coreVars
<1>5. UNCHANGED ricVars => RowsTyped' /\ RowsOwned(own)' /\ issued' \in Nat
  BY <1>1 DEF RowsTyped, ricVars, Owned, RowsOwned, Mine, Used, WireTypes
<1>6. UNCHANGED up => up' \in [Ues -> Seq(Places)]
  BY <1>1 DEF WireTypes
<1>7. UNCHANGED down => down' \in [Ues -> Seq(RrcMessages)] /\ DownOwned(own)'
  BY <1>1 DEF WireTypes, Owned, DownOwned, Mine, Used
<1>8. UNCHANGED x2 => x2' \in [Cells -> [Cells -> Seq(X2Messages)]] /\ X2Owned(own)'
  BY <1>1 DEF WireTypes, Owned, X2Owned, RequestOwned, AckOwned, Mine, Used
<1>9. UNCHANGED cmds => IsABag(cmds') /\ BagToSet(cmds') \subseteq HandoverCommands
                        /\ CmdsOwned(own)'
  BY <1>1 DEF WireTypes, Owned, CmdsOwned, Mine, Used
<1>10. UNCHANGED <<expired, abort>> => FlagsTyped'
  BY <1>1 DEF FlagsTyped
<1> QED  BY <1>2, <1>3, <1>4, <1>5, <1>6, <1>7, <1>8, <1>9, <1>10

\* All parts together.
LEMMA AllKept ==
    ASSUME NEW own,
           MapTyped', NodeTyped', CoreTyped', RowsTyped', FlagsTyped', issued' \in Nat,
           x2' \in [Cells -> [Cells -> Seq(X2Messages)]], down' \in [Ues -> Seq(RrcMessages)],
           up' \in [Ues -> Seq(Places)], IsABag(cmds'), BagToSet(cmds') \subseteq HandoverCommands,
           MapOwned(own)', UeOwned(own)', RowsOwned(own)', CmdsOwned(own)', DownOwned(own)',
           X2Owned(own)'
    PROVE  Typed' /\ Owned(own)'
<1>1. WireTypes'
  BY DEF WireTypes
<1>2. TypeOK'
  BY DEF TypeOK, MapTyped, NodeTyped, CoreTyped, RowsTyped, FlagsTyped, Used, Range
<1> QED  BY <1>1, <1>2 DEF Typed, Owned

\* A manager with another state, target, pending reconfiguration or timer is one.
LEMMA ManagerChanged ==
    ASSUME Typed, NEW p \in DOMAIN ueMap
    PROVE  /\ p \in Places /\ ueMap[p] \in Managers /\ ueMap[p].imsi \in Ues
           /\ p.cell \in Cells /\ p.rnti \in Rntis
BY TypeParts DEF Typed, MapTyped, Managers, Places

\* The end of the simulation leaves the managers, the UEs and the rows as they are.
LEMMA FatalKept ==
    ASSUME Typed, NEW own, Owned(own), NEW why \in Reasons, Fatal(why), UNCHANGED ricVars
    PROVE  Typed' /\ Owned(own)'
<1>1. /\ UNCHANGED <<lastRnti, ueMap, ue, mme, imsiRnti, expired>>
      /\ x2' = [c \in Cells |-> [d \in Cells |-> <<>>]]
      /\ down' = [u \in Ues |-> <<>>] /\ up' = [u \in Ues |-> <<>>]
      /\ modify' = [u \in Ues |-> 0] /\ cmds' = EmptyBag /\ abort' = why
  BY DEF Fatal, gnbVars
<1>2. CoreTyped'
  BY <1>1, TypeParts DEF Typed, CoreTyped
<1>3. FlagsTyped'
  <2>1. expired' \in BOOLEAN
    BY <1>1, TypeParts DEF Typed, FlagsTyped
  <2>2. abort' \in Reasons \cup {"none"}
    BY <1>1
  <2> QED  BY <2>1, <2>2 DEF FlagsTyped
<1>4. /\ x2' \in [Cells -> [Cells -> Seq(X2Messages)]] /\ down' \in [Ues -> Seq(RrcMessages)]
      /\ up' \in [Ues -> Seq(Places)]
  BY <1>1
<1>5. IsABag(cmds') /\ BagToSet(cmds') = {}
  BY <1>1 DEF EmptyBag, SetToBag, IsABag, BagToSet
<1>6. CmdsOwned(own)' /\ DownOwned(own)' /\ X2Owned(own)'
  BY <1>1, <1>5, EmptyRange DEF CmdsOwned, DownOwned, X2Owned
<1>7. /\ MapTyped' /\ MapOwned(own)' /\ NodeTyped' /\ UeOwned(own)'
      /\ RowsTyped' /\ RowsOwned(own)' /\ issued' \in Nat
  BY <1>1, OthersKept
<1> QED  BY <1>2, <1>3, <1>4, <1>5, <1>6, <1>7, AllKept

\* Switching to CONNECTED_NORMALLY sends at most a reconfiguration.
LEMMA SwitchSteps ==
    ASSUME Typed, NEW p \in DOMAIN ueMap, SwitchToConnectedNormally(p)
    PROVE  MapStep /\ RrcStep
<1> DEFINE m == ueMap[p]
<1>1. m \in Managers /\ m.imsi \in Ues /\ WireTypes
  BY ManagerChanged DEF Typed
<1>2. CASE m.pending
  <2> DEFINE n == [m EXCEPT !.state = "CONNECTION_RECONFIGURATION", !.pending = FALSE]
             r == [type |-> "reconfiguration"]
  <2>1. n \in Managers /\ n.imsi = m.imsi
    BY <1>1 DEF Managers, States
  <2>2. ueMap' = Put(p, n) /\ SendRrc(m.imsi, r)
    BY <1>2 DEF SwitchToConnectedNormally
  <2>3. r \in RrcMessages /\ r.type # "handover"
    BY DEF RrcMessages
  <2>4. MapStep
    BY <2>1, <2>2 DEF MapStep
  <2> HIDE DEF m, n, r
  <2>5. RrcStep
    BY <1>1, <2>2, <2>3, RrcSent DEF RrcStep
  <2> QED  BY <2>4, <2>5
<1>3. CASE ~m.pending
  <2> DEFINE n == [m EXCEPT !.state = "CONNECTED_NORMALLY"]
  <2>1. n \in Managers /\ n.imsi = m.imsi
    BY <1>1 DEF Managers, States
  <2>2. ueMap' = Put(p, n) /\ down' = down
    BY <1>3 DEF SwitchToConnectedNormally
  <2> QED  BY <1>1, <2>1, <2>2 DEF MapStep, RrcStep, WireTypes
<1> QED  BY <1>2, <1>3

\* A connection release is no handover.
LEMMA ReleaseSteps ==
    ASSUME Typed, NEW p \in DOMAIN ueMap, SendRrcConnectionRelease(p)
    PROVE  MapStep /\ RrcStep
<1>1. ueMap[p].imsi \in Ues /\ WireTypes
  BY ManagerChanged DEF Typed
<1>2. SendRrc(ueMap[p].imsi, [type |-> "release"]) /\ ueMap' = RemoveUe(p)
  BY DEF SendRrcConnectionRelease
<1> DEFINE r == [type |-> "release"]
<1>3. r \in RrcMessages /\ r.type # "handover"
  BY DEF RrcMessages
<1>4. SendRrc(ueMap[p].imsi, r)
  BY <1>2
<1> HIDE DEF r
<1> QED  BY <1>1, <1>2, <1>3, <1>4, RrcSent DEF MapStep, RrcStep

-----------------------------------------------------------------------------
(* The handlers keep types and ownership.                                  *)

\* The source gNB, at a command: the request it sends is for the UE of the place.
LEMMA CommandKept ==
    ASSUME Typed, NEW own, Owned(own), UNCHANGED ricVars,
           NEW m \in BagToSet(cmds), ReceiveCommand(m)
    PROVE  Typed' /\ Owned(own)'
<1> DEFINE p == At(m.cell, m.rnti)
<1>0. WireTypes /\ m \in HandoverCommands
  BY DEF Typed, WireTypes
<1>1. CASE Fatal("reconfiguring")
  BY <1>1, FatalKept DEF Reasons
<1>c. ASSUME cmds' = cmds (-) SetToBag({m}), lastRnti' = lastRnti
      PROVE  IsABag(cmds') /\ BagToSet(cmds') \subseteq HandoverCommands /\ CmdsOwned(own)'
  BY <1>0, <1>c, CommandTaken DEF WireTypes, Owned, CmdsOwned, Mine, Used
<1>2. CASE Drop(m)
  <2>1. /\ UNCHANGED <<lastRnti, ueMap, ue, down, up, x2, coreVars, expired, abort>>
        /\ cmds' = cmds (-) SetToBag({m})
    BY <1>2 DEF Drop, gnbVars, rrcVars
  <2> QED  BY <1>c, <2>1, OthersKept, AllKept
<1>3. CASE HasUeManager(p) /\ PrepareHandover(m)
  <2> DEFINE n == [ueMap[p] EXCEPT !.state = "HANDOVER_PREPARATION", !.target = At(m.to, 0)]
             r == [type |-> "request", old |-> m.rnti, imsi |-> ueMap[p].imsi]
  <2>1. /\ UNCHANGED <<lastRnti, ue, down, up, coreVars, expired, abort>>
        /\ cmds' = cmds (-) SetToBag({m})
        /\ ueMap' = Put(p, n) /\ SendX2(m.cell, m.to, r)
    BY <1>3 DEF PrepareHandover, rrcVars
  <2>2. p \in DOMAIN ueMap
    BY <1>3 DEF HasUeManager
  <2>3. ueMap[p] \in Managers /\ ueMap[p].imsi \in Ues
    BY <2>2, ManagerChanged
  <2>4. m.cell \in Cells /\ m.rnti \in Rntis /\ m.to \in Cells
    BY <1>0 DEF HandoverCommands
  <2>5. n \in Managers /\ n.imsi = ueMap[p].imsi
    BY <2>3, <2>4 DEF Managers, States, At
  <2>6. MapTyped' /\ MapOwned(own)'
    <3>1. MapStep
      BY <2>1, <2>2, <2>5 DEF MapStep
    <3> QED  BY <2>1, <3>1, MapKept DEF Owned
  <2>7. r \in X2Messages /\ r.type = "request" /\ r.old = m.rnti /\ r.imsi = ueMap[p].imsi
    BY <2>3, <2>4 DEF X2Messages
  <2>8. Mine(own, p, ueMap[p].imsi)
    BY <2>2 DEF Owned, MapOwned
  <2> HIDE DEF n, r
  <2>9. x2' \in [Cells -> [Cells -> Seq(X2Messages)]] /\ X2Owned(own)'
    <3>1. /\ x2' \in [Cells -> [Cells -> Seq(X2Messages)]]
          /\ \A c \in Cells, d \in Cells :
               Range(x2'[c][d]) \subseteq Range(x2[c][d]) \cup (IF c = m.cell /\ d = m.to THEN {r} ELSE {})
      BY <1>0, <2>1, <2>4, <2>7, X2Sent
    <3>2. RequestOwned(own, m.cell, r)
      BY <2>7, <2>8 DEF RequestOwned
    <3>3. ASSUME NEW c \in Cells, NEW d \in Cells, NEW x \in Range(x2'[c][d])
          PROVE  /\ x.type = "request" => RequestOwned(own, c, x)
                 /\ x.type = "ack" => AckOwned(own, c, d, x)
      <4>1. CASE x \in Range(x2[c][d])
        BY <4>1 DEF Owned, X2Owned
      <4>2. CASE x = r /\ c = m.cell
        BY <2>7, <3>2, <4>2
      <4> QED  BY <3>1, <3>3, <4>1, <4>2
    <3>4. X2Owned(own)'
      BY <2>1, <3>3 DEF X2Owned, RequestOwned, AckOwned, Mine, Used
    <3> QED  BY <3>1, <3>4
  <2> QED  BY <1>c, <2>1, <2>6, <2>9, OthersKept, AllKept
<1> QED  BY <1>1, <1>2, <1>3 DEF ReceiveCommand

\* The source gNB, at an acknowledgement: the UE is sent to a place of its own.
LEMMA AckKept ==
    ASSUME Typed, NEW own, Owned(own), UNCHANGED ricVars,
           NEW t \in Cells, NEW s \in Cells, RecvHandoverRequestAck(t, s)
    PROVE  Typed' /\ Owned(own)'
<1> DEFINE m == Head(x2[t][s])
           p == At(s, m.old)
           q == At(t, m.new)
<1>0. WireTypes /\ Received(t, s, "ack")
  BY DEF Typed, RecvHandoverRequestAck
<1>1. m \in Range(x2[t][s]) /\ m \in X2Messages /\ m.type = "ack" /\ x2[t][s] # <<>>
  BY <1>0, X2Received
<1>2. m.old \in Rntis /\ m.new \in Rntis
  BY <1>1 DEF X2Messages
<1>3. CASE Fatal("GetUeManager")
  BY <1>3, FatalKept DEF Reasons
<1>4. CASE ~Fatal("GetUeManager")
  <2> DEFINE n == [ueMap[p] EXCEPT !.state = "HANDOVER_LEAVING", !.target = q, !.timer = "leaving"]
             r == [type |-> "handover", at |-> q]
  <2>1. /\ UNCHANGED <<lastRnti, ue, up, coreVars, cmds, expired, abort>>
        /\ Taken(t, s) /\ p \in DOMAIN ueMap
        /\ ueMap' = Put(p, n) /\ SendRrc(ueMap[p].imsi, r)
    BY <1>4 DEF RecvHandoverRequestAck, HasUeManager
  <2>2. ueMap[p] \in Managers /\ ueMap[p].imsi \in Ues
    BY <2>1, ManagerChanged
  <2>3. n \in Managers /\ n.imsi = ueMap[p].imsi
    BY <1>2, <2>2 DEF Managers, States, At
  <2>4. MapTyped' /\ MapOwned(own)'
    <3>1. MapStep
      BY <2>1, <2>3 DEF MapStep
    <3> QED  BY <2>1, <3>1, MapKept DEF Owned
  <2>5. r \in RrcMessages /\ r.at = q
    BY <1>2 DEF RrcMessages, Places, At
  <2>6. Mine(own, q, ueMap[p].imsi)
    <3>1. AckOwned(own, t, s, m)
      BY <1>1 DEF Owned, X2Owned
    <3>2. Mine(own, p, ueMap[p].imsi)
      BY <2>1 DEF Owned, MapOwned
    <3> QED  BY <3>1, <3>2 DEF AckOwned, Mine
  <2>7. x2' \in [Cells -> [Cells -> Seq(X2Messages)]] /\ X2Owned(own)'
    <3>1. X2Step
      BY <1>0, <1>1, <2>1, X2Taken DEF X2Step
    <3> QED  BY <2>1, <3>1, X2Kept DEF Owned, X2Step
  <2> HIDE DEF m, p, q, n, r
  <2>8. down' \in [Ues -> Seq(RrcMessages)] /\ DownOwned(own)'
    <3>1. /\ down' \in [Ues -> Seq(RrcMessages)]
          /\ \A v \in Ues : Range(down'[v]) \subseteq Range(down[v])
                                            \cup (IF v = ueMap[p].imsi THEN {r} ELSE {})
      BY <1>0, <2>1, <2>2, <2>5, RrcSent
    <3> QED  BY <2>1, <2>5, <2>6, <3>1 DEF Owned, DownOwned, Mine, Used
  <2> QED  BY <2>1, <2>4, <2>7, <2>8, OthersKept, AllKept
<1> QED  BY <1>3, <1>4

\* A handler that hands out no place, moves no UE and sends no request, acknowledgement
\* or handover.
LEMMA QuietKept ==
    ASSUME Typed, NEW own, Owned(own), UNCHANGED <<lastRnti, ue, cmds, ricVars>>,
           MapStep, X2Step, RrcStep, up' \in [Ues -> Seq(Places)], CoreTyped', FlagsTyped'
    PROVE  Typed' /\ Owned(own)'
<1>1. MapTyped' /\ MapOwned(own)'
  BY MapKept DEF Owned
<1>2. X2Owned(own)' /\ DownOwned(own)'
  BY X2Kept, DownKept DEF Owned
<1> QED  BY <1>1, <1>2, OthersKept, AllKept DEF X2Step, RrcStep

\* A handler that leaves managers or messages alone.
LEMMA NoSteps ==
    ASSUME Typed
    PROVE  /\ UNCHANGED ueMap => MapStep
           /\ UNCHANGED x2 => X2Step
           /\ UNCHANGED down => RrcStep
           /\ UNCHANGED up => up' \in [Ues -> Seq(Places)]
           /\ UNCHANGED coreVars => CoreTyped'
           /\ UNCHANGED <<expired, abort>> => FlagsTyped'
<1>1. UNCHANGED coreVars => CoreTyped'
  BY TypeParts DEF Typed, CoreTyped, coreVars
<1>2. UNCHANGED <<expired, abort>> => FlagsTyped'
  BY TypeParts DEF Typed, FlagsTyped
<1>3. WireTypes
  BY DEF Typed
<1> QED  BY <1>1, <1>2, <1>3 DEF MapStep, X2Step, RrcStep, WireTypes

\* A timer that expires leaves the flags typed.
LEMMA ExpiredTyped ==
    ASSUME Typed, expired' = TRUE, UNCHANGED abort
    PROVE  FlagsTyped'
<1>1. expired' \in BOOLEAN
  OBVIOUS
<1>2. abort' \in Reasons \cup {"none"}
  BY TypeParts DEF Typed, FlagsTyped
<1> QED  BY <1>1, <1>2 DEF FlagsTyped

\* The source gNB, at a preparation failure.
LEMMA FailureKept ==
    ASSUME Typed, NEW own, Owned(own), UNCHANGED ricVars,
           NEW t \in Cells, NEW s \in Cells, RecvHandoverPreparationFailure(t, s)
    PROVE  Typed' /\ Owned(own)'
<1> DEFINE p == At(s, Head(x2[t][s]).old)
<1>0. WireTypes /\ Received(t, s, "failure") /\ x2[t][s] # <<>>
  BY DEF Typed, RecvHandoverPreparationFailure, Received
<1>1. CASE Fatal("RecvHandoverPreparationFailure")
  BY <1>1, FatalKept DEF Reasons
<1>2. CASE ~Fatal("RecvHandoverPreparationFailure")
  <2>1. /\ Taken(t, s)
        /\ UNCHANGED <<lastRnti, ue, up, coreVars, cmds, expired, abort>>
        /\ \/ UNCHANGED <<ueMap, down>>
           \/ p \in DOMAIN ueMap /\ (SwitchToConnectedNormally(p) \/ SendRrcConnectionRelease(p))
    BY <1>2 DEF RecvHandoverPreparationFailure, HasUeManager, gnbVars, rrcVars
  <2>2. X2Step
    BY <1>0, <2>1, X2Taken DEF X2Step
  <2>3. MapStep /\ RrcStep
    BY <2>1, NoSteps, SwitchSteps, ReleaseSteps
  <2> QED  BY <2>1, <2>2, <2>3, NoSteps, QuietKept
<1> QED  BY <1>1, <1>2

\* The source gNB, at the context release that ends a handover.
LEMMA ReleaseKept ==
    ASSUME Typed, NEW own, Owned(own), UNCHANGED ricVars,
           NEW t \in Cells, NEW s \in Cells, RecvUeContextRelease(t, s)
    PROVE  Typed' /\ Owned(own)'
<1>0. WireTypes /\ x2[t][s] # <<>>
  BY DEF Typed, RecvUeContextRelease, Received
<1>1. CASE Fatal("RecvUeContextRelease")
  BY <1>1, FatalKept DEF Reasons
<1>2. CASE ~Fatal("RecvUeContextRelease")
  <2>1. /\ Taken(t, s) /\ ueMap' = RemoveUe(At(s, Head(x2[t][s]).old))
        /\ UNCHANGED <<lastRnti, ue, down, up, coreVars, cmds, expired, abort>>
    BY <1>2 DEF RecvUeContextRelease, rrcVars
  <2>2. X2Step
    BY <1>0, <2>1, X2Taken DEF X2Step
  <2>3. MapStep
    BY <2>1 DEF MapStep
  <2> QED  BY <2>1, <2>2, <2>3, NoSteps, QuietKept
<1> QED  BY <1>1, <1>2

\* The source gNB, when the UE does not leave in time.
LEMMA LeavingKept ==
    ASSUME Typed, NEW own, Owned(own), UNCHANGED ricVars,
           NEW p \in DOMAIN ueMap, HandoverLeavingTimeout(p)
    PROVE  Typed' /\ Owned(own)'
<1> DEFINE t == ueMap[p].target
           m == [type |-> "cancel", old |-> p.rnti, new |-> t.rnti]
<1>0. WireTypes /\ ueMap[p] \in Managers /\ p.cell \in Cells /\ p.rnti \in Rntis
  BY ManagerChanged DEF Typed
<1>1. CASE Fatal("HandoverLeavingTimeout")
  BY <1>1, FatalKept DEF Reasons
<1>2. CASE ~Fatal("HandoverLeavingTimeout")
  <2>1. /\ SendX2(p.cell, t.cell, m) /\ SendRrcConnectionRelease(p) /\ expired' = TRUE
        /\ UNCHANGED <<lastRnti, ue, up, coreVars, cmds, abort>>
    BY <1>2 DEF HandoverLeavingTimeout
  <2>2. m \in X2Messages /\ m.type = "cancel"
    BY <1>0 DEF X2Messages, Managers
  <2> HIDE DEF t, m
  <2>3. X2Step
    BY <1>0, <2>1, <2>2, X2Sent DEF X2Step
  <2> QED  BY <2>1, <2>3, ReleaseSteps, ExpiredTyped, NoSteps, QuietKept
<1> QED  BY <1>1, <1>2

\* The target gNB, when the UE does not arrive in time.
LEMMA JoiningKept ==
    ASSUME Typed, NEW own, Owned(own), UNCHANGED ricVars,
           NEW p \in DOMAIN ueMap, HandoverJoiningTimeout(p)
    PROVE  Typed' /\ Owned(own)'
<1> DEFINE s == ueMap[p].source
           m == [type |-> "failure", old |-> s.rnti]
<1>0. WireTypes /\ ueMap[p] \in Managers /\ p.cell \in Cells
  BY ManagerChanged DEF Typed
<1>1. CASE Fatal("HandoverJoiningTimeout")
  BY <1>1, FatalKept DEF Reasons
<1>2. CASE ~Fatal("HandoverJoiningTimeout")
  <2>1. /\ SendX2(p.cell, s.cell, m) /\ ueMap' = RemoveUe(p) /\ expired' = TRUE
        /\ UNCHANGED <<lastRnti, ue, down, up, coreVars, cmds, abort>>
    BY <1>2 DEF HandoverJoiningTimeout, rrcVars
  <2>2. m \in X2Messages /\ m.type = "failure"
    <3>1. s \in Places \cup {NoPlace}
      BY <1>0 DEF Managers
    <3>2. s.rnti \in Rntis \cup {0}
      BY <3>1 DEF Places, NoPlace, At
    <3> QED  BY <3>2 DEF X2Messages
  <2> HIDE DEF s, m
  <2>3. X2Step
    BY <1>0, <2>1, <2>2, X2Sent DEF X2Step
  <2>4. MapStep
    BY <2>1 DEF MapStep
  <2> QED  BY <2>1, <2>3, <2>4, ExpiredTyped, NoSteps, QuietKept
<1> QED  BY <1>1, <1>2

\* The target gNB, at a cancel.
LEMMA CancelKept ==
    ASSUME Typed, NEW own, Owned(own), UNCHANGED ricVars,
           NEW s \in Cells, NEW t \in Cells, RecvHandoverCancel(s, t)
    PROVE  Typed' /\ Owned(own)'
<1> DEFINE p == At(t, Head(x2[s][t]).new)
<1>0. WireTypes /\ x2[s][t] # <<>>
  BY DEF Typed, RecvHandoverCancel, Received
<1>1. CASE Fatal("RecvHandoverCancel")
  BY <1>1, FatalKept DEF Reasons
<1>2. CASE ~Fatal("RecvHandoverCancel")
  <2>1. /\ Taken(s, t)
        /\ \/ ueMap' = ueMap
           \/ p \in DOMAIN ueMap /\ ueMap' = Put(p, [ueMap[p] EXCEPT !.timer = "none"])
        /\ UNCHANGED <<lastRnti, ue, down, up, coreVars, cmds, expired, abort>>
    BY <1>2 DEF RecvHandoverCancel, rrcVars, HasUeManager
  <2>2. X2Step
    BY <1>0, <2>1, X2Taken DEF X2Step
  <2>3. ASSUME p \in DOMAIN ueMap
        PROVE  LET n == [ueMap[p] EXCEPT !.timer = "none"]
               IN  n \in Managers /\ n.imsi = ueMap[p].imsi
    BY <2>3, ManagerChanged DEF Managers
  <2>4. MapStep
    BY <2>1, <2>3 DEF MapStep
  <2> QED  BY <2>1, <2>2, <2>4, NoSteps, QuietKept
<1> QED  BY <1>1, <1>2

\* The target gNB, when it refuses a request.
LEMMA RejectKept ==
    ASSUME Typed, NEW own, Owned(own), UNCHANGED ricVars,
           NEW s \in Cells, NEW t \in Cells, RejectHandoverRequest(s, t)
    PROVE  Typed' /\ Owned(own)'
<1> DEFINE m == [type |-> "failure", old |-> Head(x2[s][t]).old]
<1>1. WireTypes /\ Received(s, t, "request") /\ TakenAndAnswered(s, t, m)
      /\ UNCHANGED <<ueMap, lastRnti, ue, down, up, coreVars, cmds, expired, abort>>
  BY DEF Typed, RejectHandoverRequest, Refuse, gnbVars, rrcVars
<1>2. m \in X2Messages /\ m.type = "failure" /\ x2[s][t] # <<>>
  BY <1>1, X2Received DEF X2Messages
<1> HIDE DEF m
<1>3. X2Step
  BY <1>1, <1>2, X2Answered DEF X2Step
<1> QED  BY <1>1, <1>3, NoSteps, QuietKept

\* A gNB that hands out another RNTI has not handed out fewer.
LEMMA UsedGrows ==
    ASSUME lastRnti \in [Cells -> 0 .. MaxRnti], lastRnti' \in [Cells -> 0 .. MaxRnti],
           \A c \in Cells : lastRnti[c] <= lastRnti'[c]
    PROVE  \A p \in Places : Used(p) => Used(p)'
<1> SUFFICES ASSUME NEW p \in Places, Used(p) PROVE Used(p)'
  OBVIOUS
<1>1. p.cell \in Cells /\ p.rnti \in Int
  BY DEF Places, Rntis
<1>2. lastRnti[p.cell] \in Int /\ lastRnti'[p.cell] \in Int /\ lastRnti[p.cell] <= lastRnti'[p.cell]
  BY <1>1
<1> QED  BY <1>1, <1>2 DEF Used

\* What managers and X2 messages mention before a step still agrees with own2 after it.
MapKeeps(own2) == \A p \in DOMAIN ueMap : own2[p] = ueMap[p].imsi /\ Used(p)'
X2Keeps(own2) ==
    \A c \in Cells, d \in Cells : \A m \in Range(x2[c][d]) :
        /\ m.type = "request" => /\ own2[At(c, m.old)] = m.imsi
                                 /\ Used(At(c, m.old))'
        /\ m.type = "ack" => /\ own2[At(c, m.new)] = own2[At(d, m.old)]
                             /\ Used(At(c, m.new))' /\ Used(At(d, m.old))'

\* When a gNB hands out an RNTI, what it handed out before stays with its UE.
LEMMA OlderKept ==
    ASSUME Typed, NEW own, Owned(own), NEW own2, UNCHANGED <<ue, down, cmds, ricVars>>,
           lastRnti' \in [Cells -> 0 .. MaxRnti],
           \A p \in Places : Used(p) => Used(p)' /\ own2[p] = own[p]
    PROVE  /\ NodeTyped' /\ UeOwned(own2)' /\ RowsOwned(own2)' /\ CmdsOwned(own2)' /\ DownOwned(own2)'
           /\ MapKeeps(own2) /\ X2Keeps(own2)
<1>0. MapTyped /\ NodeTyped /\ RowsTyped /\ WireTypes
  BY TypeParts DEF Typed
<1>1. NodeTyped'
  BY <1>0 DEF NodeTyped
<1>2. UeOwned(own2)'
  BY <1>0 DEF NodeTyped, Owned, UeOwned, Mine, Used
<1>3. RowsOwned(own2)'
  <2>1. \A l \in DOMAIN lmQueryCommands : \A m \in lmQueryCommands[l] : At(m.cell, m.rnti) \in Places
    BY <1>0 DEF RowsTyped, HandoverCommands, Places, At
  <2> QED  BY <1>0, <2>1 DEF RowsTyped, Owned, RowsOwned, Mine, Used, ricVars
<1>4. CmdsOwned(own2)'
  <2>1. \A m \in BagToSet(cmds) : At(m.cell, m.rnti) \in Places
    BY <1>0 DEF WireTypes, HandoverCommands, Places, At
  <2> QED  BY <2>1 DEF Owned, CmdsOwned, Mine, Used
<1>5. DownOwned(own2)'
  <2>1. ASSUME NEW u \in Ues, NEW m \in Range(down[u]), m.type = "handover" PROVE m.at \in Places
    <3>1. down[u] \in Seq(RrcMessages)
      BY <1>0 DEF WireTypes
    <3>2. m \in RrcMessages
      BY <3>1 DEF Range
    <3> QED  BY <2>1, <3>2 DEF RrcMessages
  <2> QED  BY <2>1 DEF Owned, DownOwned, Mine, Used
<1>6. MapKeeps(own2)
  BY <1>0 DEF MapKeeps, MapTyped, Owned, MapOwned, Mine
<1>7. ASSUME NEW c \in Cells, NEW d \in Cells, NEW m \in Range(x2[c][d])
      PROVE  /\ m.type = "request" => /\ own2[At(c, m.old)] = m.imsi
                                      /\ Used(At(c, m.old))'
             /\ m.type = "ack" => /\ own2[At(c, m.new)] = own2[At(d, m.old)]
                                  /\ Used(At(c, m.new))' /\ Used(At(d, m.old))'
  <2>1. x2[c][d] \in Seq(X2Messages)
    BY <1>0 DEF WireTypes
  <2>2. m \in X2Messages
    BY <2>1 DEF Range
  <2>3. ASSUME m.type = "request" PROVE own2[At(c, m.old)] = m.imsi /\ Used(At(c, m.old))'
    <3>1. At(c, m.old) \in Places
      BY <2>2, <2>3 DEF X2Messages, Places, At
    <3> QED  BY <2>3, <3>1 DEF Owned, X2Owned, RequestOwned, Mine
  <2>4. ASSUME m.type = "ack"
        PROVE  /\ own2[At(c, m.new)] = own2[At(d, m.old)]
               /\ Used(At(c, m.new))' /\ Used(At(d, m.old))'
    <3>1. At(c, m.new) \in Places /\ At(d, m.old) \in Places
      BY <2>2, <2>4 DEF X2Messages, Places, At
    <3> QED  BY <2>4, <3>1 DEF Owned, X2Owned, AckOwned, Mine
  <2> QED  BY <2>3, <2>4
<1>8. X2Keeps(own2)
  BY <1>7 DEF X2Keeps
<1> QED  BY <1>1, <1>2, <1>3, <1>4, <1>5, <1>6, <1>8

\* The target gNB, when no preamble is left: the RNTI is lost, nobody has it.
LEMMA NoPreambleKept ==
    ASSUME Typed, NEW own, Owned(own), UNCHANGED ricVars,
           NEW s \in Cells, NEW t \in Cells, NoPreambleLeft(s, t)
    PROVE  Typed' /\ Owned(own)'
<1> USE NrHandoverAssumption
<1> DEFINE m == [type |-> "failure", old |-> Head(x2[s][t]).old]
           r == NewRnti(t)
<1>1. /\ WireTypes /\ Received(s, t, "request") /\ TakenAndAnswered(s, t, m)
      /\ lastRnti[t] < MaxRnti /\ lastRnti' = [lastRnti EXCEPT ![t] = r]
      /\ UNCHANGED <<ueMap, ue, down, up, coreVars, cmds, expired, abort>>
  BY DEF Typed, NoPreambleLeft, Refuse, rrcVars
<1>2. r \in Rntis /\ r > lastRnti[t]
  BY <1>1, NewRntiUnused DEF Typed
<1>3. m \in X2Messages /\ m.type = "failure" /\ x2[s][t] # <<>>
  BY <1>1, X2Received DEF X2Messages
<1>4. MapTyped /\ NodeTyped /\ RowsTyped
  BY TypeParts DEF Typed
<1>5. lastRnti' \in [Cells -> 0 .. MaxRnti] /\ \A c \in Cells : lastRnti[c] <= lastRnti'[c]
  BY <1>1, <1>2, <1>4 DEF NodeTyped, Rntis
<1>6. \A p \in Places : Used(p) => Used(p)'
  BY <1>4, <1>5, UsedGrows DEF NodeTyped
<1> HIDE DEF m, r
<1>7. X2Step
  BY <1>1, <1>3, X2Answered DEF X2Step
<1>8. /\ NodeTyped' /\ UeOwned(own)' /\ RowsOwned(own)' /\ CmdsOwned(own)' /\ DownOwned(own)'
       /\ MapKeeps(own) /\ X2Keeps(own)
  BY <1>1, <1>5, <1>6, OlderKept
<1>9. MapTyped' /\ MapOwned(own)'
  BY <1>1, <1>4, <1>5, <1>8 DEF MapKeeps, MapTyped, MapOwned, Mine
<1>10. X2Owned(own)'
  <2> SUFFICES ASSUME NEW c \in Cells, NEW d \in Cells, NEW x \in Range(x2'[c][d]),
                      x.type \in {"request", "ack"}
               PROVE  /\ x.type = "request" => RequestOwned(own, c, x)'
                      /\ x.type = "ack" => AckOwned(own, c, d, x)'
    BY DEF X2Owned
  <2>1. x \in Range(x2[c][d])
    BY <1>7 DEF X2Step
  <2> QED  BY <1>8, <2>1 DEF X2Keeps, RequestOwned, AckOwned, Mine
<1>11. CoreTyped' /\ FlagsTyped' /\ RowsTyped' /\ issued' \in Nat
  BY <1>1, <1>4, NoSteps DEF RowsTyped, ricVars, WireTypes
<1>12. /\ down' \in [Ues -> Seq(RrcMessages)] /\ up' \in [Ues -> Seq(Places)]
       /\ IsABag(cmds') /\ BagToSet(cmds') \subseteq HandoverCommands
  BY <1>1 DEF WireTypes
<1> QED  BY <1>7, <1>9, <1>10, <1>11, <1>8, <1>12, AllKept DEF X2Step

\* The target gNB, when it admits a UE: the new place is the UE's from now on.
LEMMA RequestKept ==
    ASSUME Typed, NEW own \in [Places -> Ues], Owned(own), UNCHANGED ricVars,
           NEW s \in Cells, NEW t \in Cells, RecvHandoverRequest(s, t)
    PROVE  Typed' /\ \E own2 \in [Places -> Ues] : Owned(own2)'
<1> USE NrHandoverAssumption
<1>1. /\ WireTypes /\ Received(s, t, "request") /\ lastRnti[t] < MaxRnti
      /\ UNCHANGED <<ue, down, up, coreVars, cmds, expired, abort>>
  BY DEF Typed, RecvHandoverRequest, rrcVars
<1>2. PICK m \in Range(x2[s][t]) : m = Head(x2[s][t]) /\ m \in X2Messages /\ m.type = "request"
  BY <1>1, X2Received
<1>3. PICK r \in Rntis : r = NewRnti(t) /\ r > lastRnti[t]
  BY <1>1, NewRntiUnused DEF Typed
<1> DEFINE p == At(t, r)
           own2 == [own EXCEPT ![p] = m.imsi]
           n == [Manager(m.imsi, "HANDOVER_JOINING") EXCEPT
                    !.source = At(s, m.old), !.pending = TRUE, !.timer = "joining"]
           a == [type |-> "ack", old |-> m.old, new |-> r]
<1>4. /\ TakenAndAnswered(s, t, a) /\ x2[s][t] # <<>> /\ ueMap' = Put(p, n)
      /\ lastRnti' = [lastRnti EXCEPT ![t] = r]
  <2>1. p.rnti = r
    BY DEF At
  <2> QED  BY <1>2, <1>3, <2>1 DEF RecvHandoverRequest, Received
<1>5. MapTyped /\ NodeTyped /\ RowsTyped
  BY TypeParts DEF Typed
<1>6. lastRnti' \in [Cells -> 0 .. MaxRnti] /\ \A c \in Cells : lastRnti[c] <= lastRnti'[c]
  BY <1>3, <1>4, <1>5 DEF NodeTyped, Rntis
<1>7. m.old \in Rntis /\ m.imsi \in Ues
  BY <1>2 DEF X2Messages
<1>8. p \in Places /\ p.cell = t /\ p.rnti = r
  BY <1>3 DEF Places, At
<1>9. own2 \in [Places -> Ues] /\ own2[p] = m.imsi
  BY <1>7, <1>8
<1>10. ~Used(p) /\ Used(p)'
  <2>1. lastRnti[t] \in Int /\ r \in Int /\ lastRnti'[t] = r
    BY <1>3, <1>4, <1>5 DEF NodeTyped, Rntis
  <2> QED  BY <1>3, <1>8, <2>1 DEF Used
<1>11. \A q \in Places : Used(q) => Used(q)' /\ own2[q] = own[q]
  BY <1>5, <1>6, <1>10, UsedGrows DEF NodeTyped
<1>12. n \in Managers /\ n.imsi = m.imsi
  BY <1>7 DEF Managers, Manager, States, NoPlace, At, Places
<1>13. a \in X2Messages /\ a.type = "ack" /\ a.old = m.old /\ At(t, a.new) = p
  BY <1>7 DEF X2Messages
<1> HIDE DEF p, own2, n, a
<1>14. /\ NodeTyped' /\ UeOwned(own2)' /\ RowsOwned(own2)' /\ CmdsOwned(own2)' /\ DownOwned(own2)'
       /\ MapKeeps(own2) /\ X2Keeps(own2)
  BY <1>1, <1>6, <1>11, OlderKept
<1>15. own2[At(s, m.old)] = m.imsi /\ Used(At(s, m.old))'
  BY <1>2, <1>14 DEF X2Keeps
<1>16. MapTyped' /\ MapOwned(own2)'
  <2>1. DOMAIN ueMap' = DOMAIN ueMap \cup {p}
        /\ \A q \in DOMAIN ueMap' : ueMap'[q] = IF q = p THEN n ELSE ueMap[q]
    BY <1>4 DEF Put
  <2>2. \A q \in DOMAIN ueMap : own2[q] = ueMap[q].imsi /\ Used(q)'
    BY <1>14 DEF MapKeeps
  <2> QED  BY <1>5, <1>8, <1>9, <1>10, <1>12, <2>1, <2>2 DEF MapTyped, MapOwned, Mine
<1>17. /\ x2' \in [Cells -> [Cells -> Seq(X2Messages)]]
       /\ \A c \in Cells, d \in Cells :
            Range(x2'[c][d]) \subseteq Range(x2[c][d]) \cup (IF c = t /\ d = s THEN {a} ELSE {})
  BY <1>1, <1>4, <1>13, X2Answered
<1>18. X2Owned(own2)'
  <2> SUFFICES ASSUME NEW c \in Cells, NEW d \in Cells, NEW x \in Range(x2'[c][d])
               PROVE  /\ x.type = "request" => RequestOwned(own2, c, x)'
                      /\ x.type = "ack" => AckOwned(own2, c, d, x)'
    BY DEF X2Owned
  <2>1. CASE x \in Range(x2[c][d])
    BY <1>14, <2>1 DEF X2Keeps, RequestOwned, AckOwned, Mine
  <2>2. CASE x = a /\ c = t /\ d = s
    BY <1>9, <1>10, <1>13, <1>15, <2>2 DEF AckOwned, Mine
  <2> QED  BY <1>17, <2>1, <2>2
<1>19. CoreTyped' /\ FlagsTyped' /\ RowsTyped' /\ issued' \in Nat
  BY <1>1, <1>5, NoSteps DEF RowsTyped, ricVars, WireTypes
<1>20. /\ down' \in [Ues -> Seq(RrcMessages)] /\ up' \in [Ues -> Seq(Places)]
       /\ IsABag(cmds') /\ BagToSet(cmds') \subseteq HandoverCommands
  BY <1>1 DEF WireTypes
<1>21. Typed' /\ Owned(own2)'
  BY <1>16, <1>17, <1>18, <1>14, <1>19, <1>20, AllKept
<1> QED  BY <1>9, <1>21

\* The gNB a reconfiguration is completed at, and the path switch it may start.
LEMMA CompletedKept ==
    ASSUME Typed, NEW own, Owned(own), UNCHANGED ricVars,
           NEW u \in Ues, RecvReconfigurationCompleted(u)
    PROVE  Typed' /\ Owned(own)'
<1> DEFINE p == Head(up[u])
           v == ueMap[p].imsi
           n == [ueMap[p] EXCEPT !.state = "HANDOVER_PATH_SWITCH", !.timer = "none"]
<1>0. WireTypes /\ up[u] # <<>> /\ up \in [Ues -> Seq(Places)] /\ CoreTyped
  BY TypeParts DEF Typed, RecvReconfigurationCompleted, WireTypes
<1>1. CASE Fatal("GetUeManager") \/ Fatal("RecvRrcConnectionReconfigurationCompleted")
  <2>1. "GetUeManager" \in Reasons /\ "RecvRrcConnectionReconfigurationCompleted" \in Reasons
    BY DEF Reasons
  <2> QED  BY <1>1, <2>1, FatalKept
<1>2. CASE ~Fatal("GetUeManager") /\ ~Fatal("RecvRrcConnectionReconfigurationCompleted")
  <2>1. /\ p \in DOMAIN ueMap /\ up' = [up EXCEPT ![u] = Tail(up[u])]
        /\ UNCHANGED <<lastRnti, ue, x2, cmds, expired, abort>>
        /\ \/ /\ ueMap' = Put(p, n) /\ UNCHANGED down
              /\ imsiRnti' = [imsiRnti EXCEPT ![p.cell][v] = p.rnti]
              /\ mme' = [mme EXCEPT ![v] = p.cell]
              /\ modify' = [modify EXCEPT ![v] = modify[v] + 1]
           \/ SwitchToConnectedNormally(p) /\ UNCHANGED coreVars
           \/ UNCHANGED <<ueMap, down, coreVars>>
    BY <1>2 DEF RecvReconfigurationCompleted, HasUeManager
  <2>2. ueMap[p] \in Managers /\ v \in Ues /\ p.cell \in Cells /\ p.rnti \in Rntis
    BY <2>1, ManagerChanged
  <2>3. up' \in [Ues -> Seq(Places)]
    <3>1. Tail(up[u]) \in Seq(Places)
      BY <1>0, TailRange
    <3> QED  BY <1>0, <2>1, <3>1
  <2>4. n \in Managers /\ n.imsi = v
    BY <2>2 DEF Managers, States
  <2> HIDE DEF p, v, n
  <2>5. CoreTyped'
    <3>1. CASE UNCHANGED coreVars
      BY <3>1, NoSteps
    <3>2. CASE /\ imsiRnti' = [imsiRnti EXCEPT ![p.cell][v] = p.rnti]
               /\ mme' = [mme EXCEPT ![v] = p.cell]
               /\ modify' = [modify EXCEPT ![v] = modify[v] + 1]
      <4>1. mme' \in [Ues -> Cells] /\ modify' \in [Ues -> Nat]
        BY <1>0, <2>2, <3>2 DEF CoreTyped
      <4>2. imsiRnti' \in [Cells -> [Ues -> Rntis \cup {0}]]
        BY <1>0, <2>2, <3>2 DEF CoreTyped
      <4> QED  BY <4>1, <4>2 DEF CoreTyped
    <3> QED  BY <2>1, <3>1, <3>2
  <2>6. MapStep /\ RrcStep
    <3>1. v = ueMap[p].imsi
      BY DEF v
    <3> QED  BY <2>1, <2>4, <3>1, NoSteps, SwitchSteps DEF MapStep
  <2> QED  BY <2>1, <2>3, <2>5, <2>6, NoSteps, QuietKept
<1> QED  BY <1>1, <1>2

\* The target gNB, when the core has switched the path.
LEMMA PathSwitchKept ==
    ASSUME Typed, NEW own, Owned(own), UNCHANGED ricVars,
           NEW u \in Ues, PathSwitchRequestAcknowledge(u)
    PROVE  Typed' /\ Owned(own)'
<1> DEFINE p == At(mme[u], imsiRnti[mme[u]][u])
           s == ueMap[p].source
           m == [type |-> "release", old |-> s.rnti, new |-> p.rnti]
<1>0. WireTypes /\ CoreTyped /\ modify[u] \in Nat /\ modify[u] > 0
  BY TypeParts DEF Typed, CoreTyped, PathSwitchRequestAcknowledge
<1>1. CASE Fatal("GetUeManager") \/ Fatal("SendUeContextRelease")
  <2>1. "GetUeManager" \in Reasons /\ "SendUeContextRelease" \in Reasons
    BY DEF Reasons
  <2> QED  BY <1>1, <2>1, FatalKept
<1>2. CASE ~Fatal("GetUeManager") /\ ~Fatal("SendUeContextRelease")
  <2>1. /\ p \in DOMAIN ueMap /\ modify' = [modify EXCEPT ![u] = modify[u] - 1]
        /\ SendX2(p.cell, s.cell, m) /\ SwitchToConnectedNormally(p)
        /\ UNCHANGED <<lastRnti, ue, up, mme, imsiRnti, cmds, expired, abort>>
    BY <1>2 DEF PathSwitchRequestAcknowledge, HasUeManager
  <2>2. ueMap[p] \in Managers /\ p.cell \in Cells /\ p.rnti \in Rntis
    BY <2>1, ManagerChanged
  <2>3. m \in X2Messages /\ m.type = "release"
    <3>1. s \in Places \cup {NoPlace}
      BY <2>2 DEF Managers
    <3>2. s.rnti \in Rntis \cup {0}
      BY <3>1 DEF Places, NoPlace, At
    <3> QED  BY <2>2, <3>2 DEF X2Messages
  <2> HIDE DEF p, s, m
  <2>4. X2Step
    BY <1>0, <2>1, <2>2, <2>3, X2Sent DEF X2Step
  <2>5. CoreTyped'
    BY <1>0, <2>1 DEF CoreTyped
  <2> QED  BY <2>1, <2>4, <2>5, NoSteps, SwitchSteps, QuietKept
<1> QED  BY <1>1, <1>2

\* The UE, at a reconfiguration: it moves to the place a handover names.
LEMMA ReconfigurationKept ==
    ASSUME Typed, NEW own, Owned(own), UNCHANGED ricVars,
           NEW u \in Ues, RecvReconfiguration(u)
    PROVE  Typed' /\ Owned(own)'
<1> DEFINE m == Head(down[u])
<1>0. WireTypes /\ NodeTyped /\ down[u] # <<>> /\ down[u] \in Seq(RrcMessages)
  BY TypeParts DEF Typed, RecvReconfiguration, WireTypes
<1>1. m \in RrcMessages /\ m \in Range(down[u]) /\ Tail(down[u]) \in Seq(RrcMessages)
      /\ Range(Tail(down[u])) \subseteq Range(down[u])
  BY <1>0, TailRange
<1>2. CASE Fatal("RecvRrcConnectionReconfiguration") \/ Fatal("SetUeRrcSapProvider")
  <2>1. "RecvRrcConnectionReconfiguration" \in Reasons /\ "SetUeRrcSapProvider" \in Reasons
    BY DEF Reasons
  <2> QED  BY <1>2, <2>1, FatalKept
<1>3. CASE ~Fatal("RecvRrcConnectionReconfiguration") /\ ~Fatal("SetUeRrcSapProvider")
  <2>1. /\ down' = [down EXCEPT ![u] = Tail(down[u])]
        /\ UNCHANGED <<ueMap, lastRnti, x2, coreVars, cmds, expired, abort>>
        /\ \/ /\ m.type = "handover" /\ UNCHANGED up
              /\ ue' = [ue EXCEPT ![u] = [state |-> "CONNECTED_HANDOVER", at |-> m.at]]
           \/ up' = [up EXCEPT ![u] = Append(up[u], ue[u].at)] /\ UNCHANGED ue
    BY <1>3 DEF RecvReconfiguration, SendCompleted, gnbVars
  <2>2. down' \in [Ues -> Seq(RrcMessages)] /\ DownOwned(own)'
    <3>1. RrcStep
      BY <1>0, <1>1, <2>1 DEF RrcStep, WireTypes
    <3> QED  BY <2>1, <3>1, DownKept DEF Owned, RrcStep
  <2>3. CASE m.type = "handover" /\ UNCHANGED up
             /\ ue' = [ue EXCEPT ![u] = [state |-> "CONNECTED_HANDOVER", at |-> m.at]]
    <3>1. m.at \in Places /\ Mine(own, m.at, u)
      BY <1>1, <2>3 DEF RrcMessages, Owned, DownOwned
    <3>2. NodeTyped'
      BY <1>0, <2>1, <2>3, <3>1 DEF NodeTyped
    <3>3. UeOwned(own)'
      BY <1>0, <2>1, <2>3, <3>1 DEF NodeTyped, Owned, UeOwned, Mine, Used
    <3> QED  BY <2>1, <2>2, <2>3, <3>2, <3>3, OthersKept, AllKept
  <2>4. CASE up' = [up EXCEPT ![u] = Append(up[u], ue[u].at)] /\ UNCHANGED ue
    <3>1. up' \in [Ues -> Seq(Places)]
      BY <1>0, <2>4 DEF WireTypes, NodeTyped
    <3> QED  BY <2>1, <2>2, <2>4, <3>1, OthersKept, AllKept
  <2> QED  BY <2>1, <2>3, <2>4
<1> QED  BY <1>2, <1>3

\* The UE, when its random access has succeeded, failed, or when it is released.
LEMMA AccessKept ==
    ASSUME Typed, NEW own, Owned(own), UNCHANGED ricVars, NEW u \in Ues,
           NotifyRandomAccessSuccessful(u) \/ NotifyRandomAccessFailed(u) \/ RecvRelease(u)
    PROVE  Typed' /\ Owned(own)'
<1>0. WireTypes /\ NodeTyped
  BY TypeParts DEF Typed
<1>1. CASE Fatal("SetUeRrcSapProvider") \/ Fatal("RLF")
  <2>1. "SetUeRrcSapProvider" \in Reasons /\ "RLF" \in Reasons
    BY DEF Reasons
  <2> QED  BY <1>1, <2>1, FatalKept
<1>2. CASE ~Fatal("SetUeRrcSapProvider") /\ ~Fatal("RLF")
  <2>1. /\ up' = [up EXCEPT ![u] = Append(up[u], ue[u].at)]
        /\ ue' = [ue EXCEPT ![u].state = "CONNECTED_NORMALLY"]
        /\ UNCHANGED <<ueMap, lastRnti, down, x2, coreVars, cmds, expired, abort>>
    BY <1>2 DEF NotifyRandomAccessSuccessful, NotifyRandomAccessFailed, RecvRelease, SendCompleted,
                gnbVars
  <2>2. up' \in [Ues -> Seq(Places)]
    BY <1>0, <2>1 DEF WireTypes, NodeTyped
  <2>3. NodeTyped'
    BY <1>0, <2>1 DEF NodeTyped
  <2>4. UeOwned(own)'
    BY <1>0, <2>1 DEF NodeTyped, Owned, UeOwned, Mine, Used
  <2> QED  BY <2>1, <2>2, <2>3, <2>4, OthersKept, AllKept
<1> QED  BY <1>1, <1>2

\* A report stores the place the UE has.
LEMMA ReportKept ==
    ASSUME Typed, NEW own, Owned(own), NEW u \in Ues, SaveNrUeRsrpRsrq(u) \/ SaveNrUeCellInfo(u)
    PROVE  Typed' /\ Owned(own)'
<1>0. NodeTyped /\ RowsTyped /\ WireTypes
  BY TypeParts DEF Typed
<1>1. /\ UNCHANGED <<ueMap, lastRnti, ue, down, up, x2, coreVars, cmds, expired, abort, lmQueryCommands, issued>>
      /\ \/ servingRow' = [servingRow EXCEPT ![u] = ue[u].at] /\ UNCHANGED ueAt
         \/ ueAt' = [ueAt EXCEPT ![ue[u].at] = u] /\ UNCHANGED servingRow
  BY DEF SaveNrUeRsrpRsrq, SaveNrUeCellInfo, nrVars, gnbVars, rrcVars
<1>2. ue[u].at \in Places /\ Mine(own, ue[u].at, u)
  BY <1>0 DEF NodeTyped, Owned, UeOwned
<1>3. RowsTyped' /\ issued' \in Nat
  <2>1. issued' \in Nat
    BY <1>0, <1>1 DEF WireTypes
  <2>2. CASE servingRow' = [servingRow EXCEPT ![u] = ue[u].at] /\ UNCHANGED ueAt
    <3>1. servingRow' \in [Ues -> Places]
      BY <1>0, <1>2, <2>2 DEF RowsTyped
    <3> QED  BY <1>0, <1>1, <2>1, <2>2, <3>1 DEF RowsTyped
  <2>3. CASE ueAt' = [ueAt EXCEPT ![ue[u].at] = u] /\ UNCHANGED servingRow
    <3>1. ueAt' \in [Places -> Ues \cup {0}]
      BY <1>0, <1>2, <2>3 DEF RowsTyped
    <3> QED  BY <1>0, <1>1, <2>1, <2>3, <3>1 DEF RowsTyped
  <2> QED  BY <1>1, <2>1, <2>2, <2>3
<1>4. RowsOwned(own)'
  BY <1>0, <1>1, <1>2 DEF RowsTyped, Owned, RowsOwned, Mine, Used
<1> QED  BY <1>1, <1>3, <1>4, OthersKept, AllKept

-----------------------------------------------------------------------------
(* A batch of commands.                                                    *)

\* What adding two sets of commands to a bag does.
LEMMA CommandsAdded ==
    ASSUME NEW B, IsABag(B), NEW S, NEW T, NEW C, C = B (+) SetToBag(S) (+) SetToBag(T)
    PROVE  /\ IsABag(C) /\ BagToSet(C) = BagToSet(B) \cup S \cup T
           /\ BagToSet(C (-) B) = S \cup T
           /\ \A m \in S \cup T : m \notin S \cap T => (C (-) B)[m] = 1
<1> DEFINE In(m, X) == IF m \in X THEN 1 ELSE 0
           D == B (+) SetToBag(S)
<1>1. B \in [DOMAIN B -> Nat \ {0}]
  BY DEF IsABag
<1>2. DOMAIN D = DOMAIN B \cup S
      /\ \A m \in DOMAIN D : D[m] = (IF m \in DOMAIN B THEN B[m] ELSE 0) + In(m, S)
  BY DEF (+), SetToBag
<1>3. C = D (+) SetToBag(T)
  OBVIOUS
<1> HIDE DEF D
<1>4. DOMAIN C = DOMAIN D \cup T
      /\ \A m \in DOMAIN C : C[m] = (IF m \in DOMAIN D THEN D[m] ELSE 0) + In(m, T)
  BY <1>3 DEF (+), SetToBag
<1>5. C = [m \in DOMAIN C |-> C[m]]
  BY <1>3 DEF (+)
<1>6. DOMAIN C = DOMAIN B \cup S \cup T
      /\ \A m \in DOMAIN C : C[m] = (IF m \in DOMAIN B THEN B[m] ELSE 0) + In(m, S) + In(m, T)
  BY <1>1, <1>2, <1>4
<1>7. \A m \in DOMAIN C : C[m] \in Nat /\ C[m] > 0
  BY <1>1, <1>6
<1>8. IsABag(C)
  BY <1>5, <1>7 DEF IsABag
<1>9. /\ DOMAIN (C (-) B) = {m \in DOMAIN C : (IF m \in DOMAIN B THEN C[m] - B[m] ELSE C[m]) > 0}
      /\ \A m \in DOMAIN (C (-) B) : (C (-) B)[m] = IF m \in DOMAIN B THEN C[m] - B[m] ELSE C[m]
  BY DEF (-)
<1>10. \A m \in DOMAIN C : (IF m \in DOMAIN B THEN C[m] - B[m] ELSE C[m]) = In(m, S) + In(m, T)
  BY <1>1, <1>6
<1>11. DOMAIN (C (-) B) = S \cup T
  BY <1>6, <1>9, <1>10
<1> QED  BY <1>6, <1>8, <1>9, <1>10, <1>11 DEF BagToSet

\* An answer of a Logic Module: finitely many commands, one for a UE, at the places of
\* their UEs.
LEMMA CommandsTyped ==
    ASSUME Typed, NEW to \in Decisions
    PROVE  /\ IsFiniteSet(Commands(to)) /\ Commands(to) \subseteq HandoverCommands
           /\ \A m \in Commands(to) : At(m.cell, m.rnti) = servingRow[m.ue]
           /\ \A m, n \in Commands(to) : m.ue = n.ue => m = n
<1> USE NrHandoverAssumption
<1> DEFINE V == {v \in Ues : to[v] # 0}
           F(u) == [ue |-> u, cell |-> servingRow[u].cell, rnti |-> servingRow[u].rnti,
                    to |-> to[u]]
<1>1. Commands(to) = {F(u) : u \in V}
  BY DEF Commands
<1>2. IsFiniteSet(V)
  <2>1. IsFiniteSet(Ues)
    BY FS_Interval DEF Ues
  <2> QED  BY <2>1, FS_Subset
<1>3. IsFiniteSet(Commands(to))
  <2>1. [u \in V |-> F(u)] \in Surjection(V, Commands(to))
    BY <1>1 DEF Surjection
  <2> QED  BY <1>2, <2>1, FS_Surjection
<1>4. \A u \in V : u \in Ues /\ servingRow[u] \in Places /\ to[u] \in Cells
  BY TypeParts DEF Typed, RowsTyped, Decisions
<1>5. ASSUME NEW u \in V
      PROVE  /\ F(u).ue = u /\ F(u) \in HandoverCommands
             /\ At(F(u).cell, F(u).rnti) = servingRow[u]
  BY <1>4 DEF HandoverCommands, Places, At
<1> HIDE DEF F, V
<1> QED  BY <1>1, <1>3, <1>5

\* The Filter only leaves commands out.
LEMMA FilterSelects == ASSUME NEW batch PROVE Filter(batch) \subseteq batch
BY DEF Filter, FilterSingleCommandPerNode, FilterNoop

\* Answers that name places of their UEs.
Sound(own, collected) ==
    /\ DOMAIN collected \subseteq Lms
    /\ \A l \in DOMAIN collected :
          /\ collected[l] \subseteq HandoverCommands
          /\ \A m \in collected[l] : Mine(own, At(m.cell, m.rnti), m.ue)
          /\ \A m, n \in collected[l] : m.ue = n.ue => m = n

\* What is sent of them.
LEMMA SelectedKept ==
    ASSUME Typed, NEW own, Owned(own), NEW collected, Sound(own, collected),
           SendSelected(collected), UNCHANGED <<lastRnti, servingRow, ueAt>>
    PROVE  /\ IsABag(cmds') /\ BagToSet(cmds') \subseteq HandoverCommands /\ CmdsOwned(own)'
           /\ RowsTyped' /\ RowsOwned(own)'
<1> DEFINE batch == Batch(collected)
           selected == Filter(batch)
           S == {e.cmd : e \in {f \in selected : f.default = TRUE}}
           T == {e.cmd : e \in {f \in selected : f.default = FALSE}}
<1>1. cmds' = cmds (+) SetToBag(S) (+) SetToBag(T) /\ lmQueryCommands' = NoCommands
  BY DEF SendSelected
<1>2. WireTypes /\ RowsTyped
  BY TypeParts DEF Typed
<1>3. \A e \in batch : \E l \in DOMAIN collected : e.cmd \in collected[l]
  BY DEF Batch
<1>4. selected \subseteq batch
  BY FilterSelects
<1> HIDE DEF batch, selected
<1>5. \A m \in S \cup T : \E l \in DOMAIN collected : m \in collected[l]
  BY <1>3, <1>4
<1>6. \A m \in S \cup T : m \in HandoverCommands /\ Mine(own, At(m.cell, m.rnti), m.ue)
  BY <1>5 DEF Sound
<1> HIDE DEF S, T
<1>7. IsABag(cmds') /\ BagToSet(cmds') = BagToSet(cmds) \cup S \cup T
  BY <1>1, <1>2, CommandsAdded DEF WireTypes
<1>8. BagToSet(cmds') \subseteq HandoverCommands
  BY <1>2, <1>6, <1>7 DEF WireTypes
<1>9. CmdsOwned(own)'
  <2>1. \A m \in BagToSet(cmds) : Mine(own, At(m.cell, m.rnti), m.ue)
    BY DEF Owned, CmdsOwned
  <2> QED  BY <1>6, <1>7, <2>1 DEF CmdsOwned, Mine, Used
<1>10. DOMAIN lmQueryCommands' = {}
  BY <1>1 DEF NoCommands
<1>11. RowsTyped' /\ RowsOwned(own)'
  BY <1>2, <1>10 DEF RowsTyped, Owned, RowsOwned, Mine, Used
<1> QED  BY <1>7, <1>8, <1>9, <1>11

\* The processing event.
LEMMA BatchKept ==
    ASSUME Typed, NEW own, Owned(own), ProcessLmQueryCommands
    PROVE  Typed' /\ Owned(own)'
<1>1. /\ SendSelected(lmQueryCommands)
      /\ UNCHANGED <<ueMap, lastRnti, ue, down, up, x2, coreVars, expired, abort, servingRow, ueAt,
                     issued>>
  BY DEF ProcessLmQueryCommands, gnbVars, rrcVars
<1>2. RowsTyped /\ issued' \in Nat
  BY <1>1, TypeParts DEF Typed, WireTypes
<1>3. Sound(own, lmQueryCommands)
  BY <1>2 DEF Sound, RowsTyped, Owned, RowsOwned
<1>4. /\ IsABag(cmds') /\ BagToSet(cmds') \subseteq HandoverCommands /\ CmdsOwned(own)'
      /\ RowsTyped' /\ RowsOwned(own)'
  BY <1>1, <1>3, SelectedKept
<1> QED  BY <1>1, <1>2, <1>4, OthersKept, AllKept

\* An answer of a Logic Module is collected, or sent with the others.
LEMMA AnswerKept ==
    ASSUME Typed, NEW own, Owned(own), NEW lm \in Lms, NEW to \in Decisions,
           NEW inTime \in BOOLEAN, NotifyLmFinished(lm, to, inTime)
    PROVE  Typed' /\ Owned(own)'
<1> DEFINE collected == [l \in DOMAIN lmQueryCommands \cup {lm} |->
                           IF l = lm THEN Commands(to) ELSE lmQueryCommands[l]]
<1>1. /\ issued' = issued + Cardinality(Commands(to))
      /\ SendSelected(collected) \/ (lmQueryCommands' = collected /\ UNCHANGED cmds)
      /\ UNCHANGED <<ueMap, lastRnti, ue, down, up, x2, coreVars, expired, abort, servingRow, ueAt>>
  BY DEF NotifyLmFinished, gnbVars, rrcVars
<1>2. RowsTyped /\ WireTypes
  BY TypeParts DEF Typed
<1>3. issued' \in Nat
  <2>1. Cardinality(Commands(to)) \in Nat
    BY CommandsTyped, FS_CardinalityType
  <2> QED  BY <1>1, <1>2, <2>1 DEF WireTypes
<1>4. Sound(own, collected)
  <2>1. \A m \in Commands(to) : Mine(own, At(m.cell, m.rnti), m.ue)
    BY CommandsTyped DEF Owned, RowsOwned, HandoverCommands
  <2>2. ASSUME NEW l \in DOMAIN collected
        PROVE  /\ l \in Lms /\ collected[l] \subseteq HandoverCommands
               /\ \A m \in collected[l] : Mine(own, At(m.cell, m.rnti), m.ue)
               /\ \A m, n \in collected[l] : m.ue = n.ue => m = n
    <3>1. CASE l = lm
      <4>1. collected[l] = Commands(to)
        BY <3>1
      <4> HIDE DEF collected
      <4> QED  BY <2>1, <3>1, <4>1, CommandsTyped
    <3>2. CASE l # lm
      <4>1. l \in DOMAIN lmQueryCommands /\ collected[l] = lmQueryCommands[l]
        BY <3>2
      <4> HIDE DEF collected
      <4> QED  BY <1>2, <4>1 DEF RowsTyped, Owned, RowsOwned
    <3> QED  BY <3>1, <3>2
  <2> HIDE DEF collected
  <2> QED  BY <2>2 DEF Sound
<1> HIDE DEF collected
<1>5. CASE SendSelected(collected)
  <2>1. /\ IsABag(cmds') /\ BagToSet(cmds') \subseteq HandoverCommands /\ CmdsOwned(own)'
        /\ RowsTyped' /\ RowsOwned(own)'
    BY <1>1, <1>4, <1>5, SelectedKept
  <2> QED  BY <1>1, <1>3, <2>1, OthersKept, AllKept
<1>6. CASE lmQueryCommands' = collected /\ UNCHANGED cmds
  <2>1. RowsTyped' /\ RowsOwned(own)'
    BY <1>1, <1>2, <1>4, <1>6 DEF Sound, RowsTyped, Owned, RowsOwned, Mine, Used
  <2> QED  BY <1>1, <1>3, <1>6, <2>1, OthersKept, AllKept
<1> QED  BY <1>1, <1>5, <1>6

-----------------------------------------------------------------------------
(* The theorems.                                                           *)

\* Every step keeps the inductive invariant.
LEMMA NextOwners == OwnersInv /\ [Next]_vars => OwnersInv'
<1> SUFFICES ASSUME OwnersInv, [Next]_vars PROVE OwnersInv'
  OBVIOUS
<1>1. Typed
  BY DEF OwnersInv
<1>2. PICK own \in [Places -> Ues] : Owned(own)
  BY DEF OwnersInv
<1>3. ASSUME Typed' /\ Owned(own)' PROVE OwnersInv'
  BY <1>3 DEF OwnersInv
<1>4. CASE UNCHANGED vars
  <2>1. UNCHANGED <<ueMap, lastRnti, ue, down, up, x2, coreVars, cmds, expired, abort, ricVars>>
    BY <1>4 DEF vars, nrVars, gnbVars, rrcVars
  <2> QED  BY <1>1, <1>2, <1>3, <2>1, OthersKept, AllKept
<1>5. CASE Events /\ UNCHANGED ricVars
  <2>1. ASSUME NEW m \in BagToSet(cmds), ReceiveCommand(m) PROVE OwnersInv'
    BY <1>1, <1>2, <1>3, <1>5, <2>1, CommandKept
  <2>2. ASSUME NEW c \in Cells, NEW d \in Cells,
               \/ RecvHandoverRequestAck(c, d)
               \/ RecvHandoverPreparationFailure(c, d)
               \/ RecvUeContextRelease(c, d)
               \/ RejectHandoverRequest(c, d)
               \/ NoPreambleLeft(c, d)
               \/ RecvHandoverCancel(c, d)
        PROVE  OwnersInv'
    BY <1>1, <1>2, <1>3, <1>5, <2>2, AckKept, FailureKept, ReleaseKept, RejectKept, NoPreambleKept,
       CancelKept
  <2>3. ASSUME NEW c \in Cells, NEW d \in Cells, RecvHandoverRequest(c, d) PROVE OwnersInv'
    <3>1. Typed' /\ \E own2 \in [Places -> Ues] : Owned(own2)'
      BY <1>1, <1>2, <1>5, <2>3, RequestKept
    <3> QED  BY <3>1 DEF OwnersInv
  <2>4. ASSUME NEW u \in Ues,
               \/ RecvReconfigurationCompleted(u)
               \/ PathSwitchRequestAcknowledge(u)
               \/ RecvReconfiguration(u)
               \/ RecvRelease(u)
               \/ NotifyRandomAccessSuccessful(u)
               \/ NotifyRandomAccessFailed(u)
        PROVE  OwnersInv'
    BY <1>1, <1>2, <1>3, <1>5, <2>4, CompletedKept, PathSwitchKept, ReconfigurationKept, AccessKept
  <2> QED  BY <1>5, <2>1, <2>2, <2>3, <2>4 DEF Events
<1>6. CASE Timeouts /\ UNCHANGED ricVars
  BY <1>1, <1>2, <1>3, <1>6, LeavingKept, JoiningKept DEF Timeouts
<1>7. CASE Ric
  BY <1>1, <1>2, <1>3, <1>7, ReportKept, AnswerKept, BatchKept DEF Ric
<1> QED  BY <1>4, <1>5, <1>6, <1>7 DEF Next

\* The inductive invariant holds throughout.
LEMMA OwnersAlways == Spec => []OwnersInv
<1>1. Init => OwnersInv
  BY InitOwners
<1>2. OwnersInv /\ [Next]_vars => OwnersInv'
  BY NextOwners
<1> QED  BY <1>1, <1>2, PTL DEF Spec

\* Types: in particular no gNB ever has a UE under an RNTI above the last one it has
\* handed out, which is what makes AddUe's search find an RNTI that nobody had.
THEOREM TypeCorrect == Spec => []TypeOK
<1>1. OwnersInv => TypeOK
  BY DEF OwnersInv, Typed
<1> QED  BY <1>1, OwnersAlways, PTL

\* GetNrUeE2NodeIdFromCellInfo finds the UE a command was meant for or none,
\* however old the rows of the repository are.
THEOREM AffectedMeant == Spec => []AffectedIsMeant
<1>1. ASSUME OwnersInv PROVE AffectedIsMeant
  <2>1. PICK own \in [Places -> Ues] : Owned(own)
    BY <1>1 DEF OwnersInv
  <2>2. RowsTyped /\ WireTypes
    BY <1>1, TypeParts DEF OwnersInv, Typed
  <2> SUFFICES ASSUME NEW m \in BagToSet(cmds) \cup UNION Range(lmQueryCommands),
                      ueAt[At(m.cell, m.rnti)] # 0
               PROVE  ueAt[At(m.cell, m.rnti)] = m.ue
    BY DEF AffectedIsMeant, AffectedNode
  <2>3. m \in BagToSet(cmds) \/ \E l \in DOMAIN lmQueryCommands : m \in lmQueryCommands[l]
    BY DEF Range
  <2>4. m \in HandoverCommands
    BY <2>2, <2>3 DEF RowsTyped, WireTypes
  <2>5. At(m.cell, m.rnti) \in Places
    BY <2>4 DEF HandoverCommands, Places, At
  <2>6. Mine(own, At(m.cell, m.rnti), m.ue)
    BY <2>1, <2>3 DEF Owned, RowsOwned, CmdsOwned
  <2> QED  BY <2>1, <2>5, <2>6 DEF Owned, RowsOwned, Mine
<1> QED  BY <1>1, OwnersAlways, PTL

\* A command never starts the handover of another UE than the one it was meant for: the
\* place it names was never another UE's.
THEOREM RightUeMoved == Spec => RightUe
<1> DEFINE P == \A m \in BagToSet(cmds (-) cmds') :
                  LET p == At(m.cell, m.rnti)
                  IN  HasUeManager(p) /\ ueMap'[p] # ueMap[p] => ueMap[p].imsi = m.ue
<1>1. ASSUME OwnersInv PROVE P
  <2>1. PICK own \in [Places -> Ues] : Owned(own)
    BY <1>1 DEF OwnersInv
  <2>2. BagToSet(cmds (-) cmds') \subseteq BagToSet(cmds)
    BY DEF BagToSet, (-)
  <2> QED  BY <2>1, <2>2 DEF Owned, MapOwned, CmdsOwned, Mine, HasUeManager
<1>2. OwnersInv /\ [Next]_vars => [P]_vars
  BY <1>1
<1> QED  BY <1>2, OwnersAlways, PTL DEF Spec, RightUe

\* OranCmmSingleCommandPerNode: of the commands collected for a UE, maybe in several
\* cycles and at several places, one at a known place is sent if there is one: that of the
\* default LM, else the other's.
THEOREM SingleCommand == ASSUME Cmm = "single" PROVE Spec => []OneCommandPerNode
<1> DEFINE batch == Batch(lmQueryCommands)
           Known(u) == {e \in batch : e.cmd.ue = u /\ AffectedNode(e.cmd) # 0}
<1>1. ASSUME OwnersInv, AffectedIsMeant, NEW u \in Ues, Known(u) # {}
      PROVE  \E e \in Known(u) : Known(u) \cap Filter(batch) = {e}
  <2>1. RowsTyped
    BY <1>1, TypeParts DEF OwnersInv, Typed
  <2>2. \A e \in batch :
          /\ e.default \in BOOLEAN
          /\ LET l == IF e.default THEN "default" ELSE "other"
             IN  l \in DOMAIN lmQueryCommands /\ e.cmd \in lmQueryCommands[l]
          /\ e = [default |-> e.default, cmd |-> e.cmd]
    <3> SUFFICES ASSUME NEW e \in batch
                 PROVE  /\ e.default \in BOOLEAN
                        /\ LET l == IF e.default THEN "default" ELSE "other"
                           IN  l \in DOMAIN lmQueryCommands /\ e.cmd \in lmQueryCommands[l]
                        /\ e = [default |-> e.default, cmd |-> e.cmd]
      OBVIOUS
    <3>0. PICK l \in DOMAIN lmQueryCommands :
            \E m \in lmQueryCommands[l] : e = [default |-> l = "default", cmd |-> m]
      BY DEF Batch
    <3>1. PICK m \in lmQueryCommands[l] : e = [default |-> l = "default", cmd |-> m]
      BY <3>0
    <3>2. l = "default" \/ l = "other"
      BY <2>1 DEF RowsTyped, Lms
    <3> HIDE DEF batch
    <3>3. CASE l = "default"
      <4>1. e = [default |-> TRUE, cmd |-> m]
        BY <3>1, <3>3
      <4> QED  BY <3>3, <4>1
    <3>4. CASE l = "other"
      <4>1. (l = "default") = FALSE
        BY <3>4
      <4>2. e = [default |-> FALSE, cmd |-> m]
        BY <3>1, <4>1
      <4> QED  BY <3>4, <4>2
    <3> QED  BY <3>2, <3>3, <3>4
  <2>3. \A e \in batch : e.cmd.ue \in Nat /\ AffectedNode(e.cmd) \in {0, e.cmd.ue}
    <3>1. \A e \in batch : e.cmd \in UNION Range(lmQueryCommands)
      BY <2>2 DEF Range
    <3>2. \A e \in batch : e.cmd \in HandoverCommands
      BY <2>1, <2>2 DEF RowsTyped
    <3> QED  BY <1>1, <3>1, <3>2 DEF AffectedIsMeant, HandoverCommands, Ues
  <2>4. \A e \in batch, f \in batch : e.default = f.default /\ e.cmd.ue = f.cmd.ue => e = f
    BY <2>1, <2>2 DEF RowsTyped
  <2>5. \A e \in batch : e \in Filter(batch) <=>
          \A f \in batch : AffectedNode(f.cmd) = AffectedNode(e.cmd) => ~Prevails(f, e)
    BY DEF Filter, FilterSingleCommandPerNode
  <2> HIDE DEF batch
  <2>6. \A e \in Known(u) : e \in batch /\ e.cmd.ue = u /\ AffectedNode(e.cmd) = u /\ u # 0
    BY <2>3
  <2>7. PICK e \in Known(u) : e.default \/ \A f \in Known(u) : ~f.default
    BY <1>1
  <2>8. ASSUME NEW f \in batch, AffectedNode(f.cmd) = u PROVE f \in Known(u)
    BY <2>3, <2>6, <2>8
  <2>9. e \in Filter(batch)
    <3>1. ASSUME NEW f \in batch, AffectedNode(f.cmd) = AffectedNode(e.cmd) PROVE ~Prevails(f, e)
      <4>1. f \in Known(u) /\ f.cmd.ue = e.cmd.ue /\ f.cmd.ue \in Nat
        BY <2>3, <2>6, <2>8, <3>1
      <4>2. f.default \in BOOLEAN /\ e.default \in BOOLEAN
        BY <2>2, <2>6, <3>1
      <4> QED  BY <2>7, <4>1, <4>2 DEF Prevails
    <3> QED  BY <2>5, <2>6, <3>1
  <2>10. ASSUME NEW f \in Known(u), f \in Filter(batch) PROVE f = e
    <3>1. ~Prevails(e, f)
      BY <2>5, <2>6, <2>10
    <3>2. f.default \in BOOLEAN /\ e.default \in BOOLEAN
      BY <2>2, <2>6
    <3>3. f.default = e.default
      BY <2>7, <2>10, <3>1, <3>2 DEF Prevails
    <3> QED  BY <2>4, <2>6, <3>3
  <2> QED  BY <2>7, <2>9, <2>10
<1>2. OwnersInv /\ AffectedIsMeant => OneCommandPerNode
  BY <1>1 DEF OneCommandPerNode
<1> QED  BY <1>2, OwnersAlways, AffectedMeant, PTL
=============================================================================

----------------------- MODULE HandoverProtocolProofs -----------------------
(***************************************************************************)
(* Proofs about the procedure of a handover, for any number of UEs, cells  *)
(* and commands: as long as no handover timer expires, every handler finds *)
(* its UE in a state it expects, and the gNBs, the UE and the core agree   *)
(* on where the UE is.                                                     *)
(***************************************************************************)
EXTENDS HandoverControlProofs

-----------------------------------------------------------------------------
(* The X2 messages of a handover.                                          *)

\* A message of the preparation is about the place the UE is to leave: the sender of a
\* request, the receiver of an answer.
Preparing == {"request", "ack", "failure"}
About(c, d, m) == IF m.type = "request" THEN At(c, m.old) ELSE At(d, m.old)
Peer(c, d, m) == IF m.type = "request" THEN d ELSE c

\* There is at most one message of the preparation about a place on the channels X.
OneEach(X) ==
    \A c \in Cells, d \in Cells, e \in Cells, f \in Cells :
      \A i \in DOMAIN X[c][d], j \in DOMAIN X[e][f] :
        /\ X[c][d][i].type \in Preparing /\ X[e][f][j].type \in Preparing
        /\ About(c, d, X[c][d][i]) = About(e, f, X[e][f][j])
        => c = e /\ d = f /\ i = j

\* There is none about place p.
Free(X, p) ==
    \A c \in Cells, d \in Cells : \A m \in Range(X[c][d]) :
        m.type \in Preparing => About(c, d, m) # p

\* It finds the manager of the place in preparation, for the cell it comes from or goes
\* to; and an acknowledgement, the manager of the new place.
Prepared(c, d, m) ==
    LET p == About(c, d, m)
    IN  /\ p \in DOMAIN ueMap
        /\ ueMap[p].state = "HANDOVER_PREPARATION" /\ ueMap[p].target.cell = Peer(c, d, m)
        /\ m.type = "request" => m.imsi = ueMap[p].imsi
        /\ m.type = "ack" => LET j == At(c, m.new)
                             IN  /\ j \in DOMAIN ueMap
                                 /\ ueMap[j].state = "HANDOVER_JOINING"
                                 /\ ueMap[j].imsi = ueMap[p].imsi

\* A place a UE has left: its manager waits for the release, or is gone.
Vacated(p) ==
    /\ p \in Places /\ Used(p)
    /\ p \in DOMAIN ueMap => /\ ueMap[p].state = "HANDOVER_LEAVING"
                             /\ ue[ueMap[p].imsi].at # p

Expected(c, d, m) ==
    /\ m.type # "cancel"
    /\ m.type \in Preparing => Prepared(c, d, m)
    /\ m.type = "release" => Vacated(At(d, m.old))

X2Inv == \A c \in Cells, d \in Cells : \A m \in Range(x2[c][d]) : Expected(c, d, m)

-----------------------------------------------------------------------------
(* The phases of a UE's handover, by the state of the manager at its place.*)

Quiet(u) == down[u] = <<>> /\ up[u] = <<>>

Connected(u) ==
    /\ ue[u].state = "CONNECTED_NORMALLY" /\ Quiet(u)
    /\ modify[u] = 0 /\ mme[u] = ue[u].at.cell

Reconfiguring(u) ==
    /\ ue[u].state = "CONNECTED_NORMALLY"
    /\ modify[u] = 0 /\ mme[u] = ue[u].at.cell
    /\ \/ down[u] = <<[type |-> "reconfiguration"]>> /\ up[u] = <<>>
       \/ down[u] = <<>> /\ up[u] = <<ue[u].at>>

Leaving(u) ==
    LET p == ue[u].at
        j == ueMap[p].target
    IN  /\ ue[u].state = "CONNECTED_NORMALLY" /\ modify[u] = 0
        /\ down[u] = <<[type |-> "handover", at |-> j]>> /\ up[u] = <<>>
        /\ j \in DOMAIN ueMap /\ j # p /\ ueMap[j].imsi = u
        /\ ueMap[j].state = "HANDOVER_JOINING"

Joining(u) ==
    /\ Vacated(ueMap[ue[u].at].source)
    /\ modify[u] = 0 /\ down[u] = <<>>
    /\ \/ ue[u].state = "CONNECTED_HANDOVER" /\ up[u] = <<>>
       \/ ue[u].state = "CONNECTED_NORMALLY" /\ up[u] = <<ue[u].at>>

PathSwitch(u) ==
    /\ Vacated(ueMap[ue[u].at].source)
    /\ ue[u].state = "CONNECTED_NORMALLY" /\ Quiet(u)
    /\ modify[u] = 1 /\ mme[u] = ue[u].at.cell
    /\ imsiRnti[ue[u].at.cell][u] = ue[u].at.rnti

Phase(u) ==
    LET state == ueMap[ue[u].at].state
    IN  /\ ue[u].at \in DOMAIN ueMap /\ ueMap[ue[u].at].imsi = u
        /\ state \in {"CONNECTED_NORMALLY", "HANDOVER_PREPARATION"} => Connected(u)
        /\ state = "CONNECTION_RECONFIGURATION" => Reconfiguring(u)
        /\ state = "HANDOVER_LEAVING" => Leaving(u)
        /\ state = "HANDOVER_JOINING" => Joining(u)
        /\ state = "HANDOVER_PATH_SWITCH" => PathSwitch(u)

\* A place the UE is to join: its source waits for the acknowledgement, or has it.
AckUnderWay(p, at) ==
    \E m \in Range(x2[p.cell][at.cell]) : m.type = "ack" /\ m.old = at.rnti /\ m.new = p.rnti
ToJoin(p, at) ==
    /\ ueMap[p].state = "HANDOVER_JOINING" /\ ueMap[p].timer = "joining" /\ ueMap[p].source = at
    /\ \/ ueMap[at].state = "HANDOVER_PREPARATION" /\ AckUnderWay(p, at)
       \/ ueMap[at].state = "HANDOVER_LEAVING" /\ ueMap[at].target = p

\* A place the UE has left.
Left(p, at) ==
    /\ ueMap[p].state = "HANDOVER_LEAVING"
    /\ \/ /\ ueMap[p].target = at /\ ueMap[at].source = p
          /\ ueMap[at].state \in {"HANDOVER_JOINING", "HANDOVER_PATH_SWITCH"}
       \/ ReleaseUnderWay(p)

Others(u) ==
    \A p \in DOMAIN ueMap : ueMap[p].imsi = u /\ p # ue[u].at =>
        ToJoin(p, ue[u].at) \/ Left(p, ue[u].at)

\* A timer runs only in the state it belongs to.
Timed ==
    \A p \in DOMAIN ueMap :
        /\ ueMap[p].timer = "leaving" => ueMap[p].state = "HANDOVER_LEAVING"
        /\ ueMap[p].timer = "joining" => ueMap[p].state = "HANDOVER_JOINING"

Protocol == OneEach(x2) /\ X2Inv /\ Timed /\ \A u \in Ues : Phase(u) /\ Others(u)

\* The procedure goes on as long as the simulation does and no timer expires.
ProtocolInv == expired \/ abort \in {"reconfiguring", "RLF"} \/ (abort = "none" /\ Protocol)

-----------------------------------------------------------------------------
(* Sequences and channels.                                                 *)

Channels == [Cells -> [Cells -> Seq(X2Messages)]]
WithoutFirst(X, s, t) == [X EXCEPT ![s][t] = Tail(X[s][t])]
WithLast(X, s, t, a) == [X EXCEPT ![s][t] = Append(X[s][t], a)]

\* The elements of a tail, and of a sequence one longer, by their positions.
LEMMA TailAt ==
    ASSUME NEW S, NEW s \in Seq(S), s # <<>>
    PROVE  /\ Tail(s) \in Seq(S) /\ 1 \in DOMAIN s /\ s[1] = Head(s)
           /\ \A i \in DOMAIN Tail(s) : i \in Nat /\ i # 0 /\ i + 1 \in DOMAIN s /\ Tail(s)[i] = s[i + 1]
           /\ \A i \in DOMAIN s : i # 1 => i - 1 \in DOMAIN Tail(s) /\ Tail(s)[i - 1] = s[i]
<1>1. /\ Tail(s) \in Seq(S) /\ Len(Tail(s)) = Len(s) - 1
      /\ \A i \in 1 .. Len(Tail(s)) : Tail(s)[i] = s[i + 1]
  BY HeadTailProperties
<1>2. Len(s) \in Nat /\ DOMAIN s = 1 .. Len(s) /\ DOMAIN Tail(s) = 1 .. Len(Tail(s)) /\ Len(s) # 0
  BY <1>1, LenProperties, EmptySeq
<1>3. Head(s) = s[1] /\ 1 \in DOMAIN s
  BY <1>2
<1> QED  BY <1>1, <1>2, <1>3

\* A message that is appended is the last; the others keep their positions.
LEMMA AppendAt ==
    ASSUME NEW S, NEW s \in Seq(S), NEW m \in S
    PROVE  /\ Append(s, m) \in Seq(S) /\ Len(s) + 1 \in DOMAIN Append(s, m)
           /\ Append(s, m)[Len(s) + 1] = m
           /\ \A i \in DOMAIN Append(s, m) :
                i = Len(s) + 1 \/ (i \in DOMAIN s /\ Append(s, m)[i] = s[i])
           /\ \A i \in DOMAIN s : i \in DOMAIN Append(s, m) /\ Append(s, m)[i] = s[i]
  OBVIOUS

\* The messages of X are those of Y and h, the first from s to t; those of Y are those of X
\* and a, the last from s to t.
LessFirst(X, Y, s, t, h) ==
    /\ \A c \in Cells, d \in Cells : Range(Y[c][d]) \subseteq Range(X[c][d])
    /\ \A c \in Cells, d \in Cells : \A m \in Range(X[c][d]) :
         m \in Range(Y[c][d]) \/ (c = s /\ d = t /\ m = h)
OneMore(X, Y, s, t, a) ==
    /\ a \in Range(Y[s][t])
    /\ \A c \in Cells, d \in Cells : Range(X[c][d]) \subseteq Range(Y[c][d])
    /\ \A c \in Cells, d \in Cells : \A m \in Range(Y[c][d]) :
         m \in Range(X[c][d]) \/ (c = s /\ d = t /\ m = a)

\* Without the first message of a channel there is none about its place any more.
LEMMA TakenOnce ==
    ASSUME NEW X \in Channels, OneEach(X), NEW s \in Cells, NEW t \in Cells, X[s][t] # <<>>,
           NEW Y, Y = WithoutFirst(X, s, t), NEW h, h = Head(X[s][t])
    PROVE  /\ Y \in Channels /\ OneEach(Y)
           /\ h \in X2Messages /\ h \in Range(X[s][t])
           /\ h.type \in Preparing => Free(Y, About(s, t, h))
           /\ LessFirst(X, Y, s, t, h)
<1>1. X[s][t] \in Seq(X2Messages)
  BY DEF Channels
<1>2. /\ Tail(X[s][t]) \in Seq(X2Messages) /\ 1 \in DOMAIN X[s][t] /\ X[s][t][1] = h
      /\ \A i \in DOMAIN Tail(X[s][t]) : i \in Nat /\ i # 0 /\ i + 1 \in DOMAIN X[s][t]
                                         /\ Tail(X[s][t])[i] = X[s][t][i + 1]
      /\ \A i \in DOMAIN X[s][t] : i # 1 => i - 1 \in DOMAIN Tail(X[s][t])
                                            /\ Tail(X[s][t])[i - 1] = X[s][t][i]
  BY <1>1, TailAt
<1>3. /\ Y \in Channels
      /\ \A c \in Cells, d \in Cells : ~(c = s /\ d = t) => Y[c][d] = X[c][d]
      /\ Y[s][t] = Tail(X[s][t])
  BY <1>2 DEF Channels, WithoutFirst
<1> DEFINE old(c, d, i) == IF c = s /\ d = t THEN i + 1 ELSE i
<1>4. ASSUME NEW c \in Cells, NEW d \in Cells, NEW i \in DOMAIN Y[c][d]
      PROVE  /\ old(c, d, i) \in DOMAIN X[c][d] /\ Y[c][d][i] = X[c][d][old(c, d, i)]
             /\ ~(c = s /\ d = t /\ old(c, d, i) = 1)
  <2>1. CASE c = s /\ d = t
    <3>1. i \in DOMAIN Tail(X[s][t]) /\ Y[c][d][i] = Tail(X[s][t])[i]
      BY <1>3, <2>1
    <3>2. i \in Nat /\ i # 0 /\ i + 1 \in DOMAIN X[s][t] /\ Y[c][d][i] = X[s][t][i + 1]
      BY <1>2, <3>1
    <3> QED  BY <2>1, <3>2
  <2>2. CASE ~(c = s /\ d = t)
    BY <1>3, <2>2
  <2> QED  BY <2>1, <2>2
<1>5. OneEach(Y)
  <2> SUFFICES ASSUME NEW c \in Cells, NEW d \in Cells, NEW e \in Cells, NEW f \in Cells,
                      NEW i \in DOMAIN Y[c][d], NEW j \in DOMAIN Y[e][f],
                      Y[c][d][i].type \in Preparing, Y[e][f][j].type \in Preparing,
                      About(c, d, Y[c][d][i]) = About(e, f, Y[e][f][j])
               PROVE  c = e /\ d = f /\ i = j
    BY DEF OneEach
  <2>1. c = e /\ d = f /\ old(c, d, i) = old(e, f, j)
    <3> HIDE DEF old
    <3>1. /\ old(c, d, i) \in DOMAIN X[c][d] /\ Y[c][d][i] = X[c][d][old(c, d, i)]
          /\ old(e, f, j) \in DOMAIN X[e][f] /\ Y[e][f][j] = X[e][f][old(e, f, j)]
      BY <1>4
    <3> QED  BY <3>1 DEF OneEach
  <2>2. c = s /\ d = t => i \in Nat /\ j \in Nat
    BY <1>2, <1>3, <2>1
  <2> QED  BY <2>1, <2>2
<1>6. h.type \in Preparing => Free(Y, About(s, t, h))
  <2> SUFFICES ASSUME h.type \in Preparing, NEW c \in Cells, NEW d \in Cells,
                      NEW m \in Range(Y[c][d]), m.type \in Preparing,
                      About(c, d, m) = About(s, t, h)
               PROVE  FALSE
    BY DEF Free
  <2>1. PICK i \in DOMAIN Y[c][d] : m = Y[c][d][i]
    BY DEF Range
  <2> HIDE DEF old
  <2>2. c = s /\ d = t /\ old(c, d, i) = 1
    BY <1>2, <1>4, <2>1 DEF OneEach
  <2> QED  BY <1>4, <2>2
<1>7. \A c \in Cells, d \in Cells : Range(Y[c][d]) \subseteq Range(X[c][d])
  <2> HIDE DEF old
  <2> QED  BY <1>4 DEF Range
<1>8. ASSUME NEW c \in Cells, NEW d \in Cells, NEW m \in Range(X[c][d])
      PROVE  m \in Range(Y[c][d]) \/ (c = s /\ d = t /\ m = h)
  <2>1. PICK i \in DOMAIN X[c][d] : m = X[c][d][i]
    BY DEF Range
  <2>2. CASE ~(c = s /\ d = t)
    BY <1>3, <2>2
  <2>3. CASE c = s /\ d = t /\ i = 1
    BY <1>2, <2>1, <2>3
  <2>4. CASE c = s /\ d = t /\ i # 1
    <3>1. i - 1 \in DOMAIN Y[s][t] /\ Y[s][t][i - 1] = m
      BY <1>2, <1>3, <2>1, <2>4
    <3> QED  BY <2>4, <3>1 DEF Range
  <2> QED  BY <2>2, <2>3, <2>4
<1>9. h \in X2Messages /\ h \in Range(X[s][t])
  BY <1>1, TailRange
<1> QED  BY <1>3, <1>5, <1>6, <1>7, <1>8, <1>9 DEF LessFirst

\* A message that is sent is the only one about its place if there was none.
LEMMA SentOnce ==
    ASSUME NEW X \in Channels, OneEach(X), NEW s \in Cells, NEW t \in Cells,
           NEW a \in X2Messages, a.type \in Preparing => Free(X, About(s, t, a)),
           NEW Y, Y = WithLast(X, s, t, a)
    PROVE  Y \in Channels /\ OneEach(Y) /\ OneMore(X, Y, s, t, a)
<1>1. X[s][t] \in Seq(X2Messages)
  BY DEF Channels
<1> DEFINE n == Len(X[s][t]) + 1
<1>2. /\ Append(X[s][t], a) \in Seq(X2Messages) /\ n \in DOMAIN Append(X[s][t], a)
      /\ Append(X[s][t], a)[n] = a
      /\ \A i \in DOMAIN Append(X[s][t], a) :
           i = n \/ (i \in DOMAIN X[s][t] /\ Append(X[s][t], a)[i] = X[s][t][i])
      /\ \A i \in DOMAIN X[s][t] : i \in DOMAIN Append(X[s][t], a) /\ Append(X[s][t], a)[i] = X[s][t][i]
  BY <1>1, AppendAt
<1> HIDE DEF n
<1>3. /\ Y \in Channels
      /\ \A c \in Cells, d \in Cells : ~(c = s /\ d = t) => Y[c][d] = X[c][d]
      /\ Y[s][t] = Append(X[s][t], a)
  BY <1>2 DEF Channels, WithLast
<1>4. ASSUME NEW c \in Cells, NEW d \in Cells, NEW i \in DOMAIN Y[c][d]
      PROVE  \/ i \in DOMAIN X[c][d] /\ Y[c][d][i] = X[c][d][i]
             \/ c = s /\ d = t /\ i = n /\ Y[c][d][i] = a
  <2>1. CASE c = s /\ d = t
    <3>1. Y[c][d] = Append(X[s][t], a) /\ X[c][d] = X[s][t]
      BY <1>3, <2>1
    <3>2. i \in DOMAIN Append(X[s][t], a)
      BY <1>4, <3>1
    <3>3. i = n \/ (i \in DOMAIN X[s][t] /\ Append(X[s][t], a)[i] = X[s][t][i])
      BY <1>2, <3>2
    <3> QED  BY <1>2, <2>1, <3>1, <3>3
  <2>2. CASE ~(c = s /\ d = t)
    <3>1. Y[c][d] = X[c][d]
      BY <1>3, <2>2
    <3> QED  BY <1>4, <3>1
  <2> QED  BY <2>1, <2>2
<1>5. a \in Range(Y[s][t])
  BY <1>2, <1>3 DEF Range
<1>6. ASSUME NEW c \in Cells, NEW d \in Cells PROVE Range(X[c][d]) \subseteq Range(Y[c][d])
  <2>1. CASE c = s /\ d = t
    <3>1. Range(X[s][t]) \subseteq Range(Append(X[s][t], a))
      BY <1>2 DEF Range
    <3> QED  BY <1>3, <2>1, <3>1
  <2>2. CASE ~(c = s /\ d = t)
    <3>1. Y[c][d] = X[c][d]
      BY <1>3, <2>2
    <3> QED  BY <3>1
  <2> QED  BY <2>1, <2>2
<1>7. \A c \in Cells, d \in Cells : \A m \in Range(Y[c][d]) :
         m \in Range(X[c][d]) \/ (c = s /\ d = t /\ m = a)
  BY <1>4 DEF Range
<1>8. OneEach(Y)
  <2> SUFFICES ASSUME NEW c \in Cells, NEW d \in Cells, NEW e \in Cells, NEW f \in Cells,
                      NEW i \in DOMAIN Y[c][d], NEW j \in DOMAIN Y[e][f],
                      Y[c][d][i].type \in Preparing, Y[e][f][j].type \in Preparing,
                      About(c, d, Y[c][d][i]) = About(e, f, Y[e][f][j])
               PROVE  c = e /\ d = f /\ i = j
    BY DEF OneEach
  <2>1. CASE i \in DOMAIN X[c][d] /\ Y[c][d][i] = X[c][d][i]
             /\ j \in DOMAIN X[e][f] /\ Y[e][f][j] = X[e][f][j]
    BY <2>1 DEF OneEach
  <2>2. CASE i \in DOMAIN X[c][d] /\ Y[c][d][i] = X[c][d][i]
             /\ e = s /\ f = t /\ j = n /\ Y[e][f][j] = a
    BY <2>2 DEF Free, Range
  <2>3. CASE j \in DOMAIN X[e][f] /\ Y[e][f][j] = X[e][f][j]
             /\ c = s /\ d = t /\ i = n /\ Y[c][d][i] = a
    BY <2>3 DEF Free, Range
  <2> QED  BY <1>4, <2>1, <2>2, <2>3
<1> QED  BY <1>3, <1>5, <1>6, <1>7, <1>8 DEF OneMore

\* Two messages of the preparation about one place are the same one.
LEMMA SameMessage ==
    ASSUME NEW X, OneEach(X), NEW c \in Cells, NEW d \in Cells, NEW e \in Cells, NEW f \in Cells,
           NEW m \in Range(X[c][d]), NEW n \in Range(X[e][f]),
           m.type \in Preparing, n.type \in Preparing, About(c, d, m) = About(e, f, n)
    PROVE  c = e /\ d = f /\ m = n
  BY DEF OneEach, Range

-----------------------------------------------------------------------------
(* What a step leaves alone.                                               *)

\* RNTIs stay handed out, no manager takes the place of another, and a UE moves to no
\* place that is being left.
Orderly ==
    /\ \A p \in Places : Used(p) => Used(p)'
    /\ \A p \in DOMAIN ueMap' : Used(p) =>
         /\ p \in DOMAIN ueMap /\ ueMap'[p].imsi = ueMap[p].imsi
         /\ ueMap[p].state = "HANDOVER_LEAVING" => ueMap'[p].state = "HANDOVER_LEAVING"
    /\ \A u \in Ues : \/ ue'[u].at = ue[u].at
                      \/ /\ ue'[u].at \in DOMAIN ueMap
                         /\ ueMap[ue'[u].at].state # "HANDOVER_LEAVING"

\* At most the manager at place q changes, and it is UE u's.
OnlyAt(q, u) ==
    /\ \A p \in DOMAIN ueMap : p # q => p \in DOMAIN ueMap' /\ ueMap'[p] = ueMap[p]
    /\ \A p \in DOMAIN ueMap' : p # q => p \in DOMAIN ueMap
    /\ q \in DOMAIN ueMap => ueMap[q].imsi = u
    /\ q \in DOMAIN ueMap' => ueMap'[q].imsi = u

\* Of RRC and core, at most what is UE u's changes.
SameOf(v) ==
    /\ ue'[v] = ue[v] /\ down'[v] = down[v] /\ up'[v] = up[v]
    /\ modify'[v] = modify[v] /\ mme'[v] = mme[v]
    /\ \A c \in Cells : imsiRnti'[c][v] = imsiRnti[c][v]
OnlyOf(u) == \A v \in Ues : v # u => SameOf(v)

\* Every message but m from s to t is still under way.
AllBut(s, t, m) ==
    \A c \in Cells, d \in Cells : \A n \in Range(x2[c][d]) :
        n \in Range(x2'[c][d]) \/ (c = s /\ d = t /\ n = m)

\* Acknowledgements and releases for managers of other UEs are still under way.
MessagesOf(u) ==
    \A p \in DOMAIN ueMap, q \in DOMAIN ueMap : ueMap[p].imsi # u /\ ueMap[q].imsi # u =>
        /\ AckUnderWay(p, q) => AckUnderWay(p, q)'
        /\ ReleaseUnderWay(p) => ReleaseUnderWay(p)'

\* A place that its UE has left is never taken again.
LEMMA VacatedKept ==
    ASSUME MapTyped, Orderly, NEW p, Vacated(p)
    PROVE  Vacated(p)'
<1>1. p \in Places /\ Used(p) /\ Used(p)'
  BY DEF Vacated, Orderly
<1>2. ASSUME p \in DOMAIN ueMap'
      PROVE  ueMap'[p].state = "HANDOVER_LEAVING" /\ ue'[ueMap'[p].imsi].at # p
  <2>1. /\ p \in DOMAIN ueMap /\ ueMap'[p].imsi = ueMap[p].imsi
        /\ ueMap[p].state = "HANDOVER_LEAVING" => ueMap'[p].state = "HANDOVER_LEAVING"
    BY <1>1, <1>2 DEF Orderly
  <2>2. ueMap[p].state = "HANDOVER_LEAVING" /\ ue[ueMap[p].imsi].at # p
    BY <2>1 DEF Vacated
  <2>3. ueMap[p].imsi \in Ues
    BY <2>1 DEF MapTyped, Managers
  <2>4. ue'[ueMap[p].imsi].at # p
    BY <2>2, <2>3 DEF Orderly
  <2> QED  BY <2>1, <2>2, <2>4
<1> QED  BY <1>1, <1>2 DEF Vacated

\* The phase of a UE v does not change with a manager q that is neither at its place nor
\* to be joined.
LEMMA PhaseKept ==
    ASSUME MapTyped, Protocol, Orderly, NEW v \in Ues, SameOf(v), NEW q,
           \A p \in DOMAIN ueMap : p # q => p \in DOMAIN ueMap' /\ ueMap'[p] = ueMap[p],
           q \in DOMAIN ueMap => \/ ueMap[q].imsi # v
                                 \/ q # ue[v].at /\ ueMap[q].state # "HANDOVER_JOINING"
    PROVE  Phase(v)'
<1> DEFINE at == ue[v].at
<1>0. Phase(v) /\ at \in DOMAIN ueMap /\ ueMap[at].imsi = v
  BY DEF Protocol, Phase
<1>1. /\ ue'[v] = ue[v] /\ down'[v] = down[v] /\ up'[v] = up[v]
      /\ modify'[v] = modify[v] /\ mme'[v] = mme[v]
      /\ \A c \in Cells : imsiRnti'[c][v] = imsiRnti[c][v]
  BY DEF SameOf
<1>2. at # q /\ at \in DOMAIN ueMap' /\ ueMap'[at] = ueMap[at] /\ at \in Places /\ at.cell \in Cells
  BY <1>0 DEF MapTyped, Places
<1>3. ue'[v].at = at /\ ueMap'[at].state = ueMap[at].state
  BY <1>1, <1>2
<1>4. Connected(v) => Connected(v)'
  BY <1>1 DEF Connected, Quiet
<1>5. Reconfiguring(v) => Reconfiguring(v)'
  BY <1>1 DEF Reconfiguring
<1>6. Leaving(v) => Leaving(v)'
  <2> SUFFICES ASSUME Leaving(v) PROVE Leaving(v)'
    OBVIOUS
  <2>1. ueMap'[at].target = ueMap[at].target
    BY <1>2
  <2>2. PICK j : j = ueMap[at].target
    OBVIOUS
  <2>3. j \in DOMAIN ueMap /\ ueMap[j].imsi = v /\ ueMap[j].state = "HANDOVER_JOINING"
    BY <2>2 DEF Leaving
  <2>4. j \in DOMAIN ueMap' /\ ueMap'[j] = ueMap[j]
    BY <2>3
  <2> HIDE DEF at
  <2> QED  BY <1>1, <1>2, <1>3, <2>1, <2>2, <2>3, <2>4 DEF Leaving, at
<1>7. Vacated(ueMap[at].source) => Vacated(ueMap[at].source)'
  <2> SUFFICES ASSUME Vacated(ueMap[at].source) PROVE Vacated(ueMap[at].source)'
    OBVIOUS
  <2>0. ue'[v].at = ue[v].at /\ ueMap'[ue'[v].at].source = ueMap[ue[v].at].source
    BY <1>2, <1>3
  <2>1. PICK s : s = ueMap[at].source
    OBVIOUS
  <2>2. Vacated(s)'
    BY <2>1, VacatedKept
  <2> QED  BY <2>0, <2>1, <2>2
<1>8. Joining(v) => Joining(v)'
  BY <1>1, <1>2, <1>3, <1>7 DEF Joining
<1>9. PathSwitch(v) => PathSwitch(v)'
  BY <1>1, <1>2, <1>3, <1>7 DEF PathSwitch, Quiet
<1> QED  BY <1>0, <1>2, <1>3, <1>4, <1>5, <1>6, <1>8, <1>9 DEF Phase

\* The procedures of the other UEs.
LEMMA OthersGoOn ==
    ASSUME MapTyped, Protocol, Orderly, NEW u, NEW q, OnlyAt(q, u), OnlyOf(u),
           MessagesOf(u), NEW v \in Ues, v # u
    PROVE  Phase(v)' /\ Others(v)'
<1> DEFINE at == ue[v].at
<1>0. Phase(v) /\ Others(v) /\ SameOf(v)
  BY DEF Protocol, OnlyOf
<1>1. ue'[v] = ue[v]
  BY <1>0 DEF SameOf
<1>2. \A p \in DOMAIN ueMap : ueMap[p].imsi = v => p \in DOMAIN ueMap' /\ ueMap'[p] = ueMap[p]
  BY DEF OnlyAt
<1>3. \A p \in DOMAIN ueMap' : ueMap'[p].imsi = v =>
         p \in DOMAIN ueMap /\ ueMap[p].imsi = v /\ ueMap'[p] = ueMap[p]
  BY DEF OnlyAt
<1>4. at \in DOMAIN ueMap /\ ueMap[at].imsi = v /\ ueMap'[at] = ueMap[at]
  BY <1>0, <1>2 DEF Phase
<1>5. Phase(v)'
  <2>1. /\ \A p \in DOMAIN ueMap : p # q => p \in DOMAIN ueMap' /\ ueMap'[p] = ueMap[p]
        /\ q \in DOMAIN ueMap => ueMap[q].imsi # v
    BY DEF OnlyAt
  <2> QED  BY <1>0, <2>1, PhaseKept
<1>6. Others(v)'
  <2> SUFFICES ASSUME NEW p \in DOMAIN ueMap', ueMap'[p].imsi = v, p # ue'[v].at
               PROVE  (ToJoin(p, ue[v].at) \/ Left(p, ue[v].at))'
    BY DEF Others
  <2>1. p \in DOMAIN ueMap /\ ueMap[p].imsi = v /\ ueMap'[p] = ueMap[p] /\ p # at
    BY <1>1, <1>3
  <2>2. ToJoin(p, at) \/ Left(p, at)
    BY <1>0, <2>1 DEF Others
  <2>3. PICK a : a = at
    OBVIOUS
  <2>4. /\ AckUnderWay(p, a) => AckUnderWay(p, a)'
        /\ ReleaseUnderWay(p) => ReleaseUnderWay(p)'
    BY <1>4, <2>1, <2>3 DEF MessagesOf
  <2>5. ueMap'[a] = ueMap[a] /\ ue'[v].at = a
    BY <1>1, <1>4, <2>3
  <2>6. ToJoin(p, a) => ToJoin(p, a)'
    BY <2>1, <2>4, <2>5 DEF ToJoin
  <2>7. Left(p, a) => Left(p, a)'
    BY <2>1, <2>4, <2>5 DEF Left
  <2>8. (ToJoin(p, a) \/ Left(p, a))'
    BY <2>2, <2>3, <2>6, <2>7
  <2> QED  BY <2>5, <2>8
<1> QED  BY <1>5, <1>6

-----------------------------------------------------------------------------
(* One step of the protocol, from what it does to one manager, to one UE   *)
(* and to the messages.                                                    *)

\* Acknowledgements and releases under way, when at most message h from s to t is gone.
LEMMA UnderWay ==
    ASSUME NEW s \in Cells, NEW t \in Cells, NEW h, AllBut(s, t, h), NEW p \in Places
    PROVE  /\ ReleaseUnderWay(p) => \/ ReleaseUnderWay(p)'
                                    \/ h.type = "release" /\ p = At(t, h.old)
           /\ \A a \in Places : AckUnderWay(p, a) => \/ AckUnderWay(p, a)'
                                                     \/ h.type = "ack" /\ a = At(t, h.old)
<1>1. \A a \in Places : a.cell \in Cells /\ a = At(a.cell, a.rnti)
  BY DEF Places, At
<1>2. ReleaseUnderWay(p) => ReleaseUnderWay(p)' \/ (h.type = "release" /\ p = At(t, h.old))
  BY <1>1 DEF ReleaseUnderWay, AllBut
<1>3. ASSUME NEW a \in Places, AckUnderWay(p, a)
      PROVE  AckUnderWay(p, a)' \/ (h.type = "ack" /\ a = At(t, h.old))
  BY <1>1, <1>3 DEF AckUnderWay, AllBut
<1> QED  BY <1>2, <1>3

\* If h was for a manager of UE u, or for none, those of other UEs still have theirs.
LEMMA MessagesKept ==
    ASSUME MapTyped, NEW s \in Cells, NEW t \in Cells, NEW h, AllBut(s, t, h), NEW u,
           h.type \in {"ack", "release"} /\ At(t, h.old) \in DOMAIN ueMap
             => ueMap[At(t, h.old)].imsi = u
    PROVE  MessagesOf(u)
<1> SUFFICES ASSUME NEW p \in DOMAIN ueMap, NEW q \in DOMAIN ueMap,
                    ueMap[p].imsi # u, ueMap[q].imsi # u
             PROVE  /\ AckUnderWay(p, q) => AckUnderWay(p, q)'
                    /\ ReleaseUnderWay(p) => ReleaseUnderWay(p)'
  BY DEF MessagesOf
<1>1. p \in Places /\ q \in Places
  BY DEF MapTyped
<1> QED  BY <1>1, UnderWay

\* No message that stays under way needs the manager at place q.
Undisturbed(q) ==
    \A c \in Cells, d \in Cells : \A m \in Range(x2[c][d]) :
        m \in Range(x2'[c][d]) /\ m.type \in Preparing =>
            About(c, d, m) # q /\ (m.type = "ack" => At(c, m.new) # q)

\* Every message that was not under way before is expected.
NewExpected ==
    \A c \in Cells, d \in Cells : \A m \in Range(x2'[c][d]) :
        m \in Range(x2[c][d]) \/ Expected(c, d, m)'

TimedAt(p) ==
    p \in DOMAIN ueMap => /\ ueMap[p].timer = "leaving" => ueMap[p].state = "HANDOVER_LEAVING"
                          /\ ueMap[p].timer = "joining" => ueMap[p].state = "HANDOVER_JOINING"

\* Preparations need managers in the states HANDOVER_PREPARATION and HANDOVER_JOINING.
LEMMA NotNeeded ==
    ASSUME Protocol, NEW q,
           q \in DOMAIN ueMap => ueMap[q].state \notin {"HANDOVER_PREPARATION", "HANDOVER_JOINING"}
    PROVE  Undisturbed(q)
  BY DEF Protocol, X2Inv, Expected, Prepared, Undisturbed

\* The messages that stay under way are still expected.
LEMMA X2GoesOn ==
    ASSUME MapTyped, Protocol, Orderly, NEW u, NEW q, OnlyAt(q, u), Undisturbed(q), NewExpected
    PROVE  X2Inv'
<1> SUFFICES ASSUME NEW c \in Cells, NEW d \in Cells, NEW m \in Range(x2'[c][d])
             PROVE  Expected(c, d, m)'
  BY DEF X2Inv
<1>1. CASE m \in Range(x2[c][d])
  <2>1. Expected(c, d, m)
    BY <1>1 DEF Protocol, X2Inv
  <2>2. ASSUME m.type \in Preparing PROVE Prepared(c, d, m)'
    <3>1. PICK p : p = About(c, d, m)
      OBVIOUS
    <3>2. Prepared(c, d, m) /\ p # q
      BY <1>1, <2>1, <2>2, <3>1 DEF Expected, Undisturbed
    <3>3. p \in DOMAIN ueMap' /\ ueMap'[p] = ueMap[p]
      BY <3>1, <3>2 DEF Prepared, OnlyAt
    <3>4. ASSUME m.type = "ack"
          PROVE  At(c, m.new) \in DOMAIN ueMap' /\ ueMap'[At(c, m.new)] = ueMap[At(c, m.new)]
      BY <1>1, <2>2, <3>2, <3>4 DEF Prepared, OnlyAt, Undisturbed
    <3> QED  BY <3>1, <3>2, <3>3, <3>4 DEF Prepared
  <2>3. ASSUME m.type = "release" PROVE Vacated(At(d, m.old))'
    <3>1. PICK p : p = At(d, m.old)
      OBVIOUS
    <3>2. Vacated(p)
      BY <2>1, <2>3, <3>1 DEF Expected
    <3>3. Vacated(p)'
      BY <3>2, VacatedKept
    <3> QED  BY <3>1, <3>3
  <2> QED  BY <2>1, <2>2, <2>3 DEF Expected
<1>2. CASE m \notin Range(x2[c][d])
  BY <1>2 DEF NewExpected
<1> QED  BY <1>1, <1>2

\* The protocol goes on if the procedure of the UE it is about does.
LEMMA GoesOn ==
    ASSUME MapTyped, Protocol, Orderly, NEW u, NEW q, OnlyAt(q, u), OnlyOf(u), MessagesOf(u),
           OneEach(x2)', Undisturbed(q), NewExpected, TimedAt(q)',
           u \in Ues => Phase(u)' /\ Others(u)'
    PROVE  Protocol'
<1>1. X2Inv'
  BY X2GoesOn
<1>2. Timed'
  BY DEF Protocol, Timed, TimedAt, OnlyAt
<1>3. \A v \in Ues : Phase(v)' /\ Others(v)'
  BY OthersGoOn
<1> QED  BY <1>1, <1>2, <1>3 DEF Protocol

\* A message is received.
LEMMA MessageTaken ==
    ASSUME Typed, Protocol, NEW s \in Cells, NEW t \in Cells, NEW type, Received(s, t, type),
           Taken(s, t), NEW h, h = Head(x2[s][t])
    PROVE  /\ h \in X2Messages /\ h.type = type /\ Expected(s, t, h) /\ h \in Range(x2[s][t])
           /\ OneEach(x2)' /\ AllBut(s, t, h) /\ NewExpected
           /\ h.type \in Preparing => Free(x2', About(s, t, h))
<1>1. x2 \in Channels /\ x2[s][t] # <<>> /\ h.type = type
  BY DEF Typed, WireTypes, Channels, Received
<1>2. x2' = WithoutFirst(x2, s, t) /\ OneEach(x2)
  BY DEF Taken, WithoutFirst, Protocol
<1>3. PICK X, Y : X = x2 /\ Y = x2'
  OBVIOUS
<1>4. /\ OneEach(Y) /\ h \in X2Messages /\ h \in Range(X[s][t])
      /\ h.type \in Preparing => Free(Y, About(s, t, h))
      /\ LessFirst(X, Y, s, t, h)
  <2>1. X \in Channels /\ OneEach(X) /\ X[s][t] # <<>> /\ Y = WithoutFirst(X, s, t) /\ h = Head(X[s][t])
    BY <1>1, <1>2, <1>3
  <2> QED  BY <2>1, TakenOnce
<1>5. AllBut(s, t, h) /\ NewExpected
  BY <1>3, <1>4 DEF AllBut, NewExpected, LessFirst
<1>6. Expected(s, t, h)
  BY <1>3, <1>4 DEF Protocol, X2Inv
<1> QED  BY <1>1, <1>3, <1>4, <1>5, <1>6

\* A message is sent.
LEMMA MessageSent ==
    ASSUME Typed, Protocol, NEW s \in Cells, NEW t \in Cells, NEW a \in X2Messages,
           SendX2(s, t, a), a.type \in Preparing => Free(x2, About(s, t, a))
    PROVE  /\ OneEach(x2)' /\ a \in Range(x2'[s][t])
           /\ \A h : AllBut(s, t, h)
           /\ Expected(s, t, a)' => NewExpected
<1>1. x2 \in Channels /\ OneEach(x2) /\ x2' = WithLast(x2, s, t, a)
  BY DEF Typed, WireTypes, Channels, Protocol, SendX2, WithLast
<1>2. PICK X, Y : X = x2 /\ Y = x2'
  OBVIOUS
<1>3. OneEach(Y) /\ OneMore(X, Y, s, t, a)
  <2>1. X \in Channels /\ OneEach(X) /\ Y = WithLast(X, s, t, a)
        /\ (a.type \in Preparing => Free(X, About(s, t, a)))
    BY <1>1, <1>2
  <2> QED  BY <2>1, SentOnce
<1>4. a \in Range(x2'[s][t]) /\ OneEach(x2)'
  BY <1>2, <1>3 DEF OneMore
<1>5. \A h : AllBut(s, t, h)
  BY <1>2, <1>3 DEF AllBut, OneMore
<1>6. Expected(s, t, a)' => NewExpected
  BY <1>2, <1>3 DEF NewExpected, OneMore
<1> QED  BY <1>4, <1>5, <1>6

\* A request is received and answered.
LEMMA MessageAnswered ==
    ASSUME Typed, Protocol, NEW s \in Cells, NEW t \in Cells, Received(s, t, "request"),
           NEW h, h = Head(x2[s][t]), NEW a \in X2Messages, TakenAndAnswered(s, t, a),
           a.type \in {"ack", "failure"}, a.old = h.old
    PROVE  /\ h \in X2Messages /\ h.type = "request" /\ Expected(s, t, h) /\ h \in Range(x2[s][t])
           /\ OneEach(x2)' /\ AllBut(s, t, h) /\ a \in Range(x2'[t][s])
           /\ Expected(t, s, a)' => NewExpected
           /\ \A c \in Cells, d \in Cells : \A m \in Range(x2[c][d]) :
                m.type \in Preparing /\ m \in Range(x2'[c][d]) =>
                  About(c, d, m) # At(s, h.old) \/ (c = t /\ d = s /\ m = a)
<1>1. x2 \in Channels /\ OneEach(x2) /\ x2[s][t] # <<>> /\ h.type = "request"
  BY DEF Typed, WireTypes, Channels, Protocol, Received
<1>2. PICK X, Y, Z : X = x2 /\ Y = WithoutFirst(X, s, t) /\ Z = x2'
  OBVIOUS
<1>3. Z = WithLast(Y, t, s, a)
  BY <1>2 DEF TakenAndAnswered, WithoutFirst, WithLast
<1>4. About(s, t, h) = At(s, h.old) /\ About(t, s, a) = At(s, h.old) /\ h.type \in Preparing
  BY <1>1 DEF About, Preparing
<1>5. /\ Y \in Channels /\ OneEach(Y) /\ h \in X2Messages /\ h \in Range(X[s][t])
      /\ Free(Y, At(s, h.old)) /\ LessFirst(X, Y, s, t, h)
  <2>1. X \in Channels /\ OneEach(X) /\ X[s][t] # <<>> /\ h = Head(X[s][t])
    BY <1>1, <1>2
  <2>2. /\ Y \in Channels /\ OneEach(Y) /\ h \in X2Messages /\ h \in Range(X[s][t])
        /\ h.type \in Preparing => Free(Y, About(s, t, h))
        /\ LessFirst(X, Y, s, t, h)
    BY <1>2, <2>1, TakenOnce
  <2> QED  BY <1>4, <2>2
<1>6. OneEach(Z) /\ OneMore(Y, Z, t, s, a)
  <2>1. a.type \in Preparing => Free(Y, About(t, s, a))
    BY <1>4, <1>5
  <2> QED  BY <1>3, <1>5, <2>1, SentOnce
<1>7. AllBut(s, t, h)
  BY <1>2, <1>5, <1>6 DEF AllBut, LessFirst, OneMore
<1>8. Expected(t, s, a)' => NewExpected
  BY <1>2, <1>5, <1>6 DEF NewExpected, LessFirst, OneMore
<1>9. \A c \in Cells, d \in Cells : \A m \in Range(x2[c][d]) :
         m.type \in Preparing /\ m \in Range(x2'[c][d]) =>
           About(c, d, m) # At(s, h.old) \/ (c = t /\ d = s /\ m = a)
  BY <1>2, <1>5, <1>6 DEF Free, LessFirst, OneMore
<1>10. Expected(s, t, h)
  BY <1>2, <1>5 DEF Protocol, X2Inv
<1>11. OneEach(x2)' /\ a \in Range(x2'[t][s]) /\ h \in Range(x2[s][t])
  BY <1>2, <1>5, <1>6 DEF OneMore
<1> QED  BY <1>1, <1>5, <1>7, <1>8, <1>9, <1>10, <1>11

\* One manager of UE u changes, is new or is removed.
LEMMA ManagerPut ==
    ASSUME NEW q, NEW n, ueMap' = Put(q, n), NEW u, n.imsi = u,
           q \in DOMAIN ueMap => ueMap[q].imsi = u
    PROVE  /\ OnlyAt(q, u) /\ DOMAIN ueMap' = DOMAIN ueMap \cup {q} /\ ueMap'[q] = n
           /\ \A p \in DOMAIN ueMap : p # q => p \in DOMAIN ueMap' /\ ueMap'[p] = ueMap[p]
  BY DEF Put, OnlyAt

\* A step that leaves the managers alone changes none, whichever place is singled out.
LEMMA ManagersSame ==
    ASSUME NEW q, q \notin DOMAIN ueMap, ueMap' = ueMap, NEW u
    PROVE  OnlyAt(q, u) /\ TimedAt(q)'
  BY DEF OnlyAt, TimedAt

\* No manager takes the place of another if q had one or is new.
LEMMA OrderlyStep ==
    ASSUME Typed, NEW u, NEW q, OnlyAt(q, u), UNCHANGED ue,
           \A p \in Places : Used(p) => Used(p)',
           q \in DOMAIN ueMap' /\ Used(q) =>
             /\ q \in DOMAIN ueMap
             /\ ueMap[q].state = "HANDOVER_LEAVING" => ueMap'[q].state = "HANDOVER_LEAVING"
    PROVE  Orderly
  BY DEF OnlyAt, Orderly

\* RNTIs that were handed out stay so.
LEMMA UsedSame == ASSUME UNCHANGED lastRnti PROVE \A p \in Places : Used(p) => Used(p)'
  BY DEF Used

\* A step that leaves the UEs and the core network alone does so for each of them.
LEMMA SameRrc ==
    ASSUME UNCHANGED <<ue, down, up, mme, imsiRnti, modify>>, NEW u
    PROVE  OnlyOf(u) /\ (u \in Ues => SameOf(u))
  BY DEF OnlyOf, SameOf

\* A manager that is neither joined nor left is at its UE's place.
LEMMA Here ==
    ASSUME Typed, Protocol, NEW p \in DOMAIN ueMap, NEW u, u = ueMap[p].imsi,
           ueMap[p].state \notin {"HANDOVER_JOINING", "HANDOVER_LEAVING"}
    PROVE  u \in Ues /\ p = ue[u].at
<1>1. u \in Ues
  BY ManagerChanged
<1>2. Others(u)
  BY <1>1 DEF Protocol
<1> QED  BY <1>1, <1>2 DEF Others, ToJoin, Left

\* Without a handover of a UE its other managers only wait for their releases.
LEMMA OnlyReleases ==
    ASSUME Protocol, NEW u \in Ues, NEW at, at = ue[u].at,
           \/ ueMap[at].state \in {"CONNECTED_NORMALLY", "CONNECTION_RECONFIGURATION"}
           \/ /\ ueMap[at].state = "HANDOVER_PREPARATION"
              /\ \A p \in DOMAIN ueMap : ~AckUnderWay(p, at),
           NEW p \in DOMAIN ueMap, ueMap[p].imsi = u, p # at
    PROVE  ueMap[p].state = "HANDOVER_LEAVING" /\ ReleaseUnderWay(p)
  BY DEF Protocol, Others, ToJoin, Left

\* They still do after a step that leaves them alone.
LEMMA ReleasesGoOn ==
    ASSUME NEW u \in Ues, NEW at, ue'[u].at = at, OnlyAt(at, u),
           \A p \in DOMAIN ueMap : ueMap[p].imsi = u /\ p # at =>
             ueMap[p].state = "HANDOVER_LEAVING" /\ ReleaseUnderWay(p)'
    PROVE  Others(u)'
<1> SUFFICES ASSUME NEW p \in DOMAIN ueMap', ueMap'[p].imsi = u, p # ue'[u].at
             PROVE  Left(p, ue[u].at)'
  BY DEF Others
<1>1. p \in DOMAIN ueMap /\ ueMap'[p] = ueMap[p] /\ p # at
  BY DEF OnlyAt
<1>2. ueMap'[p].state = "HANDOVER_LEAVING" /\ ReleaseUnderWay(p)'
  BY <1>1
<1> QED  BY <1>2 DEF Left

-----------------------------------------------------------------------------
(* The handlers go on with the protocol.                                   *)

\* NoPlace has no manager, and 0 is no UE.
LEMMA Nowhere == ASSUME Typed PROVE NoPlace \notin DOMAIN ueMap /\ 0 \notin Ues
<1>1. NoPlace \notin Places
  BY NrHandoverAssumption DEF NoPlace, Places, At
<1>2. DOMAIN ueMap \subseteq Places
  BY TypeParts DEF Typed, MapTyped
<1> QED  BY <1>1, <1>2 DEF Ues

\* The parts of the type invariant.
LEMMA Parts == ASSUME Typed PROVE MapTyped /\ NodeTyped /\ CoreTyped /\ WireTypes
  BY TypeParts DEF Typed

\* Steps that the handovers do not see.
LEMMA NothingHappens ==
    ASSUME Typed, Protocol, UNCHANGED <<ueMap, lastRnti, ue, down, up, x2, mme, imsiRnti, modify>>
    PROVE  Protocol'
<1>1. OnlyAt(NoPlace, 0) /\ TimedAt(NoPlace)' /\ Undisturbed(NoPlace)
  BY Nowhere, ManagersSame, NotNeeded
<1>2. Orderly
  BY <1>1, Nowhere, UsedSame, OrderlyStep
<1>3. OnlyOf(0)
  BY SameRrc
<1>4. MessagesOf(0)
  BY DEF MessagesOf, AckUnderWay, ReleaseUnderWay
<1>5. OneEach(x2)'
  BY DEF Protocol
<1>6. NewExpected
  BY DEF NewExpected
<1>7. MapTyped /\ 0 \notin Ues
  BY Parts, Nowhere
<1> QED  BY <1>1, <1>2, <1>3, <1>4, <1>5, <1>6, <1>7, GoesOn

\* The source gNB, at a command: there is no other preparation of the UE.
LEMMA CommandGoesOn ==
    ASSUME Typed, Protocol, abort = "none", NEW m \in BagToSet(cmds), ReceiveCommand(m)
    PROVE  ProtocolInv'
<1>0. m \in HandoverCommands /\ MapTyped
  BY Parts DEF WireTypes
<1>1. CASE Fatal("reconfiguring")
  BY <1>1 DEF Fatal, ProtocolInv
<1>2. CASE Drop(m)
  <2>1. UNCHANGED <<ueMap, lastRnti, ue, down, up, x2, mme, imsiRnti, modify, abort>>
    BY <1>2 DEF Drop, gnbVars, rrcVars, coreVars
  <2> QED  BY <2>1, NothingHappens DEF ProtocolInv
<1>3. ASSUME HasUeManager(At(m.cell, m.rnti)),
             ueMap[At(m.cell, m.rnti)].state = "CONNECTED_NORMALLY", PrepareHandover(m)
      PROVE  ProtocolInv'
  <2>1. PICK p, u, n, r :
          /\ p = At(m.cell, m.rnti) /\ u = ueMap[p].imsi
          /\ n = [ueMap[p] EXCEPT !.state = "HANDOVER_PREPARATION", !.target = At(m.to, 0)]
          /\ r = [type |-> "request", old |-> m.rnti, imsi |-> u]
    OBVIOUS
  <2>2. /\ ueMap' = Put(p, n) /\ SendX2(m.cell, m.to, r)
        /\ UNCHANGED <<lastRnti, ue, down, up, mme, imsiRnti, modify, expired, abort>>
    BY <1>3, <2>1 DEF PrepareHandover, rrcVars, coreVars
  <2>3. p \in DOMAIN ueMap /\ ueMap[p].state = "CONNECTED_NORMALLY" /\ ueMap[p] \in Managers
    BY <1>0, <1>3, <2>1 DEF HasUeManager, MapTyped
  <2>4. u \in Ues /\ p = ue[u].at /\ ueMap[p].imsi = u
    BY <2>1, <2>3, Here
  <2>5. /\ n.imsi = u /\ n.state = "HANDOVER_PREPARATION" /\ n.target.cell = m.to
        /\ n.timer = ueMap[p].timer
    BY <2>1, <2>3 DEF Managers, At
  <2>6. m.cell \in Cells /\ m.rnti \in Rntis /\ m.to \in Cells
    BY <1>0 DEF HandoverCommands
  <2>7. r \in X2Messages /\ r.type = "request" /\ r.imsi = u /\ About(m.cell, m.to, r) = p
        /\ Peer(m.cell, m.to, r) = m.to
    BY <2>1, <2>4, <2>6 DEF X2Messages, About, Peer
  <2>8. Free(x2, p)
    BY <2>3 DEF Free, Protocol, X2Inv, Expected, Prepared
  <2>9. /\ OneEach(x2)' /\ AllBut(m.cell, m.to, r)
        /\ Expected(m.cell, m.to, r)' => NewExpected
    BY <2>2, <2>6, <2>7, <2>8, MessageSent
  <2>10. /\ OnlyAt(p, u) /\ DOMAIN ueMap' = DOMAIN ueMap \cup {p} /\ ueMap'[p] = n
         /\ \A q \in DOMAIN ueMap : q # p => q \in DOMAIN ueMap' /\ ueMap'[q] = ueMap[q]
    <3>1. ueMap' = Put(p, n)
      BY <2>2
    <3>2. n.imsi = u /\ ueMap[p].imsi = u
      BY <2>4, <2>5
    <3> QED  BY <3>1, <3>2 DEF Put, OnlyAt
  <2>11. Expected(m.cell, m.to, r)'
    BY <2>5, <2>7, <2>10 DEF Expected, Prepared, Preparing
  <2>12. Orderly
    BY <2>2, <2>3, <2>10, UsedSame, OrderlyStep
  <2>13. OnlyOf(u) /\ SameOf(u)
    BY <2>2, <2>4, SameRrc
  <2>14. MessagesOf(u)
    BY <1>0, <2>6, <2>7, <2>9, MessagesKept
  <2>15. Undisturbed(p)
    BY <2>3, NotNeeded
  <2>16. TimedAt(p)'
    BY <2>3, <2>5, <2>10 DEF Protocol, Timed, TimedAt
  <2>17. Phase(u)'
    <3>1. Connected(u) /\ ueMap[p].imsi = u
      BY <2>1, <2>3, <2>4 DEF Protocol, Phase
    <3>2. Connected(u)' /\ ue'[u].at = p
      BY <2>4, <2>13, <3>1 DEF Connected, Quiet, SameOf
    <3> QED  BY <2>5, <2>10, <3>2 DEF Phase
  <2>18. Others(u)'
    <3>1. ASSUME NEW q \in DOMAIN ueMap, ueMap[q].imsi = u, q # p
          PROVE  ueMap[q].state = "HANDOVER_LEAVING" /\ ReleaseUnderWay(q)'
      <4>1. ueMap[q].state = "HANDOVER_LEAVING" /\ ReleaseUnderWay(q) /\ q \in Places
        BY <1>0, <2>3, <2>4, <3>1, OnlyReleases DEF MapTyped
      <4> QED  BY <2>6, <2>7, <2>9, <4>1, UnderWay
    <3> QED  BY <2>2, <2>4, <2>10, <3>1, ReleasesGoOn
  <2>19. Protocol'
    BY <1>0, <2>9, <2>10, <2>11, <2>12, <2>13, <2>14, <2>15, <2>16, <2>17, <2>18, GoesOn
  <2> QED  BY <2>2, <2>19 DEF ProtocolInv
<1> QED  BY <1>1, <1>2, <1>3 DEF ReceiveCommand

\* The source gNB, at an acknowledgement: the UE is told the place it may join.
LEMMA AckGoesOn ==
    ASSUME Typed, Protocol, abort = "none", NEW t \in Cells, NEW s \in Cells,
           RecvHandoverRequestAck(t, s)
    PROVE  ProtocolInv'
<1>0. MapTyped /\ WireTypes /\ Received(t, s, "ack")
  BY Parts DEF RecvHandoverRequestAck
<1>1. PICK h, p, u, j, n, r :
        /\ h = Head(x2[t][s]) /\ p = At(s, h.old) /\ u = ueMap[p].imsi /\ j = At(t, h.new)
        /\ n = [ueMap[p] EXCEPT !.state = "HANDOVER_LEAVING", !.target = j, !.timer = "leaving"]
        /\ r = [type |-> "handover", at |-> j]
  OBVIOUS
<1>2. h \in Range(x2[t][s]) /\ h \in X2Messages /\ h.type = "ack"
  BY <1>0, <1>1, X2Received
<1>3. About(t, s, h) = p /\ Prepared(t, s, h)
  BY <1>1, <1>2 DEF About, Protocol, X2Inv, Expected, Preparing
<1>4. /\ p \in DOMAIN ueMap /\ ueMap[p].state = "HANDOVER_PREPARATION" /\ ueMap[p] \in Managers
      /\ j \in DOMAIN ueMap /\ ueMap[j].state = "HANDOVER_JOINING" /\ ueMap[j].imsi = u
  BY <1>0, <1>1, <1>2, <1>3 DEF Prepared, MapTyped
<1>5. /\ ueMap' = Put(p, n) /\ Taken(t, s) /\ SendRrc(u, r)
      /\ UNCHANGED <<lastRnti, ue, up, mme, imsiRnti, modify, expired, abort>>
  BY <1>1, <1>4 DEF RecvHandoverRequestAck, HasUeManager, coreVars
<1>6. u \in Ues /\ p = ue[u].at /\ ueMap[p].imsi = u
  BY <1>1, <1>4, Here
<1>7. n.imsi = u /\ n.state = "HANDOVER_LEAVING" /\ n.target = j /\ n.timer = "leaving" /\ j # p
  BY <1>1, <1>4 DEF Managers
<1>8. OneEach(x2)' /\ AllBut(t, s, h) /\ NewExpected /\ Free(x2', p)
  <2>1. Taken(t, s) /\ Received(t, s, "ack") /\ h = Head(x2[t][s])
    BY <1>0, <1>1, <1>5
  <2>2. /\ OneEach(x2)' /\ AllBut(t, s, h) /\ NewExpected
        /\ h.type \in Preparing => Free(x2', About(t, s, h))
    BY <2>1, MessageTaken
  <2> QED  BY <1>2, <1>3, <2>2 DEF Preparing
<1>9. /\ OnlyAt(p, u) /\ DOMAIN ueMap' = DOMAIN ueMap \cup {p} /\ ueMap'[p] = n
      /\ \A q \in DOMAIN ueMap : q # p => q \in DOMAIN ueMap' /\ ueMap'[q] = ueMap[q]
  BY <1>5, <1>6, <1>7, ManagerPut
<1>10. Orderly
  BY <1>4, <1>5, <1>9, UsedSame, OrderlyStep
<1>11. Phase(u) /\ Others(u) /\ Connected(u)
  BY <1>4, <1>6 DEF Protocol, Phase
<1>12. down' = [down EXCEPT ![u] = <<r>>]
  <2>1. down[u] = <<>> /\ Append(<<>>, r) = <<r>>
    BY <1>11 DEF Connected, Quiet
  <2> QED  BY <1>5, <2>1 DEF SendRrc
<1>13. OnlyOf(u) /\ down'[u] = <<[type |-> "handover", at |-> j]>>
  <2>1. OnlyOf(u) /\ down'[u] = <<r>>
    BY <1>0, <1>5, <1>6, <1>12 DEF OnlyOf, SameOf, WireTypes
  <2> QED  BY <1>1, <2>1
<1>14. MessagesOf(u)
  BY <1>0, <1>1, <1>8, MessagesKept
<1>15. Undisturbed(p)
  <2> SUFFICES ASSUME NEW c \in Cells, NEW d \in Cells, NEW m \in Range(x2[c][d]),
                      m \in Range(x2'[c][d]), m.type \in Preparing
               PROVE  About(c, d, m) # p /\ (m.type = "ack" => At(c, m.new) # p)
    BY DEF Undisturbed
  <2>1. About(c, d, m) # p
    BY <1>8 DEF Free
  <2>2. Prepared(c, d, m)
    BY DEF Protocol, X2Inv, Expected
  <2> QED  BY <1>4, <2>1, <2>2 DEF Prepared
<1>16. TimedAt(p)'
  BY <1>7, <1>9 DEF TimedAt
<1>17. Phase(u)'
  <2>1. ue'[u] = ue[u] /\ up'[u] = <<>> /\ modify'[u] = 0 /\ ue'[u].state = "CONNECTED_NORMALLY"
        /\ ue'[u].at = p
    BY <1>5, <1>6, <1>11 DEF Connected, Quiet
  <2>2. j \in DOMAIN ueMap' /\ ueMap'[j].imsi = u /\ ueMap'[j].state = "HANDOVER_JOINING"
    BY <1>4, <1>7, <1>9
  <2>3. Leaving(u)'
    BY <1>7, <1>9, <1>13, <2>1, <2>2 DEF Leaving
  <2> QED  BY <1>7, <1>9, <2>1, <2>3 DEF Phase
<1>18. Others(u)'
  <2> SUFFICES ASSUME NEW q \in DOMAIN ueMap', ueMap'[q].imsi = u, q # ue'[u].at
               PROVE  (ToJoin(q, ue[u].at) \/ Left(q, ue[u].at))'
    BY DEF Others
  <2>1. q \in DOMAIN ueMap /\ ueMap'[q] = ueMap[q] /\ q # p /\ q \in Places /\ p \in Places
    BY <1>0, <1>4, <1>5, <1>6, <1>9 DEF MapTyped
  <2>2. ToJoin(q, p) \/ Left(q, p)
    BY <1>6, <1>11, <2>1 DEF Others
  <2>3. ASSUME ToJoin(q, p) PROVE ToJoin(q, p)'
    <3>1. PICK m \in Range(x2[q.cell][p.cell]) : m.type = "ack" /\ m.old = p.rnti /\ m.new = q.rnti
      BY <1>4, <2>3 DEF ToJoin, AckUnderWay
    <3>2. q.cell \in Cells /\ p.cell \in Cells /\ q = At(q.cell, q.rnti) /\ p = At(p.cell, p.rnti)
      BY <2>1 DEF Places, At
    <3>3. About(q.cell, p.cell, m) = p /\ m.type \in Preparing
      BY <3>1, <3>2 DEF About, Preparing
    <3>4. q.cell = t /\ m = h
      BY <1>2, <1>3, <3>1, <3>2, <3>3, SameMessage DEF Preparing, Protocol
    <3>5. q = j
      BY <1>1, <3>1, <3>2, <3>4
    <3> QED  BY <1>7, <1>9, <2>1, <2>3, <3>5 DEF ToJoin
  <2>4. ASSUME Left(q, p) PROVE Left(q, p)'
    <3>1. ueMap[q].state = "HANDOVER_LEAVING" /\ ReleaseUnderWay(q)
      BY <1>4, <2>4 DEF Left
    <3>2. ReleaseUnderWay(q)'
      BY <1>2, <1>8, <2>1, <3>1, UnderWay
    <3> QED  BY <2>1, <3>1, <3>2 DEF Left
  <2>5. (ToJoin(q, p) \/ Left(q, p))'
    BY <2>2, <2>3, <2>4
  <2>6. ue'[u].at = p
    BY <1>5, <1>6
  <2> QED  BY <2>5, <2>6
<1>19. Protocol'
  BY <1>0, <1>8, <1>9, <1>10, <1>13, <1>14, <1>15, <1>16, <1>17, <1>18, GoesOn
<1> QED  BY <1>5, <1>19 DEF ProtocolInv

\* A gNB that has its UE CONNECTED_NORMALLY again may have to reconfigure it first.
SwitchedTo(p, u, n) ==
    /\ ueMap' = Put(p, n) /\ n.imsi = u /\ n.timer = ueMap[p].timer
    /\ \A v \in Ues : v # u => down'[v] = down[v]
    /\ \/ n.state = "CONNECTED_NORMALLY" /\ down'[u] = <<>>
       \/ /\ n.state = "CONNECTION_RECONFIGURATION"
          /\ down'[u] = <<[type |-> "reconfiguration"]>>

\* What SwitchToConnectedNormally does to the manager and the UE's messages.
LEMMA Switched ==
    ASSUME Typed, NEW p \in DOMAIN ueMap, SwitchToConnectedNormally(p), NEW u, u = ueMap[p].imsi,
           down[u] = <<>>
    PROVE  \E n : SwitchedTo(p, u, n)
<1>0. WireTypes /\ ueMap[p] \in Managers /\ u \in Ues
  BY ManagerChanged, Parts
<1>1. CASE ueMap[p].pending
  <2>1. PICK n, r : /\ n = [ueMap[p] EXCEPT !.state = "CONNECTION_RECONFIGURATION", !.pending = FALSE]
                    /\ r = [type |-> "reconfiguration"]
    OBVIOUS
  <2>2. ueMap' = Put(p, n) /\ SendRrc(u, r)
    BY <1>1, <2>1 DEF SwitchToConnectedNormally
  <2>3. n.imsi = u /\ n.timer = ueMap[p].timer /\ n.state = "CONNECTION_RECONFIGURATION"
    BY <1>0, <2>1 DEF Managers
  <2>4. down' = [down EXCEPT ![u] = <<r>>]
    <3>1. Append(<<>>, r) = <<r>>
      OBVIOUS
    <3> QED  BY <2>2, <3>1 DEF SendRrc
  <2>5. down'[u] = <<r>> /\ \A v \in Ues : v # u => down'[v] = down[v]
    BY <1>0, <2>4 DEF WireTypes
  <2>6. down'[u] = <<[type |-> "reconfiguration"]>>
    BY <2>1, <2>5
  <2> QED  BY <2>2, <2>3, <2>5, <2>6 DEF SwitchedTo
<1>2. CASE ~ueMap[p].pending
  <2>1. PICK n : n = [ueMap[p] EXCEPT !.state = "CONNECTED_NORMALLY"]
    OBVIOUS
  <2>2. ueMap' = Put(p, n) /\ down' = down
    BY <1>2, <2>1 DEF SwitchToConnectedNormally
  <2>3. n.imsi = u /\ n.timer = ueMap[p].timer /\ n.state = "CONNECTED_NORMALLY"
    BY <1>0, <2>1 DEF Managers
  <2> QED  BY <2>2, <2>3 DEF SwitchedTo
<1> QED  BY <1>1, <1>2

\* After it the UE is connected, with a reconfiguration under way if one was pending.
LEMMA SwitchedPhase ==
    ASSUME NEW u, NEW p, ue'[u].at = p, ue'[u].state = "CONNECTED_NORMALLY", up'[u] = <<>>,
           modify'[u] = 0, mme'[u] = p.cell, p \in DOMAIN ueMap', ueMap'[p].imsi = u,
           \/ ueMap'[p].state = "CONNECTED_NORMALLY" /\ down'[u] = <<>>
           \/ /\ ueMap'[p].state = "CONNECTION_RECONFIGURATION"
              /\ down'[u] = <<[type |-> "reconfiguration"]>>
    PROVE  Phase(u)'
<1>1. CASE ueMap'[p].state = "CONNECTED_NORMALLY" /\ down'[u] = <<>>
  BY <1>1 DEF Phase, Connected, Quiet
<1>2. CASE ueMap'[p].state = "CONNECTION_RECONFIGURATION"
           /\ down'[u] = <<[type |-> "reconfiguration"]>>
  BY <1>2 DEF Phase, Reconfiguring
<1> QED  BY <1>1, <1>2

\* The source gNB, at a preparation failure: no acknowledgement is under way.
LEMMA FailureGoesOn ==
    ASSUME Typed, Protocol, abort = "none", NEW t \in Cells, NEW s \in Cells,
           RecvHandoverPreparationFailure(t, s)
    PROVE  ProtocolInv'
<1>0. MapTyped /\ WireTypes /\ Received(t, s, "failure")
  BY Parts DEF RecvHandoverPreparationFailure
<1>1. PICK h, p, u : h = Head(x2[t][s]) /\ p = At(s, h.old) /\ u = ueMap[p].imsi
  OBVIOUS
<1>2. h \in Range(x2[t][s]) /\ h \in X2Messages /\ h.type = "failure"
  BY <1>0, <1>1, X2Received
<1>3. About(t, s, h) = p /\ Prepared(t, s, h) /\ Peer(t, s, h) = t
  BY <1>1, <1>2 DEF About, Peer, Protocol, X2Inv, Expected, Preparing
<1>4. /\ p \in DOMAIN ueMap /\ ueMap[p].state = "HANDOVER_PREPARATION" /\ ueMap[p].target.cell = t
      /\ p \in Places
  BY <1>0, <1>3 DEF Prepared, MapTyped
<1>5. /\ Taken(t, s) /\ SwitchToConnectedNormally(p)
      /\ UNCHANGED <<lastRnti, ue, up, mme, imsiRnti, modify, expired, abort>>
  BY <1>1, <1>4 DEF RecvHandoverPreparationFailure, HasUeManager, coreVars
<1>6. u \in Ues /\ p = ue[u].at /\ ueMap[p].imsi = u
  BY <1>1, <1>4, Here
<1>7. Connected(u)
  BY <1>4, <1>6 DEF Protocol, Phase
<1>8. PICK n : /\ ueMap' = Put(p, n) /\ n.imsi = u /\ n.timer = ueMap[p].timer
               /\ \A v \in Ues : v # u => down'[v] = down[v]
               /\ \/ n.state = "CONNECTED_NORMALLY" /\ down'[u] = <<>>
                  \/ /\ n.state = "CONNECTION_RECONFIGURATION"
                     /\ down'[u] = <<[type |-> "reconfiguration"]>>
  <2>1. \E n : SwitchedTo(p, u, n)
    BY <1>4, <1>5, <1>6, <1>7, Switched DEF Connected, Quiet
  <2> QED  BY <2>1 DEF SwitchedTo
<1>9. OneEach(x2)' /\ AllBut(t, s, h) /\ NewExpected /\ Free(x2', p)
  <2>1. Taken(t, s) /\ Received(t, s, "failure") /\ h = Head(x2[t][s])
    BY <1>0, <1>1, <1>5
  <2>2. /\ OneEach(x2)' /\ AllBut(t, s, h) /\ NewExpected
        /\ h.type \in Preparing => Free(x2', About(t, s, h))
    BY <2>1, MessageTaken
  <2> QED  BY <1>2, <1>3, <2>2 DEF Preparing
<1>10. OnlyAt(p, u) /\ p \in DOMAIN ueMap' /\ ueMap'[p] = n
  BY <1>6, <1>8 DEF Put, OnlyAt
<1>11. Orderly
  BY <1>4, <1>5, <1>10, UsedSame, OrderlyStep
<1>12. OnlyOf(u)
  BY <1>5, <1>8 DEF OnlyOf, SameOf
<1>13. MessagesOf(u)
  BY <1>0, <1>2, <1>9, MessagesKept
<1>14. Undisturbed(p)
  <2> SUFFICES ASSUME NEW c \in Cells, NEW d \in Cells, NEW m \in Range(x2[c][d]),
                      m \in Range(x2'[c][d]), m.type \in Preparing
               PROVE  About(c, d, m) # p /\ (m.type = "ack" => At(c, m.new) # p)
    BY DEF Undisturbed
  <2>1. About(c, d, m) # p
    BY <1>9 DEF Free
  <2>2. Prepared(c, d, m)
    BY DEF Protocol, X2Inv, Expected
  <2> QED  BY <1>4, <2>1, <2>2 DEF Prepared
<1>15. TimedAt(p)'
  BY <1>4, <1>8, <1>10 DEF Protocol, Timed, TimedAt
<1>16. Phase(u)'
  <2>1. /\ ue'[u].at = p /\ ue'[u].state = "CONNECTED_NORMALLY" /\ up'[u] = <<>>
        /\ modify'[u] = 0 /\ mme'[u] = p.cell
    BY <1>5, <1>6, <1>7 DEF Connected, Quiet
  <2> QED  BY <1>8, <1>10, <2>1, SwitchedPhase
<1>17. Others(u)'
  <2>1. ASSUME NEW q \in DOMAIN ueMap, AckUnderWay(q, p) PROVE FALSE
    <3>1. q.cell \in Cells /\ p.cell \in Cells /\ p = At(p.cell, p.rnti)
      BY <1>0, <1>4 DEF MapTyped, Places, At
    <3>2. PICK m \in Range(x2[q.cell][p.cell]) : m.type = "ack" /\ m.old = p.rnti
      BY <2>1 DEF AckUnderWay
    <3>3. About(q.cell, p.cell, m) = p /\ m.type \in Preparing /\ h.type \in Preparing
      BY <1>2, <3>1, <3>2 DEF About, Preparing
    <3>4. m = h
      BY <1>2, <1>3, <3>1, <3>2, <3>3, SameMessage DEF Protocol
    <3> QED  BY <1>2, <3>2, <3>4
  <2>2. ASSUME NEW q \in DOMAIN ueMap, ueMap[q].imsi = u, q # p
        PROVE  ueMap[q].state = "HANDOVER_LEAVING" /\ ReleaseUnderWay(q)'
    <3>1. ueMap[q].state = "HANDOVER_LEAVING" /\ ReleaseUnderWay(q) /\ q \in Places
      BY <1>0, <1>4, <1>6, <2>1, <2>2, OnlyReleases DEF MapTyped
    <3> QED  BY <1>2, <1>9, <3>1, UnderWay
  <2> QED  BY <1>5, <1>6, <1>10, <2>2, ReleasesGoOn
<1>18. Protocol'
  BY <1>0, <1>9, <1>10, <1>11, <1>12, <1>13, <1>14, <1>15, <1>16, <1>17, GoesOn
<1> QED  BY <1>5, <1>18 DEF ProtocolInv

\* The source gNB, at a release: the UE has left the place.
LEMMA ReleaseGoesOn ==
    ASSUME Typed, Protocol, abort = "none", NEW t \in Cells, NEW s \in Cells,
           RecvUeContextRelease(t, s)
    PROVE  ProtocolInv'
<1>0. MapTyped /\ WireTypes /\ Received(t, s, "release")
  BY Parts DEF RecvUeContextRelease
<1>1. PICK h, p, u : /\ h = Head(x2[t][s]) /\ p = At(s, h.old)
                     /\ u = IF p \in DOMAIN ueMap THEN ueMap[p].imsi ELSE 0
  OBVIOUS
<1>2. h \in Range(x2[t][s]) /\ h \in X2Messages /\ h.type = "release"
  BY <1>0, <1>1, X2Received
<1>3. Vacated(p)
  BY <1>1, <1>2 DEF Protocol, X2Inv, Expected
<1>4. p \in DOMAIN ueMap => /\ ueMap[p].state = "HANDOVER_LEAVING" /\ ueMap[p].imsi = u
                            /\ u \in Ues /\ p # ue[u].at
  BY <1>1, <1>3, ManagerChanged DEF Vacated
<1>5. p \notin DOMAIN ueMap => u = 0 /\ u \notin Ues
  BY <1>1, Nowhere
<1>6. /\ Taken(t, s) /\ ueMap' = RemoveUe(p)
      /\ UNCHANGED <<lastRnti, ue, down, up, mme, imsiRnti, modify, expired, abort>>
  BY <1>1, <1>4 DEF RecvUeContextRelease, HasUeManager, rrcVars, coreVars
<1>7. OneEach(x2)' /\ AllBut(t, s, h) /\ NewExpected
  BY <1>0, <1>1, <1>6, MessageTaken
<1>8. /\ OnlyAt(p, u) /\ DOMAIN ueMap' = DOMAIN ueMap \ {p}
      /\ \A q \in DOMAIN ueMap : q # p => q \in DOMAIN ueMap' /\ ueMap'[q] = ueMap[q]
  BY <1>4, <1>6 DEF RemoveUe, OnlyAt
<1>9. Orderly
  BY <1>6, <1>8, UsedSame, OrderlyStep
<1>10. OnlyOf(u) /\ (u \in Ues => SameOf(u))
  BY <1>6, SameRrc
<1>11. MessagesOf(u)
  BY <1>0, <1>1, <1>4, <1>7, MessagesKept
<1>12. Undisturbed(p) /\ TimedAt(p)'
  BY <1>4, <1>8, NotNeeded DEF TimedAt
<1>13. ASSUME u \in Ues PROVE Phase(u)' /\ Others(u)'
  <2>1. p \in DOMAIN ueMap
    BY <1>5, <1>13
  <2>2. Phase(u)'
    BY <1>0, <1>4, <1>8, <1>9, <1>10, <1>13, PhaseKept
  <2>3. Others(u)'
    <3> SUFFICES ASSUME NEW q \in DOMAIN ueMap', ueMap'[q].imsi = u, q # ue'[u].at
                 PROVE  (ToJoin(q, ue[u].at) \/ Left(q, ue[u].at))'
      BY DEF Others
    <3>1. PICK at : at = ue[u].at
      OBVIOUS
    <3>2. ue'[u].at = at /\ at \in DOMAIN ueMap /\ at # p
      BY <1>4, <1>6, <1>13, <2>1, <3>1 DEF Protocol, Phase
    <3>3. /\ q \in DOMAIN ueMap /\ ueMap'[q] = ueMap[q] /\ q # p /\ q # at
          /\ ueMap'[at] = ueMap[at]
      BY <1>8, <3>2
    <3>4. q \in Places /\ at \in Places
      BY <1>0, <3>2, <3>3 DEF MapTyped
    <3>5. ToJoin(q, at) \/ Left(q, at)
      BY <1>13, <3>1, <3>3 DEF Protocol, Others
    <3>6. /\ AckUnderWay(q, at) => AckUnderWay(q, at)'
          /\ ReleaseUnderWay(q) => ReleaseUnderWay(q)'
      BY <1>1, <1>2, <1>7, <3>3, <3>4, UnderWay
    <3>7. (ToJoin(q, at) \/ Left(q, at))'
      BY <3>3, <3>5, <3>6 DEF ToJoin, Left
    <3> QED  BY <3>2, <3>7
  <2> QED  BY <2>2, <2>3
<1>14. Protocol'
  BY <1>0, <1>7, <1>8, <1>9, <1>10, <1>11, <1>12, <1>13, GoesOn
<1> QED  BY <1>6, <1>14 DEF ProtocolInv

\* The target gNB, when it refuses a request: the failure is for the same preparation.
LEMMA RefuseGoesOn ==
    ASSUME Typed, Protocol, abort = "none", NEW s \in Cells, NEW t \in Cells,
           RejectHandoverRequest(s, t) \/ NoPreambleLeft(s, t)
    PROVE  ProtocolInv'
<1> USE NrHandoverAssumption
<1>0. MapTyped /\ NodeTyped /\ Received(s, t, "request")
  BY Parts DEF RejectHandoverRequest, NoPreambleLeft
<1>1. PICK h, a : h = Head(x2[s][t]) /\ a = [type |-> "failure", old |-> h.old]
  OBVIOUS
<1>2. /\ TakenAndAnswered(s, t, a)
      /\ UNCHANGED <<ueMap, ue, down, up, mme, imsiRnti, modify, expired, abort>>
  BY <1>1 DEF RejectHandoverRequest, NoPreambleLeft, Refuse, gnbVars, rrcVars, coreVars
<1>3. h \in X2Messages /\ h.type = "request" /\ h.old \in Rntis
  BY <1>0, <1>1, X2Received, Parts DEF X2Messages
<1>4. a \in X2Messages /\ a.type = "failure" /\ a.old = h.old
  BY <1>1, <1>3 DEF X2Messages
<1>5. /\ Expected(s, t, h) /\ OneEach(x2)' /\ AllBut(s, t, h)
      /\ Expected(t, s, a)' => NewExpected
  BY <1>0, <1>1, <1>2, <1>4, MessageAnswered
<1>6. \A p \in Places : Used(p) => Used(p)'
  <2>1. CASE UNCHANGED lastRnti
    BY <2>1, UsedSame
  <2>2. CASE NoPreambleLeft(s, t)
    <3>1. lastRnti[t] < MaxRnti /\ lastRnti' = [lastRnti EXCEPT ![t] = NewRnti(t)]
      BY <2>2 DEF NoPreambleLeft
    <3>2. NewRnti(t) \in Rntis /\ NewRnti(t) > lastRnti[t]
      BY <3>1, NewRntiUnused DEF Typed
    <3>3. lastRnti' \in [Cells -> 0 .. MaxRnti] /\ \A c \in Cells : lastRnti[c] <= lastRnti'[c]
      BY <1>0, <3>1, <3>2 DEF NodeTyped, Rntis
    <3> QED  BY <1>0, <3>3, UsedGrows DEF NodeTyped
  <2> QED  BY <2>1, <2>2 DEF RejectHandoverRequest, gnbVars
<1>7. OnlyAt(NoPlace, 0) /\ TimedAt(NoPlace)' /\ Undisturbed(NoPlace) /\ 0 \notin Ues
  BY <1>2, Nowhere, ManagersSame, NotNeeded
<1>8. Orderly
  BY <1>2, <1>6, <1>7, Nowhere, OrderlyStep
<1>9. OnlyOf(0)
  BY <1>2, SameRrc
<1>10. MessagesOf(0)
  BY <1>0, <1>3, <1>5, MessagesKept
<1>11. Expected(t, s, a)'
  <2>1. Prepared(s, t, h) /\ About(s, t, h) = At(s, h.old) /\ Peer(s, t, h) = t
    BY <1>3, <1>5 DEF Expected, Preparing, About, Peer
  <2>2. About(t, s, a) = At(s, h.old) /\ Peer(t, s, a) = t
    BY <1>4 DEF About, Peer
  <2>3. Prepared(t, s, a)'
    BY <1>2, <1>4, <2>1, <2>2 DEF Prepared
  <2> QED  BY <1>4, <2>3 DEF Expected
<1>12. Protocol'
  BY <1>0, <1>5, <1>7, <1>8, <1>9, <1>10, <1>11, GoesOn
<1> QED  BY <1>2, <1>12 DEF ProtocolInv

\* The target gNB, when it admits the UE: the new place is the one the UE will join.
LEMMA RequestGoesOn ==
    ASSUME Typed, Protocol, abort = "none", NEW s \in Cells, NEW t \in Cells,
           RecvHandoverRequest(s, t)
    PROVE  ProtocolInv'
<1> USE NrHandoverAssumption
<1>0. MapTyped /\ NodeTyped /\ Received(s, t, "request") /\ lastRnti[t] < MaxRnti
  BY Parts DEF RecvHandoverRequest
<1>1. PICK h, at, u, j, n, a :
        /\ h = Head(x2[s][t]) /\ at = At(s, h.old) /\ u = h.imsi /\ j = At(t, NewRnti(t))
        /\ n = [Manager(u, "HANDOVER_JOINING") EXCEPT
                  !.source = at, !.pending = TRUE, !.timer = "joining"]
        /\ a = [type |-> "ack", old |-> h.old, new |-> NewRnti(t)]
  OBVIOUS
<1>2. NewRnti(t) \in Rntis /\ NewRnti(t) > lastRnti[t]
  BY <1>0, NewRntiUnused DEF Typed
<1>3. j.cell = t /\ j.rnti = NewRnti(t) /\ j \in Places /\ at.cell = s /\ at.rnti = h.old
  BY <1>1, <1>2 DEF At, Places
<1>4. /\ TakenAndAnswered(s, t, a) /\ ueMap' = Put(j, n)
      /\ lastRnti' = [lastRnti EXCEPT ![t] = NewRnti(t)]
      /\ UNCHANGED <<ue, down, up, mme, imsiRnti, modify, expired, abort>>
  BY <1>1, <1>3 DEF RecvHandoverRequest, rrcVars, coreVars
<1>5. h \in X2Messages /\ h.type = "request" /\ h.old \in Rntis /\ u \in Ues
  BY <1>0, <1>1, X2Received, Parts DEF X2Messages
<1>6. /\ a \in X2Messages /\ a.type = "ack" /\ a.old = h.old /\ a.old = at.rnti
      /\ a.new = j.rnti /\ At(t, a.new) = j
  BY <1>1, <1>2, <1>3, <1>5 DEF X2Messages
<1>7. /\ Expected(s, t, h) /\ OneEach(x2)' /\ AllBut(s, t, h) /\ a \in Range(x2'[t][s])
      /\ Expected(t, s, a)' => NewExpected
  BY <1>0, <1>1, <1>4, <1>6, MessageAnswered
<1>8. /\ About(s, t, h) = at /\ at \in DOMAIN ueMap /\ ueMap[at].state = "HANDOVER_PREPARATION"
      /\ ueMap[at].target.cell = t /\ ueMap[at].imsi = u /\ at \in Places
  BY <1>0, <1>1, <1>5, <1>7 DEF Expected, Preparing, Prepared, About, Peer, MapTyped
<1>9. at = ue[u].at
  BY <1>8, Here
<1>10. ~Used(j) /\ j \notin DOMAIN ueMap /\ j # at
  <2>1. lastRnti[t] \in Int /\ NewRnti(t) \in Int
    BY <1>0, <1>2 DEF NodeTyped, Rntis
  <2>2. ~Used(j)
    BY <1>2, <1>3, <2>1 DEF Used
  <2> QED  BY <1>0, <1>8, <2>2 DEF MapTyped
<1>11. /\ n.imsi = u /\ n.state = "HANDOVER_JOINING" /\ n.source = at /\ n.timer = "joining"
  BY <1>1 DEF Manager
<1>12. /\ OnlyAt(j, u) /\ DOMAIN ueMap' = DOMAIN ueMap \cup {j} /\ ueMap'[j] = n
       /\ \A q \in DOMAIN ueMap : q # j => q \in DOMAIN ueMap' /\ ueMap'[q] = ueMap[q]
  BY <1>4, <1>10, <1>11 DEF Put, OnlyAt
<1>13. \A p \in Places : Used(p) => Used(p)'
  <2>1. lastRnti' \in [Cells -> 0 .. MaxRnti] /\ \A c \in Cells : lastRnti[c] <= lastRnti'[c]
    BY <1>0, <1>2, <1>4 DEF NodeTyped, Rntis
  <2> QED  BY <1>0, <2>1, UsedGrows DEF NodeTyped
<1>14. Orderly
  BY <1>4, <1>10, <1>12, <1>13, OrderlyStep
<1>15. OnlyOf(u) /\ SameOf(u)
  BY <1>4, <1>5, SameRrc
<1>16. MessagesOf(u)
  BY <1>0, <1>5, <1>7, MessagesKept
<1>17. Undisturbed(j) /\ TimedAt(j)'
  BY <1>10, <1>11, <1>12, NotNeeded DEF TimedAt
<1>18. ueMap'[at] = ueMap[at] /\ at \in DOMAIN ueMap'
  BY <1>8, <1>10, <1>12
<1>19. Expected(t, s, a)'
  <2>1. About(t, s, a) = at /\ Peer(t, s, a) = t
    BY <1>1, <1>6 DEF About, Peer
  <2>2. Prepared(t, s, a)'
    BY <1>6, <1>8, <1>11, <1>12, <1>18, <2>1 DEF Prepared
  <2> QED  BY <1>6, <2>2 DEF Expected
<1>20. Phase(u)'
  BY <1>0, <1>5, <1>10, <1>12, <1>14, <1>15, PhaseKept
<1>21. Others(u)'
  <2> SUFFICES ASSUME NEW q \in DOMAIN ueMap', ueMap'[q].imsi = u, q # ue'[u].at
               PROVE  (ToJoin(q, ue[u].at) \/ Left(q, ue[u].at))'
    BY DEF Others
  <2>0. ue'[u].at = at
    BY <1>4, <1>9
  <2>1. CASE q = j
    <3>1. AckUnderWay(q, at)'
      BY <1>3, <1>6, <1>7, <2>1 DEF AckUnderWay
    <3>2. ToJoin(q, at)'
      BY <1>8, <1>11, <1>12, <1>18, <2>1, <3>1 DEF ToJoin
    <3> QED  BY <2>0, <3>2
  <2>2. CASE q # j
    <3>1. q \in DOMAIN ueMap /\ ueMap'[q] = ueMap[q] /\ q \in Places /\ q # at
      BY <1>0, <1>12, <2>0, <2>2 DEF MapTyped
    <3>2. ToJoin(q, at) \/ Left(q, at)
      BY <1>5, <1>9, <3>1 DEF Protocol, Others
    <3>3. /\ AckUnderWay(q, at) => AckUnderWay(q, at)'
          /\ ReleaseUnderWay(q) => ReleaseUnderWay(q)'
      BY <1>5, <1>7, <1>8, <3>1, UnderWay
    <3>4. (ToJoin(q, at) \/ Left(q, at))'
      BY <1>18, <3>1, <3>2, <3>3 DEF ToJoin, Left
    <3> QED  BY <2>0, <3>4
  <2> QED  BY <2>1, <2>2
<1>22. Protocol'
  BY <1>0, <1>7, <1>12, <1>14, <1>15, <1>16, <1>17, <1>19, <1>20, <1>21, GoesOn
<1> QED  BY <1>4, <1>22 DEF ProtocolInv

\* A step that leaves X2 alone takes no message away and adds none.
LEMMA MessagesSame ==
    ASSUME Protocol, UNCHANGED x2, NEW u
    PROVE  /\ OneEach(x2)' /\ NewExpected /\ MessagesOf(u)
           /\ \A p : ReleaseUnderWay(p) => ReleaseUnderWay(p)'
  BY DEF Protocol, NewExpected, MessagesOf, AckUnderWay, ReleaseUnderWay

\* The phases by what is under way.
LEMMA Phases ==
    ASSUME Typed, Protocol, NEW u \in Ues, NEW at, at = ue[u].at
    PROVE  /\ at \in DOMAIN ueMap /\ at \in Places /\ ueMap[at].imsi = u /\ ueMap[at] \in Managers
           /\ up[u] # <<>> => /\ up[u] = <<at>> /\ ue[u].state = "CONNECTED_NORMALLY"
                              /\ ueMap[at].state \in {"CONNECTION_RECONFIGURATION", "HANDOVER_JOINING"}
           /\ modify[u] # 0 => ueMap[at].state = "HANDOVER_PATH_SWITCH"
           /\ down[u] # <<>> => /\ ueMap[at].state \in {"CONNECTION_RECONFIGURATION", "HANDOVER_LEAVING"}
                                /\ ue[u].state = "CONNECTED_NORMALLY"
           /\ ue[u].state = "CONNECTED_HANDOVER" => ueMap[at].state = "HANDOVER_JOINING"
<1>1. Phase(u)
  BY DEF Protocol
<1>2. at \in DOMAIN ueMap /\ ueMap[at].imsi = u /\ at \in Places /\ ueMap[at] \in Managers
  BY <1>1, Parts DEF Phase, MapTyped
<1>3. ueMap[at].state \in States
  BY <1>2 DEF Managers
<1>4. CASE ueMap[at].state \in {"CONNECTED_NORMALLY", "HANDOVER_PREPARATION"}
  BY <1>1, <1>2, <1>4 DEF Phase, Connected, Quiet
<1>5. CASE ueMap[at].state = "CONNECTION_RECONFIGURATION"
  BY <1>1, <1>2, <1>5 DEF Phase, Reconfiguring
<1>6. CASE ueMap[at].state = "HANDOVER_LEAVING"
  BY <1>1, <1>2, <1>6 DEF Phase, Leaving
<1>7. CASE ueMap[at].state = "HANDOVER_JOINING"
  BY <1>1, <1>2, <1>7 DEF Phase, Joining
<1>8. CASE ueMap[at].state = "HANDOVER_PATH_SWITCH"
  BY <1>1, <1>2, <1>8 DEF Phase, PathSwitch, Quiet
<1> QED  BY <1>3, <1>4, <1>5, <1>6, <1>7, <1>8 DEF States

\* The gNB a reconfiguration is completed at: the UE's, which has just reconfigured it, or
\* which it has joined.
LEMMA CompletedGoesOn ==
    ASSUME Typed, Protocol, abort = "none", NEW u \in Ues, RecvReconfigurationCompleted(u)
    PROVE  ProtocolInv'
<1>0. MapTyped /\ WireTypes /\ CoreTyped /\ up[u] # <<>>
  BY Parts DEF RecvReconfigurationCompleted
<1>1. PICK p : p = ue[u].at
  OBVIOUS
<1>2. /\ p \in DOMAIN ueMap /\ p \in Places /\ ueMap[p].imsi = u /\ ueMap[p] \in Managers
      /\ up[u] = <<p>> /\ ue[u].state = "CONNECTED_NORMALLY"
      /\ ueMap[p].state \in {"CONNECTION_RECONFIGURATION", "HANDOVER_JOINING"}
  BY <1>0, <1>1, Phases
<1>3. Head(up[u]) = p /\ Tail(up[u]) = <<>> /\ p.cell \in Cells
  BY <1>2 DEF Places
<1>4. /\ up' = [up EXCEPT ![u] = <<>>]
      /\ UNCHANGED <<lastRnti, ue, x2, expired, abort>>
  BY <1>2, <1>3 DEF RecvReconfigurationCompleted, HasUeManager
<1>5. up'[u] = <<>> /\ \A v \in Ues : v # u => up'[v] = up[v]
  BY <1>0, <1>4 DEF WireTypes
<1>6. OneEach(x2)' /\ NewExpected /\ MessagesOf(u) /\ \A q : ReleaseUnderWay(q) => ReleaseUnderWay(q)'
  BY <1>4, MessagesSame
<1>7. CASE ueMap[p].state = "HANDOVER_JOINING"
  <2>1. PICK n : n = [ueMap[p] EXCEPT !.state = "HANDOVER_PATH_SWITCH", !.timer = "none"]
    OBVIOUS
  <2>2. /\ ueMap' = Put(p, n) /\ UNCHANGED down
        /\ imsiRnti' = [imsiRnti EXCEPT ![p.cell][u] = p.rnti]
        /\ mme' = [mme EXCEPT ![u] = p.cell]
        /\ modify' = [modify EXCEPT ![u] = modify[u] + 1]
    BY <1>2, <1>3, <1>7, <2>1 DEF RecvReconfigurationCompleted, HasUeManager
  <2>3. /\ n.imsi = u /\ n.state = "HANDOVER_PATH_SWITCH" /\ n.timer = "none"
        /\ n.source = ueMap[p].source
    BY <1>2, <2>1 DEF Managers
  <2>4. /\ OnlyAt(p, u) /\ DOMAIN ueMap' = DOMAIN ueMap \cup {p} /\ ueMap'[p] = n
        /\ \A q \in DOMAIN ueMap : q # p => q \in DOMAIN ueMap' /\ ueMap'[q] = ueMap[q]
    BY <1>2, <2>2, <2>3 DEF Put, OnlyAt
  <2>5. Orderly
    BY <1>2, <1>4, <1>7, <2>4, UsedSame, OrderlyStep
  <2>6. /\ imsiRnti'[p.cell][u] = p.rnti /\ mme'[u] = p.cell /\ modify'[u] = modify[u] + 1
        /\ \A v \in Ues : v # u => /\ mme'[v] = mme[v] /\ modify'[v] = modify[v]
                                   /\ \A c \in Cells : imsiRnti'[c][v] = imsiRnti[c][v]
    BY <1>0, <1>3, <2>2 DEF CoreTyped
  <2>7. OnlyOf(u)
    BY <1>4, <1>5, <2>2, <2>6 DEF OnlyOf, SameOf
  <2>8. Undisturbed(p)
    <3> SUFFICES ASSUME NEW c \in Cells, NEW d \in Cells, NEW m \in Range(x2[c][d]),
                        m.type \in Preparing
                 PROVE  About(c, d, m) # p /\ (m.type = "ack" => At(c, m.new) # p)
      BY DEF Undisturbed
    <3>1. Prepared(c, d, m)
      BY DEF Protocol, X2Inv, Expected
    <3>2. PICK a : a = About(c, d, m)
      OBVIOUS
    <3>3. a \in DOMAIN ueMap /\ ueMap[a].state = "HANDOVER_PREPARATION"
      BY <3>1, <3>2 DEF Prepared
    <3>4. ueMap[a].imsi = u => a = p
      BY <1>1, <3>3, Here
    <3> QED  BY <1>2, <1>7, <3>1, <3>2, <3>3, <3>4 DEF Prepared
  <2>9. TimedAt(p)'
    BY <2>3, <2>4 DEF TimedAt
  <2>10. Joining(u)
    BY <1>1, <1>2, <1>7 DEF Protocol, Phase
  <2>11. Phase(u)'
    <3>1. ue'[u] = ue[u] /\ ue'[u].at = p
      BY <1>1, <1>4
    <3>2. PICK s : s = ueMap[p].source
      OBVIOUS
    <3>3. Vacated(s)
      BY <1>1, <2>10, <3>2 DEF Joining
    <3>4. Vacated(s)'
      BY <1>0, <2>5, <3>3, VacatedKept
    <3>5. ueMap'[ue'[u].at].source = s
      BY <2>3, <2>4, <3>1, <3>2
    <3>6. down'[u] = <<>> /\ modify'[u] = 1
      BY <2>2, <2>6, <2>10 DEF Joining
    <3>7. PathSwitch(u)'
      BY <1>2, <1>5, <2>6, <3>1, <3>4, <3>5, <3>6 DEF PathSwitch, Quiet
    <3> QED  BY <2>3, <2>4, <3>1, <3>7 DEF Phase
  <2>12. Others(u)'
    <3> SUFFICES ASSUME NEW q \in DOMAIN ueMap', ueMap'[q].imsi = u, q # ue'[u].at
                 PROVE  Left(q, ue[u].at)'
      BY DEF Others
    <3>0. ue'[u].at = p
      BY <1>1, <1>4
    <3>1. q \in DOMAIN ueMap /\ ueMap'[q] = ueMap[q] /\ q # p
      BY <2>4, <3>0
    <3>2. ToJoin(q, p) \/ Left(q, p)
      BY <1>1, <3>1 DEF Protocol, Others
    <3>3. Left(q, p)
      BY <1>7, <3>2 DEF ToJoin
    <3>4. Left(q, p)'
      BY <1>6, <2>3, <2>4, <3>1, <3>3 DEF Left
    <3> QED  BY <3>0, <3>4
  <2>13. Protocol'
    BY <1>0, <1>6, <2>4, <2>5, <2>7, <2>8, <2>9, <2>11, <2>12, GoesOn
  <2> QED  BY <1>4, <2>13 DEF ProtocolInv
<1>8. CASE ueMap[p].state = "CONNECTION_RECONFIGURATION"
  <2>1. SwitchToConnectedNormally(p) /\ UNCHANGED <<mme, imsiRnti, modify>>
    BY <1>2, <1>3, <1>8 DEF RecvReconfigurationCompleted, HasUeManager, coreVars
  <2>2. Reconfiguring(u)
    BY <1>1, <1>2, <1>8 DEF Protocol, Phase
  <2>3. down[u] = <<>>
    BY <1>0, <2>2 DEF Reconfiguring
  <2>4. PICK n : /\ ueMap' = Put(p, n) /\ n.imsi = u /\ n.timer = ueMap[p].timer
                 /\ \A v \in Ues : v # u => down'[v] = down[v]
                 /\ \/ n.state = "CONNECTED_NORMALLY" /\ down'[u] = <<>>
                    \/ /\ n.state = "CONNECTION_RECONFIGURATION"
                       /\ down'[u] = <<[type |-> "reconfiguration"]>>
    <3>1. \E n : SwitchedTo(p, u, n)
      BY <1>2, <2>1, <2>3, Switched
    <3> QED  BY <3>1 DEF SwitchedTo
  <2>5. OnlyAt(p, u) /\ p \in DOMAIN ueMap' /\ ueMap'[p] = n
    BY <1>2, <2>4 DEF Put, OnlyAt
  <2>6. Orderly
    BY <1>2, <1>4, <1>8, <2>5, UsedSame, OrderlyStep
  <2>7. OnlyOf(u)
    BY <1>4, <1>5, <2>1, <2>4 DEF OnlyOf, SameOf
  <2>8. Undisturbed(p)
    BY <1>8, NotNeeded
  <2>9. TimedAt(p)'
    BY <1>2, <1>8, <2>4, <2>5 DEF Protocol, Timed, TimedAt
  <2>10. Phase(u)'
    <3>1. /\ ue'[u].at = p /\ ue'[u].state = "CONNECTED_NORMALLY" /\ up'[u] = <<>>
          /\ modify'[u] = 0 /\ mme'[u] = p.cell
      BY <1>1, <1>2, <1>4, <1>5, <2>1, <2>2 DEF Reconfiguring
    <3> QED  BY <2>4, <2>5, <3>1, SwitchedPhase
  <2>11. Others(u)'
    <3>1. ASSUME NEW q \in DOMAIN ueMap, ueMap[q].imsi = u, q # p
          PROVE  ueMap[q].state = "HANDOVER_LEAVING" /\ ReleaseUnderWay(q)'
      BY <1>1, <1>6, <1>8, <3>1, OnlyReleases
    <3> QED  BY <1>1, <1>4, <2>5, <3>1, ReleasesGoOn
  <2>12. Protocol'
    BY <1>0, <1>6, <2>5, <2>6, <2>7, <2>8, <2>9, <2>10, <2>11, GoesOn
  <2> QED  BY <1>4, <2>12 DEF ProtocolInv
<1> QED  BY <1>2, <1>7, <1>8

\* The target gNB, when the core has switched the path: the source gets its release.
LEMMA PathSwitchGoesOn ==
    ASSUME Typed, Protocol, abort = "none", NEW u \in Ues, PathSwitchRequestAcknowledge(u)
    PROVE  ProtocolInv'
<1>0. MapTyped /\ WireTypes /\ CoreTyped /\ modify[u] # 0
  BY Parts DEF PathSwitchRequestAcknowledge
<1>1. PICK p, s, a : p = ue[u].at /\ s = ueMap[p].source
                     /\ a = [type |-> "release", old |-> s.rnti, new |-> p.rnti]
  OBVIOUS
<1>2. /\ p \in DOMAIN ueMap /\ p \in Places /\ ueMap[p].imsi = u
      /\ ueMap[p].state = "HANDOVER_PATH_SWITCH"
  BY <1>0, <1>1, Phases
<1>3. PathSwitch(u)
  BY <1>1, <1>2 DEF Protocol, Phase
<1>4. At(mme[u], imsiRnti[mme[u]][u]) = p /\ p.cell \in Cells /\ p.rnti \in Rntis
  BY <1>1, <1>2, <1>3 DEF PathSwitch, Places, At
<1>5. Vacated(s) /\ s \in Places /\ s.cell \in Cells /\ s.rnti \in Rntis /\ s = At(s.cell, s.rnti)
  BY <1>1, <1>3 DEF PathSwitch, Vacated, Places, At
<1>6. /\ modify' = [modify EXCEPT ![u] = modify[u] - 1]
      /\ SendX2(p.cell, s.cell, a) /\ SwitchToConnectedNormally(p)
      /\ UNCHANGED <<lastRnti, ue, up, mme, imsiRnti, expired, abort>>
  BY <1>1, <1>2, <1>4 DEF PathSwitchRequestAcknowledge, HasUeManager
<1>7. a \in X2Messages /\ a.type = "release" /\ a.old = s.rnti
  BY <1>1, <1>4, <1>5 DEF X2Messages
<1>8. /\ OneEach(x2)' /\ a \in Range(x2'[p.cell][s.cell])
      /\ \A h : AllBut(p.cell, s.cell, h)
      /\ Expected(p.cell, s.cell, a)' => NewExpected
  BY <1>4, <1>5, <1>6, <1>7, MessageSent DEF Preparing
<1>9. PICK n : /\ ueMap' = Put(p, n) /\ n.imsi = u /\ n.timer = ueMap[p].timer
               /\ \A v \in Ues : v # u => down'[v] = down[v]
               /\ \/ n.state = "CONNECTED_NORMALLY" /\ down'[u] = <<>>
                  \/ /\ n.state = "CONNECTION_RECONFIGURATION"
                     /\ down'[u] = <<[type |-> "reconfiguration"]>>
  <2>1. \E n : SwitchedTo(p, u, n)
    BY <1>2, <1>3, <1>6, Switched DEF PathSwitch, Quiet
  <2> QED  BY <2>1 DEF SwitchedTo
<1>10. OnlyAt(p, u) /\ p \in DOMAIN ueMap' /\ ueMap'[p] = n
  BY <1>2, <1>9 DEF Put, OnlyAt
<1>11. Orderly
  BY <1>2, <1>6, <1>10, UsedSame, OrderlyStep
<1>12. modify'[u] = 0 /\ \A v \in Ues : v # u => modify'[v] = modify[v]
  BY <1>0, <1>3, <1>6 DEF PathSwitch, CoreTyped
<1>13. OnlyOf(u)
  BY <1>6, <1>9, <1>12 DEF OnlyOf, SameOf
<1>14. PICK h : h = [type |-> "none", old |-> 0]
  OBVIOUS
<1>15. AllBut(p.cell, s.cell, h) /\ h.type \notin {"ack", "release"}
  BY <1>8, <1>14
<1>16. MessagesOf(u)
  BY <1>0, <1>4, <1>5, <1>15, MessagesKept
<1>17. Undisturbed(p) /\ TimedAt(p)'
  BY <1>2, <1>9, <1>10, NotNeeded DEF Protocol, Timed, TimedAt
<1>18. NewExpected
  <2>1. Vacated(s)'
    BY <1>0, <1>5, <1>11, VacatedKept
  <2>2. Expected(p.cell, s.cell, a)'
    BY <1>5, <1>7, <2>1 DEF Expected, Preparing
  <2> QED  BY <1>8, <2>2
<1>19. Phase(u)'
  <2>1. /\ ue'[u].at = p /\ ue'[u].state = "CONNECTED_NORMALLY" /\ up'[u] = <<>> /\ mme'[u] = p.cell
    BY <1>1, <1>3, <1>6 DEF PathSwitch, Quiet
  <2> QED  BY <1>9, <1>10, <1>12, <2>1, SwitchedPhase
<1>20. Others(u)'
  <2>1. ASSUME NEW q \in DOMAIN ueMap, ueMap[q].imsi = u, q # p
        PROVE  ueMap[q].state = "HANDOVER_LEAVING" /\ ReleaseUnderWay(q)'
    <3>1. (ToJoin(q, p) \/ Left(q, p)) /\ q \in Places
      BY <1>0, <1>1, <2>1 DEF Protocol, Others, MapTyped
    <3>2. ueMap[q].state = "HANDOVER_LEAVING" /\ (q = s \/ ReleaseUnderWay(q))
      BY <1>1, <1>2, <3>1 DEF ToJoin, Left
    <3>3. ASSUME q = s PROVE ReleaseUnderWay(q)'
      BY <1>4, <1>7, <1>8, <3>3 DEF ReleaseUnderWay
    <3>4. ASSUME ReleaseUnderWay(q) PROVE ReleaseUnderWay(q)'
      BY <1>4, <1>5, <1>15, <3>1, <3>4, UnderWay
    <3> QED  BY <3>2, <3>3, <3>4
  <2> QED  BY <1>1, <1>6, <1>10, <2>1, ReleasesGoOn
<1>21. Protocol'
  BY <1>0, <1>8, <1>10, <1>11, <1>13, <1>16, <1>17, <1>18, <1>19, <1>20, GoesOn
<1> QED  BY <1>6, <1>21 DEF ProtocolInv

\* The UE, at a reconfiguration: it answers its gNB, or moves to the place it may join.
LEMMA ReconfigurationGoesOn ==
    ASSUME Typed, Protocol, abort = "none", NEW u \in Ues, RecvReconfiguration(u)
    PROVE  ProtocolInv'
<1>0. MapTyped /\ NodeTyped /\ WireTypes /\ down[u] # <<>>
  BY Parts DEF RecvReconfiguration
<1>1. PICK p, j : p = ue[u].at /\ j = ueMap[p].target
  OBVIOUS
<1>2. /\ p \in DOMAIN ueMap /\ p \in Places /\ ueMap[p].imsi = u
      /\ ue[u].state = "CONNECTED_NORMALLY"
      /\ ueMap[p].state \in {"CONNECTION_RECONFIGURATION", "HANDOVER_LEAVING"}
  BY <1>0, <1>1, Phases
<1>3. ASSUME NEW m, down[u] = <<m>>
      PROVE  Head(down[u]) = m /\ Tail(down[u]) = <<>>
  BY <1>3
<1>4. /\ OneEach(x2)' /\ NewExpected /\ MessagesOf(u)
      /\ \A q : ReleaseUnderWay(q) => ReleaseUnderWay(q)'
      /\ OnlyAt(NoPlace, u) /\ TimedAt(NoPlace)' /\ Undisturbed(NoPlace)
      /\ UNCHANGED <<ueMap, lastRnti, x2, mme, imsiRnti, modify, expired, abort>>
  <2>1. UNCHANGED <<ueMap, lastRnti, x2, mme, imsiRnti, modify, expired, abort>>
    BY <1>1, <1>2 DEF RecvReconfiguration, HasUeManager, gnbVars, coreVars
  <2>2. /\ OneEach(x2)' /\ NewExpected /\ MessagesOf(u)
        /\ \A q : ReleaseUnderWay(q) => ReleaseUnderWay(q)'
    BY <2>1, MessagesSame
  <2>3. OnlyAt(NoPlace, u) /\ TimedAt(NoPlace)' /\ Undisturbed(NoPlace)
    BY <2>1, Nowhere, ManagersSame, NotNeeded
  <2> QED  BY <2>1, <2>2, <2>3
<1>5. CASE ueMap[p].state = "CONNECTION_RECONFIGURATION"
  <2>1. Reconfiguring(u)
    BY <1>1, <1>2, <1>5 DEF Protocol, Phase
  <2>2. PICK m : m = [type |-> "reconfiguration"]
    OBVIOUS
  <2>3. down[u] = <<m>> /\ up[u] = <<>> /\ m.type = "reconfiguration"
    BY <1>0, <2>1, <2>2 DEF Reconfiguring
  <2>4. Head(down[u]) = m /\ Tail(down[u]) = <<>> /\ Append(up[u], p) = <<p>>
    BY <1>3, <2>3
  <2>5. down' = [down EXCEPT ![u] = <<>>] /\ up' = [up EXCEPT ![u] = <<p>>] /\ UNCHANGED ue
    BY <1>1, <1>2, <2>3, <2>4 DEF RecvReconfiguration, HasUeManager, SendCompleted
  <2>6. /\ down'[u] = <<>> /\ up'[u] = <<p>>
        /\ \A v \in Ues : v # u => down'[v] = down[v] /\ up'[v] = up[v]
    BY <1>0, <2>5 DEF WireTypes
  <2>7. OnlyOf(u)
    BY <1>4, <2>5, <2>6 DEF OnlyOf, SameOf
  <2>8. Orderly
    BY <1>4, <2>5, Nowhere, UsedSame, OrderlyStep
  <2>9. Phase(u)'
    <3>1. Reconfiguring(u)'
      BY <1>1, <1>4, <2>1, <2>5, <2>6 DEF Reconfiguring
    <3> QED  BY <1>1, <1>2, <1>4, <1>5, <2>5, <3>1 DEF Phase
  <2>10. Others(u)'
    <3> SUFFICES ASSUME NEW q \in DOMAIN ueMap', ueMap'[q].imsi = u, q # ue'[u].at
                 PROVE  Left(q, ue[u].at)'
      BY DEF Others
    <3>1. ueMap[q].state = "HANDOVER_LEAVING" /\ ReleaseUnderWay(q)
      BY <1>1, <1>4, <1>5, <2>5, OnlyReleases
    <3> QED  BY <1>4, <3>1 DEF Left
  <2>11. Protocol'
    BY <1>0, <1>4, <2>7, <2>8, <2>9, <2>10, GoesOn
  <2> QED  BY <1>4, <2>11 DEF ProtocolInv
<1>6. CASE ueMap[p].state = "HANDOVER_LEAVING"
  <2>1. Leaving(u)
    BY <1>1, <1>2, <1>6 DEF Protocol, Phase
  <2>2. PICK m : m = [type |-> "handover", at |-> j]
    OBVIOUS
  <2>3. /\ down[u] = <<m>> /\ up[u] = <<>> /\ m.type = "handover" /\ m.at = j /\ modify[u] = 0
        /\ j \in DOMAIN ueMap /\ j # p /\ ueMap[j].imsi = u /\ ueMap[j].state = "HANDOVER_JOINING"
    BY <1>1, <2>1, <2>2 DEF Leaving
  <2>4. Head(down[u]) = m /\ Tail(down[u]) = <<>>
    BY <1>3, <2>3
  <2>5. /\ down' = [down EXCEPT ![u] = <<>>] /\ UNCHANGED up
        /\ ue' = [ue EXCEPT ![u] = [state |-> "CONNECTED_HANDOVER", at |-> j]]
    BY <1>2, <2>3, <2>4 DEF RecvReconfiguration
  <2>6. /\ down'[u] = <<>> /\ ue'[u].state = "CONNECTED_HANDOVER" /\ ue'[u].at = j
        /\ \A v \in Ues : v # u => down'[v] = down[v] /\ ue'[v] = ue[v]
    BY <1>0, <2>5 DEF WireTypes, NodeTyped
  <2>7. OnlyOf(u)
    BY <1>4, <2>5, <2>6 DEF OnlyOf, SameOf
  <2>8. Orderly
    BY <1>4, <2>3, <2>6, UsedSame DEF Orderly
  <2>9. ToJoin(j, p) /\ ueMap[j].source = p
    <3>1. ToJoin(j, p) \/ Left(j, p)
      BY <1>1, <2>3 DEF Protocol, Others
    <3> QED  BY <2>3, <3>1 DEF ToJoin, Left
  <2>10. Phase(u)'
    <3>1. Used(p)
      BY <1>0, <1>2 DEF MapTyped
    <3>2. Vacated(p)'
      BY <1>2, <1>4, <1>6, <2>3, <2>6, <3>1 DEF Vacated, Used
    <3>3. ueMap'[ue'[u].at].source = p
      BY <1>4, <2>6, <2>9
    <3>4. Joining(u)'
      BY <1>4, <2>3, <2>5, <2>6, <3>2, <3>3 DEF Joining
    <3> QED  BY <1>4, <2>3, <2>6, <3>4 DEF Phase
  <2>11. Others(u)'
    <3> SUFFICES ASSUME NEW q \in DOMAIN ueMap', ueMap'[q].imsi = u, q # ue'[u].at
                 PROVE  Left(q, ue[u].at)'
      BY DEF Others
    <3>1. q \in DOMAIN ueMap /\ ueMap[q].imsi = u /\ q # j
      BY <1>4, <2>6
    <3>2. CASE q = p
      <4>1. Left(q, j)'
        BY <1>1, <1>4, <1>6, <2>3, <2>9, <3>2 DEF Left
      <4> QED  BY <2>6, <4>1
    <3>3. CASE q # p
      <4>1. ToJoin(q, p) \/ Left(q, p)
        BY <1>1, <3>1, <3>3 DEF Protocol, Others
      <4>2. ueMap[q].state = "HANDOVER_LEAVING" /\ ReleaseUnderWay(q)
        BY <1>1, <1>6, <3>1, <4>1 DEF ToJoin, Left
      <4> QED  BY <1>4, <4>2 DEF Left
    <3> QED  BY <3>2, <3>3
  <2>12. Protocol'
    BY <1>0, <1>4, <2>7, <2>8, <2>10, <2>11, GoesOn
  <2> QED  BY <1>4, <2>12 DEF ProtocolInv
<1> QED  BY <1>2, <1>5, <1>6

\* The UE, when its random access has succeeded: the gNB is still expecting it.
LEMMA AccessGoesOn ==
    ASSUME Typed, Protocol, abort = "none", NEW u \in Ues, NotifyRandomAccessSuccessful(u)
    PROVE  ProtocolInv'
<1>0. MapTyped /\ NodeTyped /\ WireTypes /\ ue[u].state = "CONNECTED_HANDOVER"
  BY Parts DEF NotifyRandomAccessSuccessful
<1>1. PICK p : p = ue[u].at
  OBVIOUS
<1>2. p \in DOMAIN ueMap /\ ueMap[p].imsi = u /\ ueMap[p].state = "HANDOVER_JOINING"
  BY <1>0, <1>1, Phases
<1>3. Joining(u)
  BY <1>1, <1>2 DEF Protocol, Phase
<1>4. up[u] = <<>> /\ down[u] = <<>> /\ modify[u] = 0 /\ Append(up[u], p) = <<p>>
  <2>1. up[u] = <<>> /\ down[u] = <<>> /\ modify[u] = 0
    BY <1>0, <1>3 DEF Joining
  <2> QED  BY <2>1
<1>5. /\ up' = [up EXCEPT ![u] = <<p>>]
      /\ ue' = [ue EXCEPT ![u].state = "CONNECTED_NORMALLY"]
      /\ UNCHANGED <<ueMap, lastRnti, down, x2, mme, imsiRnti, modify, expired, abort>>
  BY <1>1, <1>2, <1>4 DEF NotifyRandomAccessSuccessful, HasUeManager, SendCompleted, gnbVars, coreVars
<1>6. /\ up'[u] = <<p>> /\ ue'[u].state = "CONNECTED_NORMALLY" /\ ue'[u].at = p
      /\ \A v \in Ues : v # u => up'[v] = up[v] /\ ue'[v] = ue[v]
  BY <1>0, <1>1, <1>5 DEF WireTypes, NodeTyped
<1>7. /\ OneEach(x2)' /\ NewExpected /\ MessagesOf(u)
      /\ \A q : ReleaseUnderWay(q) => ReleaseUnderWay(q)'
  BY <1>5, MessagesSame
<1>8. OnlyAt(NoPlace, u) /\ TimedAt(NoPlace)' /\ Undisturbed(NoPlace)
  BY <1>5, Nowhere, ManagersSame, NotNeeded
<1>9. OnlyOf(u)
  BY <1>5, <1>6 DEF OnlyOf, SameOf
<1>10. Orderly
  BY <1>1, <1>5, <1>6, UsedSame DEF Orderly
<1>11. Phase(u)'
  <2>1. PICK s : s = ueMap[p].source
    OBVIOUS
  <2>2. Vacated(s)
    BY <1>1, <1>3, <2>1 DEF Joining
  <2>3. Vacated(s)'
    BY <1>0, <1>10, <2>2, VacatedKept
  <2>4. ueMap'[ue'[u].at].source = s
    BY <1>5, <1>6, <2>1
  <2>5. Joining(u)'
    BY <1>4, <1>5, <1>6, <2>3, <2>4 DEF Joining
  <2> QED  BY <1>2, <1>5, <1>6, <2>5 DEF Phase
<1>12. Others(u)'
  <2> SUFFICES ASSUME NEW q \in DOMAIN ueMap', ueMap'[q].imsi = u, q # ue'[u].at
               PROVE  Left(q, ue[u].at)'
    BY DEF Others
  <2>1. ToJoin(q, p) \/ Left(q, p)
    BY <1>1, <1>5, <1>6 DEF Protocol, Others
  <2>2. Left(q, p)
    BY <1>2, <2>1 DEF ToJoin
  <2>3. Left(q, p)'
    BY <1>5, <1>7, <2>2 DEF Left
  <2> QED  BY <1>6, <2>3
<1>13. Protocol'
  BY <1>0, <1>7, <1>8, <1>9, <1>10, <1>11, <1>12, GoesOn
<1> QED  BY <1>5, <1>13 DEF ProtocolInv

\* Timers run in the states their handlers expect, and without a timeout nothing is
\* cancelled; a release or a failed access ends the simulation for its own reason.
LEMMA EndsOn ==
    ASSUME Typed, Protocol, abort = "none"
    PROVE  /\ Timeouts => ProtocolInv'
           /\ \A c \in Cells, d \in Cells : ~RecvHandoverCancel(c, d)
           /\ \A u \in Ues : RecvRelease(u) \/ NotifyRandomAccessFailed(u) => ProtocolInv'
<1>1. Timeouts => ProtocolInv'
  BY DEF Timeouts, HandoverLeavingTimeout, HandoverJoiningTimeout, Protocol, Timed, ProtocolInv
<1>2. ASSUME NEW c \in Cells, NEW d \in Cells, RecvHandoverCancel(c, d) PROVE FALSE
  <2>1. Received(c, d, "cancel") /\ WireTypes
    BY <1>2, Parts DEF RecvHandoverCancel
  <2>2. Head(x2[c][d]) \in Range(x2[c][d]) /\ Head(x2[c][d]).type = "cancel"
    BY <2>1, X2Received
  <2> QED  BY <2>2 DEF Protocol, X2Inv, Expected
<1>3. \A u \in Ues : RecvRelease(u) \/ NotifyRandomAccessFailed(u) => ProtocolInv'
  BY DEF RecvRelease, NotifyRandomAccessFailed, Fatal, ProtocolInv
<1> QED  BY <1>1, <1>2, <1>3

-----------------------------------------------------------------------------
(* The theorems.                                                           *)

\* Initially every UE is connected and nothing is under way.
LEMMA InitProtocol == Init => ProtocolInv
<1> SUFFICES ASSUME Init PROVE ProtocolInv
  OBVIOUS
<1> USE NrHandoverAssumption
<1> DEFINE First == {FirstPlace(u) : u \in Ues}
<1>1. /\ ueMap = [p \in First |-> Manager(CHOOSE u \in Ues : FirstPlace(u) = p, "CONNECTED_NORMALLY")]
      /\ ue = [u \in Ues |-> [state |-> "CONNECTED_NORMALLY", at |-> FirstPlace(u)]]
      /\ mme = Home /\ x2 = [c \in Cells |-> [d \in Cells |-> <<>>]]
      /\ down = [u \in Ues |-> <<>>] /\ up = [u \in Ues |-> <<>>] /\ modify = [u \in Ues |-> 0]
      /\ abort = "none"
  BY DEF Init, NrInit
<1>2. ASSUME NEW u \in Ues
      PROVE  /\ FirstPlace(u) \in DOMAIN ueMap
             /\ ueMap[FirstPlace(u)] = Manager(u, "CONNECTED_NORMALLY")
             /\ FirstPlace(u).cell = Home[u]
  <2>1. (CHOOSE w \in Ues : FirstPlace(w) = FirstPlace(u)) = u
    BY FirstPlaces
  <2> QED  BY <1>1, <2>1, FirstPlaces
<1>3. ASSUME NEW u \in Ues
      PROVE  LET m == Manager(u, "CONNECTED_NORMALLY")
             IN  m.imsi = u /\ m.state = "CONNECTED_NORMALLY" /\ m.timer = "none"
  BY DEF Manager
<1>4. ASSUME NEW p \in DOMAIN ueMap
      PROVE  \E u \in Ues : p = FirstPlace(u) /\ ueMap[p].imsi = u /\ ueMap[p].timer = "none"
  <2>1. PICK u \in Ues : p = FirstPlace(u)
    BY <1>1
  <2>2. ueMap[p] = Manager(u, "CONNECTED_NORMALLY")
    BY <1>2, <2>1
  <2> QED  BY <1>3, <2>1, <2>2
<1>5. \A c \in Cells, d \in Cells : x2[c][d] = <<>> /\ Range(x2[c][d]) = {} /\ DOMAIN x2[c][d] = {}
  BY <1>1, EmptyRange
<1>6. OneEach(x2) /\ X2Inv
  <2>1. OneEach(x2)
    BY <1>5 DEF OneEach
  <2>2. X2Inv
    BY <1>5 DEF X2Inv
  <2> QED  BY <2>1, <2>2
<1>7. Timed
  BY <1>4 DEF Timed
<1>8. ASSUME NEW u \in Ues PROVE Phase(u) /\ Others(u)
  <2>1. PICK p : p = FirstPlace(u)
    OBVIOUS
  <2>2. /\ p \in DOMAIN ueMap /\ ueMap[p].imsi = u /\ ueMap[p].state = "CONNECTED_NORMALLY"
        /\ ue[u].at = p /\ ue[u].state = "CONNECTED_NORMALLY" /\ p.cell = mme[u]
    <3>1. ueMap[p] = Manager(u, "CONNECTED_NORMALLY") /\ p \in DOMAIN ueMap /\ p.cell = Home[u]
      BY <1>2, <2>1
    <3> QED  BY <1>1, <1>3, <2>1, <3>1
  <2>3. Connected(u)
    BY <1>1, <2>2 DEF Connected, Quiet
  <2>4. Phase(u)
    BY <2>2, <2>3 DEF Phase
  <2>5. Others(u)
    BY <1>4, <2>1, <2>2 DEF Others
  <2> QED  BY <2>4, <2>5
<1> QED  BY <1>1, <1>6, <1>7, <1>8 DEF ProtocolInv, Protocol

\* An expired timer is not forgotten.
LEMMA ExpiredStays == ASSUME Next, expired = TRUE PROVE expired' = TRUE
<1>1. ASSUME NEW why, Fatal(why) PROVE expired' = TRUE
  BY <1>1 DEF Fatal
<1>2. ASSUME NEW m, ReceiveCommand(m) PROVE expired' = TRUE
  BY <1>1, <1>2 DEF ReceiveCommand, Drop, PrepareHandover
<1>3. ASSUME NEW c, NEW d,
             \/ RecvHandoverRequestAck(c, d)
             \/ RecvHandoverPreparationFailure(c, d)
             \/ RecvUeContextRelease(c, d)
             \/ RejectHandoverRequest(c, d)
             \/ NoPreambleLeft(c, d)
             \/ RecvHandoverRequest(c, d)
             \/ RecvHandoverCancel(c, d)
      PROVE  expired' = TRUE
  BY <1>1, <1>3 DEF RecvHandoverRequestAck, RecvHandoverPreparationFailure, RecvUeContextRelease,
                    RejectHandoverRequest, NoPreambleLeft, RecvHandoverRequest, RecvHandoverCancel
<1>4. ASSUME NEW u,
             \/ RecvReconfigurationCompleted(u)
             \/ PathSwitchRequestAcknowledge(u)
             \/ RecvReconfiguration(u)
             \/ RecvRelease(u)
             \/ NotifyRandomAccessSuccessful(u)
             \/ NotifyRandomAccessFailed(u)
      PROVE  expired' = TRUE
  BY <1>1, <1>4 DEF RecvReconfigurationCompleted, PathSwitchRequestAcknowledge, RecvReconfiguration,
                    RecvRelease, NotifyRandomAccessSuccessful, NotifyRandomAccessFailed
<1>5. ASSUME Timeouts PROVE expired' = TRUE
  BY <1>1, <1>5 DEF Timeouts, HandoverLeavingTimeout, HandoverJoiningTimeout
<1> QED  BY <1>2, <1>3, <1>4, <1>5 DEF Next, Events, Ric

\* Every step goes on with the protocol.
LEMMA NextProtocol == OwnersInv /\ ProtocolInv /\ [Next]_vars => ProtocolInv'
<1> SUFFICES ASSUME OwnersInv, ProtocolInv, [Next]_vars PROVE ProtocolInv'
  OBVIOUS
<1>1. Typed
  BY DEF OwnersInv
<1>2. CASE UNCHANGED vars
  <2>1. UNCHANGED <<ueMap, lastRnti, ue, down, up, x2, mme, imsiRnti, modify, expired, abort>>
    BY <1>2 DEF vars, nrVars, gnbVars, rrcVars, coreVars
  <2> QED  BY <1>1, <2>1, NothingHappens DEF ProtocolInv
<1>3. CASE Next /\ expired
  <2>1. expired' = TRUE
    <3>1. expired = TRUE
      BY <1>1, <1>3, TypeParts DEF Typed, FlagsTyped
    <3> QED  BY <1>3, <3>1, ExpiredStays
  <2> QED  BY <2>1 DEF ProtocolInv
<1>4. CASE Next /\ ~expired
  <2>1. abort = "none" /\ Protocol
    BY <1>4 DEF Next, ProtocolInv
  <2>2. CASE Events /\ UNCHANGED ricVars
    <3>1. ASSUME NEW m \in BagToSet(cmds), ReceiveCommand(m) PROVE ProtocolInv'
      BY <1>1, <2>1, <3>1, CommandGoesOn
    <3>2. ASSUME NEW c \in Cells, NEW d \in Cells,
                 \/ RecvHandoverRequestAck(c, d)
                 \/ RecvHandoverPreparationFailure(c, d)
                 \/ RecvUeContextRelease(c, d)
                 \/ RejectHandoverRequest(c, d)
                 \/ NoPreambleLeft(c, d)
                 \/ RecvHandoverRequest(c, d)
                 \/ RecvHandoverCancel(c, d)
          PROVE  ProtocolInv'
      BY <1>1, <2>1, <3>2, AckGoesOn, FailureGoesOn, ReleaseGoesOn, RefuseGoesOn, RequestGoesOn, EndsOn
    <3>3. ASSUME NEW u \in Ues,
                 \/ RecvReconfigurationCompleted(u)
                 \/ PathSwitchRequestAcknowledge(u)
                 \/ RecvReconfiguration(u)
                 \/ RecvRelease(u)
                 \/ NotifyRandomAccessSuccessful(u)
                 \/ NotifyRandomAccessFailed(u)
          PROVE  ProtocolInv'
      BY <1>1, <2>1, <3>3, CompletedGoesOn, PathSwitchGoesOn, ReconfigurationGoesOn, AccessGoesOn, EndsOn
    <3> QED  BY <2>2, <3>1, <3>2, <3>3 DEF Events
  <2>3. CASE Timeouts
    BY <1>1, <2>1, <2>3, EndsOn
  <2>4. CASE Ric
    <3>1. UNCHANGED <<ueMap, lastRnti, ue, down, up, x2, mme, imsiRnti, modify, abort>>
      BY <2>4 DEF Ric, SaveNrUeRsrpRsrq, SaveNrUeCellInfo, NotifyLmFinished, ProcessLmQueryCommands,
                  nrVars, gnbVars, rrcVars, coreVars
    <3> QED  BY <1>1, <2>1, <3>1, NothingHappens DEF ProtocolInv
  <2> QED  BY <1>4, <2>2, <2>3, <2>4 DEF Next
<1> QED  BY <1>2, <1>3, <1>4

\* The procedure goes on throughout.
LEMMA ProtocolAlways == Spec => []ProtocolInv
<1>1. Init => ProtocolInv
  BY InitProtocol
<1>2. OwnersInv /\ ProtocolInv /\ [Next]_vars => ProtocolInv'
  BY NextProtocol
<1> QED  BY <1>1, <1>2, OwnersAlways, PTL DEF Spec

\* Whatever commands arrive in whatever order, and however the handovers of the UEs
\* interleave, the handlers of NrUeManager, NrGnbRrc and NrUeRrc find their UE and its
\* manager in a state they expect, as long as no handover timer expires.
THEOREM StatesExpected == Spec => []NoUnexpectedState
<1>1. ProtocolInv => NoUnexpectedState
  BY DEF ProtocolInv, NoUnexpectedState
<1> QED  BY <1>1, ProtocolAlways, PTL

\* The gNBs, the UEs and the core agree on where the UEs are: a UE's place has its
\* manager, each other manager it has is about to be joined or is being left, and the MME
\* has the UE's cell when its handover is over.
THEOREM PlacesKept == Spec => []PlacesAgree
<1>1. ASSUME OwnersInv, ProtocolInv PROVE PlacesAgree
  <2> SUFFICES ASSUME abort = "none", ~expired, NEW u \in Ues
               PROVE  LET at == ue[u].at
                      IN  /\ HasUeManager(at) /\ ueMap[at].imsi = u
                          /\ \A p \in DOMAIN ueMap \ {at} : ueMap[p].imsi = u =>
                               \/ /\ ueMap[p].state = "HANDOVER_JOINING" /\ ueMap[p].timer = "joining"
                                  /\ ueMap[p].source = at
                                  /\ ueMap[at].state \in {"HANDOVER_PREPARATION", "HANDOVER_LEAVING"}
                               \/ /\ ueMap[p].state = "HANDOVER_LEAVING"
                                  /\ \/ /\ ueMap[p].target = at /\ ueMap[at].source = p
                                        /\ ueMap[at].state \in {"HANDOVER_JOINING", "HANDOVER_PATH_SWITCH"}
                                     \/ ReleaseUnderWay(p)
                          /\ modify[u] \in 0 .. 1
                          /\ ueMap[at].state \in {"CONNECTED_NORMALLY", "CONNECTION_RECONFIGURATION"} =>
                               mme[u] = at.cell /\ modify[u] = 0
    BY DEF PlacesAgree
  <2>1. Typed /\ Protocol
    BY <1>1 DEF OwnersInv, ProtocolInv
  <2>2. PICK at : at = ue[u].at
    OBVIOUS
  <2>3. /\ at \in DOMAIN ueMap /\ ueMap[at].imsi = u
        /\ modify[u] # 0 => ueMap[at].state = "HANDOVER_PATH_SWITCH"
    BY <2>1, <2>2, Phases
  <2>4. modify[u] \in 0 .. 1
    BY <2>1, <2>2, <2>3 DEF Protocol, Phase, PathSwitch
  <2>5. ueMap[at].state \in {"CONNECTED_NORMALLY", "CONNECTION_RECONFIGURATION"} =>
          mme[u] = at.cell /\ modify[u] = 0
    BY <2>1, <2>2 DEF Protocol, Phase, Connected, Reconfiguring
  <2>6. \A p \in DOMAIN ueMap \ {at} : ueMap[p].imsi = u => ToJoin(p, at) \/ Left(p, at)
    BY <2>1, <2>2 DEF Protocol, Others
  <2> QED  BY <2>2, <2>3, <2>4, <2>5, <2>6 DEF ToJoin, Left, HasUeManager
<1> QED  BY <1>1, OwnersAlways, ProtocolAlways, PTL
=============================================================================

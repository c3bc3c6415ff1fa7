--------------------------- MODULE EventScheduler ---------------------------
(***************************************************************************)
(* The event lists of the simulator: MapScheduler, a std::map ordered by   *)
(* the event's key, here the set of its keys, and HeapScheduler, a binary  *)
(* heap kept in an array, here a sequence (the unused element 0 of the     *)
(* array is left out).  The loops of the heap are recursive functions.     *)
(***************************************************************************)
EXTENDS Naturals, Sequences, SequencesExt

\* The key an event is ordered by; m_context takes no part in the order.
EventKey == [ts : Nat, uid : Nat]

\* operator< on keys.
Less(a, b) == a.ts < b.ts \/ (a.ts = b.ts /\ a.uid < b.uid)

-----------------------------------------------------------------------------
(* MapScheduler *)

MapPeekNext(m_list) == CHOOSE e \in m_list : \A f \in m_list : f = e \/ Less(e, f)

MapRemove(m_list, ev) == m_list \ {ev}

\* The keys in the order RemoveNext yields them until the map is empty.
MapDrain(m_list) == SetToSortSeq(m_list, Less)

-----------------------------------------------------------------------------
(* HeapScheduler *)

Exch(h, a, b) == [h EXCEPT ![a] = h[b], ![b] = h[a]]

\* m_heap.pop_back() after the element to go was exchanged with the last one.
ExchWithLastAndPop(h, i) == Front(Exch(h, i, Len(h)))

Smallest(h, a, b) == IF Less(h[a], h[b]) THEN a ELSE b

BottomUp[h \in Seq(EventKey), i \in Nat] ==
    IF i > 1 /\ Less(h[i], h[i \div 2])
      THEN BottomUp[Exch(h, i, i \div 2), i \div 2]
      ELSE h

TopDown[h \in Seq(EventKey), i \in Nat] ==
    LET left == 2 * i
        right == 2 * i + 1
    IN IF right <= Len(h)
         THEN LET tmp == Smallest(h, left, right)
              IN IF Less(h[i], h[tmp]) THEN h ELSE TopDown[Exch(h, i, tmp), tmp]
         ELSE IF left > Len(h) THEN h
              ELSE IF Less(h[i], h[left]) THEN h ELSE Exch(h, i, left)

HeapInsert(h, ev) == BottomUp[Append(h, ev), Len(h) + 1]

HeapPeekNext(h) == h[1]

HeapRemoveNext(h) == TopDown[ExchWithLastAndPop(h, 1), 1]

\* The element is found by its uid, replaced by the last one, and that one
\* moves down only.
HeapRemove(h, ev) ==
    LET i == CHOOSE i \in 1 .. Len(h) : h[i].uid = ev.uid
    IN TopDown[ExchWithLastAndPop(h, i), i]

\* The keys in the order RemoveNext yields them until the heap is empty.
HeapDrain[h \in Seq(EventKey)] ==
    IF h = <<>> THEN <<>> ELSE <<HeapPeekNext(h)>> \o HeapDrain[HeapRemoveNext(h)]
=============================================================================

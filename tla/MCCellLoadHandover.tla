------------------------- MODULE MCCellLoadHandover -------------------------
(* Model checking of CellLoadHandover: the constants come from the cfg files. *)
EXTENDS CellLoadHandover

\* Only the second cell has a capacity, of one UE.
SecondCellFull == [c \in Cells |-> IF c = 2 THEN 1 ELSE 0]

\* Two places: a UE that registers under another ID may be sent there again.
SecondCellTwo == [c \in Cells |-> IF c = 2 THEN 2 ELSE 0]

\* Every order of two cells.
TwoLevels == [{1, 2} -> {0, 1}]

\* With 2 the least acceptable RSRP: in the first cell the second is better, better but
\* too weak, or worse; in the second cell the first is worse, or better but too weak.
WithWeakTarget == {<<0, 2>>, <<0, 1>>, <<1, 0>>}
=============================================================================

--------------------------- MODULE SqliteOrdersMC ---------------------------
(***************************************************************************)
(* Instances of SqliteOrders for TLC: two orders over a mug in two sizes.  *)
(***************************************************************************)
EXTENDS SqliteOrders

CONSTANTS mug, small, large, c, d

TwoSizes == {small, large}
MugOnly == {mug}
MugOf == [i \in TwoSizes |-> mug]

FirstCount == [i \in TwoSizes |-> 1]

OfSmall(n) == [i \in {small} |-> [quantity |-> n, price |-> 2400]]

OfBoth == [i \in TwoSizes |-> [quantity |-> IF i = small THEN 1 ELSE 2, price |-> 2400]]

TwoOrders == <<OfBoth, OfSmall(2)>>

OneOrder == <<OfBoth>>
=============================================================================

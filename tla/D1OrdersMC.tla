---- MODULE D1OrdersMC ----
(* D1Orders for TLC: orders over a mug in two sizes. *)
EXTENDS D1Orders

CONSTANTS mug, small, large, c, d, k, l

TwoSizes == {small, large}
MugOnly == {mug}
MugOf == [i \in TwoSizes |-> mug]

FirstCount == [i \in TwoSizes |-> 1]

Line(n) == [quantity |-> n, price |-> 2400]

TwoOrders == <<[i \in TwoSizes |-> IF i = small THEN Line(1) ELSE Line(2)],
               [i \in {small} |-> Line(2)]>>

OneOrder == <<TwoOrders[1]>>
====

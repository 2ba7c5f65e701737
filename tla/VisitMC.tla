------------------------------ MODULE VisitMC ------------------------------
(***************************************************************************)
(* The small shop TLC visits, on either backend: a mug in two sizes, two   *)
(* visitors or two tabs.                                                   *)
(***************************************************************************)
EXTENDS Visit

CONSTANTS mug, small, large,   \* the product and its sizes
          v, w                 \* visitors, or tabs

MugOnly == {mug}

TwoSizes == {small, large}
MugOf == [i \in TwoSizes |-> mug]

\* How the query sorts them.
SmallFirst == {<<small, large>>}

\* First counts: fewer of the large size.
Mixed == [i \in Item |-> IF i = small THEN 2 ELSE 1]

\* In cents: two mugs at the first price pay shipping, two at the second do not.
Prices == [s \in Sku |-> 2400]
NewPrices == {-1, 2600}

\* Counts the back office types; a negative one is taken as zero.
Recounts == {-1, 2}

None == {}

\* The carts visitors come back with: both want the same mugs, together more
\* than there are.
Rivals == [b \in Browser |-> [i \in Item |-> IF b = v \/ i = large THEN 1 ELSE 2]]

\* A tab each, or two tabs on one cart cookie.
OwnTab == [t \in Tab |-> t]
SameBrowser == [t \in Tab |-> v]
=============================================================================

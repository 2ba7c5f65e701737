---------------------------- MODULE SqliteShopMC ----------------------------
(***************************************************************************)
(* A small shop for TLC: a mug in two sizes, a tote to create, one visitor. *)
(***************************************************************************)
EXTENDS SqliteShop

CONSTANTS mug, tote, small, large, bag, v, front

Things == {small, large, bag}
Products == {mug, tote}
ProductOf == [i \in Things |-> IF i = bag THEN tote ELSE mug]
NoSizeOf == [s \in Products |-> IF s = tote THEN bag ELSE small]

MugsOnly == {mug}
Mugs == [i \in {small, large} |-> 2]
FirstPrices == [s \in Products |-> IF s = mug THEN 2600 ELSE 0]
ThreeMugs == [b \in {v} |-> [i \in {small, large} |-> IF i = small THEN 2 ELSE 1]]

OwnTab == [t \in {v} |-> v]
=============================================================================

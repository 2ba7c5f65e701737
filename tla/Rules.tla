------------------------------- MODULE Rules -------------------------------
(***************************************************************************)
(* The rules both backends share (src/db/mod.rs): what shipping costs,     *)
(* what a set of cart lines costs, and the ladder an order climbs.         *)
(*                                                                         *)
(* Lines are a function from the items they name to records that hold at   *)
(* least a quantity and a price, in cents.                                 *)
(***************************************************************************)
EXTENDS Integers, FiniteSetsExt

FREE_SHIPPING_CENTS == 5000

\* The shipping modes on offer; the price of each, in cents.
SHIPPING_MODES == [standard |-> 490, express |-> 1190]

\* What a visitor's form may carry: a mode, or any other string.
ShippingKeys == DOMAIN SHIPPING_MODES \cup {"anything else"}

ShippingMode(key) == IF key \in DOMAIN SHIPPING_MODES THEN key ELSE "standard"

ShippingCents(subtotal, key) ==
  IF subtotal >= FREE_SHIPPING_CENTS THEN 0 ELSE SHIPPING_MODES[ShippingMode(key)]

Subtotal(lines) ==
  SumFunction([i \in DOMAIN lines |-> lines[i].price * lines[i].quantity])

----------------------------------------------------------------------------
(* The ladder: paid, packing, shipped, delivered; cancelled stands aside.  *)

Statuses == {"paid", "packing", "shipped", "delivered", "cancelled"}

Ladder == [paid |-> "packing", packing |-> "shipped", shipped |-> "delivered"]

HasNextStep(status) == status \in DOMAIN Ladder

\* Mutation: the parcel leaves before it is packed.
SkipsPacking(status) == IF status = "paid" THEN "shipped" ELSE Ladder[status]

NextStep(status) == Ladder[status]

\* The statuses an order may still be cancelled from.
Workshop == {"paid", "packing"}

\* The rung an order must have stood on before it reached a status.
CameFrom(status) == {s \in Statuses : s \in DOMAIN Ladder /\ Ladder[s] = status}
                      \cup (IF status = "cancelled" THEN Workshop ELSE {})
=============================================================================

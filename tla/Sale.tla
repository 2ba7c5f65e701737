-------------------------------- MODULE Sale --------------------------------
(***************************************************************************)
(* What a checkout promises, whatever backend runs it: an order is sold in *)
(* one step, whole, from units that are there.  Between sales only the     *)
(* back office changes the shelf, one item at a time, and units of an item *)
(* no longer offered may be written off.                                   *)
(*                                                                         *)
(* orders holds the lines of every order sold, by order id: a function     *)
(* from items to the quantities sold.  edits counts what the back office   *)
(* did.                                                                    *)
(***************************************************************************)
EXTENDS Integers

CONSTANT Item

VARIABLES offered,   \* the items the shop offers
          shelf,     \* the units of each item the shop still has
          orders,
          edits

vars == <<offered, shelf, orders, edits>>

Init ==
  /\ offered \in SUBSET Item
  /\ shelf \in [Item -> Nat]
  /\ DOMAIN orders = {}
  /\ edits = 0

\* An order: a fresh id, at least one line, and no line that asks for more
\* than there is.
Sell(id) ==
  LET lines == orders'[id]
  IN  /\ id \notin DOMAIN orders
      /\ orders' = [k \in DOMAIN orders \cup {id} |-> IF k = id THEN lines ELSE orders[k]]
      /\ DOMAIN lines # {}
      /\ \A i \in DOMAIN lines : i \in Item /\ lines[i] > 0 /\ lines[i] <= shelf[i]
      /\ shelf' = [i \in Item |->
                     IF i \in DOMAIN lines THEN shelf[i] - lines[i] ELSE shelf[i]]
      /\ UNCHANGED <<offered, edits>>

\* The back office counts, adds or withdraws one item.
Edit(i) ==
  /\ edits' = edits + 1
  /\ offered' \in {offered, offered \cup {i}, offered \ {i}}
  /\ shelf'[i] \in Nat
  /\ shelf' = [shelf EXCEPT ![i] = shelf'[i]]
  /\ UNCHANGED orders

WriteOff(i) ==
  /\ i \notin offered
  /\ shelf'[i] \in 0 .. shelf[i]
  /\ shelf' = [shelf EXCEPT ![i] = shelf'[i]]
  /\ UNCHANGED <<offered, orders, edits>>

Next ==
  \/ \E id \in DOMAIN orders' : Sell(id)
  \/ \E i \in Item : Edit(i) \/ WriteOff(i)

Spec == Init /\ [][Next]_vars

----------------------------------------------------------------------------
(* A shop that takes orders back as well.                                  *)

\* The units of an order come back to the items still offered, and the order
\* stays on the books.
GiveBack(id) ==
  /\ shelf' = [i \in Item |-> IF i \in offered \cap DOMAIN orders[id]
                             THEN shelf[i] + orders[id][i] ELSE shelf[i]]
  /\ UNCHANGED <<offered, orders, edits>>

NextWithReturns == Next \/ \E id \in DOMAIN orders : GiveBack(id)

SpecWithReturns == Init /\ [][NextWithReturns]_vars
=============================================================================

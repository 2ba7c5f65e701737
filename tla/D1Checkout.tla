----------------------------- MODULE D1Checkout -----------------------------
(***************************************************************************)
(* The edge checkout: src/db/d1.rs on a Worker, over D1, which offers no   *)
(* open transaction.  Every execute is one statement committed on its own, *)
(* so place_order is a walk: guarded decrements line by line, handing back *)
(* what was taken when one loses the race, and only then the order, its    *)
(* lines, its first tracking step and the emptied cart.  A statement that  *)
(* fails, or a Worker that dies, stops a walk between any two of them.     *)
(***************************************************************************)
EXTENDS Visit, Sequences

CONSTANTS Counts, PriceTags,          \* what the back office types
          InitialShelf, InitialPrice,
          SizeOrder,                  \* the pairs of a product's sizes, in text order
          MaxEdits, MaxFaults,        \* bounds: back-office edits, stopped requests
          MaxActs                     \* bound: changes of cart and edits together

ASSUME CheckoutAssumption ==
  /\ Counts \subseteq Int /\ PriceTags \subseteq Int
  /\ IsShelf(InitialShelf) /\ InitialPrice \in [Sku -> Nat]
  /\ IsFiniteSet(Tab)
  /\ MaxEdits \in Nat /\ MaxFaults \in Nat /\ MaxActs \in Nat

ASSUME SizeOrderAssumption ==
  /\ SizeOrder \subseteq {p \in Item \X Item : SkuOf[p[1]] = SkuOf[p[2]]}
  /\ \A i, j \in Item :
       /\ i # j /\ SkuOf[i] = SkuOf[j] => <<i, j>> \in SizeOrder \/ <<j, i>> \in SizeOrder
       /\ <<i, j>> \in SizeOrder => <<j, i>> \notin SizeOrder
  /\ \A i, j, k \in Item :
       <<i, j>> \in SizeOrder /\ <<j, k>> \in SizeOrder => <<i, k>> \in SizeOrder

VARIABLES
  total,           \* products.stock
  orders,          \* orders with the lines and tracking inserted so far, by id
  unsummed,        \* the products an edit changed and has yet to resum
  edits, faults,   \* what has been spent of each bound
  lost             \* history: units that stopped walks took and never returned

tables == <<shelf, total, price, cart, orders>>
spent == <<changes, edits, faults>>
vars == <<tables, cookie, req, unsummed, spent, lost>>

Spare == changes + edits < MaxActs

\* A walk: the lines it read, the items its loop has yet to do, the item whose
\* variants row is decremented but whose products row is not, and the order's
\* id once it has one.
\*   taking, totalling   the decrements of a line, in variants and in products
\*   returning           the compensation
\*   lining              the order is in; its lines, then its tracking step
\*   emptying            the cart's lines
WalkStages == {"taking", "totalling", "returning", "lining", "emptying"}

IsRequest(r) ==
  \/ r \in [at : {"idle", "placed"}]
  \/ r \in [at : {"storing"}, cart : CartId, item : Item, quantity : Nat]
  \/ r \in [at : {"lowering"}, cart : CartId]
  \/ /\ r.at \in WalkStages
     /\ r \in [at : WalkStages, cart : CartId, lines : {r.lines}, shipping : ShippingKeys,
               left : SUBSET DOMAIN r.lines, on : SUBSET DOMAIN r.lines,
               id : 0 .. Len(orders)]
     /\ IsLines(r.lines)

Init ==
  /\ VisitInit
  /\ shelf = InitialShelf
  /\ total = [s \in Sku |-> ShelfSum(InitialShelf, s)]
  /\ price = InitialPrice
  /\ orders = <<>>
  /\ unsummed = {}
  /\ edits = 0 /\ faults = 0
  /\ lost = [i \in Item |-> 0]

----------------------------------------------------------------------------
(* The walk.                                                               *)

\* Units that are off the shelf for a walk and that no whole order accounts for.
HeldItems(r) ==
  CASE r.at = "returning" -> r.left
    [] r.at \in {"taking", "totalling"} -> DOMAIN r.lines \ r.left
    [] r.at = "lining" -> DOMAIN r.lines
    [] OTHER -> {}

Held(r, i) == IF i \in HeldItems(r) THEN r.lines[i].quantity ELSE 0

\* The request ends here, and gives nothing back.
Stop(t) ==
  /\ lost' = [i \in Item |-> lost[i] + Held(req[t], i)]
  /\ Answer(t, Idle)

ReadCart(t, key) ==
  /\ req[t] = Idle
  /\ cart[Current(BrowserOf[t])] # EmptyCart
  /\ Answer(t, [at |-> "taking", cart |-> Current(BrowserOf[t]), lines |-> CartLines(t),
                shipping |-> key, left |-> DOMAIN CartLines(t), on |-> {}, id |-> 0])
  /\ UNCHANGED <<tables, cookie, unsummed, spent, lost>>

\* Mutation: the query without its order by.
AnyLine(left) == left

\* The query orders the lines by product name, then size, and every loop of the
\* walk keeps that order.  The sizes of a product come in SizeOrder; names are
\* the back office's to change, so products come in any order.
NextLines(left) == {i \in left : \A j \in left : <<j, i>> \notin SizeOrder}

\* The guarded decrement of a line.
TakeLine(t, i) ==
  /\ req[t].at = "taking"
  /\ i \in NextLines(req[t].left)
  /\ Covers(shelf, i, req[t].lines[i].quantity)
  /\ shelf' = [shelf EXCEPT ![i] = @ - req[t].lines[i].quantity]
  /\ req' = [req EXCEPT ![t].at = "totalling", ![t].left = @ \ {i}, ![t].on = {i}]
  /\ UNCHANGED <<total, price, cart, orders, cookie, unsummed, spent, lost>>

\* The product's decrement has no guard but the check on products.stock: below
\* zero the statement is an error, and place_order ends on it.
TakeTotal(t, i) ==
  /\ req[t].at = "totalling"
  /\ i \in req[t].on
  /\ LET q == req[t].lines[i].quantity
     IN  \/ /\ total[SkuOf[i]] >= q
            /\ total' = [total EXCEPT ![SkuOf[i]] = @ - q]
            /\ req' = [req EXCEPT ![t].at = "taking", ![t].on = {}]
            /\ UNCHANGED lost
         \/ /\ total[SkuOf[i]] < q
            /\ Stop(t)
            /\ UNCHANGED total
  /\ UNCHANGED <<shelf, price, cart, orders, cookie, unsummed, spent>>

\* Mutation: hand back every line of the cart.
HandsBackAll(t, i) ==
  /\ req[t].at = "taking"
  /\ i \in NextLines(req[t].left)
  /\ ~Covers(shelf, i, req[t].lines[i].quantity)
  /\ req' = [req EXCEPT ![t].at = "returning", ![t].left = DOMAIN req[t].lines]
  /\ UNCHANGED <<tables, cookie, unsummed, spent, lost>>

\* The decrement matches no row: hand back what this walk took.
LoseRace(t, i) ==
  /\ req[t].at = "taking"
  /\ i \in NextLines(req[t].left)
  /\ ~Covers(shelf, i, req[t].lines[i].quantity)
  /\ req' = [req EXCEPT ![t].at = "returning", ![t].left = DOMAIN req[t].lines \ @]
  /\ UNCHANGED <<tables, cookie, unsummed, spent, lost>>

HandBack(t, i) ==
  /\ req[t].at = "returning"
  /\ i \in NextLines(req[t].left)
  /\ shelf' = [j \in DOMAIN shelf |->
                 IF j = i THEN shelf[j] + req[t].lines[i].quantity ELSE shelf[j]]
  /\ req' = [req EXCEPT ![t].left = @ \ {i}]
  /\ UNCHANGED <<total, price, cart, orders, cookie, unsummed, spent, lost>>

\* Every line is taken: the order's row, whose id is then read back.
InsertOrder(t) ==
  /\ req[t].at = "taking"
  /\ req[t].left = {}
  /\ orders' = Append(orders, [lines |-> EmptyCart,
                               charge |-> Charge(req[t].lines, req[t].shipping),
                               status |-> "paid", tracking |-> <<>>])
  /\ req' = [req EXCEPT ![t].at = "lining", ![t].left = DOMAIN req[t].lines,
                        ![t].id = Len(orders) + 1]
  /\ UNCHANGED <<shelf, total, price, cart, cookie, unsummed, spent, lost>>

\* Mutation: the line copies the price of the moment, not the one that was read.
InsertRepriced(t, i) ==
  /\ req[t].at = "lining"
  /\ i \in NextLines(req[t].left)
  /\ orders' = [orders EXCEPT ![req[t].id].lines =
                  UpsertLine(@, i, [req[t].lines[i] EXCEPT !.price = price[SkuOf[i]]])]
  /\ req' = [req EXCEPT ![t].left = @ \ {i}]
  /\ UNCHANGED <<shelf, total, price, cart, cookie, unsummed, spent, lost>>

InsertLine(t, i) ==
  /\ req[t].at = "lining"
  /\ i \in NextLines(req[t].left)
  /\ orders' = [orders EXCEPT ![req[t].id].lines = UpsertLine(@, i, req[t].lines[i])]
  /\ req' = [req EXCEPT ![t].left = @ \ {i}]
  /\ UNCHANGED <<shelf, total, price, cart, cookie, unsummed, spent, lost>>

InsertTracking(t) ==
  /\ req[t].at = "lining"
  /\ req[t].left = {}
  /\ orders' = [orders EXCEPT ![req[t].id].tracking = Append(@, "paid")]
  /\ req' = [req EXCEPT ![t].at = "emptying"]
  /\ UNCHANGED <<shelf, total, price, cart, cookie, unsummed, spent, lost>>

DeleteCartLines(t) ==
  /\ req[t].at = "emptying"
  /\ cart' = [cart EXCEPT ![req[t].cart] = EmptyCart]
  /\ Answer(t, [at |-> "placed"])
  /\ UNCHANGED <<shelf, total, price, orders, cookie, unsummed, spent, lost>>

\* The steps both backends share.
VisitStep(t) ==
  /\ \/ StoreLine(t)
     \/ req[t].at = "returning" /\ req[t].left = {} /\ ClampOut(t)
     \/ ClampDown(t)
     \/ ForgetCart(t)
  /\ UNCHANGED <<total, orders, unsummed, edits, faults, lost>>

Change(t, i, q) ==
  Spare /\ SetQuantity(t, i, q) /\ UNCHANGED <<total, orders, unsummed, edits, faults, lost>>

\* Any statement may fail, the Worker may die, the answer may be lost.
Fault(t) ==
  /\ req[t] # Idle
  /\ faults < MaxFaults
  /\ faults' = faults + 1
  /\ Stop(t)
  /\ UNCHANGED <<tables, cookie, unsummed, changes, edits>>

----------------------------------------------------------------------------
(* The back office: an edit changes the variants, then resums the product, *)
(* two statements.  One edit of a product is under way at a time.          *)

Restock(i, newShelf) ==
  /\ edits < MaxEdits /\ Spare
  /\ SkuOf[i] \notin unsummed
  /\ edits' = edits + 1
  /\ shelf' = newShelf
  /\ unsummed' = unsummed \cup {SkuOf[i]}
  /\ UNCHANGED <<total, price, visits, orders, faults, lost>>

SetStock(i, n) == Restock(i, UpdateVariant(shelf, i, AtLeastZero(n)))

AddVariant(i, n) == Restock(i, UpsertVariant(shelf, i, AtLeastZero(n)))

RemoveVariant(i) == Restock(i, DeleteVariant(shelf, i))

ResumStock(s) ==
  /\ s \in unsummed
  /\ total' = Resum(total, shelf, s)
  /\ unsummed' = unsummed \ {s}
  /\ UNCHANGED <<shelf, price, visits, orders, edits, faults, lost>>

EditStops(s) ==
  /\ s \in unsummed
  /\ faults < MaxFaults
  /\ faults' = faults + 1
  /\ unsummed' = unsummed \ {s}
  /\ UNCHANGED <<tables, cookie, req, changes, edits, lost>>

SetPrice(s, n) ==
  /\ edits < MaxEdits /\ Spare
  /\ edits' = edits + 1
  /\ price' = [price EXCEPT ![s] = AtLeastZero(n)]
  /\ UNCHANGED <<shelf, total, visits, orders, unsummed, faults, lost>>

----------------------------------------------------------------------------
Submit(t) == \E key \in FormKeys : ReadCart(t, key)

Progress(t) ==
  \/ \E i \in Item : \/ TakeLine(t, i) \/ TakeTotal(t, i) \/ LoseRace(t, i)
                    \/ HandBack(t, i) \/ InsertLine(t, i)
  \/ InsertOrder(t) \/ InsertTracking(t) \/ DeleteCartLines(t) \/ VisitStep(t)

Office ==
  \/ \E i \in Item, n \in Counts : SetStock(i, n) \/ AddVariant(i, n)
  \/ \E i \in Item : RemoveVariant(i)
  \/ \E s \in Sku : ResumStock(s) \/ EditStops(s)
  \/ \E s \in Sku, n \in PriceTags : SetPrice(s, n)

Next ==
  \/ \E t \in Tab :
       \/ \E i \in Item, q \in Quantities : Change(t, i, q)
       \/ Submit(t) \/ Progress(t) \/ Fault(t)
  \/ Office

Spec == Init /\ [][Next]_vars

\* A Worker that lives runs its request to the end, and a visitor whose cart
\* is not empty keeps ordering.
Fairness == \A t \in Tab : WF_vars(Progress(t)) /\ WF_vars(Submit(t))

FairSpec == Spec /\ Fairness

----------------------------------------------------------------------------
(* Types, and the safety of what is written.                               *)

\* The shape of every table and request, both stocks never below zero.
TypeOK ==
  /\ VisitTypeOK
  /\ total \in [Sku -> Nat]
  /\ req = [t \in Tab |-> req[t]] /\ \A t \in Tab : IsRequest(req[t])
  /\ orders \in Seq(Range(orders))
  /\ \A k \in DOMAIN orders :
       /\ orders[k] \in [lines : {orders[k].lines}, charge : {orders[k].charge},
                         status : {"paid"}, tracking : Seq({"paid"})]
       /\ IsLines(orders[k].lines)
  /\ unsummed \subseteq Sku
  /\ lost \in [Item -> Nat]
  /\ edits \in 0 .. MaxEdits /\ faults \in 0 .. MaxFaults

\* An order with its tracking step is whole.
Whole == {k \in DOMAIN orders : orders[k].tracking # <<>>}

\* Money and lines of a whole order agree, though they are written by separate
\* statements and the prices move between the reading of the cart and the
\* last of them: an order shown with its tracking charges for all its lines
\* and for nothing else.
OrderAddsUp ==
  \A k \in Whole :
    LET o == orders[k].charge
        subtotal == Subtotal(orders[k].lines)
    IN  /\ o.shipping_cents = ShippingCents(subtotal, o.shipping)
        /\ o.total_cents = subtotal + o.shipping_cents

InFlight(i) == SumFunction([t \in Tab |-> Held(req[t], i)])

Sold(i) ==
  SumFunction([k \in {h \in Whole : i \in DOMAIN orders[h].lines} |->
                 orders[k].lines[i].quantity])

\* Compensation is exact: as long as the back office keeps out, every unit is
\* on the shelf, held by a walk, in a whole order, or was lost by a walk that
\* stopped; none is handed back twice or handed back by a walk that sold it.
UnitsAccounted ==
  edits = 0 =>
    \A i \in Item : Stock(shelf, i) + InFlight(i) + Sold(i) + lost[i] = Stock(InitialShelf, i)

----------------------------------------------------------------------------
(* The walk implements the abstract sale: units a walk holds still count   *)
(* as the shop's, and the sale happens when the order becomes whole.       *)

Quantity(lines) == [i \in DOMAIN lines |-> lines[i].quantity]

Abstract == INSTANCE Sale WITH
  offered <- DOMAIN shelf,
  shelf <- [i \in Item |-> Stock(shelf, i) + InFlight(i) + lost[i]],
  orders <- [k \in Whole |-> Quantity(orders[k].lines)]

\* Whatever walks, edits and deaths interleave, orders are sold whole and only
\* from units that were there: "never an oversold order".
Sells == Abstract!Spec

----------------------------------------------------------------------------
(* Liveness.                                                               *)

\* The handler answered b with an order; none of what b came for is left.
Served(b) == cookie[b] > 0
SoldOut(b) == \A i \in DOMAIN InitialCart[b] : Stock(shelf, i) = 0

\* Walks that take from each other and hand back do not refuse each other for
\* ever, nor all at once.  Visitors who keep ordering come to an end, whatever
\* stops; and unless a request was stopped, a cart changed or the shop edited,
\* somebody ends with an order, and whoever ends without one finds nothing left
\* of what they came for.
EveryRaceIsWon ==
  /\ \A b \in Browser : <>[](cart[Current(b)] = EmptyCart)
  /\ <>[](faults = 0 /\ changes = 0 /\ edits = 0 =>
            /\ \E b \in Browser : Served(b)
            /\ \A b \in Browser : Served(b) \/ SoldOut(b))

----------------------------------------------------------------------------
(* What the docs claim, and the code does not do.                          *)

\* "a lost race costs a few statements": when no statement fails for reasons
\* of its own, no unit disappears.
NoUnitLost == faults = 0 => \A i \in Item : lost[i] = 0
=============================================================================

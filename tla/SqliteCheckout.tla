--------------------------- MODULE SqliteCheckout ---------------------------
(***************************************************************************)
(* The native checkout: src/db/sqlite.rs over one SQLite file, a pool of   *)
(* connections and a task per request, so that requests interleave between *)
(* their awaits.  A statement outside a transaction is one step.  So is a  *)
(* transaction, because every one of them starts with a write: SQLite then *)
(* admits no other writer until the commit, and a transaction that does    *)
(* not commit leaves no trace.                                             *)
(***************************************************************************)
EXTENDS Visit, Sequences

CONSTANTS Counts, PriceTags,          \* what the back office types
          InitialShelf, InitialPrice,
          MaxEdits, MaxFaults         \* bounds: back-office edits, failed requests

ASSUME CheckoutAssumption ==
  /\ Counts \subseteq Int /\ PriceTags \subseteq Int
  /\ IsShelf(InitialShelf) /\ InitialPrice \in [Sku -> Nat]
  /\ MaxEdits \in Nat /\ MaxFaults \in Nat

VARIABLES
  total,          \* products.stock
  orders,         \* orders with their order_lines and tracking, by id
  edits, faults   \* what has been spent of each bound

vars == <<shelf, total, price, cart, cookie, req, changes, orders, edits, faults>>

IsRequest(r) ==
  \/ r \in [at : {"idle", "placed"}]
  \/ r \in [at : {"storing"}, cart : CartId, item : Item, quantity : Nat]
  \/ /\ r.at = "placing"
     /\ r \in [at : {"placing"}, cart : CartId, lines : {r.lines}, shipping : ShippingKeys]
     /\ IsLines(r.lines)
  \/ r \in [at : {"clamping", "lowering"}, cart : CartId]

Init ==
  /\ VisitInit
  /\ shelf = InitialShelf
  /\ total = [s \in Sku |-> ShelfSum(InitialShelf, s)]
  /\ price = InitialPrice
  /\ orders = <<>>
  /\ edits = 0 /\ faults = 0

----------------------------------------------------------------------------
(* place_order.                                                            *)

\* The cart is read before the transaction; an empty one is an error.
ReadCart(t, key) ==
  /\ req[t] = Idle
  /\ cart[Current(BrowserOf[t])] # EmptyCart
  /\ Answer(t, [at |-> "placing", cart |-> Current(BrowserOf[t]),
                lines |-> CartLines(t), shipping |-> key])
  /\ UNCHANGED <<shelf, total, price, cart, cookie, changes, orders, edits, faults>>

\* Mutation: the lines copy the price of the moment, not the one that was read.
RepricedOrder(lines, key) ==
  [lines |-> [i \in DOMAIN lines |-> [lines[i] EXCEPT !.price = price[SkuOf[i]]]],
   charge |-> Charge(lines, key), status |-> "paid", tracking |-> <<"paid">>]

NewOrder(lines, key) ==
  [lines |-> lines, charge |-> Charge(lines, key), status |-> "paid", tracking |-> <<"paid">>]

\* The transaction: every guarded decrement finds its row, the order, its
\* lines and its first tracking step are written, the cart is emptied.  The
\* check on products.stock never stops it: see TotalIsSum.
CommitOrder(t) ==
  /\ req[t].at = "placing"
  /\ CoversAll(shelf, req[t].lines)
  /\ shelf' = TakeAll(shelf, req[t].lines)
  /\ total' = TakeTotals(total, req[t].lines)
  /\ orders' = Append(orders, NewOrder(req[t].lines, req[t].shipping))
  /\ cart' = [cart EXCEPT ![req[t].cart] = EmptyCart]
  /\ Answer(t, [at |-> "placed"])
  /\ UNCHANGED <<price, cookie, changes, edits, faults>>

\* One decrement matches no row: the transaction is rolled back.
RollBack(t) ==
  /\ req[t].at = "placing"
  /\ ~CoversAll(shelf, req[t].lines)
  /\ Answer(t, [at |-> "clamping", cart |-> req[t].cart])
  /\ UNCHANGED <<shelf, total, price, cart, cookie, changes, orders, edits, faults>>

\* The steps both backends share; none of them touches the other tables.
VisitStep(t) ==
  /\ \/ StoreLine(t)
     \/ req[t].at = "clamping" /\ ClampOut(t)
     \/ ClampDown(t)
     \/ ForgetCart(t)
  /\ UNCHANGED <<total, orders, edits, faults>>

Change(t, i, q) == SetQuantity(t, i, q) /\ UNCHANGED <<total, orders, edits, faults>>

\* Any step may fail instead (pool timeout, busy database, crash), or the
\* answer may never reach the browser.
Fault(t) ==
  /\ req[t] # Idle
  /\ faults < MaxFaults
  /\ faults' = faults + 1
  /\ Answer(t, Idle)
  /\ UNCHANGED <<shelf, total, price, cart, cookie, changes, orders, edits>>

----------------------------------------------------------------------------
(* The back office: each edit is one transaction that ends with a resum.   *)

Restock(i, newShelf) ==
  /\ edits < MaxEdits
  /\ edits' = edits + 1
  /\ shelf' = newShelf
  /\ total' = Resum(total, newShelf, SkuOf[i])
  /\ UNCHANGED <<price, visits, orders, faults>>

SetStock(i, n) == Restock(i, UpdateVariant(shelf, i, AtLeastZero(n)))

AddVariant(i, n) == Restock(i, UpsertVariant(shelf, i, AtLeastZero(n)))

RemoveVariant(i) == Restock(i, DeleteVariant(shelf, i))

SetPrice(s, n) ==
  /\ edits < MaxEdits
  /\ edits' = edits + 1
  /\ price' = [price EXCEPT ![s] = AtLeastZero(n)]
  /\ UNCHANGED <<shelf, total, visits, orders, faults>>

----------------------------------------------------------------------------
Submit(t) == \E key \in FormKeys : ReadCart(t, key)

Progress(t) == CommitOrder(t) \/ RollBack(t) \/ VisitStep(t)

Office ==
  \/ \E i \in Item, n \in Counts : SetStock(i, n) \/ AddVariant(i, n)
  \/ \E i \in Item : RemoveVariant(i)
  \/ \E s \in Sku, n \in PriceTags : SetPrice(s, n)

Next ==
  \/ \E t \in Tab :
       \/ \E i \in Item, q \in Quantities : Change(t, i, q)
       \/ Submit(t) \/ Progress(t) \/ Fault(t)
  \/ Office

Spec == Init /\ [][Next]_vars

\* The runtime polls every request that can go on, and a visitor whose cart
\* is not empty keeps ordering.
Fairness == \A t \in Tab : WF_vars(Progress(t)) /\ WF_vars(Submit(t))

FairSpec == Spec /\ Fairness

----------------------------------------------------------------------------
(* Types, and the safety of what is written.                               *)

\* The shape of every table and request.  The totals are typed by TotalIsSum.
TypeOK ==
  /\ VisitTypeOK
  /\ total = [s \in Sku |-> total[s]]
  /\ req = [t \in Tab |-> req[t]] /\ \A t \in Tab : IsRequest(req[t])
  /\ orders \in Seq(Range(orders))
  /\ \A k \in DOMAIN orders : IsLines(orders[k].lines)
  /\ edits \in 0 .. MaxEdits /\ faults \in 0 .. MaxFaults

\* An order's money agrees with its own lines for good, whatever the back
\* office did to the prices between the reading of the cart, the transaction
\* and now: the schema's "a later price change must not rewrite history", and
\* shipping decided on the very subtotal that is charged.
OrderAddsUp ==
  \A k \in DOMAIN orders :
    LET o == orders[k].charge
        subtotal == Subtotal(orders[k].lines)
    IN  /\ o.shipping_cents = ShippingCents(subtotal, o.shipping)
        /\ o.total_cents = subtotal + o.shipping_cents

\* products.stock is the sum of the variants of the product after every
\* transaction, sales and back-office edits interleaved in any order.
TotalIsSum == \A s \in Sku : total[s] = ShelfSum(shelf, s)

----------------------------------------------------------------------------
(* The checkout implements the abstract sale.                              *)

Quantity(lines) == [i \in DOMAIN lines |-> lines[i].quantity]

Abstract == INSTANCE Sale WITH
  offered <- DOMAIN shelf,
  shelf <- [i \in Item |-> Stock(shelf, i)],
  orders <- [k \in DOMAIN orders |-> Quantity(orders[k].lines)]

\* Orders are sold whole and only from units on the shelf at that moment;
\* no refused, failed or repeated request ever moves a unit.
Sells == Abstract!Spec

----------------------------------------------------------------------------
(* Liveness.                                                               *)

\* A visitor who keeps ordering is served: the cart their browser carries
\* ends up empty, ordered or clamped down to what nobody else took.  A refusal
\* must leave a cart the next attempt can get through with.
EveryVisitorServed == \A b \in Browser : <>[](cart[Current(b)] = EmptyCart)

----------------------------------------------------------------------------
(* What the comments claim, and the interleavings break.                   *)

\* "Walks the cart into an order, in one transaction": an order holds the
\* lines of the cart it empties.
CartBecomesOrder ==
  [][\A t \in Tab :
       req[t].at = "placing" /\ req'[t].at = "placed"
         => cart[req[t].cart] = Quantity(req[t].lines)]_vars
=============================================================================

------------------------------- MODULE Visit -------------------------------
(***************************************************************************)
(* What visitors do on either backend, up to the checkout: the cart cookie *)
(* and the requests on the cart.  src/db/sqlite.rs and src/db/d1.rs send   *)
(* the same statements here, each one a step of its own, so that requests  *)
(* interleave between them.                                                *)
(*                                                                         *)
(* A browser holds one cart cookie and any number of tabs.  A request      *)
(* carries the cookie its tab had when it left.  Forgetting the cart       *)
(* clears the cookie; the next request then gets a fresh cart id.          *)
(*                                                                         *)
(* The module that runs the checkout extends this one; its steps say what  *)
(* happens to the variables it adds.                                       *)
(***************************************************************************)
EXTENDS Tables

CONSTANTS Browser, Tab, BrowserOf,   \* who asks
          Quantities,                \* what set_quantity is asked for
          FormKeys,                  \* the shipping keys the forms carry
          InitialCart,               \* the cart each browser starts with
          MaxCarts,                  \* bound: cart ids a browser goes through
          MaxChanges                 \* bound: calls of set_quantity

ASSUME VisitAssumption ==
  /\ BrowserOf \in [Tab -> Browser]
  /\ Quantities \subseteq Int
  /\ FormKeys \subseteq ShippingKeys
  /\ \A b \in Browser : IsCart(InitialCart[b])
  /\ MaxCarts \in Nat /\ MaxChanges \in Nat

VARIABLES
  shelf, price,   \* variants.stock and products.price_cents
  cart,           \* cart_lines, by cart id
  cookie,         \* the cart id each browser carries
  req,            \* the request each tab has in flight
  changes         \* the calls of set_quantity so far

visits == <<cart, cookie, req, changes>>

CartId == Browser \X (0 .. MaxCarts)

Current(b) == <<b, cookie[b]>>

Idle == [at |-> "idle"]

Answer(t, r) == req' = [req EXCEPT ![t] = r]

Smaller(m, n) == IF m < n THEN m ELSE n

AtLeastZero(n) == IF n > 0 THEN n ELSE 0

VisitInit ==
  /\ cart = [c \in CartId |-> IF c[2] = 0 THEN InitialCart[c[1]] ELSE EmptyCart]
  /\ cookie = [b \in Browser |-> 0]
  /\ req = [t \in Tab |-> Idle]
  /\ changes = 0

VisitTypeOK ==
  /\ IsShelf(shelf)
  /\ price \in [Sku -> Nat]
  /\ cart = [c \in CartId |-> cart[c]] /\ \A c \in CartId : IsCart(cart[c])
  /\ cookie \in [Browser -> 0 .. MaxCarts]
  /\ changes \in 0 .. MaxChanges

----------------------------------------------------------------------------
(* set_quantity.                                                           *)

\* A quantity of zero or less removes the line at once.  Otherwise the stock
\* is read, and the line stored or removed from what was read.  The row of
\* the cart is created with the line: no model reads it.
SetQuantity(t, i, q) ==
  /\ req[t] = Idle
  /\ changes < MaxChanges
  /\ changes' = changes + 1
  /\ LET c == Current(BrowserOf[t])
     IN  \/ /\ q <= 0
            /\ cart' = [cart EXCEPT ![c] = DeleteLine(@, i)]
            /\ UNCHANGED req
         \/ /\ q > 0
            /\ Answer(t, [at |-> "storing", cart |-> c, item |-> i,
                          quantity |-> Smaller(q, Stock(shelf, i))])
            /\ UNCHANGED cart
  /\ UNCHANGED <<shelf, price, cookie>>

StoreLine(t) ==
  /\ req[t].at = "storing"
  /\ LET r == req[t]
     IN cart' = [cart EXCEPT ![r.cart] =
                   IF r.quantity = 0 THEN DeleteLine(@, r.item)
                   ELSE UpsertLine(@, r.item, r.quantity)]
  /\ Answer(t, Idle)
  /\ UNCHANGED <<shelf, price, cookie, changes>>

----------------------------------------------------------------------------
(* The parts of place_order that are the same on both backends.            *)

\* cart_lines: the cart of the tab, each line with the price of its product.
CartLines(t) == PricedLines(cart[Current(BrowserOf[t])], price)

\* What an order is charged, decided from the lines that were read.
Charge(lines, key) ==
  [shipping |-> ShippingMode(key),
   shipping_cents |-> ShippingCents(Subtotal(lines), key),
   total_cents |-> Subtotal(lines) + ShippingCents(Subtotal(lines), key)]

\* clamp_cart_to_stock, two statements outside any transaction; the backend
\* says when a refused request gets there.
ClampOut(t) ==
  /\ cart' = [cart EXCEPT ![req[t].cart] = ClampDelete(@, shelf)]
  /\ Answer(t, [at |-> "lowering", cart |-> req[t].cart])
  /\ UNCHANGED <<shelf, price, cookie, changes>>

\* The check on quantity turns the whole statement into an error when a line
\* would come down to zero; either way the request is over.
ClampDown(t) ==
  /\ req[t].at = "lowering"
  /\ LET c == req[t].cart
     IN cart' = IF ClampUpdateFails(cart[c], shelf) THEN cart
                ELSE [cart EXCEPT ![c] = ClampUpdate(@, shelf)]
  /\ Answer(t, Idle)
  /\ UNCHANGED <<shelf, price, cookie, changes>>

\* The handler answered: the browser drops its cart cookie.
ForgetCart(t) ==
  /\ req[t].at = "placed"
  /\ cookie[BrowserOf[t]] < MaxCarts
  /\ cookie' = [cookie EXCEPT ![BrowserOf[t]] = @ + 1]
  /\ Answer(t, Idle)
  /\ UNCHANGED <<shelf, price, cart, changes>>
=============================================================================

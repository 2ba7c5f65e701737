-------------------------- MODULE SqliteShopProofs --------------------------
(***************************************************************************)
(* Proofs about the native shop, for any catalog and any number of         *)
(* visitors, tabs, orders, pages and edits: first about the checkout by    *)
(* itself (SqliteCheckout), then about the whole shop (SqliteShop), whose  *)
(* steps on the checkout's tables are the checkout's.                      *)
(***************************************************************************)
EXTENDS SqliteShop, TablesProofs

----------------------------------------------------------------------------
(* The requests either shop answers: what they do to the types of the      *)
(* tables, one lemma per step.                                             *)

\* A browser's cart id is a cart id.
LEMMA CurrentType ==
  ASSUME VisitTypeOK, NEW b \in Browser
  PROVE  Current(b) \in CartId
BY DEF VisitTypeOK, Current, CartId

\* The tables start well-typed.
LEMMA VisitInitType ==
  ASSUME VisitInit, IsShelf(shelf), price \in [Sku -> Nat]
  PROVE  VisitTypeOK
<1>1. \A c \in CartId : c[1] \in Browser /\ c[2] \in 0 .. MaxCarts
  BY DEF CartId
<1>2. \A c \in CartId : IsCart(IF c[2] = 0 THEN InitialCart[c[1]] ELSE EmptyCart)
  BY <1>1, VisitAssumption, EmptyCartType
<1>3. cart = [c \in CartId |-> cart[c]] /\ \A c \in CartId : IsCart(cart[c])
  BY <1>2, Zenon DEF VisitInit
<1>4. cookie \in [Browser -> 0 .. MaxCarts] /\ changes \in 0 .. MaxChanges
  BY VisitAssumption DEF VisitInit
<1> QED
  BY <1>3, <1>4 DEF VisitTypeOK

\* Storing a well-typed cart in one place keeps all carts well-typed.
LEMMA CartsType ==
  ASSUME VisitTypeOK, NEW c \in CartId, NEW lines, IsCart(lines)
  PROVE  LET carts == [cart EXCEPT ![c] = lines]
         IN  /\ carts = [d \in CartId |-> carts[d]]
             /\ \A d \in CartId : IsCart(carts[d])
BY DEF VisitTypeOK

\* set_quantity, first step: a line removed, or the stock read.
LEMMA SetQuantityType ==
  ASSUME VisitTypeOK, NEW t \in Tab, NEW i \in Item, NEW q \in Int, SetQuantity(t, i, q)
  PROVE  /\ VisitTypeOK'
         /\ \/ UNCHANGED req
            \/ /\ req' = [req EXCEPT ![t] =
                    [at |-> "storing", cart |-> Current(BrowserOf[t]),
                     item |-> i, quantity |-> Smaller(q, Stock(shelf, i))]]
               /\ Current(BrowserOf[t]) \in CartId
               /\ Smaller(q, Stock(shelf, i)) \in Nat
<1> DEFINE c == Current(BrowserOf[t])
<1>1. c \in CartId
  BY CurrentType, VisitAssumption
<1>2. changes' \in 0 .. MaxChanges
  BY VisitAssumption DEF VisitTypeOK, SetQuantity
<1>3. CASE q <= 0 /\ cart' = [cart EXCEPT ![c] = DeleteLine(@, i)] /\ UNCHANGED req
  <2>1. IsCart(cart[c])
    BY <1>1 DEF VisitTypeOK
  <2>2. IsCart(DeleteLine(cart[c], i))
    BY <2>1, CartType, 1 \in Nat \ {0}
  <2>3. cart' = [cart EXCEPT ![c] = DeleteLine(cart[c], i)]
    BY <1>3
  <2>4. cart' = [d \in CartId |-> cart'[d]] /\ \A d \in CartId : IsCart(cart'[d])
    BY <1>1, <2>2, <2>3, CartsType
  <2> QED
    BY <1>2, <1>3, <2>4 DEF VisitTypeOK, SetQuantity
<1>4. CASE /\ q > 0
           /\ Answer(t, [at |-> "storing", cart |-> c, item |-> i,
                         quantity |-> Smaller(q, Stock(shelf, i))])
           /\ UNCHANGED cart
  <2>1. Smaller(q, Stock(shelf, i)) \in Nat
    BY <1>4, StockType DEF Smaller, VisitTypeOK
  <2>2. VisitTypeOK'
    BY <1>2, <1>4 DEF VisitTypeOK, SetQuantity, CartId
  <2> QED
    BY <1>1, <1>4, <2>1, <2>2 DEF Answer
<1> QED
  BY <1>3, <1>4 DEF SetQuantity

\* set_quantity, second step.
LEMMA StoreLineType ==
  ASSUME VisitTypeOK, NEW t \in Tab, StoreLine(t),
         req[t].cart \in CartId, req[t].item \in Item, req[t].quantity \in Nat
  PROVE  VisitTypeOK'
<1> DEFINE r == req[t]
           line == IF r.quantity = 0 THEN DeleteLine(cart[r.cart], r.item)
                   ELSE UpsertLine(cart[r.cart], r.item, r.quantity)
<1>1. IsCart(cart[r.cart])
  BY DEF VisitTypeOK
<1>2. IsCart(line)
  BY <1>1, CartType, 1 \in Nat \ {0}
<1>3. cart' = [cart EXCEPT ![r.cart] = line]
  BY DEF StoreLine
<1>4. r.cart \in CartId
  OBVIOUS
<1> HIDE DEF r, line
<1>5. cart' = [d \in CartId |-> cart'[d]] /\ \A d \in CartId : IsCart(cart'[d])
  BY <1>2, <1>3, <1>4, CartsType
<1> QED
  BY <1>5 DEF VisitTypeOK, StoreLine

\* clamp_cart_to_stock, first statement.
LEMMA ClampOutType ==
  ASSUME VisitTypeOK, NEW t \in Tab, ClampOut(t), req[t].cart \in CartId
  PROVE  VisitTypeOK'
<1>1. IsCart(ClampDelete(cart[req[t].cart], shelf))
  BY ClampType DEF VisitTypeOK
<1>2. cart' = [cart EXCEPT ![req[t].cart] = ClampDelete(cart[req[t].cart], shelf)]
  BY DEF ClampOut
<1>3. cart' = [d \in CartId |-> cart'[d]] /\ \A d \in CartId : IsCart(cart'[d])
  BY <1>1, <1>2, CartsType
<1> QED
  BY <1>3 DEF VisitTypeOK, ClampOut

\* clamp_cart_to_stock, second statement, refused by the check or not.
LEMMA ClampDownType ==
  ASSUME VisitTypeOK, NEW t \in Tab, ClampDown(t), req[t].cart \in CartId
  PROVE  VisitTypeOK'
<1> DEFINE c == req[t].cart
<1>1. CASE ClampUpdateFails(cart[c], shelf)
  BY <1>1 DEF VisitTypeOK, ClampDown, CartId
<1>2. CASE ~ClampUpdateFails(cart[c], shelf)
  <2>1. IsCart(ClampUpdate(cart[c], shelf))
    BY <1>2, ClampType DEF VisitTypeOK
  <2>2. cart' = [cart EXCEPT ![c] = ClampUpdate(cart[c], shelf)]
    BY <1>2 DEF ClampDown
  <2>3. cart' = [d \in CartId |-> cart'[d]] /\ \A d \in CartId : IsCart(cart'[d])
    BY <2>1, <2>2, CartsType
  <2> QED
    BY <2>3 DEF VisitTypeOK, ClampDown
<1> QED
  BY <1>1, <1>2

\* The browser drops its cookie: the next cart id is still within the bound.
LEMMA ForgetCartType ==
  ASSUME VisitTypeOK, NEW t \in Tab, ForgetCart(t)
  PROVE  VisitTypeOK'
<1>1. cookie' \in [Browser -> 0 .. MaxCarts]
  BY VisitAssumption DEF VisitTypeOK, ForgetCart
<1> QED
  BY <1>1 DEF VisitTypeOK, ForgetCart, CartId

----------------------------------------------------------------------------
(* The checkout: types.                                                    *)

\* The part of TypeOK this module adds to VisitTypeOK.
OwnTypeOK ==
  /\ total = [s \in Sku |-> total[s]]
  /\ orders \in Seq(Range(orders))
  /\ \A k \in DOMAIN orders : IsLines(orders[k].lines)
  /\ edits \in 0 .. MaxEdits /\ faults \in 0 .. MaxFaults

Requests == req = [t \in Tab |-> req[t]] /\ \A t \in Tab : IsRequest(req[t])

\* TypeOK, in the parts the steps keep.
LEMMA TypeParts == TypeOK <=> VisitTypeOK /\ Requests /\ OwnTypeOK
BY DEF TypeOK, Requests, OwnTypeOK

\* What a request carries, by where it is.
LEMMA RequestFields ==
  ASSUME NEW r, IsRequest(r)
  PROVE  /\ r.at = "storing" => /\ r.cart \in CartId
                                /\ r.item \in Item /\ r.quantity \in Nat
         /\ r.at = "placing" => /\ r.cart \in CartId
                                /\ IsLines(r.lines) /\ r.shipping \in ShippingKeys
         /\ r.at \in {"clamping", "lowering"} => r.cart \in CartId
BY DEF IsRequest

\* Answering one tab with a request keeps the requests well-typed.
LEMMA AnswerType ==
  ASSUME Requests, CartId' = CartId, NEW t \in Tab, NEW r, IsRequest(r), Answer(t, r)
  PROVE  Requests'
<1>1. req' = [u \in Tab |-> IF u = t THEN r ELSE req[u]]
  BY DEF Requests, Answer
<1>2. \A u \in Tab : IsRequest(req'[u])
  BY <1>1 DEF Requests
<1>3. \A u \in Tab : IsRequest(req[u])'
  BY <1>2 DEF IsRequest
<1> QED
  BY <1>1, <1>3 DEF Requests

\* The requests that carry nothing.
LEMMA PlainRequests == IsRequest(Idle) /\ IsRequest([at |-> "placed"])
BY DEF IsRequest, Idle

\* The tables start well-typed.
LEMMA TypeInit == Init => TypeOK
<1> SUFFICES ASSUME Init PROVE TypeOK
  OBVIOUS
<1>1. VisitTypeOK
  BY VisitInitType, CheckoutAssumption DEF Init
<1>2. Requests
  BY PlainRequests DEF Init, VisitInit, Requests
<1>3. orders \in Seq(Range(orders)) /\ DOMAIN orders = {}
  <2>1. orders \in Seq({}) /\ Len(orders) = 0
    BY EmptySeq DEF Init
  <2> QED
    BY <2>1, SeqOfRange, LenProperties
<1>4. total = [s \in Sku |-> total[s]] /\ edits \in 0 .. MaxEdits /\ faults \in 0 .. MaxFaults
  BY CheckoutAssumption DEF Init
<1> QED
  BY <1>1, <1>2, <1>3, <1>4, TypeParts DEF OwnTypeOK

\* The steps of a visitor that do not touch the other tables.
LEMMA TypeVisit ==
  ASSUME TypeOK, NEW t \in Tab, VisitStep(t)
  PROVE  TypeOK'
<1>1. VisitTypeOK /\ Requests /\ OwnTypeOK /\ IsRequest(req[t])
  BY TypeParts DEF Requests
<1>2. OwnTypeOK'
  BY <1>1 DEF VisitStep, OwnTypeOK
<1>3. CartId' = CartId
  BY DEF CartId
<1>4. CASE StoreLine(t)
  <2>1. VisitTypeOK'
    BY <1>1, <1>4, StoreLineType, RequestFields DEF StoreLine
  <2>2. Requests'
    BY <1>1, <1>3, <1>4, AnswerType, PlainRequests DEF StoreLine
  <2> QED
    BY <1>2, <2>1, <2>2, TypeParts, PTL
<1>5. CASE req[t].at = "clamping" /\ ClampOut(t)
  <2>1. req[t].cart \in CartId
    BY <1>1, <1>5, RequestFields
  <2>2. VisitTypeOK'
    BY <1>1, <1>5, <2>1, ClampOutType
  <2>3. IsRequest([at |-> "lowering", cart |-> req[t].cart])
    BY <2>1 DEF IsRequest
  <2>4. Requests'
    BY <1>1, <1>3, <1>5, <2>3, AnswerType DEF ClampOut
  <2> QED
    BY <1>2, <2>2, <2>4, TypeParts, PTL
<1>6. CASE ClampDown(t)
  <2>1. VisitTypeOK'
    BY <1>1, <1>6, ClampDownType, RequestFields DEF ClampDown
  <2>2. Requests'
    BY <1>1, <1>3, <1>6, AnswerType, PlainRequests DEF ClampDown
  <2> QED
    BY <1>2, <2>1, <2>2, TypeParts, PTL
<1>7. CASE ForgetCart(t)
  <2>1. VisitTypeOK'
    BY <1>1, <1>7, ForgetCartType
  <2>2. Requests'
    BY <1>1, <1>3, <1>7, AnswerType, PlainRequests DEF ForgetCart
  <2> QED
    BY <1>2, <2>1, <2>2, TypeParts, PTL
<1> QED
  BY <1>4, <1>5, <1>6, <1>7 DEF VisitStep

\* set_quantity's first step.
LEMMA TypeChange ==
  ASSUME TypeOK, NEW t \in Tab, NEW i \in Item, NEW q \in Quantities, Change(t, i, q)
  PROVE  TypeOK'
<1> DEFINE r == [at |-> "storing", cart |-> Current(BrowserOf[t]),
                 item |-> i, quantity |-> Smaller(q, Stock(shelf, i))]
<1>1. VisitTypeOK /\ Requests /\ OwnTypeOK /\ q \in Int
  BY TypeParts, VisitAssumption
<1>2. OwnTypeOK' /\ CartId' = CartId
  BY <1>1 DEF Change, OwnTypeOK, CartId
<1>3. /\ VisitTypeOK'
      /\ \/ UNCHANGED req
         \/ req' = [req EXCEPT ![t] = r] /\ r.cart \in CartId /\ r.quantity \in Nat
  BY <1>1, SetQuantityType DEF Change
<1>4. ASSUME UNCHANGED req
      PROVE  Requests'
  BY <1>1, <1>2, <1>4 DEF Requests, IsRequest
<1>5. ASSUME req' = [req EXCEPT ![t] = r], r.cart \in CartId, r.quantity \in Nat
      PROVE  Requests'
  <2>1. IsRequest(r)
    BY <1>5 DEF IsRequest
  <2>2. Answer(t, r)
    BY <1>5 DEF Answer
  <2> HIDE DEF r
  <2> QED
    BY <1>1, <1>2, <2>1, <2>2, AnswerType
<1>6. Requests'
  BY <1>3, <1>4, <1>5
<1> QED
  BY <1>2, <1>3, <1>6, TypeParts, PTL

\* place_order.
LEMMA TypePlace ==
  ASSUME TypeOK, NEW t \in Tab, Submit(t) \/ CommitOrder(t) \/ RollBack(t) \/ Fault(t)
  PROVE  TypeOK'
<1>1. VisitTypeOK /\ Requests /\ OwnTypeOK /\ IsRequest(req[t]) /\ CartId' = CartId
  BY TypeParts DEF Requests, CartId
<1>2. ASSUME NEW key \in FormKeys, ReadCart(t, key)
      PROVE  TypeOK'
  <2> DEFINE c == Current(BrowserOf[t])
             r == [at |-> "placing", cart |-> c, lines |-> CartLines(t), shipping |-> key]
  <2>1. c \in CartId /\ key \in ShippingKeys
    BY <1>1, CurrentType, VisitAssumption
  <2>2. IsLines(CartLines(t))
    BY <1>1, <2>1, PricedLinesType DEF VisitTypeOK, CartLines
  <2>3. IsRequest(r)
    BY <2>1, <2>2 DEF IsRequest
  <2>4. Requests'
    BY <1>1, <1>2, <2>3, AnswerType DEF ReadCart
  <2>5. VisitTypeOK' /\ OwnTypeOK'
    BY <1>1, <1>2 DEF ReadCart, VisitTypeOK, OwnTypeOK
  <2> QED
    BY <2>4, <2>5, TypeParts, PTL
<1>3. CASE CommitOrder(t)
  <2> DEFINE o == NewOrder(req[t].lines, req[t].shipping)
  <2>1. IsLines(req[t].lines) /\ req[t].cart \in CartId
    BY <1>1, <1>3, RequestFields DEF CommitOrder
  <2>2. IsShelf(shelf')
    BY <1>1, <1>3, <2>1, TakeAllType DEF CommitOrder, VisitTypeOK
  <2>3. cart' = [d \in CartId |-> cart'[d]] /\ \A d \in CartId : IsCart(cart'[d])
    BY <1>1, <1>3, <2>1, CartsType, EmptyCartType DEF CommitOrder
  <2>4. VisitTypeOK'
    BY <1>1, <1>3, <2>2, <2>3 DEF CommitOrder, VisitTypeOK
  <2>5. Requests'
    BY <1>1, <1>3, AnswerType, PlainRequests DEF CommitOrder
  <2>6. /\ orders' \in Seq(Range(orders'))
        /\ DOMAIN orders = 1 .. Len(orders)
        /\ DOMAIN orders' = 1 .. Len(orders) + 1
        /\ Len(orders) \in Nat
        /\ \A k \in 1 .. Len(orders) : orders'[k] = orders[k]
        /\ orders'[Len(orders) + 1] = o
    BY <1>1, <1>3, Grows DEF CommitOrder, OwnTypeOK
  <2>7. o.lines = req[t].lines
    BY DEF NewOrder
  <2>8. \A k \in DOMAIN orders' : IsLines(orders'[k].lines)
    BY <1>1, <2>1, <2>6, <2>7 DEF OwnTypeOK
  <2>9. total' = [s \in Sku |-> total'[s]]
    BY <1>3 DEF CommitOrder, TakeTotals
  <2>10. OwnTypeOK'
    BY <1>1, <1>3, <2>6, <2>8, <2>9 DEF CommitOrder, OwnTypeOK
  <2> QED
    BY <2>4, <2>5, <2>10, TypeParts, PTL
<1>4. CASE RollBack(t)
  <2>1. req[t].cart \in CartId
    BY <1>1, <1>4, RequestFields DEF RollBack
  <2>2. IsRequest([at |-> "clamping", cart |-> req[t].cart])
    BY <2>1 DEF IsRequest
  <2>3. Requests'
    BY <1>1, <1>4, <2>2, AnswerType DEF RollBack
  <2>4. VisitTypeOK' /\ OwnTypeOK'
    BY <1>1, <1>4 DEF RollBack, VisitTypeOK, OwnTypeOK
  <2> QED
    BY <2>3, <2>4, TypeParts, PTL
<1>5. CASE Fault(t)
  <2>1. Requests'
    BY <1>1, <1>5, AnswerType, PlainRequests DEF Fault
  <2>2. faults' \in 0 .. MaxFaults
    BY <1>1, <1>5, CheckoutAssumption DEF Fault, OwnTypeOK
  <2>3. VisitTypeOK' /\ OwnTypeOK'
    BY <1>1, <1>5, <2>2 DEF Fault, VisitTypeOK, OwnTypeOK
  <2> QED
    BY <2>1, <2>3, TypeParts, PTL
<1> QED
  BY <1>2, <1>3, <1>4, <1>5 DEF Submit

\* The back office.
LEMMA TypeOffice ==
  ASSUME TypeOK, Office
  PROVE  TypeOK'
<1>1. VisitTypeOK /\ Requests /\ OwnTypeOK /\ CartId' = CartId
  BY TypeParts DEF CartId
<1>2. ASSUME NEW i \in Item, NEW newShelf, IsShelf(newShelf), Restock(i, newShelf)
      PROVE  TypeOK'
  <2>1. edits' \in 0 .. MaxEdits
    BY <1>1, <1>2, CheckoutAssumption DEF Restock, OwnTypeOK
  <2>2. total' = [s \in Sku |-> total'[s]]
    BY <1>1, <1>2 DEF Restock, Resum, OwnTypeOK
  <2>3. VisitTypeOK'
    BY <1>1, <1>2 DEF Restock, VisitTypeOK, visits
  <2>4. Requests' /\ OwnTypeOK'
    BY <1>1, <1>2, <2>1, <2>2 DEF Restock, Requests, OwnTypeOK, visits, IsRequest
  <2> QED
    BY <2>3, <2>4, TypeParts, PTL
<1>3. ASSUME NEW s \in Sku, NEW n \in PriceTags, SetPrice(s, n)
      PROVE  TypeOK'
  <2>1. AtLeastZero(n) \in Nat
    BY CheckoutAssumption DEF AtLeastZero
  <2>2. price' \in [Sku -> Nat]
    BY <1>1, <1>3, <2>1 DEF SetPrice, VisitTypeOK
  <2>3. edits' \in 0 .. MaxEdits
    BY <1>1, <1>3, CheckoutAssumption DEF SetPrice, OwnTypeOK
  <2>4. VisitTypeOK'
    BY <1>1, <1>3, <2>2 DEF SetPrice, VisitTypeOK, visits
  <2>5. Requests' /\ OwnTypeOK'
    BY <1>1, <1>3, <2>3 DEF SetPrice, Requests, OwnTypeOK, visits, IsRequest
  <2> QED
    BY <2>4, <2>5, TypeParts, PTL
<1>4. IsShelf(shelf)
  BY <1>1 DEF VisitTypeOK
<1>5. ASSUME NEW i \in Item, NEW n \in Counts, SetStock(i, n) \/ AddVariant(i, n)
      PROVE  TypeOK'
  <2>1. AtLeastZero(n) \in Nat
    BY CheckoutAssumption DEF AtLeastZero
  <2> QED
    BY <1>2, <1>4, <1>5, <2>1, EditType DEF SetStock, AddVariant
<1>6. ASSUME NEW i \in Item, RemoveVariant(i)
      PROVE  TypeOK'
  BY <1>2, <1>4, <1>6, EditType, 0 \in Nat DEF RemoveVariant
<1> QED
  BY <1>3, <1>5, <1>6 DEF Office

\* Every step keeps them well-typed.
LEMMA TypeStep == TypeOK /\ [Next]_vars => TypeOK'
<1>1. ASSUME TypeOK, UNCHANGED vars
      PROVE  TypeOK'
  BY <1>1 DEF vars, TypeOK, VisitTypeOK, IsRequest, CartId
<1> QED
  BY <1>1, TypeChange, TypePlace, TypeVisit, TypeOffice DEF Next, Progress

\* Every table and request keeps its shape: in particular no interleaving of
\* sales, cart requests and back-office edits takes a variant's stock below
\* zero, or stores a cart line of zero (the checks of the schema).
THEOREM TypeCorrect == Spec => []TypeOK
<1> QED
  BY TypeInit, TypeStep, PTL DEF Spec

----------------------------------------------------------------------------
(* The money of an order.                                                  *)

\* Inductive: an order was charged from its own lines, for some form's key.
ChargedFromLines ==
  \A k \in DOMAIN orders :
    \E key \in ShippingKeys : orders[k].charge = Charge(orders[k].lines, key)

\* Only the transaction writes orders, and it appends one.
LEMMA OrdersGrow ==
  ASSUME TypeOK, [Next]_vars
  PROVE  \/ UNCHANGED orders
         \/ \E t \in Tab : CommitOrder(t)
BY DEF Next, Progress, Submit, Office, Change, ReadCart, RollBack, VisitStep, Fault, SetStock,
       AddVariant, RemoveVariant, Restock, SetPrice, vars

\* The transaction writes the charge of the lines it stores.
LEMMA ChargedStep == TypeOK /\ ChargedFromLines /\ [Next]_vars => ChargedFromLines'
<1> SUFFICES ASSUME TypeOK, ChargedFromLines, [Next]_vars
             PROVE  ChargedFromLines'
  OBVIOUS
<1>1. CASE UNCHANGED orders
  BY <1>1 DEF ChargedFromLines, Charge
<1>2. ASSUME NEW t \in Tab, CommitOrder(t)
      PROVE  ChargedFromLines'
  <2> DEFINE o == NewOrder(req[t].lines, req[t].shipping)
  <2>1. req[t].shipping \in ShippingKeys
    BY <1>2, RequestFields DEF CommitOrder, TypeOK
  <2>2. /\ DOMAIN orders = 1 .. Len(orders)
        /\ DOMAIN orders' = 1 .. Len(orders) + 1
        /\ Len(orders) \in Nat
        /\ \A k \in 1 .. Len(orders) : orders'[k] = orders[k]
        /\ orders'[Len(orders) + 1] = o
    BY <1>2, Grows DEF CommitOrder, TypeOK
  <2>3. o.charge = Charge(o.lines, req[t].shipping)
    BY DEF NewOrder
  <2>4. ASSUME NEW k \in DOMAIN orders'
        PROVE  \E key \in ShippingKeys : orders'[k].charge = Charge(orders'[k].lines, key)
    <3>1. CASE k \in 1 .. Len(orders)
      BY <2>2, <3>1 DEF ChargedFromLines
    <3>2. CASE k = Len(orders) + 1
      BY <2>1, <2>2, <2>3, <3>2
    <3> QED
      BY <2>2, <3>1, <3>2
  <2> QED
    BY <2>4 DEF ChargedFromLines, Charge
<1> QED
  BY <1>1, <1>2, OrdersGrow

\* An order's money agrees with its own lines for good, whatever happened to
\* the prices before, during and after the checkout.
THEOREM OrdersAlwaysAddUp == Spec => []OrderAddsUp
<1>1. Init => ChargedFromLines
  <2>1. Init => DOMAIN orders = {}
    BY EmptySeq, LenProperties DEF Init
  <2> QED
    BY <2>1 DEF ChargedFromLines
<1>2. ChargedFromLines => OrderAddsUp
  <2>1. ASSUME NEW lines, NEW key
        PROVE  LET o == Charge(lines, key)
               IN  /\ o.shipping_cents = ShippingCents(Subtotal(lines), o.shipping)
                   /\ o.total_cents = Subtotal(lines) + o.shipping_cents
    BY ShippingModeStable DEF Charge, ShippingCents
  <2> QED
    BY <2>1 DEF ChargedFromLines, OrderAddsUp
<1> QED
  BY <1>1, <1>2, ChargedStep, TypeCorrect, TypeInit, TypeStep, PTL DEF Spec

----------------------------------------------------------------------------
(* The sum of the variants.                                                *)

\* Storing the sum of the rows an edit left keeps every product at its sum.
LEMMA ResumKeeps ==
  ASSUME TypeOK, TotalIsSum, NEW i \in Item, NEW edited, IsShelf(edited),
         \A j \in Item \ {i} : /\ j \in DOMAIN edited <=> j \in DOMAIN shelf
                               /\ j \in DOMAIN shelf => edited[j] = shelf[j]
  PROVE  \A s \in Sku : Resum(total, edited, SkuOf[i])[s] = ShelfSum(edited, s)
<1>1. SkuOf[i] \in Sku /\ IsShelf(shelf) /\ total = [s \in Sku |-> total[s]]
  BY CatalogAssumption DEF TypeOK, VisitTypeOK
<1>2. ASSUME NEW s \in Sku, s # SkuOf[i]
      PROVE  ShelfSum(edited, s) = ShelfSum(shelf, s)
  BY <1>1, <1>2, OtherSums
<1> QED
  BY <1>1, <1>2 DEF Resum, TotalIsSum

\* Every transaction keeps the sum.
LEMMA SumStep == TypeOK /\ TotalIsSum /\ [Next]_vars => TotalIsSum'
<1> SUFFICES ASSUME TypeOK, TotalIsSum, [Next]_vars
             PROVE  TotalIsSum'
  OBVIOUS
<1>1. IsShelf(shelf)
  BY DEF TypeOK, VisitTypeOK
<1>2. ASSUME NEW t \in Tab, CommitOrder(t)
      PROVE  TotalIsSum'
  <2>1. IsLines(req[t].lines) /\ CoversAll(shelf, req[t].lines)
    BY <1>2, RequestFields DEF CommitOrder, TypeOK
  <2>2. \A s \in Sku : ShelfSum(shelf', s) = ShelfSum(shelf, s) - UnitsOf(req[t].lines, s)
    BY <1>1, <1>2, <2>1, TakeAllSum DEF CommitOrder
  <2> QED
    BY <1>2, <2>2 DEF CommitOrder, TakeTotals, TotalIsSum
<1>3. ASSUME NEW i \in Item, NEW n \in Counts, SetStock(i, n) \/ AddVariant(i, n)
      PROVE  TotalIsSum'
  <2> DEFINE m == AtLeastZero(n)
  <2>1. IsShelf(UpdateVariant(shelf, i, m)) /\ IsShelf(UpsertVariant(shelf, i, m))
    BY <1>1, CheckoutAssumption, EditType DEF AtLeastZero
  <2>2. CASE SetStock(i, n)
    <3>1. \A j \in Item \ {i} : /\ j \in DOMAIN UpdateVariant(shelf, i, m) <=> j \in DOMAIN shelf
                                /\ j \in DOMAIN shelf => UpdateVariant(shelf, i, m)[j] = shelf[j]
      BY DEF UpdateVariant
    <3> QED
      BY <2>1, <2>2, <3>1, ResumKeeps DEF SetStock, Restock, TotalIsSum
  <2>3. CASE AddVariant(i, n)
    <3>1. \A j \in Item \ {i} : /\ j \in DOMAIN UpsertVariant(shelf, i, m) <=> j \in DOMAIN shelf
                                /\ j \in DOMAIN shelf => UpsertVariant(shelf, i, m)[j] = shelf[j]
      BY DEF UpsertVariant
    <3> QED
      BY <2>1, <2>3, <3>1, ResumKeeps DEF AddVariant, Restock, TotalIsSum
  <2> QED
    BY <1>3, <2>2, <2>3
<1>4. ASSUME NEW i \in Item, RemoveVariant(i)
      PROVE  TotalIsSum'
  <2>1. IsShelf(DeleteVariant(shelf, i))
    BY <1>1, EditType, 0 \in Nat
  <2>2. \A j \in Item \ {i} : /\ j \in DOMAIN DeleteVariant(shelf, i) <=> j \in DOMAIN shelf
                              /\ j \in DOMAIN shelf => DeleteVariant(shelf, i)[j] = shelf[j]
    BY DEF DeleteVariant, Restrict
  <2> QED
    BY <1>4, <2>1, <2>2, ResumKeeps DEF RemoveVariant, Restock, TotalIsSum
<1>5. CASE UNCHANGED <<shelf, total>>
  BY <1>5 DEF TotalIsSum
<1> QED
  BY <1>2, <1>3, <1>4, <1>5 DEF Next, Progress, Submit, Office, Change, SetQuantity, ReadCart,
       RollBack, VisitStep, StoreLine, ClampOut, ClampDown, ForgetCart, Fault, SetPrice, vars

\* products.stock is the sum of the variants after every transaction, whatever
\* sales and edits came in between: so it is never below zero, and its check
\* never stops a sale whose decrements all found their rows.
THEOREM TotalAlwaysSum == Spec => [](TotalIsSum /\ \A s \in Sku : total[s] \in Nat)
<1>1. Init => TotalIsSum
  BY DEF Init, TotalIsSum
<1>2. TypeOK /\ TotalIsSum => \A s \in Sku : total[s] \in Nat
  <2>1. ASSUME IsShelf(shelf), NEW s \in Sku
        PROVE  ShelfSum(shelf, s) \in Nat
    BY <2>1, SumsType
  <2> QED
    BY <2>1 DEF TypeOK, VisitTypeOK, TotalIsSum
<1> QED
  BY <1>1, <1>2, SumStep, TypeInit, TypeStep, PTL DEF Spec

----------------------------------------------------------------------------
(* The refinement of Sale.                                                 *)

\* Inductive: what a request is placing is never empty, because an empty cart
\* is turned away when it is read.
PlacesSomething == \A t \in Tab : req[t].at = "placing" => DOMAIN req[t].lines # {}

\* Only a cart that was read is placed.
LEMMA PlacesStep == TypeOK /\ PlacesSomething /\ [Next]_vars => PlacesSomething'
<1> SUFFICES ASSUME TypeOK, PlacesSomething, [Next]_vars
             PROVE  PlacesSomething'
  OBVIOUS
<1>1. req = [t \in Tab |-> req[t]]
  BY DEF TypeOK
<1>2. ASSUME NEW t \in Tab, NEW r, Answer(t, r), r.at # "placing"
      PROVE  PlacesSomething'
  BY <1>1, <1>2 DEF PlacesSomething, Answer
<1>3. ASSUME NEW t \in Tab, NEW key \in FormKeys, ReadCart(t, key)
      PROVE  PlacesSomething'
  <2> DEFINE c == cart[Current(BrowserOf[t])]
  <2>1. IsCart(c) /\ c # EmptyCart
    BY <1>3, CurrentType, VisitAssumption DEF ReadCart, TypeOK, VisitTypeOK
  <2>2. DOMAIN c # {}
    BY <2>1 DEF IsCart, IsTable, EmptyCart
  <2>3. DOMAIN CartLines(t) = DOMAIN c
    BY <2>1, PricedLinesType DEF CartLines, TypeOK, VisitTypeOK
  <2> QED
    BY <1>1, <1>3, <2>2, <2>3 DEF PlacesSomething, ReadCart, Answer
<1>4. ASSUME NEW t \in Tab, NEW i \in Item, NEW q \in Quantities, Change(t, i, q)
      PROVE  PlacesSomething'
  BY <1>2, <1>4 DEF Change, SetQuantity, PlacesSomething
<1>5. ASSUME NEW t \in Tab, Progress(t) \/ Fault(t)
      PROVE  PlacesSomething'
  BY <1>2, <1>5 DEF Progress, CommitOrder, RollBack, VisitStep, StoreLine, ClampOut, ClampDown,
                    ForgetCart, Fault, Idle
<1>6. CASE UNCHANGED req
  BY <1>6 DEF PlacesSomething
<1>7. Office \/ UNCHANGED vars => UNCHANGED req
  BY DEF Office, SetStock, AddVariant, RemoveVariant, Restock, SetPrice, visits, vars
<1> QED
  BY <1>3, <1>4, <1>5, <1>6, <1>7 DEF Next, Submit

\* Units leave an item that has none only by being written off.
LEMMA StockAfter ==
  ASSUME NEW table, IsShelf(table), NEW lines, IsLines(lines), CoversAll(table, lines),
         NEW i \in Item
  PROVE  /\ i \in DOMAIN lines => Stock(table, i) >= lines[i].quantity
         /\ Stock(TakeAll(table, lines), i) = IF i \in DOMAIN lines
                                              THEN Stock(table, i) - lines[i].quantity
                                              ELSE Stock(table, i)
BY DEF CoversAll, Covers, Stock, TakeAll

\* The catalog starts as the abstract shelf does.
LEMMA SaleInit == Init => Abstract!Init
<1> SUFFICES ASSUME Init PROVE Abstract!Init
  OBVIOUS
<1>1. IsShelf(shelf)
  BY CheckoutAssumption DEF Init
<1>2. DOMAIN shelf \in SUBSET Item
  BY <1>1 DEF IsShelf, IsTable
<1>3. [i \in Item |-> Stock(shelf, i)] \in [Item -> Nat]
  BY <1>1, StockType
<1>4. DOMAIN orders = {}
  BY EmptySeq, LenProperties DEF Init
<1> QED
  BY <1>2, <1>3, <1>4 DEF Init, Abstract!Init

\* The transaction is the abstract sale; its id is the next of the table.
LEMMA SaleCommit ==
  ASSUME TypeOK, PlacesSomething, NEW t \in Tab, CommitOrder(t)
  PROVE  Abstract!Next
<1> DEFINE lines == req[t].lines
           id == Len(orders) + 1
           sold == [k \in DOMAIN orders |-> Quantity(orders[k].lines)]
           units == [i \in Item |-> Stock(shelf, i)]
<1>1. IsLines(lines) /\ DOMAIN lines # {} /\ DOMAIN lines \subseteq Item
  BY RequestFields DEF CommitOrder, TypeOK, PlacesSomething, IsLines, IsTable
<1>2. /\ DOMAIN orders = 1 .. Len(orders)
      /\ DOMAIN orders' = 1 .. Len(orders) + 1
      /\ Len(orders) \in Nat
      /\ \A k \in 1 .. Len(orders) : orders'[k] = orders[k]
      /\ orders'[id] = NewOrder(lines, req[t].shipping)
  BY Grows DEF CommitOrder, TypeOK
<1>3. orders'[id].lines = lines
  BY <1>2 DEF NewOrder
<1>4. id \notin DOMAIN sold /\ id \in DOMAIN sold' /\ DOMAIN sold' = DOMAIN sold \cup {id}
  BY <1>2
<1>5. sold'[id] = Quantity(lines)
  BY <1>3, <1>4 DEF Quantity
<1>6. \A k \in DOMAIN sold : sold'[k] = sold[k]
  BY <1>2, <1>4 DEF Quantity
<1>7. sold' = [k \in DOMAIN sold \cup {id} |-> IF k = id THEN sold'[id] ELSE sold[k]]
  BY <1>4, <1>6
<1>8. IsShelf(shelf) /\ CoversAll(shelf, lines)
  BY DEF CommitOrder, TypeOK, VisitTypeOK
<1>9. /\ DOMAIN Quantity(lines) = DOMAIN lines
      /\ \A i \in DOMAIN lines : Quantity(lines)[i] = lines[i].quantity
      /\ \A i \in DOMAIN lines : lines[i].quantity \in Nat \ {0}
  BY <1>1 DEF Quantity, IsLines, IsTable
<1>10. \A i \in DOMAIN Quantity(lines) :
         i \in Item /\ Quantity(lines)[i] > 0 /\ Quantity(lines)[i] <= units[i]
  BY <1>1, <1>8, <1>9, StockAfter, StockType
<1>11. units' = [i \in Item |-> IF i \in DOMAIN Quantity(lines)
                                THEN units[i] - Quantity(lines)[i] ELSE units[i]]
  BY <1>1, <1>8, <1>9, StockAfter DEF CommitOrder
<1>12. DOMAIN shelf' = DOMAIN shelf /\ edits' = edits
  BY DEF CommitOrder, TakeAll
<1>13. Abstract!Sell(id)
  BY <1>1, <1>4, <1>5, <1>7, <1>9, <1>10, <1>11, <1>12 DEF Abstract!Sell
<1> QED
  BY <1>4, <1>13 DEF Abstract!Next

\* Every edit of the back office is an abstract edit of one item.
LEMMA SaleOffice ==
  ASSUME TypeOK, Office
  PROVE  Abstract!Next
<1> DEFINE units == [i \in Item |-> Stock(shelf, i)]
<1>1. IsShelf(shelf) /\ edits \in Nat
  BY CheckoutAssumption DEF TypeOK, VisitTypeOK
<1>2. ASSUME NEW i \in Item, NEW newShelf, IsShelf(newShelf), Restock(i, newShelf),
             DOMAIN newShelf \in {DOMAIN shelf, DOMAIN shelf \cup {i}, DOMAIN shelf \ {i}},
             \A j \in Item \ {i} : Stock(newShelf, j) = Stock(shelf, j)
      PROVE  Abstract!Next
  <2>1. units'[i] \in Nat
    BY <1>2, StockType DEF Restock
  <2>2. units' = [units EXCEPT ![i] = units'[i]]
    BY <1>2 DEF Restock
  <2>3. edits' = edits + 1 /\ UNCHANGED orders /\ shelf' = newShelf
    BY <1>2 DEF Restock
  <2>4. Abstract!Edit(i)
    BY <1>2, <2>1, <2>2, <2>3 DEF Abstract!Edit, Quantity
  <2> QED
    BY <2>4 DEF Abstract!Next
<1>3. ASSUME NEW i \in Item, NEW n \in Counts, SetStock(i, n) \/ AddVariant(i, n)
      PROVE  Abstract!Next
  <2> DEFINE m == AtLeastZero(n)
             updated == UpdateVariant(shelf, i, m)
             upserted == UpsertVariant(shelf, i, m)
  <2>1. m \in Nat
    BY CheckoutAssumption DEF AtLeastZero
  <2>2. IsShelf(updated) /\ IsShelf(upserted)
    BY <1>1, <2>1, EditType
  <2>3. CASE Restock(i, updated)
    <3>1. /\ DOMAIN updated = DOMAIN shelf
          /\ \A j \in Item \ {i} : Stock(updated, j) = Stock(shelf, j)
      BY DEF Stock, UpdateVariant
    <3> QED
      BY <1>2, <2>2, <2>3, <3>1
  <2>4. CASE Restock(i, upserted)
    <3>1. /\ DOMAIN upserted = DOMAIN shelf \cup {i}
          /\ \A j \in Item \ {i} : Stock(upserted, j) = Stock(shelf, j)
      BY DEF Stock, UpsertVariant
    <3> QED
      BY <1>2, <2>2, <2>4, <3>1
  <2> QED
    BY <1>3, <2>3, <2>4 DEF SetStock, AddVariant
<1>4. ASSUME NEW i \in Item, RemoveVariant(i)
      PROVE  Abstract!Next
  <2>1. IsShelf(DeleteVariant(shelf, i))
    BY <1>1, EditType, 0 \in Nat
  <2>2. /\ DOMAIN DeleteVariant(shelf, i) = DOMAIN shelf \ {i}
        /\ \A j \in Item \ {i} : Stock(DeleteVariant(shelf, i), j) = Stock(shelf, j)
    BY DEF Stock, DeleteVariant, Restrict
  <2>3. Restock(i, DeleteVariant(shelf, i))
    BY <1>4 DEF RemoveVariant
  <2> QED
    BY <1>2, <2>1, <2>2, <2>3
<1>5. ASSUME NEW s \in Sku, NEW n \in PriceTags, SetPrice(s, n)
      PROVE  Abstract!Next
  <2>1. PICK i \in Item : SkuOf[i] = s
    BY CatalogAssumption
  <2>2. units' = units /\ units[i] \in Nat
    BY <1>1, <1>5, StockType DEF SetPrice
  <2>3. units' = [units EXCEPT ![i] = units'[i]]
    BY <2>2
  <2>4. Abstract!Edit(i)
    BY <1>5, <2>2, <2>3 DEF Abstract!Edit, SetPrice, Quantity
  <2> QED
    BY <2>4 DEF Abstract!Next
<1> QED
  BY <1>3, <1>4, <1>5 DEF Office

\* The native checkout implements the abstract sale, for any shop, any number
\* of visitors and any interleaving: an order is sold whole, in one step, from
\* units on the shelf at that moment, and no refused, failed or repeated
\* request moves a unit.
THEOREM ImplementsSale == Spec => Sells
<1>1. ASSUME TypeOK, PlacesSomething, [Next]_vars
      PROVE  [Abstract!Next]_(Abstract!vars)
  <2>1. CASE \E t \in Tab : CommitOrder(t)
    BY <1>1, <2>1, SaleCommit
  <2>2. CASE Office
    BY <1>1, <2>2, SaleOffice
  <2>3. CASE ~(\E t \in Tab : CommitOrder(t)) /\ ~Office
    <3>1. UNCHANGED <<shelf, orders, edits>>
      BY <1>1, <2>3 DEF Next, Progress, Submit, Change, SetQuantity, ReadCart, RollBack,
                        VisitStep, StoreLine, ClampOut, ClampDown, ForgetCart, Fault, vars
    <3> QED
      BY <3>1 DEF Abstract!vars, Quantity
  <2> QED
    BY <2>1, <2>2, <2>3
<1>2. Init => PlacesSomething
  BY DEF Init, VisitInit, Idle, PlacesSomething
<1> QED
  BY <1>1, <1>2, PlacesStep, TypeInit, TypeStep, SaleInit, PTL DEF Spec, Sells, Abstract!Spec

----------------------------------------------------------------------------
(* The whole shop.  The words of the order life are those of the shop.     *)

\* The ladder, an idle desk and an empty sweep mean the same in both modules.
LEMMA LifeWords ==
  /\ Life!Idle = Idle /\ Life!Ladder = Ladder /\ Life!Ids = DOMAIN orders
  /\ Life!NoSweep = [k \in {} |-> "paid"]
  /\ \A status : Life!NextStep(status) = NextStep(status)
  /\ \A status : Life!HasNextStep(status) <=> HasNextStep(status)
BY DEF Life!Idle, Idle, Life!Ladder, Ladder, Life!Ids, Life!NoSweep, Life!NextStep, NextStep,
       Life!HasNextStep, HasNextStep

\* So are the statements a cancellation sends.
LEMMA LifeTables ==
  ASSUME NEW table, NEW lines
  PROVE  /\ Life!GiveBackAll(table, lines) = GiveBackAll(table, lines)
         /\ Life!GiveBackTotals(table, lines) = GiveBackTotals(table, lines)
<1>1. Life!GiveBackAll(table, lines) = GiveBackAll(table, lines)
  BY DEF Life!GiveBackAll, GiveBackAll
<1>2. ASSUME NEW s \in Sku
      PROVE  Life!UnitsOf(lines, s) = UnitsOf(lines, s)
  BY Zenon DEF Life!UnitsOf, UnitsOf, Life!SumFunction, SumFunction, Life!SumFunctionOnSet,
         SumFunctionOnSet, Life!FoldFunctionOnSet, FoldFunctionOnSet, Life!MapThenFoldSet,
         MapThenFoldSet
<1> QED
  BY <1>1, <1>2 DEF Life!GiveBackTotals, GiveBackTotals

----------------------------------------------------------------------------
(* The orders, while they are sold and live.                               *)

\* An order keeps the fields it was sold with; its last tracking line is its
\* status.
IsOrder(o) ==
  /\ o \in [lines : {o.lines}, charge : {o.charge}, status : Statuses, tracking : Seq(Statuses)]
  /\ IsLines(o.lines)
  /\ o.tracking # <<>> /\ o.tracking[Len(o.tracking)] = o.status

OrdersOK == \A k \in DOMAIN orders : IsOrder(orders[k])

\* No order leaves the table, no tracking line changes.
TrackingKept ==
  /\ DOMAIN orders \subseteq DOMAIN orders'
  /\ \A k \in DOMAIN orders :
       /\ Len(orders[k].tracking) <= Len(orders'[k].tracking)
       /\ \A n \in 1 .. Len(orders[k].tracking) : orders'[k].tracking[n] = orders[k].tracking[n]

\* An order's tracking: at least one line, the last one its status.
LEMMA OrderTracking ==
  ASSUME NEW o, IsOrder(o)
  PROVE  /\ o.tracking \in Seq(Statuses) /\ Len(o.tracking) \in Nat \ {0}
         /\ DOMAIN o.tracking = 1 .. Len(o.tracking)
         /\ o.status \in Statuses /\ o.tracking[Len(o.tracking)] = o.status
<1>1. o.tracking \in Seq(Statuses) /\ o.tracking # <<>>
  BY DEF IsOrder
<1> QED
  BY <1>1, LenProperties, EmptySeq DEF IsOrder

\* A status and its tracking line are written together, on one order.
LEMMA OrdersNoted ==
  ASSUME TypeOK, OrdersOK, NEW id \in DOMAIN orders, NEW status \in Statuses,
         Life!Record(id, status)
  PROVE  /\ DOMAIN orders' = DOMAIN orders
         /\ \A k \in DOMAIN orders : orders'[k].lines = orders[k].lines
         /\ orders'[id].status = status
         /\ orders'[id].tracking = Append(orders[id].tracking, status)
         /\ \A k \in DOMAIN orders \ {id} : orders'[k] = orders[k]
         /\ \A k \in DOMAIN orders : IsOrder(orders'[k])
         /\ orders' \in Seq(Range(orders'))
         /\ TrackingKept
<1> DEFINE steps == orders[id].tracking
<1>1. /\ orders[id] \in [lines : {orders[id].lines}, charge : {orders[id].charge},
                         status : Statuses, tracking : Seq(Statuses)]
      /\ IsLines(orders[id].lines) /\ steps \in Seq(Statuses)
  BY OrderTracking DEF OrdersOK, IsOrder
<1>2. orders' = [k \in DOMAIN orders |->
                   IF k = id THEN [[orders[id] EXCEPT !.status = status]
                                     EXCEPT !.tracking = Append(steps, status)]
                   ELSE orders[k]]
  BY DEF Life!Record, TypeOK
<1>3. /\ Append(steps, status) \in Seq(Statuses)
      /\ Len(steps) \in Nat
      /\ Len(Append(steps, status)) = Len(steps) + 1
      /\ \A n \in 1 .. Len(steps) : Append(steps, status)[n] = steps[n]
      /\ Append(steps, status)[Len(steps) + 1] = status
  BY <1>1, AppendProperties, LenProperties
<1>4. Append(steps, status) # <<>>
  BY <1>3, EmptySeq
<1>5. /\ orders'[id].lines = orders[id].lines /\ orders'[id].charge = orders[id].charge
      /\ orders'[id].status = status /\ orders'[id].tracking = Append(steps, status)
      /\ orders'[id] \in [lines : {orders[id].lines}, charge : {orders[id].charge},
                          status : Statuses, tracking : Seq(Statuses)]
  BY <1>1, <1>2, <1>3
<1>6. IsOrder(orders'[id])
  BY <1>1, <1>3, <1>4, <1>5 DEF IsOrder
<1>7. DOMAIN orders' = DOMAIN orders /\ \A k \in DOMAIN orders \ {id} : orders'[k] = orders[k]
  BY <1>2
<1>8. \A k \in DOMAIN orders : IsOrder(orders'[k])
  BY <1>6, <1>7 DEF OrdersOK
<1>9. orders' \in Seq(Range(orders'))
  <2>1. Len(orders) \in Nat /\ DOMAIN orders = 1 .. Len(orders)
    BY LenProperties DEF TypeOK
  <2>2. \A k \in 1 .. Len(orders) : orders'[k] \in Range(orders')
    BY <1>7, <2>1 DEF Range
  <2>3. orders' = [k \in 1 .. Len(orders) |-> orders'[k]]
    BY <1>2, <2>1
  <2>4. orders' \in [1 .. Len(orders) -> Range(orders')]
    BY <2>2, <2>3
  <2> QED
    BY <2>1, <2>4, SeqDef, Zenon
<1>10. TrackingKept
  <2>1. \A k \in DOMAIN orders \ {id} : Len(orders[k].tracking) \in Nat
    BY OrderTracking DEF OrdersOK
  <2> QED
    BY <1>3, <1>5, <1>7, <2>1 DEF TrackingKept
<1> QED
  BY <1>5, <1>7, <1>8, <1>9, <1>10

\* A sale appends one order, paid.
LEMMA OrdersSold ==
  ASSUME TypeOK, OrdersOK, NEW t \in Tab, CommitOrder(t)
  PROVE  /\ Len(orders) + 1 \notin DOMAIN orders
         /\ DOMAIN orders' = DOMAIN orders \cup {Len(orders) + 1}
         /\ \A k \in DOMAIN orders : orders'[k] = orders[k]
         /\ orders'[Len(orders) + 1].lines = req[t].lines
         /\ orders'[Len(orders) + 1].tracking = <<"paid">>
         /\ OrdersOK'
         /\ TrackingKept
<1> DEFINE o == NewOrder(req[t].lines, req[t].shipping)
<1>1. /\ DOMAIN orders = 1 .. Len(orders)
      /\ DOMAIN orders' = 1 .. Len(orders) + 1
      /\ Len(orders) \in Nat
      /\ \A k \in 1 .. Len(orders) : orders'[k] = orders[k]
      /\ orders'[Len(orders) + 1] = o
  BY Grows DEF CommitOrder, TypeOK
<1>2. IsOrder(o)
  <2>1. IsLines(req[t].lines)
    BY RequestFields DEF CommitOrder, TypeOK
  <2>2. /\ "paid" \in Statuses /\ <<"paid">> \in Seq(Statuses) /\ <<"paid">> # <<>>
        /\ Len(<<"paid">>) = 1 /\ <<"paid">>[1] = "paid"
    BY DEF Statuses
  <2>3. /\ o.lines = req[t].lines /\ o.charge = Charge(req[t].lines, req[t].shipping)
        /\ o.status = "paid" /\ o.tracking = <<"paid">>
    BY DEF NewOrder
  <2>4. o \in [lines : {o.lines}, charge : {o.charge}, status : Statuses, tracking : Seq(Statuses)]
    BY <2>2 DEF NewOrder
  <2> HIDE DEF o
  <2> QED
    BY <2>1, <2>2, <2>3, <2>4 DEF IsOrder
<1>3. OrdersOK'
  BY <1>1, <1>2 DEF OrdersOK
<1>4. TrackingKept
  <2>1. \A k \in DOMAIN orders : Len(orders[k].tracking) \in Nat
    BY OrderTracking DEF OrdersOK
  <2> QED
    BY <1>1, <2>1 DEF TrackingKept
<1>5. o.lines = req[t].lines /\ o.tracking = <<"paid">>
  BY DEF NewOrder
<1> HIDE DEF o
<1> QED
  BY <1>1, <1>3, <1>4, <1>5

----------------------------------------------------------------------------
(* What the orders moved.                                                  *)

Net(book, i, id) == (Cardinality(Marks(book[id].tracking)) - 1) * book[id].lines[i].quantity

Nets(book, i) == SumFunction([id \in Holding(book, i) |-> Net(book, i, id)])

Units(book, i) == SumFunction([id \in Holding(book, i) |-> book[id].lines[i].quantity])

\* What the orders moved, in the terms of the lemmas about it.
LEMMA MovedIs ==
  ASSUME NEW i
  PROVE  Moved(i) = Nets(orders, i) /\ Moved(i)' = Nets(orders', i)
BY DEF Moved, Nets, Net, Holding, Marks, Life!Cancellations, Life!Steps

\* The orders of the shop are a book the audit can read.
LEMMA OrdersBook == TypeOK /\ OrdersOK => IsBook(orders)
<1> SUFFICES ASSUME TypeOK, OrdersOK PROVE IsBook(orders)
  OBVIOUS
<1>1. Len(orders) \in Int /\ 1 \in Int /\ DOMAIN orders = 1 .. Len(orders)
  BY LenProperties DEF TypeOK
<1>2. IsFiniteSet(DOMAIN orders)
  BY <1>1, FS_Interval
<1> QED
  BY <1>2, OrderTracking DEF IsBook, OrdersOK, IsOrder

\* They moved what was given back, less what was sold.
LEMMA NetsType ==
  ASSUME NEW book, IsBook(book), NEW i
  PROVE  /\ \A id \in Holding(book, i) : Net(book, i, id) \in Int
         /\ Nets(book, i) \in Int
         /\ Units(book, i) \in Int
         /\ Refunds(book, i) = Nets(book, i) + Units(book, i)
<1> DEFINE H == Holding(book, i)
           net == [id \in H |-> Net(book, i, id)]
           units == [id \in H |-> book[id].lines[i].quantity]
           refund == [id \in H |-> Refund(book, i, id)]
<1>1. IsFiniteSet(H)
  BY RefundType
<1>2. ASSUME NEW id \in H
      PROVE  net[id] \in Int /\ units[id] \in Int /\ refund[id] = net[id] + units[id]
  <2>1. Cardinality(Marks(book[id].tracking)) \in Nat /\ book[id].lines[i].quantity \in Nat
    BY RefundType
  <2>2. \A m, n \in Nat : (m - 1) * n \in Int /\ m * n = (m - 1) * n + n
    OBVIOUS
  <2> QED
    BY <2>1, <2>2 DEF Net, Refund
<1>3. /\ Nets(book, i) = SumFunctionOnSet(net, H)
      /\ Units(book, i) = SumFunctionOnSet(units, H)
      /\ Refunds(book, i) = SumFunctionOnSet(refund, H)
  BY DEF Nets, Units, Refunds, SumFunction
<1>4. \A id \in H : Net(book, i, id) \in Int
  BY <1>2
<1> HIDE DEF H, net, units, refund
<1>5. SumFunctionOnSet(refund, H) = SumFunctionOnSet(net, H) + SumFunctionOnSet(units, H)
  BY <1>1, <1>2, SumPlus
<1>6. SumFunctionOnSet(net, H) \in Int /\ SumFunctionOnSet(units, H) \in Int
  BY <1>1, <1>2, SumAny
<1> QED
  BY <1>3, <1>4, <1>5, <1>6 DEF H

\* A cancellation on record moves back what its order holds of the row.
LEMMA NetsNoted ==
  ASSUME NEW book, IsBook(book), NEW noted, IsBook(noted), DOMAIN noted = DOMAIN book,
         NEW id \in DOMAIN book, NEW status \in Statuses,
         \A k \in DOMAIN book : noted[k].lines = book[k].lines,
         noted[id].tracking = Append(book[id].tracking, status),
         \A k \in DOMAIN book \ {id} : noted[k].tracking = book[k].tracking,
         NEW i
  PROVE  Nets(noted, i) = Nets(book, i)
           + (IF status = "cancelled" /\ i \in DOMAIN book[id].lines
              THEN book[id].lines[i].quantity ELSE 0)
<1> DEFINE given == IF status = "cancelled" /\ i \in DOMAIN book[id].lines
                    THEN book[id].lines[i].quantity ELSE 0
<1>1. Refunds(noted, i) = Refunds(book, i) + given
  BY RefundStep
<1>2. Units(noted, i) = Units(book, i)
  BY DEF Units, Holding
<1>3. given \in Nat
  BY DEF IsBook, IsLines, IsTable
<1>4. /\ Nets(book, i) \in Int /\ Units(book, i) \in Int
      /\ Refunds(book, i) = Nets(book, i) + Units(book, i)
  BY NetsType
<1>5. /\ Nets(noted, i) \in Int /\ Units(noted, i) \in Int
      /\ Refunds(noted, i) = Nets(noted, i) + Units(noted, i)
  BY NetsType
<1> HIDE DEF given
<1>6. Nets(noted, i) = Nets(book, i) + given
  BY <1>1, <1>2, <1>3, <1>4, <1>5
<1> QED
  BY <1>6 DEF given

\* A new order takes what it holds of the row.
LEMMA NetsSold ==
  ASSUME NEW book, IsBook(book), NEW grown, IsBook(grown), NEW id, id \notin DOMAIN book,
         DOMAIN grown = DOMAIN book \cup {id},
         \A k \in DOMAIN book : grown[k] = book[k],
         Marks(grown[id].tracking) = {},
         NEW i
  PROVE  Nets(grown, i) = Nets(book, i)
           - (IF i \in DOMAIN grown[id].lines THEN grown[id].lines[i].quantity ELSE 0)
<1> DEFINE H == Holding(book, i)
           J == Holding(grown, i)
           f == [k \in J |-> Net(grown, i, k)]
           g == [k \in H |-> Net(book, i, k)]
<1>1. /\ H \subseteq J /\ id \notin H
      /\ J = IF i \in DOMAIN grown[id].lines THEN H \cup {id} ELSE H
      /\ IsFiniteSet(J) /\ IsFiniteSet(H)
  BY RefundType DEF Holding
<1>2. /\ Nets(grown, i) = SumFunctionOnSet(f, J)
      /\ Nets(book, i) = SumFunctionOnSet(g, H)
      /\ Nets(book, i) \in Int
  BY NetsType DEF Nets, SumFunction
<1>3. \A k \in J : f[k] \in Int
  BY NetsType
<1>4. \A k \in H : g[k] \in Int /\ g[k] = f[k]
  BY <1>1, NetsType DEF Holding, Net
<1>5. SumFunctionOnSet(f, H) = SumFunctionOnSet(g, H)
  <2>1. H \in SUBSET H /\ (\A k \in H : f[k] \in Int /\ g[k] = f[k]) /\ \A k \in H \ H : f[k] = 0
    BY <1>4
  <2> HIDE DEF H, f, g
  <2> QED
    BY <1>1, <2>1, SumPart
<1>6. CASE i \notin DOMAIN grown[id].lines
  BY <1>1, <1>2, <1>5, <1>6
<1>7. CASE i \in DOMAIN grown[id].lines
  <2>1. id \in J /\ J \ {id} = H
    BY <1>1, <1>7
  <2>2. f[id] = 0 - grown[id].lines[i].quantity /\ grown[id].lines[i].quantity \in Nat
    <3>1. Cardinality(Marks(grown[id].tracking)) = 0
      BY FS_EmptySet
    <3>2. grown[id].lines[i].quantity \in Nat
      BY <2>1, RefundType
    <3>3. \A n \in Nat : (0 - 1) * n = 0 - n
      OBVIOUS
    <3> QED
      BY <2>1, <3>1, <3>2, <3>3 DEF Net
  <2>3. SumFunctionOnSet(f, J) = f[id] + SumFunctionOnSet(f, J \ {id})
    <3> HIDE DEF J, f
    <3> QED
      BY <1>1, <1>3, <2>1, SumAny
  <2>4. SumFunctionOnSet(f, J) = f[id] + SumFunctionOnSet(g, H)
    BY <1>5, <2>1, <2>3
  <2> HIDE DEF H, J, f, g
  <2> QED
    BY <1>2, <1>7, <2>2, <2>4
<1> QED
  BY <1>6, <1>7

\* What lines hold of a product is what they hold of rows that are there, and
\* of rows that are not.
SplitAdds(lines, D, s) ==
  LET there == Restrict(lines, DOMAIN lines \cap D)
      gone == Restrict(lines, DOMAIN lines \ D)
  IN  /\ UnitsOf(there, s) \in Nat /\ UnitsOf(gone, s) \in Nat
      /\ UnitsOf(lines, s) = UnitsOf(there, s) + UnitsOf(gone, s)

\* So the sum of a product splits at any set of rows.
LEMMA UnitsSplit ==
  ASSUME NEW lines, IsLines(lines), NEW D, NEW s
  PROVE  SplitAdds(lines, D, s)
<1> DEFINE there == Restrict(lines, DOMAIN lines \cap D)
           gone == Restrict(lines, DOMAIN lines \ D)
           R == RowsOf(lines, s)
           T == RowsOf(there, s)
           G == RowsOf(gone, s)
           q == [i \in R |-> lines[i].quantity]
           qt == [i \in T |-> there[i].quantity]
           qg == [i \in G |-> gone[i].quantity]
           f == [i \in R |-> IF i \in D THEN lines[i].quantity ELSE 0]
           g == [i \in R |-> IF i \in D THEN 0 ELSE lines[i].quantity]
<1>1. IsFiniteSet(R) /\ T \in SUBSET R /\ G \in SUBSET R
  BY RowsFinite DEF RowsOf, Restrict, IsLines, IsTable
<1>2. \A i \in R : lines[i].quantity \in Nat
  BY DEF RowsOf, IsLines, IsTable
<1>3. (\A i \in T : f[i] \in Int /\ qt[i] = f[i]) /\ \A i \in R \ T : f[i] = 0
  BY <1>2 DEF RowsOf, Restrict
<1>4. (\A i \in G : g[i] \in Int /\ qg[i] = g[i]) /\ \A i \in R \ G : g[i] = 0
  BY <1>2 DEF RowsOf, Restrict
<1>5. \A i \in R : f[i] \in Int /\ g[i] \in Int /\ q[i] = f[i] + g[i]
  BY <1>2
<1>6. IsLines(there) /\ IsLines(gone)
  BY FS_Subset DEF IsLines, IsTable, Restrict
<1>7. UnitsOf(there, s) \in Nat /\ UnitsOf(gone, s) \in Nat
  BY <1>6, SumsType
<1>8. /\ UnitsOf(lines, s) = SumFunctionOnSet(q, R)
      /\ UnitsOf(there, s) = SumFunctionOnSet(qt, T)
      /\ UnitsOf(gone, s) = SumFunctionOnSet(qg, G)
  BY DEF UnitsOf, SumFunction, RowsOf
<1> HIDE DEF R, T, G, q, qt, qg, f, g, there, gone
<1>9. SumFunctionOnSet(q, R) = SumFunctionOnSet(f, R) + SumFunctionOnSet(g, R)
  BY <1>1, <1>5, SumPlus
<1>10. SumFunctionOnSet(f, R) = SumFunctionOnSet(qt, T)
  BY <1>1, <1>3, SumPart
<1>11. SumFunctionOnSet(g, R) = SumFunctionOnSet(qg, G)
  BY <1>1, <1>4, SumPart
<1> QED
  BY <1>7, <1>8, <1>9, <1>10, <1>11 DEF there, gone, SplitAdds

\* The first row of a product is all it has.
LEMMA OneRowSum ==
  ASSUME NEW table, IsShelf(table), NEW i \in Item, NEW n \in Nat,
         \A j \in DOMAIN table : SkuOf[j] # SkuOf[i]
  PROVE  ShelfSum(UpsertVariant(table, i, n), SkuOf[i]) = n
<1> DEFINE up == UpsertVariant(table, i, n)
<1>1. {j \in DOMAIN up : SkuOf[j] = SkuOf[i]} = {i} /\ up[i] = n
  BY DEF UpsertVariant
<1> HIDE DEF up
<1>2. IsFiniteSet({i})
  BY FS_Singleton
<1>3. SumFunctionOnSet(up, {i}) = up[i] + SumFunctionOnSet(up, {i} \ {i})
  <2>1. \A j \in {i} : up[j] \in Int
    BY <1>1
  <2> QED
    BY <1>2, <2>1, SumAny
<1>4. {i} \ {i} = {}
  OBVIOUS
<1> QED
  BY <1>1, <1>3, <1>4, SumEmpty DEF ShelfSum, up

----------------------------------------------------------------------------
(* The invariant, and the kinds of step.                                    *)

\* Rows are of products there are.
CatalogInv == known \in SUBSET Sku /\ \A i \in DOMAIN shelf : SkuOf[i] \in known

\* What an open page was told is in the tracking of its order, above what it
\* drew; a click in flight belongs to the page that is open.
PageOK(d) ==
  Open(d) =>
    /\ page[d] \in [id : DOMAIN orders, step : Statuses, cancellable : BOOLEAN,
                    drawn : BOOLEAN, timeline : Nat]
    /\ page[d].timeline <= Len(orders[page[d].id].tracking)
    /\ \E k \in 1 .. Len(orders[page[d].id].tracking) :
         /\ orders[page[d].id].tracking[k] = page[d].step
         /\ page[d].drawn => k <= page[d].timeline

DeskOK(d) ==
  /\ Life!IsRequest(desk[d])
  /\ desk[d].at = "advancing" => Open(d) /\ page[d].id = desk[d].id

SweepOK == DOMAIN sweep \subseteq DOMAIN orders /\ sweep \in [DOMAIN sweep -> DOMAIN Ladder]

LifeInv ==
  /\ desk = [d \in Desk |-> desk[d]] /\ page = [d \in Desk |-> page[d]]
  /\ \A d \in Desk : PageOK(d) /\ DeskOK(d)
  /\ SweepOK
  /\ requests \in 0 .. MaxRequests

BooksInv == count \in [Item -> Int] /\ astray \in [Sku -> Nat] /\ TotalExplained /\ ShelfBalances

ShopInv == TypeOK /\ OrdersOK /\ CatalogInv /\ LifeInv /\ BooksInv

\* What a request in flight carries.
LEMMA DeskFields ==
  ASSUME NEW d, Life!IsRequest(desk[d])
  PROVE  /\ desk[d].at = "advancing" => desk[d].id \in DOMAIN orders /\ desk[d].seen \in DOMAIN Ladder
         /\ desk[d].at = "cancelling" => desk[d].id \in DOMAIN orders
<1>1. CASE desk[d] = Life!Idle
  BY <1>1 DEF Life!Idle
<1>2. CASE desk[d] \in [at : {"advancing"}, id : Life!Ids, seen : DOMAIN Life!Ladder]
  BY <1>2, LifeWords
<1>3. CASE desk[d] \in [at : {"cancelling"}, id : Life!Ids]
  BY <1>3, LifeWords
<1> QED
  BY <1>1, <1>2, <1>3 DEF Life!IsRequest

Books == <<shelf, total, known, counting>>

Quiet == UNCHANGED <<orders, Books>>

Sold(t) == CommitOrder(t) /\ UNCHANGED <<known, counting>>

\* One row changed, added or removed, its product resummed and the row counted.
Recounted(i) ==
  /\ IsShelf(shelf')
  /\ \A j \in Item \ {i} : /\ j \in DOMAIN shelf' <=> j \in DOMAIN shelf
                           /\ j \in DOMAIN shelf => shelf'[j] = shelf[j]
  /\ total' = [total EXCEPT ![SkuOf[i]] = ShelfSum(shelf', SkuOf[i])]
  /\ known \subseteq known' /\ known' \in SUBSET Sku /\ SkuOf[i] \in known'
  /\ Counted(i)
  /\ UNCHANGED orders

\* One status written, with its tracking line.
Moves(id, status) == Life!Record(id, status) /\ UNCHANGED Books

Kind ==
  \/ Quiet
  \/ \E t \in Tab : Sold(t)
  \/ \E i \in Item : Recounted(i)
  \/ \E id \in DOMAIN orders, status \in Statuses \ {"cancelled"} : Moves(id, status)
  \/ \E d \in Desk : Cancel(d)

\* Every edit of a row is a recount.
LEMMA EditRecounts ==
  ASSUME ShopInv, NEW i \in Item, EditRow(i)
  PROVE  Recounted(i)
<1>1. /\ IsShelf(shelf) /\ CatalogInv /\ SkuOf[i] \in known /\ Counted(i) /\ known' = known
      /\ (\E n \in Counts : SetStock(i, n) \/ AddVariant(i, n)) \/ RemoveVariant(i)
  BY DEF ShopInv, TypeOK, VisitTypeOK, EditRow
<1>2. ASSUME NEW edited, IsShelf(edited), Restock(i, edited),
             \A j \in Item \ {i} : /\ j \in DOMAIN edited <=> j \in DOMAIN shelf
                                   /\ j \in DOMAIN shelf => edited[j] = shelf[j]
      PROVE  Recounted(i)
  BY <1>1, <1>2 DEF Restock, Resum, Recounted, CatalogInv
<1>3. ASSUME NEW n \in Counts, SetStock(i, n) \/ AddVariant(i, n)
      PROVE  Recounted(i)
  <2> DEFINE m == AtLeastZero(n)
  <2>1. IsShelf(UpdateVariant(shelf, i, m)) /\ IsShelf(UpsertVariant(shelf, i, m))
    BY <1>1, CheckoutAssumption, EditType DEF AtLeastZero
  <2>2. \A j \in Item \ {i} :
          /\ j \in DOMAIN UpdateVariant(shelf, i, m) <=> j \in DOMAIN shelf
          /\ j \in DOMAIN shelf => UpdateVariant(shelf, i, m)[j] = shelf[j]
          /\ j \in DOMAIN UpsertVariant(shelf, i, m) <=> j \in DOMAIN shelf
          /\ j \in DOMAIN shelf => UpsertVariant(shelf, i, m)[j] = shelf[j]
    BY DEF UpdateVariant, UpsertVariant
  <2> QED
    BY <1>2, <1>3, <2>1, <2>2 DEF SetStock, AddVariant
<1>4. ASSUME RemoveVariant(i)
      PROVE  Recounted(i)
  <2>1. IsShelf(DeleteVariant(shelf, i))
    BY <1>1, EditType, 0 \in Nat
  <2>2. \A j \in Item \ {i} : /\ j \in DOMAIN DeleteVariant(shelf, i) <=> j \in DOMAIN shelf
                              /\ j \in DOMAIN shelf => DeleteVariant(shelf, i)[j] = shelf[j]
    BY DEF DeleteVariant, Restrict
  <2> QED
    BY <1>2, <1>4, <2>1, <2>2 DEF RemoveVariant
<1> QED
  BY <1>1, <1>3, <1>4

\* So is the first row of a new product: it had none, so its stock is its sum.
LEMMA CreateRecounts ==
  ASSUME ShopInv, NEW s \in Sku, NEW n \in Counts, NEW p \in PriceTags, CreateProduct(s, n, p)
  PROVE  Recounted(OneSize[s])
<1> DEFINE i == OneSize[s]
           m == AtLeastZero(n)
<1>1. i \in Item /\ SkuOf[i] = s /\ m \in Nat /\ IsShelf(shelf) /\ CatalogInv
  BY ShopAssumption, CheckoutAssumption DEF AtLeastZero, ShopInv, TypeOK, VisitTypeOK
<1>2. /\ s \notin known /\ known' = known \cup {s} /\ shelf' = UpsertVariant(shelf, i, m)
      /\ total' = [total EXCEPT ![s] = m] /\ Counted(i) /\ UNCHANGED orders
  BY DEF CreateProduct, FirstRow
<1> HIDE DEF i, m
<1>3. IsShelf(shelf')
  BY <1>1, <1>2, EditType
<1>4. \A j \in Item \ {i} : /\ j \in DOMAIN shelf' <=> j \in DOMAIN shelf
                            /\ j \in DOMAIN shelf => shelf'[j] = shelf[j]
  BY <1>2 DEF UpsertVariant
<1>5. ShelfSum(shelf', SkuOf[i]) = m
  <2>1. \A j \in DOMAIN shelf : SkuOf[j] # SkuOf[i]
    BY <1>1, <1>2 DEF CatalogInv
  <2> QED
    BY <1>1, <1>2, <2>1, OneRowSum
<1>6. Recounted(i)
  BY <1>1, <1>2, <1>3, <1>4, <1>5 DEF Recounted, CatalogInv
<1> QED
  BY <1>6 DEF i

\* Every step is of one of the kinds.
LEMMA Kinds ==
  ASSUME ShopInv, [ShopNext]_shopVars
  PROVE  Kind
<1>0. /\ \A s \in DOMAIN Ladder : NextStep(s) \in Statuses \ {"cancelled"}
      /\ \A d \in Desk : Life!IsRequest(desk[d])
  BY DEF NextStep, Ladder, Statuses, ShopInv, LifeInv, DeskOK
<1>1. CASE Checkout
  <2>1. CASE \E t \in Tab : CommitOrder(t)
    BY <1>1, <2>1 DEF Checkout, Sold, Kind
  <2>2. CASE ~\E t \in Tab : CommitOrder(t)
    BY <1>1, <2>2 DEF Checkout, Kind, Quiet, Books, Change, SetQuantity, Submit, ReadCart, Progress,
         RollBack, VisitStep, StoreLine, ClampOut, ClampDown, ForgetCart
  <2> QED
    BY <2>1, <2>2
<1>2. CASE BackOffice
  <2>1. ASSUME NEW i \in Item, EditRow(i)
        PROVE  Kind
    BY <2>1, EditRecounts DEF Kind
  <2>2. ASSUME NEW s \in Sku, EditPrice(s)
        PROVE  Kind
    BY <2>2 DEF EditPrice, SetPrice, Kind, Quiet, Books
  <2>3. ASSUME NEW s \in Sku, NEW n \in Counts, NEW p \in PriceTags, CreateProduct(s, n, p)
        PROVE  Kind
    BY <2>3, CreateRecounts, ShopAssumption DEF Kind
  <2> QED
    BY <1>2, <2>1, <2>2, <2>3 DEF BackOffice
<1>3. CASE OrderPage
  <2>1. ASSUME NEW d \in Desk, NEW id \in DOMAIN orders, OpenPage(d, id)
        PROVE  Kind
    BY <2>1 DEF OpenPage, Kind, Quiet, Books, vars
  <2>2. ASSUME NEW d \in Desk, DrawTimeline(d) \/ ClickAdvance(d) \/ ClickCancel(d)
        PROVE  Kind
    BY <2>2 DEF DrawTimeline, ClickAdvance, ClickCancel, Life!AskAdvance, Life!AskCancel,
         Life!Receive, Kind, Quiet, Books, vars
  <2>3. ASSUME NEW d \in Desk, Advance(d)
        PROVE  Kind
    <3>1. desk[d].id \in DOMAIN orders /\ desk[d].seen \in DOMAIN Ladder
      BY <1>0, <2>3, DeskFields DEF Advance, Life!Advance
    <3>2. Moves(desk[d].id, NextStep(desk[d].seen))
      BY <2>3, LifeWords DEF Advance, Life!Advance, Moves, Books
    <3> QED
      BY <1>0, <3>1, <3>2 DEF Kind
  <2>4. ASSUME NEW d \in Desk, Cancel(d)
        PROVE  Kind
    BY <2>4 DEF Kind
  <2> QED
    BY <1>3, <2>1, <2>2, <2>3, <2>4 DEF OrderPage
<1>4. CASE Sweep
  <2>1. CASE Life!SweepStart
    BY <1>4, <2>1 DEF Sweep, Life!SweepStart, Kind, Quiet, Books
  <2>2. ASSUME NEW id \in DOMAIN orders, Life!SweepOne(id)
        PROVE  Kind
    <3>1. sweep[id] \in DOMAIN Ladder
      BY <2>2 DEF Life!SweepOne, ShopInv, LifeInv, SweepOK
    <3>2. Moves(id, NextStep(sweep[id]))
      BY <1>4, <2>2, LifeWords DEF Sweep, Life!SweepOne, Moves, Books
    <3> QED
      BY <1>0, <3>1, <3>2 DEF Kind
  <2> QED
    BY <1>4, <2>1, <2>2, LifeWords DEF Sweep, Life!Sweep
<1>5. CASE SweepFails
  BY <1>5 DEF SweepFails, Life!SweepFails, Kind, Quiet, Books
<1>6. CASE UNCHANGED shopVars
  BY <1>6 DEF shopVars, vars, Kind, Quiet, Books
<1> QED
  BY <1>1, <1>2, <1>3, <1>4, <1>5, <1>6 DEF ShopNext

----------------------------------------------------------------------------
(* What each kind of step keeps.                                           *)

\* A cancellation is a status written, with what it gives back.
LEMMA CancelWrites ==
  ASSUME ShopInv, NEW d \in Desk, Cancel(d)
  PROVE  LET id == desk[d].id
             lines == orders[id].lines
         IN  /\ id \in DOMAIN orders /\ IsLines(lines)
             /\ Life!Record(id, "cancelled")
             /\ shelf' = GiveBackAll(shelf, lines)
             /\ total' = GiveBackTotals(total, lines)
             /\ astray' = [s \in Sku |->
                   astray[s] + UnitsOf(Restrict(lines, DOMAIN lines \ DOMAIN shelf), s)]
             /\ UNCHANGED <<price, visits, edits, faults, known, count>>
<1>1. Life!Cancel(d) /\ Life!IsRequest(desk[d]) /\ OrdersOK
  BY DEF Cancel, ShopInv, LifeInv, DeskOK
<1>2. desk[d].id \in DOMAIN orders
  BY <1>1, DeskFields DEF Life!Cancel
<1>3. IsLines(orders[desk[d].id].lines)
  BY <1>1, <1>2 DEF OrdersOK, IsOrder
<1>4. /\ Life!Record(desk[d].id, "cancelled")
      /\ shelf' = GiveBackAll(shelf, orders[desk[d].id].lines)
      /\ total' = GiveBackTotals(total, orders[desk[d].id].lines)
      /\ faults' = faults
  BY <1>1, LifeTables DEF Life!Cancel
<1> QED
  BY <1>2, <1>3, <1>4 DEF Cancel

\* Orders are sold, written to one at a time, or left alone.
LEMMA OrdersStep ==
  ASSUME ShopInv, Kind
  PROVE  OrdersOK' /\ TrackingKept
<1>1. TypeOK /\ OrdersOK
  BY DEF ShopInv
<1>2. ASSUME NEW id \in DOMAIN orders, NEW status \in Statuses, Life!Record(id, status)
      PROVE  OrdersOK' /\ TrackingKept
  <2>1. /\ DOMAIN orders' = DOMAIN orders /\ TrackingKept
        /\ \A k \in DOMAIN orders : IsOrder(orders'[k])
    BY <1>1, <1>2, OrdersNoted
  <2> QED
    BY <2>1 DEF OrdersOK
<1>3. CASE UNCHANGED orders
  <2>1. OrdersOK'
    BY <1>1, <1>3 DEF OrdersOK
  <2>2. \A k \in DOMAIN orders : Len(orders[k].tracking) \in Nat
    BY <1>1, OrderTracking DEF OrdersOK
  <2> QED
    BY <1>3, <2>1, <2>2 DEF TrackingKept
<1>4. ASSUME NEW t \in Tab, Sold(t)
      PROVE  OrdersOK' /\ TrackingKept
  BY <1>1, <1>4, OrdersSold DEF Sold
<1>5. ASSUME NEW d \in Desk, Cancel(d)
      PROVE  OrdersOK' /\ TrackingKept
  <2>1. "cancelled" \in Statuses
    BY DEF Statuses
  <2> QED
    BY <1>2, <1>5, <2>1, CancelWrites
<1> QED
  BY <1>2, <1>3, <1>4, <1>5 DEF Kind, Quiet, Recounted, Moves

\* A row that appears is of a product that is there.
LEMMA CatalogStep ==
  ASSUME ShopInv, Kind
  PROVE  CatalogInv'
<1>1. CatalogInv /\ IsShelf(shelf)
  BY DEF ShopInv, TypeOK, VisitTypeOK
<1>2. ASSUME DOMAIN shelf' = DOMAIN shelf, known' = known
      PROVE  CatalogInv'
  BY <1>1, <1>2 DEF CatalogInv
<1>3. ASSUME NEW i \in Item, Recounted(i)
      PROVE  CatalogInv'
  <2>1. ASSUME NEW j \in DOMAIN shelf'
        PROVE  SkuOf[j] \in known'
    <3>1. j \in Item
      BY <1>3 DEF Recounted, IsShelf, IsTable
    <3> QED
      BY <1>1, <1>3, <3>1 DEF Recounted, CatalogInv
  <2> QED
    BY <1>3, <2>1 DEF Recounted, CatalogInv
<1>4. ASSUME NEW t \in Tab, Sold(t)
      PROVE  CatalogInv'
  BY <1>2, <1>4 DEF Sold, CommitOrder, TakeAll
<1>5. ASSUME NEW d \in Desk, Cancel(d)
      PROVE  CatalogInv'
  <2>1. DOMAIN shelf' = DOMAIN shelf /\ known' = known
    BY <1>5, CancelWrites DEF GiveBackAll
  <2> QED
    BY <1>2, <2>1
<1> QED
  BY <1>2, <1>3, <1>4, <1>5 DEF Kind, Quiet, Moves, Books

\* What was moved is a number of units.
LEMMA MovedType ==
  ASSUME TypeOK, OrdersOK
  PROVE  \A i : Moved(i) \in Int
BY OrdersBook, NetsType, MovedIs

\* The books balance after a sale: what leaves a row is moved, and is what
\* leaves the product.
LEMMA BooksSold ==
  ASSUME ShopInv, NEW t \in Tab, Sold(t)
  PROVE  BooksInv'
<1> DEFINE lines == req[t].lines
           id == Len(orders) + 1
<1>1. /\ IsBook(orders) /\ IsShelf(shelf) /\ BooksInv /\ TypeOK /\ OrdersOK /\ CommitOrder(t)
      /\ count' = count /\ astray' = astray
  BY OrdersBook DEF ShopInv, TypeOK, VisitTypeOK, Sold, counting
<1>2. IsLines(lines) /\ CoversAll(shelf, lines)
  BY <1>1, RequestFields DEF CommitOrder, TypeOK
<1>3. /\ shelf' = TakeAll(shelf, lines) /\ total' = TakeTotals(total, lines)
      /\ id \notin DOMAIN orders /\ DOMAIN orders' = DOMAIN orders \cup {id}
      /\ \A k \in DOMAIN orders : orders'[k] = orders[k]
      /\ orders'[id].lines = lines /\ orders'[id].tracking = <<"paid">>
  BY <1>1, OrdersSold DEF CommitOrder
<1> HIDE DEF lines, id
<1>4. IsBook(orders')
  <2>1. IsFiniteSet(DOMAIN orders')
    BY <1>1, <1>3, FS_AddElement DEF IsBook
  <2>2. <<"paid">> \in Seq(Statuses)
    BY DEF Statuses
  <2>3. \A k \in DOMAIN orders' : IsLines(orders'[k].lines) /\ orders'[k].tracking \in Seq(Statuses)
    BY <1>1, <1>2, <1>3, <2>2 DEF IsBook
  <2> QED
    BY <2>1, <2>3 DEF IsBook
<1>5. Marks(orders'[id].tracking) = {}
  BY <1>3 DEF Marks
<1>6. \A i : Nets(orders', i) = Nets(orders, i)
               - (IF i \in DOMAIN lines THEN lines[i].quantity ELSE 0)
  BY <1>1, <1>3, <1>4, <1>5, NetsSold
<1>7. ShelfBalances'
  <2> SUFFICES ASSUME NEW i \in DOMAIN shelf'
               PROVE  shelf'[i] = count'[i] + Moved(i)'
    BY DEF ShelfBalances
  <2>1. i \in DOMAIN shelf /\ i \in Item /\ shelf[i] \in Nat /\ count[i] \in Int
    BY <1>1, <1>3 DEF TakeAll, IsShelf, IsTable, BooksInv
  <2>2. Moved(i)' = Nets(orders', i)
    BY MovedIs
  <2>3. shelf[i] = count[i] + Nets(orders, i) /\ Nets(orders, i) \in Int
    BY <1>1, <2>1, MovedIs, NetsType DEF BooksInv, ShelfBalances
  <2>4. shelf'[i] = IF i \in DOMAIN lines THEN shelf[i] - lines[i].quantity ELSE shelf[i]
    BY <1>3, <2>1 DEF TakeAll
  <2>5. i \in DOMAIN lines => lines[i].quantity \in Nat
    BY <1>2 DEF IsLines, IsTable
  <2> QED
    BY <1>1, <1>6, <2>1, <2>2, <2>3, <2>4, <2>5
<1>8. TotalExplained'
  <2> SUFFICES ASSUME NEW s \in Sku
               PROVE  total'[s] = ShelfSum(shelf', s) + astray'[s]
    BY DEF TotalExplained
  <2>1. total'[s] = total[s] - UnitsOf(lines, s)
    BY <1>3 DEF TakeTotals
  <2>2. ShelfSum(shelf', s) = ShelfSum(shelf, s) - UnitsOf(lines, s)
    BY <1>1, <1>2, <1>3, TakeAllSum
  <2>3. total[s] = ShelfSum(shelf, s) + astray[s] /\ astray[s] \in Nat
    BY <1>1 DEF BooksInv, TotalExplained
  <2>4. ShelfSum(shelf, s) \in Nat /\ UnitsOf(lines, s) \in Nat
    BY <1>1, <1>2, SumsType
  <2> QED
    BY <1>1, <2>1, <2>2, <2>3, <2>4
<1> QED
  BY <1>1, <1>7, <1>8 DEF BooksInv

\* After a count the row holds what was counted, and the product the sum of
\* its rows, whatever went astray before.
LEMMA BooksRecounted ==
  ASSUME ShopInv, NEW i \in Item, Recounted(i)
  PROVE  BooksInv'
<1>1. /\ IsShelf(shelf) /\ IsShelf(shelf') /\ BooksInv /\ TypeOK /\ OrdersOK
      /\ total = [s \in Sku |-> total[s]] /\ UNCHANGED orders /\ SkuOf[i] \in Sku
      /\ \A j \in Item \ {i} : /\ j \in DOMAIN shelf' <=> j \in DOMAIN shelf
                               /\ j \in DOMAIN shelf => shelf'[j] = shelf[j]
      /\ total' = [total EXCEPT ![SkuOf[i]] = ShelfSum(shelf', SkuOf[i])]
      /\ count' = [count EXCEPT ![i] = Stock(shelf', i) - Moved(i)]
      /\ astray' = [astray EXCEPT ![SkuOf[i]] = 0]
  BY CatalogAssumption DEF ShopInv, TypeOK, VisitTypeOK, Recounted, Counted
<1>2. \A j : Moved(j) \in Int
  BY <1>1, MovedType
<1>3. Stock(shelf', i) \in Nat /\ (i \in DOMAIN shelf' => shelf'[i] = Stock(shelf', i))
  BY <1>1, StockType DEF Stock
<1>4. count' \in [Item -> Int] /\ astray' \in [Sku -> Nat]
  BY <1>1, <1>2, <1>3 DEF BooksInv
<1>5. ShelfBalances'
  <2> SUFFICES ASSUME NEW j \in DOMAIN shelf'
               PROVE  shelf'[j] = count'[j] + Moved(j)'
    BY DEF ShelfBalances
  <2>1. j \in Item
    BY <1>1 DEF IsShelf, IsTable
  <2>2. Moved(j)' = Moved(j)
    BY <1>1 DEF Moved, Life!Cancellations, Life!Steps
  <2>3. CASE j = i
    BY <1>1, <1>2, <1>3, <2>2, <2>3 DEF BooksInv
  <2>4. CASE j # i
    BY <1>1, <2>1, <2>2, <2>4 DEF BooksInv, ShelfBalances
  <2> QED
    BY <2>3, <2>4
<1>6. TotalExplained'
  <2> SUFFICES ASSUME NEW s \in Sku
               PROVE  total'[s] = ShelfSum(shelf', s) + astray'[s]
    BY DEF TotalExplained
  <2>1. CASE s = SkuOf[i]
    <3>1. ShelfSum(shelf', s) \in Nat
      BY <1>1, SumsType
    <3>2. total'[s] = ShelfSum(shelf', s) /\ astray'[s] = 0
      BY <1>1, <2>1 DEF BooksInv
    <3> QED
      BY <3>1, <3>2
  <2>2. CASE s # SkuOf[i]
    <3>1. ShelfSum(shelf', s) = ShelfSum(shelf, s)
      BY <1>1, <2>2, OtherSums
    <3>2. total'[s] = total[s] /\ astray'[s] = astray[s]
      BY <1>1, <2>2 DEF BooksInv
    <3> QED
      BY <1>1, <3>1, <3>2 DEF BooksInv, TotalExplained
  <2> QED
    BY <2>1, <2>2
<1> QED
  BY <1>4, <1>5, <1>6 DEF BooksInv

\* After a cancellation the rows that are there got their units back, and the
\* units of rows that are gone are astray.
LEMMA BooksCancelled ==
  ASSUME ShopInv, NEW d \in Desk, Cancel(d)
  PROVE  BooksInv'
<1> DEFINE id == desk[d].id
           lines == orders[id].lines
           there(s) == UnitsOf(Restrict(lines, DOMAIN lines \cap DOMAIN shelf), s)
           gone(s) == UnitsOf(Restrict(lines, DOMAIN lines \ DOMAIN shelf), s)
           given(i) == IF i \in DOMAIN lines THEN lines[i].quantity ELSE 0
<1>1. /\ IsBook(orders) /\ IsShelf(shelf) /\ BooksInv /\ TypeOK /\ OrdersOK
      /\ "cancelled" \in Statuses
  BY OrdersBook DEF ShopInv, TypeOK, VisitTypeOK, Statuses
<1>2. /\ id \in DOMAIN orders /\ IsLines(lines) /\ Life!Record(id, "cancelled")
      /\ shelf' = GiveBackAll(shelf, lines) /\ total' = GiveBackTotals(total, lines)
      /\ astray' = [s \in Sku |-> astray[s] + gone(s)] /\ count' = count
  BY CancelWrites
<1>3. /\ DOMAIN orders' = DOMAIN orders
      /\ \A k \in DOMAIN orders : orders'[k].lines = orders[k].lines
      /\ orders'[id].tracking = Append(orders[id].tracking, "cancelled")
      /\ \A k \in DOMAIN orders \ {id} : orders'[k].tracking = orders[k].tracking
      /\ \A k \in DOMAIN orders : IsOrder(orders'[k])
  BY <1>1, <1>2, OrdersNoted
<1>4. IsBook(orders')
  BY <1>1, <1>3, OrderTracking DEF IsBook, IsOrder
<1>5. \A i : Nets(orders', i) = Nets(orders, i) + given(i)
  <2> SUFFICES ASSUME NEW i
               PROVE  Nets(orders', i) = Nets(orders, i) + given(i)
    OBVIOUS
  <2>1. Nets(orders', i) = Nets(orders, i)
           + (IF "cancelled" = "cancelled" /\ i \in DOMAIN orders[id].lines
              THEN orders[id].lines[i].quantity ELSE 0)
    BY <1>1, <1>2, <1>3, <1>4, NetsNoted
  <2> QED
    BY <2>1
<1>6. \A i : given(i) \in Nat
  BY <1>2 DEF IsLines, IsTable
<1>7. \A s : there(s) \in Nat /\ gone(s) \in Nat /\ UnitsOf(lines, s) = there(s) + gone(s)
  <2> SUFFICES ASSUME NEW s
               PROVE  there(s) \in Nat /\ gone(s) \in Nat /\ UnitsOf(lines, s) = there(s) + gone(s)
    OBVIOUS
  <2>1. SplitAdds(lines, DOMAIN shelf, s)
    BY <1>2, UnitsSplit
  <2> QED
    BY <2>1 DEF SplitAdds
<1>8. \A i \in DOMAIN shelf : shelf'[i] = shelf[i] + given(i)
  BY <1>1, <1>2 DEF GiveBackAll, IsShelf, IsTable
<1>9. DOMAIN shelf' = DOMAIN shelf
  BY <1>2 DEF GiveBackAll
<1>10. \A s : ShelfSum(shelf', s) = ShelfSum(shelf, s) + there(s)
  BY <1>1, <1>2, GiveBackAllSum
<1> HIDE DEF there, gone, given, lines, id
<1>11. ShelfBalances'
  <2> SUFFICES ASSUME NEW i \in DOMAIN shelf'
               PROVE  shelf'[i] = count'[i] + Moved(i)'
    BY DEF ShelfBalances
  <2>1. i \in DOMAIN shelf /\ i \in Item /\ shelf[i] \in Nat /\ count[i] \in Int
    BY <1>1, <1>9 DEF IsShelf, IsTable, BooksInv
  <2>2. Moved(i)' = Nets(orders', i)
    BY MovedIs
  <2>3. shelf[i] = count[i] + Nets(orders, i) /\ Nets(orders, i) \in Int
    BY <1>1, <2>1, MovedIs, NetsType DEF BooksInv, ShelfBalances
  <2> QED
    BY <1>2, <1>5, <1>6, <1>8, <2>1, <2>2, <2>3
<1>12. TotalExplained'
  <2> SUFFICES ASSUME NEW s \in Sku
               PROVE  total'[s] = ShelfSum(shelf', s) + astray'[s]
    BY DEF TotalExplained
  <2>1. total'[s] = total[s] + UnitsOf(lines, s) /\ astray'[s] = astray[s] + gone(s)
    BY <1>2 DEF GiveBackTotals
  <2>2. total[s] = ShelfSum(shelf, s) + astray[s] /\ astray[s] \in Nat /\ ShelfSum(shelf, s) \in Nat
    BY <1>1, SumsType DEF BooksInv, TotalExplained
  <2> QED
    BY <1>7, <1>10, <2>1, <2>2
<1>13. astray' \in [Sku -> Nat] /\ count' \in [Item -> Int]
  BY <1>1, <1>2, <1>7 DEF BooksInv
<1> QED
  BY <1>11, <1>12, <1>13 DEF BooksInv

\* Every kind of step keeps the books.
LEMMA BooksStep ==
  ASSUME ShopInv, Kind
  PROVE  BooksInv'
<1>1. /\ BooksInv /\ TypeOK /\ OrdersOK /\ IsBook(orders)
      /\ count \in [Item -> Int] /\ astray \in [Sku -> Nat]
  BY OrdersBook DEF ShopInv, BooksInv
<1>2. ASSUME UNCHANGED Books, \A i \in Item : Moved(i)' = Moved(i)
      PROVE  BooksInv'
  <2>1. UNCHANGED <<shelf, total, count, astray>>
    BY <1>2 DEF Books, counting
  <2>2. DOMAIN shelf \subseteq Item
    BY DEF ShopInv, TypeOK, VisitTypeOK, IsShelf, IsTable
  <2> QED
    BY <1>1, <1>2, <2>1, <2>2 DEF BooksInv, TotalExplained, ShelfBalances
<1>3. CASE Quiet
  <2>1. \A i \in Item : Moved(i)' = Moved(i)
    BY <1>3 DEF Quiet, Moved, Life!Cancellations, Life!Steps
  <2> QED
    BY <1>2, <1>3, <2>1 DEF Quiet
<1>4. ASSUME NEW id \in DOMAIN orders, NEW status \in Statuses \ {"cancelled"}, Moves(id, status)
      PROVE  BooksInv'
  <2>0. status \in Statuses /\ status # "cancelled"
    OBVIOUS
  <2>1. /\ DOMAIN orders' = DOMAIN orders
        /\ \A k \in DOMAIN orders : orders'[k].lines = orders[k].lines
        /\ orders'[id].tracking = Append(orders[id].tracking, status)
        /\ \A k \in DOMAIN orders \ {id} : orders'[k].tracking = orders[k].tracking
        /\ \A k \in DOMAIN orders : IsOrder(orders'[k])
    BY <1>1, <1>4, OrdersNoted DEF Moves
  <2>2. IsBook(orders')
    BY <1>1, <2>1, OrderTracking DEF IsBook, IsOrder
  <2>3. ASSUME NEW i \in Item
        PROVE  Moved(i)' = Moved(i)
    <3>1. Nets(orders', i) = Nets(orders, i)
             + (IF status = "cancelled" /\ i \in DOMAIN orders[id].lines
                THEN orders[id].lines[i].quantity ELSE 0)
      <4>1. IsBook(orders)
        BY <1>1
      <4> QED
        BY <2>0, <2>1, <2>2, <4>1, NetsNoted
    <3>2. Moved(i) = Nets(orders, i) /\ Nets(orders, i) \in Int
      BY <1>1, MovedIs, NetsType
    <3>3. Moved(i)' = Nets(orders', i)
      BY MovedIs
    <3> QED
      BY <2>0, <3>1, <3>2, <3>3
  <2> QED
    BY <1>2, <1>4, <2>3 DEF Moves
<1> QED
  BY <1>3, <1>4, BooksSold, BooksRecounted, BooksCancelled DEF Kind

----------------------------------------------------------------------------
(* The pages and the desks.                                                *)

\* Tracking lines do not move under an open page.
LEMMA PageKept ==
  ASSUME OrdersOK, OrdersOK', TrackingKept, NEW d \in Desk, PageOK(d), page'[d] = page[d]
  PROVE  PageOK(d)'
<1> SUFFICES ASSUME page[d] # Closed
             PROVE  PageOK(d)'
  BY DEF PageOK, Open
<1> DEFINE id == page[d].id
           steps == orders[id].tracking
           more == orders'[id].tracking
<1>1. /\ page[d] \in [id : DOMAIN orders, step : Statuses, cancellable : BOOLEAN,
                      drawn : BOOLEAN, timeline : Nat]
      /\ page[d].timeline <= Len(steps)
  BY DEF PageOK, Open
<1>2. PICK k \in 1 .. Len(steps) : steps[k] = page[d].step /\ (page[d].drawn => k <= page[d].timeline)
  BY DEF PageOK, Open
<1>3. id \in DOMAIN orders /\ id \in DOMAIN orders' /\ Len(steps) \in Nat /\ page[d].timeline \in Nat
  BY <1>1, OrderTracking DEF TrackingKept, OrdersOK
<1>4. Len(steps) <= Len(more) /\ \A n \in 1 .. Len(steps) : more[n] = steps[n]
  BY <1>3 DEF TrackingKept
<1>5. Len(more) \in Nat
  BY <1>3, OrderTracking DEF OrdersOK
<1>6. page[d] \in [id : DOMAIN orders', step : Statuses, cancellable : BOOLEAN,
                   drawn : BOOLEAN, timeline : Nat]
  BY <1>1 DEF TrackingKept
<1>7. page[d].timeline <= Len(more) /\ k \in 1 .. Len(more) /\ more[k] = page[d].step
  BY <1>1, <1>2, <1>3, <1>4, <1>5
<1> QED
  BY <1>2, <1>6, <1>7 DEF PageOK

\* A click in flight still belongs to the page that is open.
LEMMA DeskKept ==
  ASSUME TrackingKept, NEW d \in Desk, DeskOK(d), desk'[d] = desk[d],
         Open(d) => Open(d)' /\ page'[d].id = page[d].id
  PROVE  DeskOK(d)'
<1>1. Life!IsRequest(desk[d])'
  BY DEF DeskOK, TrackingKept, Life!IsRequest, Life!Ids
<1> QED
  BY <1>1 DEF DeskOK, Open

\* No click is in flight.
LEMMA DeskIdle ==
  ASSUME NEW d \in Desk, desk'[d] = [at |-> "idle"]
  PROVE  DeskOK(d)'
<1>1. Life!IsRequest(desk[d])'
  BY DEF Life!IsRequest, Life!Idle
<1> QED
  BY <1>1 DEF DeskOK

\* What one desk does keeps every desk and page, when it keeps its own.
LEMMA OneDesk ==
  ASSUME ShopInv, OrdersOK', TrackingKept, NEW d \in Desk,
         desk' = [desk EXCEPT ![d] = desk'[d]], page' = [page EXCEPT ![d] = page'[d]],
         UNCHANGED sweep, requests' \in 0 .. MaxRequests,
         PageOK(d)', DeskOK(d)'
  PROVE  LifeInv'
<1>1. /\ OrdersOK /\ SweepOK
      /\ desk = [c \in Desk |-> desk[c]] /\ page = [c \in Desk |-> page[c]]
      /\ \A c \in Desk : PageOK(c) /\ DeskOK(c)
  BY DEF ShopInv, LifeInv
<1>2. /\ desk' = [c \in Desk |-> desk'[c]] /\ page' = [c \in Desk |-> page'[c]]
      /\ \A c \in Desk \ {d} : desk'[c] = desk[c] /\ page'[c] = page[c]
  BY <1>1
<1>3. \A c \in Desk : PageOK(c)' /\ DeskOK(c)'
  <2> SUFFICES ASSUME NEW c \in Desk, c # d
               PROVE  PageOK(c)' /\ DeskOK(c)'
    OBVIOUS
  <2>1. desk'[c] = desk[c] /\ page'[c] = page[c] /\ PageOK(c) /\ DeskOK(c)
    BY <1>1, <1>2
  <2>2. Open(c) => Open(c)' /\ page'[c].id = page[c].id
    BY <2>1 DEF Open
  <2> QED
    BY <1>1, <2>1, <2>2, PageKept, DeskKept
<1>4. SweepOK'
  BY <1>1 DEF SweepOK, TrackingKept
<1> QED
  BY <1>2, <1>3, <1>4 DEF LifeInv

\* So does what no desk does.
LEMMA NoDesk ==
  ASSUME ShopInv, OrdersOK', TrackingKept, UNCHANGED <<desk, page, requests>>, SweepOK'
  PROVE  LifeInv'
<1>1. /\ OrdersOK
      /\ desk = [c \in Desk |-> desk[c]] /\ page = [c \in Desk |-> page[c]]
      /\ requests \in 0 .. MaxRequests
  BY DEF ShopInv, LifeInv
<1>2. \A c \in Desk : PageOK(c)' /\ DeskOK(c)'
  <2> SUFFICES ASSUME NEW c \in Desk
               PROVE  PageOK(c)' /\ DeskOK(c)'
    OBVIOUS
  <2>1. desk'[c] = desk[c] /\ page'[c] = page[c] /\ PageOK(c) /\ DeskOK(c)
    BY DEF ShopInv, LifeInv
  <2>2. Open(c) => Open(c)' /\ page'[c].id = page[c].id
    BY <2>1 DEF Open
  <2> QED
    BY <1>1, <2>1, <2>2, PageKept, DeskKept
<1> QED
  BY <1>1, <1>2 DEF LifeInv

\* The list of a sweep is of orders that are there.
LEMMA SweepKept ==
  ASSUME ShopInv, TrackingKept, UNCHANGED sweep
  PROVE  SweepOK'
BY DEF ShopInv, LifeInv, SweepOK, TrackingKept

\* A page opens on the last line of the tracking.
LEMMA OpenPageLife ==
  ASSUME ShopInv, OrdersOK', TrackingKept, NEW d \in Desk, NEW id \in DOMAIN orders, OpenPage(d, id)
  PROVE  LifeInv'
<1> DEFINE p == [id |-> id, step |-> orders[id].status, cancellable |-> orders[id].status \in Workshop,
                 drawn |-> FALSE, timeline |-> 0]
           steps == orders[id].tracking
<1>1. /\ desk = [c \in Desk |-> desk[c]] /\ page = [c \in Desk |-> page[c]] /\ OrdersOK
      /\ requests \in 0 .. MaxRequests
  BY DEF ShopInv, LifeInv
<1>2. UNCHANGED <<orders, desk, sweep, requests>> /\ desk[d] = Idle /\ page' = [page EXCEPT ![d] = p]
  BY DEF OpenPage, Show, vars
<1>3. page'[d] = p
  BY <1>1, <1>2
<1>4. Len(steps) \in Nat \ {0} /\ orders[id].status \in Statuses /\ steps[Len(steps)] = orders[id].status
  BY <1>1, OrderTracking DEF OrdersOK
<1>5. p \in [id : DOMAIN orders, step : Statuses, cancellable : BOOLEAN, drawn : BOOLEAN, timeline : Nat]
  BY <1>4
<1>6. p.id = id /\ p.step = orders[id].status /\ p.drawn = FALSE /\ p.timeline = 0
  OBVIOUS
<1> HIDE DEF p
<1>7. PageOK(d)'
  BY <1>2, <1>3, <1>4, <1>5, <1>6 DEF PageOK
<1>8. DeskOK(d)'
  BY <1>2, DeskIdle DEF Idle
<1> QED
  BY <1>1, <1>2, <1>3, <1>7, <1>8, OneDesk

\* The timeline drawn is the whole tracking, so it holds the step.
LEMMA DrawLife ==
  ASSUME ShopInv, OrdersOK', TrackingKept, NEW d \in Desk, DrawTimeline(d)
  PROVE  LifeInv'
<1> DEFINE p == [page[d] EXCEPT !.drawn = TRUE, !.timeline = Len(orders[page[d].id].tracking)]
           steps == orders[page[d].id].tracking
<1>1. /\ desk = [c \in Desk |-> desk[c]] /\ page = [c \in Desk |-> page[c]] /\ OrdersOK
      /\ requests \in 0 .. MaxRequests /\ PageOK(d) /\ DeskOK(d)
  BY DEF ShopInv, LifeInv
<1>2. UNCHANGED <<orders, desk, sweep, requests>> /\ Open(d) /\ page' = [page EXCEPT ![d] = p]
  BY DEF DrawTimeline, Show, vars
<1>3. page'[d] = p
  BY <1>1, <1>2
<1>4. /\ page[d] \in [id : DOMAIN orders, step : Statuses, cancellable : BOOLEAN,
                      drawn : BOOLEAN, timeline : Nat]
      /\ \E k \in 1 .. Len(steps) : steps[k] = page[d].step
  BY <1>1, <1>2 DEF PageOK
<1>5. Len(steps) \in Nat
  BY <1>1, <1>4, OrderTracking DEF OrdersOK
<1>6. /\ p \in [id : DOMAIN orders, step : Statuses, cancellable : BOOLEAN, drawn : BOOLEAN, timeline : Nat]
      /\ p.id = page[d].id /\ p.step = page[d].step /\ p.drawn = TRUE /\ p.timeline = Len(steps)
  BY <1>4, <1>5
<1> HIDE DEF p
<1>7. PageOK(d)'
  BY <1>2, <1>3, <1>4, <1>5, <1>6 DEF PageOK
<1>8. p # Closed
  BY <1>6 DEF Closed
<1>9. DeskOK(d)'
  <2>1. Open(d)' /\ page'[d].id = page[d].id
    BY <1>3, <1>6, <1>8 DEF Open
  <2> QED
    BY <1>1, <1>2, <2>1, DeskKept
<1> QED
  BY <1>1, <1>2, <1>3, <1>7, <1>9, OneDesk

\* A page that is told a status that is on record: its own answer, or what it read.
LEMMA AnsweredPage ==
  ASSUME ShopInv, OrdersOK', TrackingKept, NEW d \in Desk, Open(d),
         NEW status \in Statuses, page' = [page EXCEPT ![d] = Answered(page[d], status)],
         NEW k \in 1 .. Len(orders'[page[d].id].tracking),
         orders'[page[d].id].tracking[k] = status
  PROVE  PageOK(d)' /\ page' = [page EXCEPT ![d] = page'[d]]
<1> DEFINE p == Answered(page[d], status)
           id == page[d].id
<1>1. page = [c \in Desk |-> page[c]] /\ PageOK(d) /\ OrdersOK
  BY DEF ShopInv, LifeInv
<1>2. page'[d] = p
  BY <1>1
<1>3. /\ page[d] \in [id : DOMAIN orders, step : Statuses, cancellable : BOOLEAN,
                      drawn : BOOLEAN, timeline : Nat]
      /\ page[d].timeline <= Len(orders[id].tracking)
  BY <1>1 DEF PageOK
<1>4. id \in DOMAIN orders /\ id \in DOMAIN orders' /\ page[d].timeline \in Nat
  BY <1>3 DEF TrackingKept
<1>5. /\ Len(orders[id].tracking) \in Nat /\ Len(orders'[id].tracking) \in Nat
      /\ Len(orders[id].tracking) <= Len(orders'[id].tracking)
  BY <1>1, <1>4, OrderTracking DEF OrdersOK, TrackingKept
<1>6. page[d] \in [id : DOMAIN orders', step : Statuses, cancellable : BOOLEAN,
                   drawn : BOOLEAN, timeline : Nat]
  BY <1>3, <1>4
<1>7. /\ p \in [id : DOMAIN orders', step : Statuses, cancellable : BOOLEAN,
                drawn : BOOLEAN, timeline : Nat]
      /\ p.id = id /\ p.step = status /\ p.drawn = FALSE /\ p.timeline = page[d].timeline
  BY <1>6 DEF Answered
<1> HIDE DEF p
<1>8. page'[d].timeline <= Len(orders'[id].tracking)
  BY <1>2, <1>3, <1>4, <1>5, <1>7
<1>9. PageOK(d)'
  BY <1>2, <1>7, <1>8 DEF PageOK
<1> QED
  BY <1>2, <1>9 DEF p

\* A click is sent from an open page, or answered with the status it read.
LEMMA ClickAdvanceLife ==
  ASSUME ShopInv, OrdersOK', TrackingKept, NEW d \in Desk, ClickAdvance(d)
  PROVE  LifeInv'
<1> DEFINE id == page[d].id
<1>1. /\ desk = [c \in Desk |-> desk[c]] /\ page = [c \in Desk |-> page[c]] /\ OrdersOK
      /\ requests \in 0 .. MaxRequests /\ PageOK(d) /\ Open(d)
  BY DEF ShopInv, LifeInv, ClickAdvance, MayAdvance
<1>2. id \in DOMAIN orders
  BY <1>1 DEF PageOK
<1>3. orders[id].status \in Statuses
  BY <1>1, <1>2, OrderTracking DEF OrdersOK
<1>4. CASE Life!AskAdvance(d, id) /\ UNCHANGED page
  <2> DEFINE r == [at |-> "advancing", id |-> id, seen |-> orders[id].status]
  <2>1. /\ desk' = [desk EXCEPT ![d] = r] /\ orders[id].status \in DOMAIN Ladder
        /\ UNCHANGED <<orders, sweep>> /\ requests' \in 0 .. MaxRequests
    BY <1>1, <1>4, LifeWords, ShopAssumption DEF Life!AskAdvance, Life!Receive, HasNextStep
  <2>2. desk'[d] = r
    BY <1>1, <2>1
  <2>3. Life!IsRequest(desk[d])'
    <3>1. r \in [at : {"advancing"}, id : DOMAIN orders, seen : DOMAIN Ladder]
      BY <1>2, <2>1
    <3>2. DOMAIN Ladder = DOMAIN Life!Ladder
      BY LifeWords
    <3> HIDE DEF r
    <3> QED
      BY <2>1, <2>2, <3>1, <3>2 DEF Life!IsRequest, Life!Ids
  <2>4. DeskOK(d)'
    BY <1>1, <1>4, <2>2, <2>3 DEF DeskOK, Open
  <2>5. PageOK(d)' /\ page' = [page EXCEPT ![d] = page'[d]]
    BY <1>1, <1>4, PageKept
  <2> QED
    BY <2>1, <2>2, <2>4, <2>5, OneDesk
<1>5. CASE Life!Receive(d, Idle) /\ Show(d, Answered(page[d], orders[id].status))
  <2>1. /\ desk' = [desk EXCEPT ![d] = Idle] /\ UNCHANGED <<orders, sweep>>
        /\ requests' \in 0 .. MaxRequests
        /\ page' = [page EXCEPT ![d] = Answered(page[d], orders[id].status)]
    BY <1>1, <1>5, ShopAssumption DEF Life!Receive, Show
  <2>2. desk'[d] = Idle
    BY <1>1, <2>1
  <2>3. DeskOK(d)'
    BY <2>2, DeskIdle DEF Idle
  <2>4. /\ Len(orders[id].tracking) \in Nat \ {0}
        /\ orders[id].tracking[Len(orders[id].tracking)] = orders[id].status
    BY <1>1, <1>2, OrderTracking DEF OrdersOK
  <2>5. PICK k \in 1 .. Len(orders'[id].tracking) : orders'[id].tracking[k] = orders[id].status
    BY <2>1, <2>4
  <2>6. PageOK(d)' /\ page' = [page EXCEPT ![d] = page'[d]]
    BY <1>1, <1>3, <2>1, <2>5, AnsweredPage
  <2> QED
    BY <2>1, <2>2, <2>3, <2>6, OneDesk
<1> QED
  BY <1>4, <1>5 DEF ClickAdvance

\* The answer is the status just written, the last line of the tracking.
LEMMA AdvanceLife ==
  ASSUME ShopInv, OrdersOK', TrackingKept, NEW d \in Desk, Advance(d)
  PROVE  LifeInv'
<1> DEFINE id == page[d].id
           status == NextStep(desk[d].seen)
<1>1. /\ desk = [c \in Desk |-> desk[c]] /\ page = [c \in Desk |-> page[c]] /\ OrdersOK /\ TypeOK
      /\ requests \in 0 .. MaxRequests /\ PageOK(d) /\ DeskOK(d) /\ desk[d].at = "advancing"
  BY DEF ShopInv, LifeInv, Advance, Life!Advance
<1>2. /\ desk[d].seen \in DOMAIN Ladder /\ Open(d) /\ id = desk[d].id /\ id \in DOMAIN orders
      /\ Life!IsRequest(desk[d])
  BY <1>1, DeskFields DEF DeskOK
<1>3. status \in Statuses
  BY <1>2, NextStepType
<1>4. /\ Life!Record(id, status) /\ desk' = [desk EXCEPT ![d] = Idle] /\ UNCHANGED <<sweep, requests>>
      /\ page' = [page EXCEPT ![d] = Answered(page[d], status)]
  BY <1>2, LifeWords DEF Advance, Life!Advance, Show
<1>5. orders'[id].tracking = Append(orders[id].tracking, status)
  BY <1>1, <1>2, <1>3, <1>4, OrdersNoted
<1>6. orders[id].tracking \in Seq(Statuses)
  BY <1>1, <1>2, OrderTracking DEF OrdersOK
<1> HIDE DEF status
<1>7. PICK k \in 1 .. Len(orders'[id].tracking) : orders'[id].tracking[k] = status
  <2>1. /\ Len(orders[id].tracking) \in Nat
        /\ Len(orders'[id].tracking) = Len(orders[id].tracking) + 1
        /\ orders'[id].tracking[Len(orders[id].tracking) + 1] = status
    BY <1>3, <1>5, <1>6, AppendProperties, LenProperties
  <2>2. Len(orders[id].tracking) + 1 \in 1 .. Len(orders'[id].tracking)
    BY <2>1
  <2> QED
    BY <2>1, <2>2, Zenon
<1>8. PageOK(d)' /\ page' = [page EXCEPT ![d] = page'[d]]
  BY <1>2, <1>3, <1>4, <1>7, AnsweredPage
<1>9. desk'[d] = Idle
  BY <1>1, <1>4
<1>10. DeskOK(d)'
  BY <1>9, DeskIdle DEF Idle
<1> QED
  BY <1>1, <1>4, <1>8, <1>9, <1>10, OneDesk

\* The form leaves the page.
LEMMA ClickCancelLife ==
  ASSUME ShopInv, OrdersOK', TrackingKept, NEW d \in Desk, ClickCancel(d)
  PROVE  LifeInv'
<1> DEFINE id == page[d].id
<1>1. /\ desk = [c \in Desk |-> desk[c]] /\ page = [c \in Desk |-> page[c]] /\ OrdersOK
      /\ requests \in 0 .. MaxRequests /\ PageOK(d) /\ Open(d)
      /\ page' = [page EXCEPT ![d] = Closed]
  BY DEF ShopInv, LifeInv, ClickCancel, MayCancel, Show
<1>2. id \in DOMAIN orders
  BY <1>1 DEF PageOK
<1>3. page'[d] = Closed
  BY <1>1
<1>4. PageOK(d)'
  BY <1>3 DEF PageOK, Open
<1>5. PICK r \in {Idle, [at |-> "cancelling", id |-> id]} : Life!Receive(d, r)
  BY DEF ClickCancel, Life!AskCancel
<1>6. /\ desk' = [desk EXCEPT ![d] = r] /\ UNCHANGED <<orders, sweep>>
      /\ requests' \in 0 .. MaxRequests
  BY <1>1, <1>5, ShopAssumption DEF Life!Receive
<1>7. desk'[d] = r
  BY <1>1, <1>6
<1>8. DeskOK(d)'
  <2>1. CASE r = Idle
    BY <1>7, <2>1, DeskIdle DEF Idle
  <2>2. CASE r = [at |-> "cancelling", id |-> id]
    <3>1. r \in [at : {"cancelling"}, id : DOMAIN orders] /\ r.at = "cancelling"
      BY <1>2, <2>2
    <3>2. Life!IsRequest(desk[d])'
      BY <1>6, <1>7, <3>1 DEF Life!IsRequest, Life!Ids
    <3> QED
      BY <1>7, <3>1, <3>2 DEF DeskOK
  <2> QED
    BY <2>1, <2>2
<1> QED
  BY <1>1, <1>3, <1>4, <1>6, <1>7, <1>8, OneDesk

\* A cancellation is done when no page is waiting for it.
LEMMA CancelLife ==
  ASSUME ShopInv, OrdersOK', TrackingKept, NEW d \in Desk, Cancel(d)
  PROVE  LifeInv'
<1>1. /\ desk = [c \in Desk |-> desk[c]] /\ page = [c \in Desk |-> page[c]] /\ OrdersOK
      /\ requests \in 0 .. MaxRequests /\ PageOK(d)
  BY DEF ShopInv, LifeInv
<1>2. desk' = [desk EXCEPT ![d] = Idle] /\ UNCHANGED <<sweep, requests, page>>
  BY LifeWords DEF Cancel, Life!Cancel
<1>3. desk'[d] = Idle
  BY <1>1, <1>2
<1>4. DeskOK(d)'
  BY <1>3, DeskIdle DEF Idle
<1>5. PageOK(d)' /\ page' = [page EXCEPT ![d] = page'[d]]
  BY <1>1, <1>2, PageKept
<1> QED
  BY <1>1, <1>2, <1>3, <1>4, <1>5, OneDesk

\* The sweep touches no desk and no page.
LEMMA SweepLife ==
  ASSUME ShopInv, OrdersOK', TrackingKept, Sweep \/ SweepFails
  PROVE  LifeInv'
<1>1. /\ SweepOK /\ \A k \in DOMAIN orders : k \in DOMAIN orders'
  BY DEF ShopInv, LifeInv, TrackingKept
<1>2. ASSUME Life!SweepStart
      PROVE  SweepOK' /\ UNCHANGED <<desk, requests>>
  BY <1>1, <1>2, LifeWords DEF Life!SweepStart, Life!Waiting, HasNextStep, SweepOK
<1>3. ASSUME NEW id, Life!SweepOne(id)
      PROVE  SweepOK' /\ UNCHANGED <<desk, requests>>
  <2>1. sweep' = [k \in DOMAIN sweep \ {id} |-> sweep[k]]
    BY <1>3 DEF Life!SweepOne, Life!Restrict
  <2> QED
    BY <1>1, <1>3, <2>1 DEF SweepOK, Life!SweepOne
<1>4. ASSUME Life!SweepFails
      PROVE  SweepOK' /\ UNCHANGED <<desk, requests>>
  <2>1. DOMAIN sweep' = {} /\ sweep' = [k \in {} |-> "paid"]
    BY <1>4, LifeWords DEF Life!SweepFails
  <2> QED
    BY <1>4, <2>1 DEF SweepOK, Life!SweepFails
<1> QED
  BY <1>2, <1>3, <1>4, NoDesk DEF Sweep, SweepFails, Life!Sweep

\* Every step keeps the desks, the pages and the sweep.
LEMMA LifeStep ==
  ASSUME ShopInv, OrdersOK', TrackingKept, [ShopNext]_shopVars
  PROVE  LifeInv'
<1>1. ASSUME UNCHANGED life
      PROVE  LifeInv'
  <2>1. UNCHANGED <<desk, sweep, requests, page>>
    BY <1>1 DEF life
  <2>2. SweepOK'
    BY <2>1, SweepKept
  <2> QED
    BY <2>1, <2>2, NoDesk
<1>2. Checkout \/ BackOffice \/ UNCHANGED shopVars => UNCHANGED life
  BY DEF Checkout, BackOffice, EditRow, EditPrice, CreateProduct, shopVars
<1>3. OrderPage => LifeInv'
  BY OpenPageLife, DrawLife, ClickAdvanceLife, AdvanceLife, ClickCancelLife, CancelLife DEF OrderPage
<1> QED
  BY <1>1, <1>2, <1>3, SweepLife DEF ShopNext

----------------------------------------------------------------------------
(* The tables of the checkout, under every step of the shop.               *)

\* The steps that no visitor takes and that no price changes.
LEMMA TypeOthers ==
  ASSUME TypeOK, UNCHANGED <<visits, edits>>, price' \in [Sku -> Nat],
         faults' \in 0 .. MaxFaults,
         IsShelf(shelf'), total' = [s \in Sku |-> total'[s]], orders' \in Seq(Range(orders')),
         \A k \in DOMAIN orders' : IsLines(orders'[k].lines)
  PROVE  TypeOK'
<1>1. VisitTypeOK /\ Requests /\ OwnTypeOK
  BY TypeParts
<1>2. VisitTypeOK' /\ Requests' /\ OwnTypeOK'
  BY <1>1 DEF VisitTypeOK, Requests, OwnTypeOK, visits, IsRequest, CartId
<1> QED
  BY <1>2, TypeParts, PTL

\* The back office keeps the tables well-typed, new products included.
LEMMA TypeBackOffice ==
  ASSUME ShopInv, BackOffice
  PROVE  TypeOK'
<1>1. TypeOK
  BY DEF ShopInv
<1>2. ASSUME NEW i \in Item, EditRow(i)
      PROVE  TypeOK'
  BY <1>1, <1>2, TypeOffice DEF EditRow, Office
<1>3. ASSUME NEW s \in Sku, EditPrice(s)
      PROVE  TypeOK'
  BY <1>1, <1>3, TypeOffice DEF EditPrice, Office
<1>4. ASSUME NEW s \in Sku, NEW n \in Counts, NEW p \in PriceTags, CreateProduct(s, n, p)
      PROVE  TypeOK'
  <2>1. VisitTypeOK /\ Requests /\ OwnTypeOK /\ AtLeastZero(p) \in Nat
    BY <1>1, TypeParts, CheckoutAssumption DEF AtLeastZero
  <2>2. IsShelf(shelf')
    BY <1>4, CreateRecounts DEF Recounted
  <2>3. price' \in [Sku -> Nat] /\ total' = [r \in Sku |-> total'[r]]
    BY <1>4, <2>1 DEF CreateProduct, VisitTypeOK, OwnTypeOK
  <2>4. edits' \in 0 .. MaxEdits
    BY <1>4, <2>1, CheckoutAssumption DEF CreateProduct, OwnTypeOK
  <2>5. UNCHANGED <<visits, orders, faults>>
    BY <1>4 DEF CreateProduct
  <2>6. VisitTypeOK' /\ Requests' /\ OwnTypeOK'
    BY <2>1, <2>2, <2>3, <2>4, <2>5 DEF VisitTypeOK, Requests, OwnTypeOK, visits, IsRequest, CartId
  <2> QED
    BY <2>6, TypeParts, PTL
<1> QED
  BY <1>2, <1>3, <1>4 DEF BackOffice

\* So do the order pages and the sweep.
LEMMA TypeOrders ==
  ASSUME ShopInv, OrderPage \/ Sweep \/ SweepFails
  PROVE  TypeOK'
<1>1. /\ TypeOK /\ OrdersOK /\ IsShelf(shelf) /\ price \in [Sku -> Nat]
      /\ total = [s \in Sku |-> total[s]] /\ orders \in Seq(Range(orders))
      /\ faults \in 0 .. MaxFaults /\ \A k \in DOMAIN orders : IsLines(orders[k].lines)
  BY DEF ShopInv, TypeOK, VisitTypeOK
<1>2. \A d \in Desk : Life!IsRequest(desk[d])
  BY DEF ShopInv, LifeInv, DeskOK
<1>3. ASSUME NEW id \in DOMAIN orders, NEW status \in Statuses, Life!Record(id, status)
      PROVE  orders' \in Seq(Range(orders')) /\ \A k \in DOMAIN orders' : IsLines(orders'[k].lines)
  <2>1. /\ DOMAIN orders' = DOMAIN orders /\ orders' \in Seq(Range(orders'))
        /\ \A k \in DOMAIN orders : IsOrder(orders'[k])
    BY <1>1, <1>3, OrdersNoted
  <2> QED
    BY <2>1 DEF IsOrder
<1>4. ASSUME UNCHANGED <<shelf, total, price, visits, edits, orders>>, faults' \in 0 .. MaxFaults
      PROVE  TypeOK'
  BY <1>1, <1>4, TypeOthers
<1>5. ASSUME NEW d \in Desk, NEW id \in DOMAIN orders, OpenPage(d, id)
      PROVE  TypeOK'
  BY <1>1, <1>4, <1>5 DEF OpenPage, vars, visits
<1>6. ASSUME NEW d \in Desk, DrawTimeline(d) \/ ClickAdvance(d) \/ ClickCancel(d)
      PROVE  TypeOK'
  BY <1>1, <1>4, <1>6 DEF DrawTimeline, ClickAdvance, ClickCancel, Life!AskAdvance, Life!AskCancel,
     Life!Receive, vars, visits
<1>7. ASSUME NEW id \in DOMAIN orders, NEW status \in DOMAIN Ladder,
             Life!Record(id, NextStep(status)), UNCHANGED <<shelf, total, price, visits, edits, faults>>
      PROVE  TypeOK'
  <2>1. NextStep(status) \in Statuses
    BY NextStepType
  <2> QED
    BY <1>1, <1>3, <1>7, <2>1, TypeOthers
<1>8. ASSUME NEW d \in Desk, Advance(d)
      PROVE  TypeOK'
  <2>1. desk[d].id \in DOMAIN orders /\ desk[d].seen \in DOMAIN Ladder
    BY <1>2, <1>8, DeskFields DEF Advance, Life!Advance
  <2> QED
    BY <1>7, <1>8, <2>1, LifeWords DEF Advance, Life!Advance
<1>9. ASSUME NEW d \in Desk, Cancel(d)
      PROVE  TypeOK'
  <2> DEFINE lines == orders[desk[d].id].lines
  <2>1. /\ desk[d].id \in DOMAIN orders /\ IsLines(lines)
        /\ Life!Record(desk[d].id, "cancelled") /\ "cancelled" \in Statuses
        /\ shelf' = GiveBackAll(shelf, lines) /\ total' = GiveBackTotals(total, lines)
        /\ UNCHANGED <<price, visits, edits, faults>>
    BY <1>9, CancelWrites DEF Statuses
  <2>2. IsShelf(shelf') /\ total' = [s \in Sku |-> total'[s]]
    BY <1>1, <2>1, GiveBackAllType DEF GiveBackTotals
  <2> QED
    BY <1>1, <1>3, <2>1, <2>2, TypeOthers
<1>10. CASE Sweep
  <2>1. ASSUME Life!SweepStart
        PROVE  TypeOK'
    BY <1>1, <1>4, <1>10, <2>1 DEF Sweep, Life!SweepStart
  <2>2. ASSUME NEW id \in DOMAIN orders, Life!SweepOne(id)
        PROVE  TypeOK'
    <3>1. sweep[id] \in DOMAIN Ladder
      BY <2>2 DEF Life!SweepOne, ShopInv, LifeInv, SweepOK
    <3> QED
      BY <1>7, <1>10, <2>2, <3>1, LifeWords DEF Sweep, Life!SweepOne
  <2> QED
    BY <1>10, <2>1, <2>2, LifeWords DEF Sweep, Life!Sweep
<1>11. CASE SweepFails
  <2>1. faults' \in 0 .. MaxFaults
    BY <1>1, <1>11, CheckoutAssumption DEF SweepFails, Life!SweepFails
  <2> QED
    BY <1>4, <1>11, <2>1 DEF SweepFails, Life!SweepFails
<1> QED
  BY <1>5, <1>6, <1>8, <1>9, <1>10, <1>11 DEF OrderPage

\* So does every step of the shop.
LEMMA TypeShop ==
  ASSUME ShopInv, [ShopNext]_shopVars
  PROVE  TypeOK'
<1>1. TypeOK
  BY DEF ShopInv
<1>2. Checkout => TypeOK'
  BY <1>1, TypeChange, TypePlace, TypeVisit DEF Checkout, Progress
<1>3. UNCHANGED shopVars => TypeOK'
  BY <1>1, TypeStep DEF shopVars
<1> QED
  BY <1>2, <1>3, TypeBackOffice, TypeOrders DEF ShopNext

----------------------------------------------------------------------------
(* The invariant holds.                                                    *)

\* The invariant is inductive.
LEMMA ShopStep == ShopInv /\ [ShopNext]_shopVars => ShopInv'
<1> SUFFICES ASSUME ShopInv, [ShopNext]_shopVars
             PROVE  ShopInv'
  OBVIOUS
<1>1. Kind
  BY Kinds
<1>2. OrdersOK' /\ TrackingKept
  BY <1>1, OrdersStep
<1>3. TypeOK' /\ CatalogInv' /\ BooksInv' /\ LifeInv'
  BY <1>1, <1>2, TypeShop, CatalogStep, BooksStep, LifeStep
<1> QED
  BY <1>2, <1>3 DEF ShopInv

\* It holds before any request.
LEMMA ShopInitInv == ShopInit => ShopInv
<1> SUFFICES ASSUME ShopInit PROVE ShopInv
  OBVIOUS
<1>1. Init /\ TypeOK /\ shelf = InitialShelf /\ IsShelf(shelf)
  BY TypeInit, CheckoutAssumption DEF ShopInit, Init
<1>2. DOMAIN orders = {}
  BY <1>1, EmptySeq, LenProperties DEF Init
<1>3. OrdersOK
  BY <1>2 DEF OrdersOK
<1>4. CatalogInv
  BY <1>1, ShopAssumption DEF ShopInit, CatalogInv
<1>5. LifeInv
  <2>1. /\ desk = [d \in Desk |-> Idle] /\ page = [d \in Desk |-> Closed] /\ requests = 0
        /\ sweep = [k \in {} |-> "paid"]
    BY LifeWords DEF ShopInit
  <2>2. SweepOK
    BY <2>1 DEF SweepOK
  <2>3. \A d \in Desk : PageOK(d) /\ DeskOK(d)
    BY <2>1 DEF PageOK, DeskOK, Open, Life!IsRequest, Life!Idle, Idle
  <2> QED
    BY <2>1, <2>2, <2>3, ShopAssumption DEF LifeInv
<1>6. \A i : Nets(orders, i) = 0
  <2> SUFFICES ASSUME NEW i
               PROVE  Nets(orders, i) = 0
    OBVIOUS
  <2>1. Holding(orders, i) = {}
    BY <1>2 DEF Holding
  <2> QED
    BY <2>1, SumEmpty DEF Nets, SumFunction
<1>7. BooksInv
  <2>1. /\ count = [i \in Item |-> Stock(shelf, i)] /\ astray = [s \in Sku |-> 0]
        /\ total = [s \in Sku |-> ShelfSum(shelf, s)]
    BY <1>1 DEF ShopInit, Init
  <2>2. \A i \in Item : Stock(shelf, i) \in Nat
    BY <1>1, StockType
  <2>3. ShelfBalances
    <3> SUFFICES ASSUME NEW i \in DOMAIN shelf
                 PROVE  shelf[i] = count[i] + Moved(i)
      BY DEF ShelfBalances
    <3>1. i \in Item /\ shelf[i] = Stock(shelf, i)
      BY <1>1 DEF IsShelf, IsTable, Stock
    <3>2. Moved(i) = 0
      BY <1>6, MovedIs
    <3> QED
      BY <2>1, <2>2, <3>1, <3>2
  <2>4. TotalExplained
    <3>1. \A s \in Sku : ShelfSum(shelf, s) \in Nat
      BY <1>1, SumsType
    <3> QED
      BY <2>1, <3>1 DEF TotalExplained
  <2>5. count \in [Item -> Int] /\ astray \in [Sku -> Nat]
    BY <2>1, <2>2
  <2> QED
    BY <2>3, <2>4, <2>5 DEF BooksInv
<1> QED
  BY <1>1, <1>3, <1>4, <1>5, <1>7 DEF ShopInv

\* So it holds of every behaviour.
LEMMA ShopHolds == ShopSpec => []ShopInv
BY ShopInitInv, ShopStep, PTL DEF ShopSpec

\* Every table, request, page and history of the whole shop keeps its shape:
\* no interleaving of sales, stale cancellations, removals and counts takes a
\* size or a product below zero, or leaves a row of a product that is not there.
THEOREM ShopTypeCorrect == ShopSpec => []ShopTypeOK
<1>1. ShopInv => ShopTypeOK
  <2> SUFFICES ASSUME ShopInv PROVE ShopTypeOK
    OBVIOUS
  <2>1. /\ IsShelf(shelf) /\ CatalogInv /\ LifeInv /\ SweepOK
        /\ count \in [Item -> Int] /\ astray \in [Sku -> Nat] /\ TotalExplained
    BY DEF ShopInv, LifeInv, BooksInv, TypeOK, VisitTypeOK
  <2>2. \A s \in Sku : total[s] >= 0
    <3>1. \A s \in Sku : ShelfSum(shelf, s) \in Nat
      BY <2>1, SumsType
    <3> QED
      BY <2>1, <3>1 DEF TotalExplained
  <2>3. \A d \in Desk : /\ Life!IsRequest(desk[d])
                        /\ Open(d) => page[d] \in [id : DOMAIN orders, step : Statuses,
                              cancellable : BOOLEAN, drawn : BOOLEAN, timeline : Nat]
    BY <2>1 DEF LifeInv, PageOK, DeskOK
  <2> QED
    BY <2>1, <2>2, <2>3 DEF ShopTypeOK, CatalogInv, LifeInv, SweepOK
<1> QED
  BY <1>1, ShopHolds, PTL

\* products.stock is always the sum of the sizes plus what was given back to
\* sizes removed since the last resum, for any shop, any number of orders,
\* pages, visitors and edits.
THEOREM TotalAlwaysExplained == ShopSpec => []TotalExplained
<1>1. ShopInv => TotalExplained
  BY DEF ShopInv, BooksInv
<1> QED
  BY <1>1, ShopHolds, PTL

\* The shelf can always be audited from its last counts and the orders.
THEOREM ShelfAlwaysBalances == ShopSpec => []ShelfBalances
<1>1. ShopInv => ShelfBalances
  BY DEF ShopInv, BooksInv
<1> QED
  BY <1>1, ShopHolds, PTL

\* An order page never shows a step its timeline does not hold, however many
\* pages, customers and sweeps write between its two readings.
THEOREM PageAlwaysAgrees == ShopSpec => []PageAgrees
<1>1. ShopInv => PageAgrees
  <2> SUFFICES ASSUME ShopInv, NEW d \in Desk, Open(d), page[d].drawn
               PROVE  \E k \in 1 .. page[d].timeline :
                        orders[page[d].id].tracking[k] = page[d].step
    BY DEF PageAgrees
  <2>1. PageOK(d) /\ page[d].timeline \in Nat
    BY DEF ShopInv, LifeInv, PageOK
  <2>2. PICK k \in 1 .. Len(orders[page[d].id].tracking) :
          orders[page[d].id].tracking[k] = page[d].step /\ k <= page[d].timeline
    BY <2>1 DEF PageOK
  <2>3. k \in 1 .. page[d].timeline
    BY <2>1, <2>2
  <2> QED
    BY <2>2, <2>3
<1> QED
  BY <1>1, ShopHolds, PTL
----------------------------------------------------------------------------
(* The whole shop sells, and takes back.                                   *)

\* Only the checkout reads carts.
LEMMA ShopPlaces == TypeOK /\ PlacesSomething /\ [ShopNext]_shopVars => PlacesSomething'
<1> SUFFICES ASSUME TypeOK, PlacesSomething, [ShopNext]_shopVars
             PROVE  PlacesSomething'
  OBVIOUS
<1>1. CASE Checkout
  BY <1>1, PlacesStep DEF Checkout, Next
<1>2. ASSUME UNCHANGED req
      PROVE  PlacesSomething'
  BY <1>2 DEF PlacesSomething
<1>3. BackOffice => UNCHANGED req
  BY DEF BackOffice, EditRow, SetStock, AddVariant, RemoveVariant, Restock, EditPrice, SetPrice,
         CreateProduct, visits
<1>4. OrderPage \/ Sweep \/ SweepFails => UNCHANGED req
  BY DEF OrderPage, OpenPage, DrawTimeline, ClickAdvance, Advance, ClickCancel, Cancel, Sweep,
         SweepFails, visits, vars
<1>5. UNCHANGED shopVars => UNCHANGED req
  BY DEF shopVars, vars
<1> QED
  BY <1>1, <1>2, <1>3, <1>4, <1>5 DEF ShopNext

\* A new product is an edit of the one item it comes in.
LEMMA SaleCreate ==
  ASSUME ShopInv, NEW s \in Sku, NEW n \in Counts, NEW p \in PriceTags, CreateProduct(s, n, p)
  PROVE  Abstract!Next
<1> DEFINE i == OneSize[s]
           m == AtLeastZero(n)
           units == [j \in Item |-> Stock(shelf, j)]
<1>1. i \in Item /\ m \in Nat /\ IsShelf(shelf)
  BY ShopAssumption, CheckoutAssumption DEF AtLeastZero, ShopInv, TypeOK, VisitTypeOK
<1>2. shelf' = UpsertVariant(shelf, i, m) /\ UNCHANGED orders /\ edits' = edits + 1
  BY DEF CreateProduct, FirstRow
<1> HIDE DEF i, m
<1>3. /\ DOMAIN shelf' = DOMAIN shelf \cup {i}
      /\ \A j \in Item \ {i} : Stock(shelf', j) = Stock(shelf, j)
  BY <1>2 DEF Stock, UpsertVariant
<1>4. IsShelf(shelf')
  BY <1>1, <1>2, EditType
<1>5. units'[i] \in Nat /\ units' = [units EXCEPT ![i] = units'[i]]
  BY <1>1, <1>3, <1>4, StockType
<1>6. Abstract!Edit(i)
  BY <1>2, <1>3, <1>5 DEF Abstract!Edit, Quantity
<1> QED
  BY <1>1, <1>6 DEF Abstract!Next

\* A cancellation gives back what its order holds of the sizes still there.
LEMMA SaleCancel ==
  ASSUME ShopInv, NEW d \in Desk, Cancel(d)
  PROVE  Abstract!NextWithReturns
<1> DEFINE id == desk[d].id
           lines == orders[id].lines
           sold == [k \in DOMAIN orders |-> Quantity(orders[k].lines)]
           units == [i \in Item |-> Stock(shelf, i)]
<1>1. /\ id \in DOMAIN orders /\ IsLines(lines) /\ Life!Record(id, "cancelled")
      /\ shelf' = GiveBackAll(shelf, lines) /\ edits' = edits
  BY CancelWrites
<1>2. DOMAIN orders' = DOMAIN orders /\ \A k \in DOMAIN orders : orders'[k].lines = orders[k].lines
  BY <1>1, OrdersNoted DEF ShopInv, Statuses
<1>3. sold' = sold /\ id \in DOMAIN sold /\ sold[id] = Quantity(lines)
  BY <1>1, <1>2
<1>4. /\ DOMAIN Quantity(lines) = DOMAIN lines
      /\ \A i \in DOMAIN lines : Quantity(lines)[i] = lines[i].quantity
  BY DEF Quantity
<1>5. DOMAIN shelf' = DOMAIN shelf
  BY <1>1 DEF GiveBackAll
<1>6. ASSUME NEW i \in Item
      PROVE  Stock(shelf', i) = IF i \in DOMAIN shelf \cap DOMAIN Quantity(lines)
                                THEN Stock(shelf, i) + Quantity(lines)[i] ELSE Stock(shelf, i)
  BY <1>1, <1>4, <1>5 DEF GiveBackAll, Stock
<1> HIDE DEF lines
<1>7. Abstract!GiveBack(id)
  BY <1>1, <1>3, <1>5, <1>6 DEF Abstract!GiveBack
<1> QED
  BY <1>3, <1>7 DEF Abstract!NextWithReturns

\* A status written moves no unit.
LEMMA SaleNoted ==
  ASSUME ShopInv, NEW id \in DOMAIN orders, NEW status \in Statuses, Life!Record(id, status),
         UNCHANGED <<shelf, edits>>
  PROVE  UNCHANGED Abstract!vars
<1>1. DOMAIN orders' = DOMAIN orders /\ \A k \in DOMAIN orders : orders'[k].lines = orders[k].lines
  BY OrdersNoted DEF ShopInv
<1> QED
  BY <1>1 DEF Abstract!vars

\* Every step of the shop is a step of the abstract sale, or none.
LEMMA ShopSaleStep ==
  ASSUME ShopInv, PlacesSomething, [ShopNext]_shopVars
  PROVE  [Abstract!NextWithReturns]_(Abstract!vars)
<1>0. TypeOK /\ Abstract!Next => Abstract!NextWithReturns
  BY DEF Abstract!NextWithReturns
<1>1. ASSUME UNCHANGED <<shelf, orders, edits>>
      PROVE  UNCHANGED Abstract!vars
  BY <1>1 DEF Abstract!vars
<1>2. CASE Checkout
  <2>1. CASE \E t \in Tab : CommitOrder(t)
    BY <1>0, <2>1, SaleCommit DEF ShopInv
  <2>2. CASE ~\E t \in Tab : CommitOrder(t)
    BY <1>1, <1>2, <2>2 DEF Checkout, Change, SetQuantity, Submit, ReadCart, Progress,
         RollBack, VisitStep, StoreLine, ClampOut, ClampDown, ForgetCart
  <2> QED
    BY <2>1, <2>2
<1>3. CASE BackOffice
  <2>1. Office => Abstract!Next
    BY SaleOffice DEF ShopInv
  <2>2. (\E i \in Item : EditRow(i)) \/ (\E s \in Sku : EditPrice(s)) => Office
    BY DEF EditRow, EditPrice, Office
  <2> QED
    BY <1>0, <1>3, <2>1, <2>2, SaleCreate DEF BackOffice, ShopInv
<1>4. CASE OrderPage
  <2>1. ASSUME NEW d \in Desk, NEW id \in DOMAIN orders, OpenPage(d, id)
        PROVE  UNCHANGED Abstract!vars
    BY <1>1, <2>1 DEF OpenPage, vars
  <2>2. ASSUME NEW d \in Desk, DrawTimeline(d) \/ ClickAdvance(d) \/ ClickCancel(d)
        PROVE  UNCHANGED Abstract!vars
    BY <1>1, <2>2 DEF DrawTimeline, ClickAdvance, ClickCancel, Life!AskAdvance, Life!AskCancel,
         Life!Receive, vars
  <2>3. ASSUME NEW d \in Desk, Advance(d)
        PROVE  UNCHANGED Abstract!vars
    <3>1. desk[d].id \in DOMAIN orders /\ desk[d].seen \in DOMAIN Ladder
      BY <2>3, DeskFields DEF Advance, Life!Advance, ShopInv, LifeInv, DeskOK
    <3>2. Life!Record(desk[d].id, NextStep(desk[d].seen)) /\ UNCHANGED <<shelf, edits>>
      BY <2>3, LifeWords DEF Advance, Life!Advance
    <3> QED
      BY <3>1, <3>2, SaleNoted, NextStepType
  <2> QED
    BY <1>4, <2>1, <2>2, <2>3, SaleCancel DEF OrderPage
<1>5. CASE Sweep
  <2>1. CASE Life!SweepStart
    BY <1>1, <1>5, <2>1 DEF Sweep, Life!SweepStart
  <2>2. ASSUME NEW id \in DOMAIN orders, Life!SweepOne(id)
        PROVE  UNCHANGED Abstract!vars
    <3>1. sweep[id] \in DOMAIN Ladder
      BY <2>2 DEF Life!SweepOne, ShopInv, LifeInv, SweepOK
    <3>2. Life!Record(id, NextStep(sweep[id])) /\ UNCHANGED <<shelf, edits>>
      BY <1>5, <2>2, LifeWords DEF Sweep, Life!SweepOne
    <3> QED
      BY <3>1, <3>2, SaleNoted, NextStepType
  <2> QED
    BY <1>5, <2>1, <2>2, LifeWords DEF Sweep, Life!Sweep
<1>6. CASE SweepFails
  BY <1>1, <1>6 DEF SweepFails, Life!SweepFails
<1>7. CASE UNCHANGED shopVars
  BY <1>1, <1>7 DEF shopVars, vars
<1> QED
  BY <1>2, <1>3, <1>4, <1>5, <1>6, <1>7 DEF ShopNext

\* The native shop as a whole, for any shop, visitors, orders, pages and edits,
\* implements the abstract sale that takes orders back: whatever runs between
\* them, an order is sold whole from units on the shelf, and only an edit or a
\* cancellation puts units there.
THEOREM ShopImplementsSale == ShopSpec => SellsAndTakesBack
<1>1. ShopInit => PlacesSomething /\ Abstract!Init
  <2>1. ShopInit => Init
    BY DEF ShopInit
  <2> QED
    BY <2>1, SaleInit DEF Init, VisitInit, Idle, PlacesSomething
<1>2. ShopInv => TypeOK
  BY DEF ShopInv
<1>3. ShopInv /\ PlacesSomething /\ [ShopNext]_shopVars => [Abstract!NextWithReturns]_(Abstract!vars)
  BY ShopSaleStep
<1> QED
  BY <1>1, <1>2, <1>3, ShopPlaces, ShopHolds, PTL
     DEF ShopSpec, SellsAndTakesBack, Abstract!SpecWithReturns

----------------------------------------------------------------------------
(* The orders climb.                                                       *)

Noted(id, status) ==
  \E n \in DOMAIN orders[id].tracking : orders[id].tracking[n] = status

\* The strengthening: what a click or a sweep read, and acts on later, is on
\* record, whatever was written since.
SeenOK(d) ==
  /\ desk[d].at = "advancing" => Noted(desk[d].id, desk[d].seen)
  /\ desk[d].at = "cancelling" => \E s \in Workshop : Noted(desk[d].id, s)

SweepSeen == \A id \in DOMAIN sweep : Noted(id, sweep[id])

SeenInv == (\A d \in Desk : SeenOK(d)) /\ SweepSeen

\* The status of an order is on record.
LEMMA StatusNoted ==
  ASSUME OrdersOK, NEW id \in DOMAIN orders
  PROVE  Noted(id, orders[id].status)
BY OrderTracking DEF OrdersOK, Noted

\* What is on record stays there.
LEMMA NotedKept ==
  ASSUME OrdersOK, OrdersOK', TrackingKept, NEW id \in DOMAIN orders, NEW status, Noted(id, status)
  PROVE  Noted(id, status)'
<1> DEFINE steps == orders[id].tracking
           more == orders'[id].tracking
<1>1. PICK n \in DOMAIN steps : steps[n] = status
  BY DEF Noted
<1>2. id \in DOMAIN orders' /\ Len(steps) <= Len(more) /\ \A k \in 1 .. Len(steps) : more[k] = steps[k]
  BY DEF TrackingKept
<1>3. /\ DOMAIN steps = 1 .. Len(steps) /\ Len(steps) \in Nat
      /\ DOMAIN more = 1 .. Len(more) /\ Len(more) \in Nat
  BY <1>2, OrderTracking DEF OrdersOK
<1>4. n \in DOMAIN more /\ more[n] = status
  BY <1>1, <1>2, <1>3
<1> QED
  BY <1>4 DEF Noted

\* A request that was in flight and still is, or is answered, keeps what it saw.
LEMMA SeenKept ==
  ASSUME ShopInv, OrdersOK', TrackingKept, NEW d \in Desk, SeenOK(d),
         desk'[d] = desk[d] \/ desk'[d] = Idle
  PROVE  SeenOK(d)'
<1>1. CASE desk'[d] = Idle
  BY <1>1 DEF SeenOK, Idle
<1>2. CASE desk'[d] = desk[d]
  <2>1. /\ OrdersOK
        /\ desk[d].at = "advancing" => desk[d].id \in DOMAIN orders
        /\ desk[d].at = "cancelling" => desk[d].id \in DOMAIN orders
    BY DeskFields DEF ShopInv, LifeInv, DeskOK
  <2>2. desk[d].at = "advancing" => Noted(desk[d].id, desk[d].seen)'
    BY <1>2, <2>1, NotedKept DEF SeenOK, Noted
  <2>3. desk[d].at = "cancelling" => \E s \in Workshop : Noted(desk[d].id, s)'
    BY <1>2, <2>1, NotedKept DEF SeenOK, Noted
  <2> QED
    BY <1>2, <2>2, <2>3 DEF SeenOK, Noted
<1> QED
  BY <1>1, <1>2

\* So does the list of a sweep, as it shortens.
LEMMA SweepSeenKept ==
  ASSUME ShopInv, OrdersOK', TrackingKept, SweepSeen,
         \A id \in DOMAIN sweep' : id \in DOMAIN sweep /\ sweep'[id] = sweep[id]
  PROVE  SweepSeen'
<1> SUFFICES ASSUME NEW id \in DOMAIN sweep'
             PROVE  Noted(id, sweep[id])'
  BY DEF SweepSeen, Noted
<1>1. OrdersOK /\ id \in DOMAIN sweep /\ id \in DOMAIN orders /\ sweep'[id] = sweep[id]
  BY DEF ShopInv, LifeInv, SweepOK
<1>2. Noted(id, sweep[id])
  BY <1>1 DEF SweepSeen
<1> QED
  BY <1>1, <1>2, NotedKept DEF Noted

\* A click carries what its order has on record.
LEMMA SeenClick ==
  ASSUME ShopInv, SeenInv, NEW d \in Desk, ClickAdvance(d) \/ ClickCancel(d)
  PROVE  UNCHANGED <<orders, sweep>> /\ \A c \in Desk : SeenOK(c)'
<1> DEFINE id == page[d].id
<1>1. /\ OrdersOK /\ desk = [c \in Desk |-> desk[c]]
      /\ PageOK(d) /\ Open(d)
  BY DEF ShopInv, LifeInv, ClickAdvance, ClickCancel, MayAdvance, MayCancel
<1>2. id \in DOMAIN orders
  BY <1>1 DEF PageOK
<1>3. Noted(id, orders[id].status)
  BY <1>1, <1>2, StatusNoted
<1>4. ASSUME NEW r, Life!Receive(d, r),
             r.at = "advancing" => r.id = id /\ r.seen = orders[id].status,
             r.at = "cancelling" => r.id = id /\ orders[id].status \in Workshop
      PROVE  UNCHANGED <<orders, sweep>> /\ \A c \in Desk : SeenOK(c)'
  <2>1. /\ UNCHANGED <<orders, sweep>> /\ desk'[d] = r
        /\ \A c \in Desk \ {d} : desk'[c] = desk[c]
    BY <1>1, <1>4 DEF Life!Receive
  <2>2. SeenOK(d)'
    BY <1>3, <1>4, <2>1 DEF SeenOK, Noted
  <2>3. \A c \in Desk \ {d} : SeenOK(c)'
    BY <2>1 DEF SeenInv, SeenOK, Noted
  <2> QED
    BY <2>1, <2>2, <2>3
<1>5. CASE Life!Receive(d, Idle)
  BY <1>4, <1>5 DEF Idle
<1>6. CASE Life!AskAdvance(d, id)
  BY <1>4, <1>6 DEF Life!AskAdvance
<1>7. CASE Life!AskCancel(d, id)
  <2>1. Life!Workshop = Workshop
    BY DEF Life!Workshop, Workshop
  <2> QED
    BY <1>4, <1>7, <2>1 DEF Life!AskCancel
<1> QED
  BY <1>5, <1>6, <1>7 DEF ClickAdvance, ClickCancel

\* The strengthening is inductive.
LEMMA SeenStep == ShopInv /\ SeenInv /\ [ShopNext]_shopVars => SeenInv'
<1> SUFFICES ASSUME ShopInv, SeenInv, [ShopNext]_shopVars
             PROVE  SeenInv'
  OBVIOUS
<1>0. OrdersOK' /\ TrackingKept /\ desk = [c \in Desk |-> desk[c]]
  BY Kinds, OrdersStep DEF ShopInv, LifeInv
<1>1. ASSUME \A c \in Desk : desk'[c] = desk[c] \/ desk'[c] = Idle, UNCHANGED sweep
      PROVE  SeenInv'
  BY <1>0, <1>1, SeenKept, SweepSeenKept DEF SeenInv
<1>2. CASE Checkout \/ BackOffice \/ UNCHANGED shopVars
  <2>1. UNCHANGED <<desk, sweep>>
    BY <1>2 DEF Checkout, BackOffice, EditRow, EditPrice, CreateProduct, shopVars, life
  <2> QED
    BY <1>1, <2>1
<1>3. CASE OrderPage
  <2>1. ASSUME NEW d \in Desk, NEW id \in DOMAIN orders, OpenPage(d, id)
        PROVE  SeenInv'
    BY <1>1, <2>1 DEF OpenPage
  <2>2. ASSUME NEW d \in Desk, DrawTimeline(d)
        PROVE  SeenInv'
    BY <1>1, <2>2 DEF DrawTimeline
  <2>3. ASSUME NEW d \in Desk, ClickAdvance(d) \/ ClickCancel(d)
        PROVE  SeenInv'
    <3>1. (\A c \in Desk : SeenOK(c)') /\ UNCHANGED sweep
      BY <2>3, SeenClick
    <3>2. SweepSeen'
      BY <1>0, <3>1, SweepSeenKept DEF SeenInv
    <3> QED
      BY <3>1, <3>2 DEF SeenInv
  <2>4. ASSUME NEW d \in Desk, Advance(d) \/ Cancel(d)
        PROVE  SeenInv'
    <3>1. desk' = [desk EXCEPT ![d] = Idle] /\ UNCHANGED sweep
      BY <2>4, LifeWords DEF Advance, Cancel, Life!Advance, Life!Cancel
    <3> QED
      BY <1>0, <1>1, <3>1
  <2> QED
    BY <1>3, <2>1, <2>2, <2>3, <2>4 DEF OrderPage
<1>4. ASSUME UNCHANGED desk, SweepSeen'
      PROVE  SeenInv'
  BY <1>0, <1>4, SeenKept DEF SeenInv
<1>5. CASE Life!SweepStart
  <2>1. /\ UNCHANGED <<desk, orders>> /\ DOMAIN sweep' \subseteq DOMAIN orders
        /\ \A id \in DOMAIN sweep' : sweep'[id] = orders[id].status
    BY <1>5, LifeWords DEF Life!SweepStart, Life!Waiting
  <2>2. SweepSeen'
    BY <2>1, StatusNoted DEF SweepSeen, Noted, ShopInv
  <2> QED
    BY <1>4, <2>1, <2>2
<1>6. ASSUME NEW id, Life!SweepOne(id)
      PROVE  SeenInv'
  <2>1. UNCHANGED desk /\ sweep' = [k \in DOMAIN sweep \ {id} |-> sweep[k]]
    BY <1>6 DEF Life!SweepOne, Life!Restrict
  <2>2. SweepSeen'
    BY <1>0, <2>1, SweepSeenKept DEF SeenInv
  <2> QED
    BY <1>4, <2>1, <2>2
<1>7. CASE Life!SweepFails
  <2>1. UNCHANGED desk /\ DOMAIN sweep' = {}
    BY <1>7, LifeWords DEF Life!SweepFails
  <2> QED
    BY <1>4, <2>1 DEF SweepSeen
<1> QED
  BY <1>2, <1>3, <1>5, <1>6, <1>7 DEF ShopNext, Sweep, SweepFails, Life!Sweep

\* A rung is reached from the one below, a cancellation from the workshop.
LEMMA CameFromRung ==
  /\ \A s \in DOMAIN Ladder : s \in CameFrom(NextStep(s))
  /\ \A s \in Workshop : s \in CameFrom("cancelled")
BY DEF CameFrom, NextStep, Ladder, Statuses, Workshop

\* A status written after one it is reached from is a move of its order.
LEMMA RecordMoves ==
  ASSUME TypeOK, OrdersOK, NEW id \in DOMAIN orders, NEW step \in Statuses, Life!Record(id, step),
         NEW s \in CameFrom(step), Noted(id, s)
  PROVE  Parcels!Next
<1> DEFINE steps == orders[id].tracking
           status == [k \in DOMAIN orders |-> orders[k].status]
           reached == [k \in DOMAIN orders |-> Range(orders[k].tracking)]
<1>1. Parcels!CameFrom(step) = CameFrom(step) /\ step \in Parcels!Statuses
  BY DEF Parcels!CameFrom, CameFrom, Parcels!Statuses, Statuses, Parcels!Ladder, Ladder,
         Parcels!Workshop, Workshop
<1>2. steps \in Seq(Statuses)
  BY OrderTracking DEF OrdersOK
<1>3. /\ DOMAIN orders' = DOMAIN orders
      /\ orders'[id].status = step /\ orders'[id].tracking = Append(steps, step)
      /\ \A k \in DOMAIN orders \ {id} : orders'[k] = orders[k]
  BY OrdersNoted
<1>4. reached[id] \cap Parcels!CameFrom(step) # {}
  BY <1>1 DEF Noted, Range
<1>5. status' = [status EXCEPT ![id] = step]
  BY <1>3
<1>6. reached' = [reached EXCEPT ![id] = @ \cup {step}]
  <2>1. Range(Append(steps, step)) = Range(steps) \cup {step}
    BY <1>2, AppendProperties DEF Range
  <2> QED
    BY <1>3, <2>1
<1>7. Parcels!Move(id, step)
  BY <1>4, <1>5, <1>6 DEF Parcels!Move
<1> QED
  BY <1>1, <1>7 DEF Parcels!Next, Parcels!Order

\* An order that is sold arrives, paid.
LEMMA SaleArrives ==
  ASSUME TypeOK, OrdersOK, NEW t \in Tab, CommitOrder(t)
  PROVE  Parcels!Next
<1> DEFINE status == [k \in DOMAIN orders |-> orders[k].status]
           reached == [k \in DOMAIN orders |-> Range(orders[k].tracking)]
<1>1. PICK id : id = Len(orders) + 1
  OBVIOUS
<1>2. /\ id \notin DOMAIN orders /\ DOMAIN orders' = DOMAIN orders \cup {id}
      /\ \A k \in DOMAIN orders : orders'[k] = orders[k]
      /\ orders'[id].tracking = <<"paid">> /\ OrdersOK'
  BY <1>1, OrdersSold
<1>3. IsOrder(orders'[id])
  BY <1>2 DEF OrdersOK
<1>4. orders'[id].status = "paid" /\ Range(<<"paid">>) = {"paid"}
  BY <1>2, <1>3 DEF IsOrder, Range
<1>5. status' = [k \in DOMAIN status \cup {id} |-> IF k = id THEN "paid" ELSE status[k]]
  BY <1>2, <1>4
<1>6. reached' = [k \in DOMAIN status \cup {id} |-> IF k = id THEN {"paid"} ELSE reached[k]]
  BY <1>2, <1>4
<1>7. id \in DOMAIN status' /\ Parcels!Arrive(id)
  BY <1>2, <1>5, <1>6 DEF Parcels!Arrive, Parcels!Order
<1> QED
  BY <1>7 DEF Parcels!Next

\* A sale is an arrival, each writer's transaction a move from what it read;
\* nothing else touches an order.
LEMMA ShopClimbStep ==
  ASSUME ShopInv, SeenInv, [ShopNext]_shopVars
  PROVE  [Parcels!Next]_(Parcels!vars)
<1>0. TypeOK /\ OrdersOK /\ \A d \in Desk : Life!IsRequest(desk[d]) /\ SeenOK(d)
  BY DEF ShopInv, LifeInv, DeskOK, SeenInv
<1>1. ASSUME UNCHANGED orders
      PROVE  UNCHANGED Parcels!vars
  BY <1>1 DEF Parcels!vars
<1>2. CASE Checkout
  <2>1. CASE \E t \in Tab : CommitOrder(t)
    BY <1>0, <2>1, SaleArrives
  <2>2. CASE ~\E t \in Tab : CommitOrder(t)
    BY <1>1, <1>2, <2>2 DEF Checkout, Change, SetQuantity, Submit, ReadCart, Progress,
         RollBack, VisitStep, StoreLine, ClampOut, ClampDown, ForgetCart
  <2> QED
    BY <2>1, <2>2
<1>3. CASE BackOffice
  BY <1>1, <1>3 DEF BackOffice, EditRow, SetStock, AddVariant, RemoveVariant, Restock, EditPrice,
     SetPrice, CreateProduct
<1>4. CASE OrderPage
  <2>1. ASSUME NEW d \in Desk, NEW id \in DOMAIN orders, OpenPage(d, id)
        PROVE  UNCHANGED Parcels!vars
    BY <1>1, <2>1 DEF OpenPage, vars
  <2>2. ASSUME NEW d \in Desk, DrawTimeline(d) \/ ClickAdvance(d) \/ ClickCancel(d)
        PROVE  UNCHANGED Parcels!vars
    BY <1>1, <2>2 DEF DrawTimeline, ClickAdvance, ClickCancel, Life!AskAdvance, Life!AskCancel,
         Life!Receive, vars
  <2>3. ASSUME NEW d \in Desk, Advance(d)
        PROVE  Parcels!Next
    <3>1. /\ desk[d].id \in DOMAIN orders /\ desk[d].seen \in DOMAIN Ladder
          /\ Noted(desk[d].id, desk[d].seen)
      BY <1>0, <2>3, DeskFields DEF Advance, Life!Advance, SeenOK
    <3>2. Life!Record(desk[d].id, NextStep(desk[d].seen))
      BY <2>3, LifeWords DEF Advance, Life!Advance
    <3> QED
      BY <1>0, <3>1, <3>2, RecordMoves, CameFromRung, NextStepType
  <2>4. ASSUME NEW d \in Desk, Cancel(d)
        PROVE  Parcels!Next
    <3>1. desk[d].id \in DOMAIN orders /\ \E s \in Workshop : Noted(desk[d].id, s)
      BY <1>0, <2>4, DeskFields DEF Cancel, Life!Cancel, SeenOK
    <3>2. Life!Record(desk[d].id, "cancelled") /\ "cancelled" \in Statuses
      BY <2>4, CancelWrites DEF Statuses
    <3> QED
      BY <1>0, <3>1, <3>2, RecordMoves, CameFromRung
  <2> QED
    BY <1>4, <2>1, <2>2, <2>3, <2>4 DEF OrderPage
<1>5. CASE Sweep
  <2>1. CASE Life!SweepStart
    BY <1>1, <2>1 DEF Life!SweepStart
  <2>2. ASSUME NEW id \in DOMAIN orders, Life!SweepOne(id)
        PROVE  Parcels!Next
    <3>1. sweep[id] \in DOMAIN Ladder /\ Noted(id, sweep[id])
      BY <2>2 DEF Life!SweepOne, ShopInv, LifeInv, SweepOK, SeenInv, SweepSeen
    <3>2. Life!Record(id, NextStep(sweep[id]))
      BY <2>2, LifeWords DEF Life!SweepOne
    <3> QED
      BY <1>0, <3>1, <3>2, RecordMoves, CameFromRung, NextStepType
  <2> QED
    BY <1>5, <2>1, <2>2, LifeWords DEF Sweep, Life!Sweep
<1>6. CASE SweepFails
  BY <1>1, <1>6 DEF SweepFails, Life!SweepFails
<1>7. CASE UNCHANGED shopVars
  BY <1>1, <1>7 DEF shopVars, vars
<1> QED
  BY <1>2, <1>3, <1>4, <1>5, <1>6, <1>7 DEF ShopNext

\* In the whole shop, for any number of orders, pages and sweeps, an order
\* arrives paid, never jumps a rung, and each status it takes is on record with
\* one it came from, although every writer acts on what it read before.
THEOREM ShopAlwaysClimbs == ShopSpec => ShopClimbs
<1>1. ShopInit => SeenInv /\ Parcels!Init
  <2> SUFFICES ASSUME ShopInit PROVE SeenInv /\ Parcels!Init
    OBVIOUS
  <2>1. DOMAIN orders = {}
    BY EmptySeq, LenProperties DEF ShopInit, Init
  <2>2. desk = [d \in Desk |-> Idle] /\ DOMAIN sweep = {}
    BY LifeWords DEF ShopInit
  <2>3. SeenInv
    BY <2>2 DEF SeenInv, SeenOK, SweepSeen, Idle
  <2> QED
    BY <2>1, <2>3 DEF Parcels!Init, Parcels!Order
<1> QED
  BY <1>1, SeenStep, ShopClimbStep, ShopHolds, PTL DEF ShopSpec, ShopClimbs, Parcels!Spec
=============================================================================

-------------------------- MODULE D1CheckoutProofs --------------------------
(***************************************************************************)
(* Proofs about D1Checkout, for any shop, any number of visitors, tabs and *)
(* orders, and walks that stop anywhere.                                   *)
(***************************************************************************)
EXTENDS D1Checkout, TablesProofs

----------------------------------------------------------------------------
(* The requests either shop answers: what they do to the types of the      *)
(* tables, one lemma per step.                                             *)

\* A browser's cart id is a cart id.
LEMMA CurrentType ==
  ASSUME VisitTypeOK, NEW b \in Browser
  PROVE  Current(b) \in CartId
BY DEF VisitTypeOK, Current, CartId

\* The tables start well-typed.
LEMMA VisitInitType ==
  ASSUME VisitInit, IsShelf(shelf), price \in [Sku -> Nat]
  PROVE  VisitTypeOK
<1>1. \A c \in CartId : c[1] \in Browser /\ c[2] \in 0 .. MaxCarts
  BY DEF CartId
<1>2. \A c \in CartId : IsCart(IF c[2] = 0 THEN InitialCart[c[1]] ELSE EmptyCart)
  BY <1>1, VisitAssumption, EmptyCartType
<1>3. cart = [c \in CartId |-> cart[c]] /\ \A c \in CartId : IsCart(cart[c])
  BY <1>2, Zenon DEF VisitInit
<1>4. cookie \in [Browser -> 0 .. MaxCarts] /\ changes \in 0 .. MaxChanges
  BY VisitAssumption DEF VisitInit
<1> QED
  BY <1>3, <1>4 DEF VisitTypeOK

\* Storing a well-typed cart in one place keeps all carts well-typed.
LEMMA CartsType ==
  ASSUME VisitTypeOK, NEW c \in CartId, NEW lines, IsCart(lines)
  PROVE  LET carts == [cart EXCEPT ![c] = lines]
         IN  /\ carts = [d \in CartId |-> carts[d]]
             /\ \A d \in CartId : IsCart(carts[d])
BY DEF VisitTypeOK

\* set_quantity, first step: a line removed, or the stock read.
LEMMA SetQuantityType ==
  ASSUME VisitTypeOK, NEW t \in Tab, NEW i \in Item, NEW q \in Int, SetQuantity(t, i, q)
  PROVE  /\ VisitTypeOK'
         /\ \/ UNCHANGED req
            \/ /\ req' = [req EXCEPT ![t] =
                    [at |-> "storing", cart |-> Current(BrowserOf[t]),
                     item |-> i, quantity |-> Smaller(q, Stock(shelf, i))]]
               /\ Current(BrowserOf[t]) \in CartId
               /\ Smaller(q, Stock(shelf, i)) \in Nat
<1> DEFINE c == Current(BrowserOf[t])
<1>1. c \in CartId
  BY CurrentType, VisitAssumption
<1>2. changes' \in 0 .. MaxChanges
  BY VisitAssumption DEF VisitTypeOK, SetQuantity
<1>3. CASE q <= 0 /\ cart' = [cart EXCEPT ![c] = DeleteLine(@, i)] /\ UNCHANGED req
  <2>1. IsCart(cart[c])
    BY <1>1 DEF VisitTypeOK
  <2>2. IsCart(DeleteLine(cart[c], i))
    BY <2>1, CartType, 1 \in Nat \ {0}
  <2>3. cart' = [cart EXCEPT ![c] = DeleteLine(cart[c], i)]
    BY <1>3
  <2>4. cart' = [d \in CartId |-> cart'[d]] /\ \A d \in CartId : IsCart(cart'[d])
    BY <1>1, <2>2, <2>3, CartsType
  <2> QED
    BY <1>2, <1>3, <2>4 DEF VisitTypeOK, SetQuantity
<1>4. CASE /\ q > 0
           /\ Answer(t, [at |-> "storing", cart |-> c, item |-> i,
                         quantity |-> Smaller(q, Stock(shelf, i))])
           /\ UNCHANGED cart
  <2>1. Smaller(q, Stock(shelf, i)) \in Nat
    BY <1>4, StockType DEF Smaller, VisitTypeOK
  <2>2. VisitTypeOK'
    BY <1>2, <1>4 DEF VisitTypeOK, SetQuantity, CartId
  <2> QED
    BY <1>1, <1>4, <2>1, <2>2 DEF Answer
<1> QED
  BY <1>3, <1>4 DEF SetQuantity

\* set_quantity, second step.
LEMMA StoreLineType ==
  ASSUME VisitTypeOK, NEW t \in Tab, StoreLine(t),
         req[t].cart \in CartId, req[t].item \in Item, req[t].quantity \in Nat
  PROVE  VisitTypeOK'
<1> DEFINE r == req[t]
           line == IF r.quantity = 0 THEN DeleteLine(cart[r.cart], r.item)
                   ELSE UpsertLine(cart[r.cart], r.item, r.quantity)
<1>1. IsCart(cart[r.cart])
  BY DEF VisitTypeOK
<1>2. IsCart(line)
  BY <1>1, CartType, 1 \in Nat \ {0}
<1>3. cart' = [cart EXCEPT ![r.cart] = line]
  BY DEF StoreLine
<1>4. r.cart \in CartId
  OBVIOUS
<1> HIDE DEF r, line
<1>5. cart' = [d \in CartId |-> cart'[d]] /\ \A d \in CartId : IsCart(cart'[d])
  BY <1>2, <1>3, <1>4, CartsType
<1> QED
  BY <1>5 DEF VisitTypeOK, StoreLine

\* clamp_cart_to_stock, first statement.
LEMMA ClampOutType ==
  ASSUME VisitTypeOK, NEW t \in Tab, ClampOut(t), req[t].cart \in CartId
  PROVE  VisitTypeOK'
<1>1. IsCart(ClampDelete(cart[req[t].cart], shelf))
  BY ClampType DEF VisitTypeOK
<1>2. cart' = [cart EXCEPT ![req[t].cart] = ClampDelete(cart[req[t].cart], shelf)]
  BY DEF ClampOut
<1>3. cart' = [d \in CartId |-> cart'[d]] /\ \A d \in CartId : IsCart(cart'[d])
  BY <1>1, <1>2, CartsType
<1> QED
  BY <1>3 DEF VisitTypeOK, ClampOut

\* clamp_cart_to_stock, second statement, refused by the check or not.
LEMMA ClampDownType ==
  ASSUME VisitTypeOK, NEW t \in Tab, ClampDown(t), req[t].cart \in CartId
  PROVE  VisitTypeOK'
<1> DEFINE c == req[t].cart
<1>1. CASE ClampUpdateFails(cart[c], shelf)
  BY <1>1 DEF VisitTypeOK, ClampDown, CartId
<1>2. CASE ~ClampUpdateFails(cart[c], shelf)
  <2>1. IsCart(ClampUpdate(cart[c], shelf))
    BY <1>2, ClampType DEF VisitTypeOK
  <2>2. cart' = [cart EXCEPT ![c] = ClampUpdate(cart[c], shelf)]
    BY <1>2 DEF ClampDown
  <2>3. cart' = [d \in CartId |-> cart'[d]] /\ \A d \in CartId : IsCart(cart'[d])
    BY <2>1, <2>2, CartsType
  <2> QED
    BY <2>3 DEF VisitTypeOK, ClampDown
<1> QED
  BY <1>1, <1>2

\* The browser drops its cookie: the next cart id is still within the bound.
LEMMA ForgetCartType ==
  ASSUME VisitTypeOK, NEW t \in Tab, ForgetCart(t)
  PROVE  VisitTypeOK'
<1>1. cookie' \in [Browser -> 0 .. MaxCarts]
  BY VisitAssumption DEF VisitTypeOK, ForgetCart
<1> QED
  BY <1>1 DEF VisitTypeOK, ForgetCart, CartId

----------------------------------------------------------------------------
(* Types.                                                                  *)

IsOrder(o) ==
  /\ o \in [lines : {o.lines}, charge : {o.charge}, status : {"paid"}, tracking : Seq({"paid"})]
  /\ IsLines(o.lines)

OrdersType == orders \in Seq(Range(orders)) /\ \A k \in DOMAIN orders : IsOrder(orders[k])

Requests == req = [t \in Tab |-> req[t]] /\ \A t \in Tab : IsRequest(req[t])

\* The rest of TypeOK.
OwnTypeOK ==
  /\ total \in [Sku -> Nat]
  /\ unsummed \subseteq Sku
  /\ lost \in [Item -> Nat]
  /\ edits \in 0 .. MaxEdits /\ faults \in 0 .. MaxFaults

\* The type invariant, as the parts steps are shown to keep.
LEMMA TypeParts == TypeOK <=> VisitTypeOK /\ Requests /\ OrdersType /\ OwnTypeOK
BY Zenon DEF TypeOK, Requests, OrdersType, IsOrder, OwnTypeOK

\* A walk that goes on with the same lines, for the same cart.
Walk(r, at, left, on, id) ==
  [at : {at}, cart : {r.cart}, lines : {r.lines}, shipping : {r.shipping},
   left : {left}, on : {on}, id : {id}]

\* What a request carries, by where it is.
LEMMA RequestFields ==
  ASSUME NEW r, IsRequest(r)
  PROVE  /\ r.at = "storing" => /\ r.cart \in CartId
                                /\ r.item \in Item /\ r.quantity \in Nat
         /\ r.at = "lowering" => r.cart \in CartId
         /\ r.at \in WalkStages =>
              /\ r.cart \in CartId /\ r.shipping \in ShippingKeys
              /\ IsLines(r.lines) /\ DOMAIN r.lines \subseteq Item
              /\ r.left \in SUBSET DOMAIN r.lines /\ r.on \in SUBSET DOMAIN r.lines
              /\ r.id \in 0 .. Len(orders)
              /\ r \in Walk(r, r.at, r.left, r.on, r.id)
BY DEF IsRequest, WalkStages, Walk, IsLines, IsTable

\* The requests that carry nothing, and a walk that goes on.
LEMMA PlainRequests == IsRequest(Idle) /\ IsRequest([at |-> "placed"])
BY DEF IsRequest, Idle

\* Such a walk is a request.
LEMMA WalkType ==
  ASSUME NEW r, IsRequest(r), r.at \in WalkStages, NEW at \in WalkStages,
         NEW left \in SUBSET DOMAIN r.lines, NEW on \in SUBSET DOMAIN r.lines,
         NEW id \in 0 .. Len(orders), NEW w \in Walk(r, at, left, on, id)
  PROVE  IsRequest(w)
<1>1. r.cart \in CartId /\ r.shipping \in ShippingKeys /\ IsLines(r.lines)
  BY RequestFields
<1>2. w.at = at /\ w.lines = r.lines
  BY DEF Walk
<1>3. w \in [at : WalkStages, cart : CartId, lines : {w.lines}, shipping : ShippingKeys,
             left : SUBSET DOMAIN w.lines, on : SUBSET DOMAIN w.lines, id : 0 .. Len(orders)]
  BY <1>1, <1>2 DEF Walk
<1> QED
  BY <1>1, <1>2, <1>3 DEF IsRequest

\* Answering one tab with a request keeps the requests well-typed, also while
\* the table of orders grows.
LEMMA AnswerType ==
  ASSUME Requests, CartId' = CartId, Len(orders) \in Nat, Len(orders') \in Nat,
         Len(orders') >= Len(orders),
         NEW t \in Tab, NEW r, IsRequest(r) \/ IsRequest(r)', Answer(t, r)
  PROVE  Requests'
<1>1. req' = [u \in Tab |-> IF u = t THEN r ELSE req[u]]
  BY DEF Requests, Answer
<1>2. 0 .. Len(orders) \subseteq 0 .. Len(orders')
  OBVIOUS
<1>3. \A x : IsRequest(x) => IsRequest(x)'
  BY <1>2 DEF IsRequest
<1>4. \A u \in Tab : IsRequest(req[u])'
  BY <1>1, <1>3 DEF Requests
<1> QED
  BY <1>1, <1>4 DEF Requests

\* What each step of a walk does to its request.
LEMMA WalkMoves ==
  ASSUME Requests, NEW t \in Tab, NEW r, r = req[t]
  PROVE  /\ \A i : TakeLine(t, i) =>
              \E w \in Walk(r, "totalling", r.left \ {i}, {i}, r.id) : Answer(t, w)
         /\ \A i : LoseRace(t, i) =>
              \E w \in Walk(r, "returning", DOMAIN r.lines \ r.left, r.on, r.id) : Answer(t, w)
         /\ \A i : HandBack(t, i) \/ InsertLine(t, i) =>
              \E w \in Walk(r, r.at, r.left \ {i}, r.on, r.id) : Answer(t, w)
         /\ \A i : TakeTotal(t, i) =>
              \/ Stop(t)
              \/ \E w \in Walk(r, "taking", r.left, {}, r.id) : Answer(t, w) /\ UNCHANGED lost
         /\ InsertOrder(t) =>
              \E w \in Walk(r, "lining", DOMAIN r.lines, r.on, Len(orders) + 1) : Answer(t, w)
         /\ InsertTracking(t) =>
              \E w \in Walk(r, "emptying", r.left, r.on, r.id) : Answer(t, w)
<1>1. IsRequest(r) /\ req = [u \in Tab |-> req[u]]
  BY DEF Requests
<1>2. ASSUME r.at \in WalkStages
      PROVE  r \in Walk(r, r.at, r.left, r.on, r.id)
  BY <1>1, <1>2, RequestFields
<1>3. PICK w : w = req'[t]
  OBVIOUS
<1>4. ASSUME NEW i, TakeLine(t, i)
      PROVE  w \in Walk(r, "totalling", r.left \ {i}, {i}, r.id) /\ Answer(t, w)
  <2>1. /\ req' = [req EXCEPT ![t].at = "totalling", ![t].left = @ \ {i}, ![t].on = {i}]
        /\ r.at \in WalkStages
    BY <1>4 DEF TakeLine, WalkStages
  <2> QED
    BY <1>1, <1>2, <1>3, <2>1 DEF Answer, Walk
<1>5. ASSUME NEW i, LoseRace(t, i)
      PROVE  w \in Walk(r, "returning", DOMAIN r.lines \ r.left, r.on, r.id) /\ Answer(t, w)
  <2>1. /\ req' = [req EXCEPT ![t].at = "returning", ![t].left = DOMAIN req[t].lines \ @]
        /\ r.at \in WalkStages
    BY <1>5 DEF LoseRace, WalkStages
  <2> QED
    BY <1>1, <1>2, <1>3, <2>1 DEF Answer, Walk
<1>6. ASSUME NEW i, HandBack(t, i) \/ InsertLine(t, i)
      PROVE  w \in Walk(r, r.at, r.left \ {i}, r.on, r.id) /\ Answer(t, w)
  <2>1. req' = [req EXCEPT ![t].left = @ \ {i}] /\ r.at \in WalkStages
    BY <1>6 DEF HandBack, InsertLine, WalkStages
  <2> QED
    BY <1>1, <1>2, <1>3, <2>1 DEF Answer, Walk
<1>7. ASSUME NEW i, TakeTotal(t, i)
      PROVE  Stop(t) \/ (w \in Walk(r, "taking", r.left, {}, r.id) /\ Answer(t, w) /\ UNCHANGED lost)
  <2>1. /\ Stop(t) \/ (req' = [req EXCEPT ![t].at = "taking", ![t].on = {}] /\ UNCHANGED lost)
        /\ r.at \in WalkStages
    BY <1>7 DEF TakeTotal, WalkStages
  <2>2. ASSUME req' = [req EXCEPT ![t].at = "taking", ![t].on = {}]
        PROVE  w \in Walk(r, "taking", r.left, {}, r.id) /\ Answer(t, w)
    BY <1>1, <1>2, <1>3, <2>1, <2>2 DEF Answer, Walk
  <2> QED
    BY <2>1, <2>2
<1>8. ASSUME InsertOrder(t)
      PROVE  w \in Walk(r, "lining", DOMAIN r.lines, r.on, Len(orders) + 1) /\ Answer(t, w)
  <2>1. /\ req' = [req EXCEPT ![t].at = "lining", ![t].left = DOMAIN req[t].lines,
                              ![t].id = Len(orders) + 1]
        /\ r.at \in WalkStages
    BY <1>8 DEF InsertOrder, WalkStages
  <2> QED
    BY <1>1, <1>2, <1>3, <2>1 DEF Answer, Walk
<1>9. ASSUME InsertTracking(t)
      PROVE  w \in Walk(r, "emptying", r.left, r.on, r.id) /\ Answer(t, w)
  <2>1. req' = [req EXCEPT ![t].at = "emptying"] /\ r.at \in WalkStages
    BY <1>9 DEF InsertTracking, WalkStages
  <2> QED
    BY <1>1, <1>2, <1>3, <2>1 DEF Answer, Walk
<1> QED
  BY <1>4, <1>5, <1>6, <1>7, <1>8, <1>9

\* The table of orders is a sequence, whatever it holds.
LEMMA OrdersLen ==
  ASSUME OrdersType
  PROVE  /\ Len(orders) \in Nat
         /\ DOMAIN orders = 1 .. Len(orders)
         /\ orders = [k \in 1 .. Len(orders) |-> orders[k]]
BY LenProperties DEF OrdersType

\* The orders are counted by a natural number.
LEMMA LenNat == OrdersType => Len(orders) \in Nat
BY OrdersLen

\* Editing one order keeps the table of orders and its length; an id that is
\* not there edits nothing.
LEMMA OrderEdit ==
  ASSUME OrdersType, NEW id, NEW o, id \in DOMAIN orders => IsOrder(o),
         orders' = [orders EXCEPT ![id] = o]
  PROVE  /\ OrdersType'
         /\ DOMAIN orders' = DOMAIN orders
         /\ Len(orders') = Len(orders)
         /\ \A k \in DOMAIN orders : orders'[k] = IF k = id THEN o ELSE orders[k]
<1>1. /\ Len(orders) \in Nat
      /\ DOMAIN orders = 1 .. Len(orders)
      /\ orders = [k \in 1 .. Len(orders) |-> orders[k]]
  BY OrdersLen
<1>2. orders' = [k \in 1 .. Len(orders) |-> IF k = id THEN o ELSE orders[k]]
  BY <1>1
<1>3. orders' \in Seq(Range(orders')) /\ Len(orders') = Len(orders)
  <2> DEFINE S == Range(orders) \cup {o}
  <2>1. \A k \in 1 .. Len(orders) : orders[k] \in Range(orders)
    BY <1>1 DEF Range
  <2>2. orders' \in [1 .. Len(orders) -> S]
    BY <1>2, <2>1
  <2> HIDE DEF S
  <2>3. orders' \in Seq(S)
    BY <1>1, <2>2, SeqDef, Zenon
  <2>4. DOMAIN orders' = 1 .. Len(orders')
    BY <2>3, LenProperties
  <2>5. Len(orders') = Len(orders)
    BY <1>1, <2>2, <2>3, LenProperties
  <2> QED
    BY <2>3, <2>5, SeqOfRange
<1>4. \A k \in DOMAIN orders' : IsOrder(orders'[k])
  BY <1>1, <1>2 DEF OrdersType
<1> QED
  BY <1>1, <1>2, <1>3, <1>4 DEF OrdersType, IsOrder

\* The units a request holds are a count.
LEMMA HeldType ==
  ASSUME NEW r, IsRequest(r), NEW i
  PROVE  Held(r, i) \in Nat
<1>1. HeldItems(r) # {} => r.at \in WalkStages
  BY DEF HeldItems, WalkStages
<1>2. r.at \in WalkStages => HeldItems(r) \subseteq DOMAIN r.lines
  BY RequestFields DEF HeldItems
<1>3. ASSUME i \in HeldItems(r) PROVE r.lines[i].quantity \in Nat
  BY <1>1, <1>2, <1>3, RequestFields DEF IsLines, IsTable
<1> QED
  BY <1>3 DEF Held

\* A walk that stops leaves the tables of the history well-typed.
LEMMA StopType ==
  ASSUME TypeOK, NEW t \in Tab, Stop(t), UNCHANGED orders
  PROVE  Requests' /\ lost' \in [Item -> Nat]
<1>1. Requests /\ OrdersType /\ OwnTypeOK /\ IsRequest(req[t]) /\ CartId' = CartId
  BY TypeParts DEF Requests, CartId
<1>2. Len(orders) \in Nat
  BY <1>1, OrdersLen
<1>3. Requests'
  BY <1>1, <1>2, AnswerType, PlainRequests DEF Stop
<1>4. \A i \in Item : Held(req[t], i) \in Nat
  BY <1>1, HeldType
<1> QED
  BY <1>1, <1>3, <1>4 DEF Stop, OwnTypeOK

\* The first state is well-typed.
LEMMA TypeInit == Init => TypeOK
<1> SUFFICES ASSUME Init PROVE TypeOK
  OBVIOUS
<1>1. VisitTypeOK
  BY VisitInitType, CheckoutAssumption DEF Init
<1>2. Requests
  BY PlainRequests DEF Init, VisitInit, Requests
<1>3. OrdersType
  <2>1. orders \in Seq({}) /\ Len(orders) = 0
    BY EmptySeq DEF Init
  <2>2. orders \in Seq(Range(orders)) /\ DOMAIN orders = {}
    BY <2>1, SeqOfRange, LenProperties
  <2> QED
    BY <2>2 DEF OrdersType
<1>4. total \in [Sku -> Nat]
  BY SumsType, CheckoutAssumption DEF Init
<1>5. OwnTypeOK
  BY <1>4, CheckoutAssumption DEF Init, OwnTypeOK
<1> QED
  BY <1>1, <1>2, <1>3, <1>5, TypeParts

\* The steps of a visitor that do not touch the other tables.
LEMMA TypeVisit ==
  ASSUME TypeOK, NEW t \in Tab, VisitStep(t)
  PROVE  TypeOK'
<1>1. VisitTypeOK /\ Requests /\ OrdersType /\ OwnTypeOK /\ IsRequest(req[t])
  BY TypeParts DEF Requests
<1>2. OwnTypeOK' /\ OrdersType' /\ Len(orders) \in Nat /\ Len(orders') = Len(orders)
  BY <1>1, OrdersLen DEF VisitStep, OwnTypeOK, OrdersType, IsOrder
<1>3. CartId' = CartId
  BY DEF CartId
<1>4. ASSUME NEW r, IsRequest(r), Answer(t, r), VisitTypeOK'
      PROVE  TypeOK'
  <2>1. Requests'
    BY <1>1, <1>2, <1>3, <1>4, AnswerType
  <2> QED
    BY <1>2, <1>4, <2>1, TypeParts, PTL
<1>5. CASE StoreLine(t)
  <2>1. VisitTypeOK'
    BY <1>1, <1>5, StoreLineType, RequestFields DEF StoreLine
  <2> QED
    BY <1>4, <1>5, <2>1, PlainRequests DEF StoreLine
<1>6. CASE req[t].at = "returning" /\ ClampOut(t)
  <2>1. req[t].cart \in CartId
    BY <1>1, <1>6, RequestFields DEF WalkStages
  <2>2. VisitTypeOK'
    BY <1>1, <1>6, <2>1, ClampOutType
  <2>3. IsRequest([at |-> "lowering", cart |-> req[t].cart])
    BY <2>1 DEF IsRequest
  <2> QED
    BY <1>4, <1>6, <2>2, <2>3 DEF ClampOut
<1>7. CASE ClampDown(t)
  <2>1. VisitTypeOK'
    BY <1>1, <1>7, ClampDownType, RequestFields DEF ClampDown
  <2> QED
    BY <1>4, <1>7, <2>1, PlainRequests DEF ClampDown
<1>8. CASE ForgetCart(t)
  <2>1. VisitTypeOK'
    BY <1>1, <1>8, ForgetCartType
  <2> QED
    BY <1>4, <1>8, <2>1, PlainRequests DEF ForgetCart
<1> QED
  BY <1>5, <1>6, <1>7, <1>8 DEF VisitStep

\* A step that answers one tab with a request, given the rest of the types.
LEMMA TypeGoes ==
  ASSUME TypeOK, NEW t \in Tab, NEW r, IsRequest(r) \/ IsRequest(r)', Answer(t, r),
         Len(orders') >= Len(orders), VisitTypeOK', OrdersType', OwnTypeOK'
  PROVE  TypeOK'
<1>1. Requests /\ OrdersType /\ Len(orders) \in Nat /\ CartId' = CartId
  BY OrdersLen, TypeParts DEF CartId
<1>2. (Len(orders) \in Nat)'
  BY LenNat, PTL
<1>3. Requests'
  BY <1>1, <1>2, AnswerType
<1> QED
  BY <1>3, TypeParts, PTL

\* set_quantity's first step.
LEMMA TypeChange ==
  ASSUME TypeOK, NEW t \in Tab, NEW i \in Item, NEW q \in Quantities, Change(t, i, q)
  PROVE  TypeOK'
<1> DEFINE r == [at |-> "storing", cart |-> Current(BrowserOf[t]),
                 item |-> i, quantity |-> Smaller(q, Stock(shelf, i))]
<1>1. VisitTypeOK /\ Requests /\ OrdersType /\ OwnTypeOK /\ q \in Int
  BY TypeParts, VisitAssumption
<1>2. /\ OwnTypeOK' /\ OrdersType' /\ CartId' = CartId
      /\ Len(orders) \in Nat /\ Len(orders') = Len(orders)
  BY <1>1, OrdersLen DEF Change, OwnTypeOK, OrdersType, IsOrder, CartId
<1>3. /\ VisitTypeOK'
      /\ \/ UNCHANGED req
         \/ req' = [req EXCEPT ![t] = r] /\ r.cart \in CartId /\ r.quantity \in Nat
  BY <1>1, SetQuantityType DEF Change
<1>4. ASSUME UNCHANGED req
      PROVE  TypeOK'
  <2>1. Requests'
    BY <1>1, <1>2, <1>4 DEF Requests, IsRequest
  <2> QED
    BY <1>2, <1>3, <2>1, TypeParts, PTL
<1>5. ASSUME req' = [req EXCEPT ![t] = r], r.cart \in CartId, r.quantity \in Nat
      PROVE  TypeOK'
  <2>1. IsRequest(r)
    BY <1>5 DEF IsRequest
  <2>2. Answer(t, r)
    BY <1>5 DEF Answer
  <2> HIDE DEF r
  <2> QED
    BY <1>2, <1>3, <2>1, <2>2, TypeGoes
<1> QED
  BY <1>3, <1>4, <1>5

\* The reading of the cart.
LEMMA TypeSubmit ==
  ASSUME TypeOK, NEW t \in Tab, NEW key \in FormKeys, ReadCart(t, key)
  PROVE  TypeOK'
<1> DEFINE c == Current(BrowserOf[t])
           r == [at |-> "taking", cart |-> c, lines |-> CartLines(t), shipping |-> key,
                 left |-> DOMAIN CartLines(t), on |-> {}, id |-> 0]
<1>1. VisitTypeOK /\ Requests /\ OrdersType /\ OwnTypeOK /\ Len(orders) \in Nat
  BY TypeParts, OrdersLen
<1>2. c \in CartId /\ key \in ShippingKeys
  BY <1>1, CurrentType, VisitAssumption
<1>3. IsLines(CartLines(t))
  BY <1>1, <1>2, PricedLinesType DEF VisitTypeOK, CartLines
<1>4. IsRequest(r)
  BY <1>1, <1>2, <1>3 DEF IsRequest, WalkStages
<1>5. VisitTypeOK' /\ OrdersType' /\ OwnTypeOK' /\ Len(orders') = Len(orders)
  BY <1>1 DEF ReadCart, tables, spent, VisitTypeOK, OwnTypeOK, OrdersType, IsOrder, CartId
<1>6. Answer(t, r)
  BY DEF ReadCart
<1> HIDE DEF r
<1> QED
  BY <1>1, <1>4, <1>5, <1>6, TypeGoes

\* The steps of a walk that leave the orders alone.
LEMMA TypeTaking ==
  ASSUME TypeOK, NEW t \in Tab, NEW i \in Item,
         TakeLine(t, i) \/ TakeTotal(t, i) \/ LoseRace(t, i) \/ HandBack(t, i)
  PROVE  TypeOK'
<1> DEFINE r == req[t]
<1>1. VisitTypeOK /\ Requests /\ OrdersType /\ OwnTypeOK /\ IsRequest(r) /\ CartId' = CartId
  BY TypeParts DEF Requests, CartId
<1>2. r.at \in WalkStages
  BY DEF TakeLine, TakeTotal, LoseRace, HandBack, WalkStages
<1>3. /\ r.left \in SUBSET DOMAIN r.lines /\ r.on \in SUBSET DOMAIN r.lines
      /\ IsLines(r.lines) /\ r.id \in 0 .. Len(orders)
  BY <1>1, <1>2, RequestFields
<1>4. /\ OrdersType' /\ Len(orders') = Len(orders) /\ Len(orders) \in Nat
      /\ UNCHANGED <<price, cart, cookie, changes, unsummed, edits, faults>>
  BY <1>1, OrdersLen
     DEF TakeLine, TakeTotal, LoseRace, HandBack, tables, spent, OrdersType, IsOrder
<1>5. IsShelf(shelf)
  BY <1>1 DEF VisitTypeOK
<1>6. ASSUME IsShelf(shelf')
      PROVE  VisitTypeOK'
  BY <1>1, <1>4, <1>6 DEF VisitTypeOK, CartId
<1>7. ASSUME NEW at \in WalkStages, NEW left \in SUBSET DOMAIN r.lines,
             NEW on \in SUBSET DOMAIN r.lines, NEW w \in Walk(r, at, left, on, r.id),
             Answer(t, w), VisitTypeOK', OwnTypeOK'
      PROVE  TypeOK'
  <2>1. IsRequest(w)
    BY <1>1, <1>2, <1>3, <1>7, WalkType
  <2> QED
    BY <1>4, <1>7, <2>1, TypeGoes
<1>8. WalkStages = {"taking", "totalling", "returning", "lining", "emptying"}
  BY DEF WalkStages
<1>9. CASE TakeLine(t, i)
  <2>1. i \in r.left /\ i \in DOMAIN shelf /\ shelf[i] >= r.lines[i].quantity
    BY <1>9 DEF TakeLine, NextLines, Covers
  <2>2. r.lines[i].quantity \in Nat /\ shelf[i] \in Nat
    BY <1>3, <1>5, <2>1 DEF IsLines, IsShelf, IsTable
  <2>3. shelf[i] - r.lines[i].quantity \in Nat
    BY <2>1, <2>2
  <2>4. IsShelf(shelf')
    BY <1>5, <1>9, <2>3 DEF TakeLine, IsShelf, IsTable
  <2>5. OwnTypeOK'
    BY <1>1, <1>4, <1>9 DEF TakeLine, OwnTypeOK
  <2>6. PICK w \in Walk(r, "totalling", r.left \ {i}, {i}, r.id) : Answer(t, w)
    BY <1>1, <1>9, WalkMoves
  <2>7. r.left \ {i} \in SUBSET DOMAIN r.lines /\ {i} \in SUBSET DOMAIN r.lines
    BY <1>3, <2>1
  <2> QED
    BY <1>6, <1>7, <1>8, <2>4, <2>5, <2>6, <2>7
<1>10. CASE TakeTotal(t, i)
  <2>1. i \in r.on /\ UNCHANGED shelf
    BY <1>10 DEF TakeTotal
  <2>2. r.lines[i].quantity \in Nat /\ SkuOf[i] \in Sku
    BY <1>3, <2>1, CatalogAssumption DEF IsLines, IsTable
  <2>3. total' \in [Sku -> Nat]
    BY <1>1, <1>10, <2>2 DEF TakeTotal, OwnTypeOK
  <2>4. VisitTypeOK'
    BY <1>5, <1>6, <2>1
  <2>5. CASE Stop(t)
    <3>1. Requests' /\ lost' \in [Item -> Nat]
      BY <1>10, <2>5, StopType DEF TakeTotal
    <3>2. OwnTypeOK'
      BY <1>1, <1>4, <2>3, <3>1 DEF OwnTypeOK
    <3> QED
      BY <1>4, <2>4, <3>1, <3>2, TypeParts, PTL
  <2>6. ASSUME NEW w \in Walk(r, "taking", r.left, {}, r.id), Answer(t, w), UNCHANGED lost
        PROVE  TypeOK'
    <3>1. OwnTypeOK'
      BY <1>1, <1>4, <2>3, <2>6 DEF OwnTypeOK
    <3> QED
      BY <1>3, <1>7, <1>8, <2>4, <2>6, <3>1
  <2> QED
    BY <1>1, <1>10, <2>5, <2>6, WalkMoves
<1>11. CASE LoseRace(t, i)
  <2>1. VisitTypeOK' /\ OwnTypeOK'
    BY <1>1, <1>4, <1>5, <1>6, <1>11 DEF LoseRace, tables, OwnTypeOK
  <2>2. PICK w \in Walk(r, "returning", DOMAIN r.lines \ r.left, r.on, r.id) : Answer(t, w)
    BY <1>1, <1>11, WalkMoves
  <2> QED
    BY <1>3, <1>7, <1>8, <2>1, <2>2
<1>12. CASE HandBack(t, i)
  <2>1. r.lines[i].quantity \in Nat
    BY <1>3, <1>12 DEF HandBack, NextLines, IsLines, IsTable
  <2>2. IsShelf(shelf')
    BY <1>5, <1>12, <2>1 DEF HandBack, IsShelf, IsTable
  <2>3. OwnTypeOK'
    BY <1>1, <1>4, <1>12 DEF HandBack, OwnTypeOK
  <2>4. PICK w \in Walk(r, r.at, r.left \ {i}, r.on, r.id) : Answer(t, w)
    BY <1>1, <1>12, WalkMoves
  <2> QED
    BY <1>2, <1>3, <1>6, <1>7, <2>2, <2>3, <2>4
<1> QED
  BY <1>9, <1>10, <1>11, <1>12

\* The steps of a walk that write the order, and the last one.
LEMMA TypeWriting ==
  ASSUME TypeOK, NEW t \in Tab,
         \/ InsertOrder(t) \/ InsertTracking(t) \/ DeleteCartLines(t)
         \/ \E i \in Item : InsertLine(t, i)
  PROVE  TypeOK'
<1> DEFINE r == req[t]
<1>1. VisitTypeOK /\ Requests /\ OrdersType /\ OwnTypeOK /\ IsRequest(r) /\ CartId' = CartId
  BY TypeParts DEF Requests, CartId
<1>2. r.at \in WalkStages
  BY DEF InsertOrder, InsertLine, InsertTracking, DeleteCartLines, WalkStages
<1>3. /\ r.left \in SUBSET DOMAIN r.lines /\ r.on \in SUBSET DOMAIN r.lines
      /\ IsLines(r.lines) /\ r.id \in 0 .. Len(orders) /\ r.cart \in CartId
  BY <1>1, <1>2, RequestFields
<1>4. /\ OwnTypeOK' /\ Len(orders) \in Nat
      /\ UNCHANGED <<shelf, price, cookie, changes>>
  BY <1>1, OrdersLen
     DEF InsertOrder, InsertLine, InsertTracking, DeleteCartLines, spent, OwnTypeOK
<1>5. ASSUME UNCHANGED cart
      PROVE  VisitTypeOK'
  BY <1>1, <1>4, <1>5 DEF VisitTypeOK, CartId
<1>6. WalkStages = {"taking", "totalling", "returning", "lining", "emptying"}
  BY DEF WalkStages
<1>7. CASE InsertOrder(t)
  <2> DEFINE o == [lines |-> EmptyCart, charge |-> Charge(r.lines, r.shipping),
                   status |-> "paid", tracking |-> <<>>]
  <2>1. IsOrder(o)
    <3>1. IsLines(EmptyCart)
      BY FS_EmptySet DEF IsLines, IsTable, EmptyCart
    <3>2. <<>> \in Seq({"paid"})
      BY EmptySeq
    <3> QED
      BY <3>1, <3>2 DEF IsOrder
  <2>2. orders' = Append(orders, o) /\ UNCHANGED cart
    BY <1>7 DEF InsertOrder
  <2> HIDE DEF o
  <2>3. /\ orders' \in Seq(Range(orders'))
        /\ DOMAIN orders = 1 .. Len(orders)
        /\ DOMAIN orders' = 1 .. Len(orders) + 1
        /\ \A k \in 1 .. Len(orders) : orders'[k] = orders[k]
        /\ orders'[Len(orders) + 1] = o
    BY <1>1, <2>2, Grows DEF OrdersType
  <2>4. OrdersType'
    <3>1. \A k \in DOMAIN orders' : IsOrder(orders'[k])
      BY <1>1, <1>4, <2>1, <2>3 DEF OrdersType
    <3> QED
      BY <2>3, <3>1 DEF OrdersType, IsOrder
  <2>5. Len(orders') = Len(orders) + 1
    BY <1>1, <2>2, AppendProperties DEF OrdersType
  <2>6. PICK w \in Walk(r, "lining", DOMAIN r.lines, r.on, Len(orders) + 1) : Answer(t, w)
    BY <1>1, <1>7, WalkMoves
  <2>7. IsRequest(w)'
    <3>1. r.cart \in CartId /\ r.shipping \in ShippingKeys /\ IsLines(r.lines)
      BY <1>1, <1>2, RequestFields
    <3>2. w.at = "lining" /\ w.lines = r.lines
      BY <2>6 DEF Walk
    <3>3. w \in [at : WalkStages, cart : CartId, lines : {w.lines}, shipping : ShippingKeys,
                 left : SUBSET DOMAIN w.lines, on : SUBSET DOMAIN w.lines,
                 id : 0 .. Len(orders')]
      BY <1>3, <1>4, <1>6, <2>5, <2>6, <3>1, <3>2 DEF Walk
    <3> QED
      BY <1>1, <1>6, <3>1, <3>2, <3>3 DEF IsRequest
  <2> QED
    BY <1>4, <1>5, <2>2, <2>4, <2>5, <2>6, <2>7, TypeGoes
<1>8. ASSUME NEW i \in Item, InsertLine(t, i)
      PROVE  TypeOK'
  <2> DEFINE o == [orders[r.id] EXCEPT !.lines = UpsertLine(@, i, r.lines[i])]
  <2>1. orders' = [orders EXCEPT ![r.id] = o] /\ UNCHANGED cart
    BY <1>8 DEF InsertLine
  <2>2. ASSUME r.id \in DOMAIN orders
        PROVE  IsOrder(o)
    <3>1. IsOrder(orders[r.id]) /\ IsLines(orders[r.id].lines)
      BY <1>1, <2>2 DEF OrdersType, IsOrder
    <3>2. r.lines[i] \in [quantity : Nat \ {0}, price : Nat]
      BY <1>3, <1>8 DEF InsertLine, NextLines, IsLines, IsTable
    <3>3. IsFiniteSet(DOMAIN orders[r.id].lines \cup {i})
      BY <3>1, FS_AddElement DEF IsLines, IsTable
    <3>4. IsLines(UpsertLine(orders[r.id].lines, i, r.lines[i]))
      BY <3>1, <3>2, <3>3 DEF IsLines, IsTable, UpsertLine
    <3> HIDE DEF r
    <3> QED
      BY <3>1, <3>4 DEF IsOrder
  <2> HIDE DEF o
  <2>3. OrdersType' /\ Len(orders') = Len(orders)
    BY <1>1, <2>1, <2>2, OrderEdit
  <2>4. PICK w \in Walk(r, r.at, r.left \ {i}, r.on, r.id) : Answer(t, w)
    BY <1>1, <1>8, WalkMoves
  <2>5. r.left \ {i} \in SUBSET DOMAIN r.lines
    BY <1>3
  <2>6. IsRequest(w)
    BY <1>1, <1>2, <1>3, <2>4, <2>5, WalkType
  <2> QED
    BY <1>4, <1>5, <2>1, <2>3, <2>4, <2>6, TypeGoes
<1>9. CASE InsertTracking(t)
  <2> DEFINE o == [orders[r.id] EXCEPT !.tracking = Append(@, "paid")]
  <2>1. orders' = [orders EXCEPT ![r.id] = o] /\ UNCHANGED cart
    BY <1>9 DEF InsertTracking
  <2>2. ASSUME r.id \in DOMAIN orders
        PROVE  IsOrder(o)
    <3>1. IsOrder(orders[r.id]) /\ orders[r.id].tracking \in Seq({"paid"})
      BY <1>1, <2>2 DEF OrdersType, IsOrder
    <3>2. Append(orders[r.id].tracking, "paid") \in Seq({"paid"})
      BY <3>1, AppendProperties
    <3> HIDE DEF r
    <3> QED
      BY <3>1, <3>2 DEF IsOrder
  <2> HIDE DEF o
  <2>3. OrdersType' /\ Len(orders') = Len(orders)
    BY <1>1, <2>1, <2>2, OrderEdit
  <2>4. PICK w \in Walk(r, "emptying", r.left, r.on, r.id) : Answer(t, w)
    BY <1>1, <1>9, WalkMoves
  <2>5. IsRequest(w)
    BY <1>1, <1>2, <1>3, <1>6, <2>4, WalkType
  <2> QED
    BY <1>4, <1>5, <2>1, <2>3, <2>4, <2>5, TypeGoes
<1>10. CASE DeleteCartLines(t)
  <2>1. cart' = [d \in CartId |-> cart'[d]] /\ \A d \in CartId : IsCart(cart'[d])
    BY <1>1, <1>3, <1>10, CartsType, EmptyCartType DEF DeleteCartLines
  <2>2. VisitTypeOK'
    BY <1>1, <1>4, <1>10, <2>1 DEF DeleteCartLines, VisitTypeOK
  <2>3. OrdersType' /\ Len(orders') = Len(orders)
    BY <1>1, <1>10 DEF DeleteCartLines, OrdersType, IsOrder
  <2> QED
    BY <1>4, <1>10, <2>2, <2>3, PlainRequests, TypeGoes DEF DeleteCartLines
<1> QED
  BY <1>7, <1>8, <1>9, <1>10

\* A statement that fails, a Worker that dies.
LEMMA TypeFault ==
  ASSUME TypeOK, NEW t \in Tab, Fault(t)
  PROVE  TypeOK'
<1>1. VisitTypeOK /\ Requests /\ OrdersType /\ OwnTypeOK
  BY TypeParts
<1>2. Requests' /\ lost' \in [Item -> Nat]
  BY StopType DEF Fault, tables
<1>3. faults' \in 0 .. MaxFaults
  BY <1>1, CheckoutAssumption DEF Fault, OwnTypeOK
<1>4. VisitTypeOK' /\ OrdersType' /\ OwnTypeOK'
  BY <1>1, <1>2, <1>3 DEF Fault, tables, VisitTypeOK, OrdersType, IsOrder, OwnTypeOK, CartId
<1> QED
  BY <1>2, <1>4, TypeParts, PTL

\* The back office.
LEMMA TypeOffice ==
  ASSUME TypeOK, Office
  PROVE  TypeOK'
<1>1. /\ VisitTypeOK /\ Requests /\ OrdersType /\ OwnTypeOK /\ CartId' = CartId
      /\ IsShelf(shelf)
  BY TypeParts DEF CartId, VisitTypeOK
<1>2. ASSUME VisitTypeOK', OwnTypeOK', UNCHANGED <<req, orders>>
      PROVE  TypeOK'
  <2>1. Requests' /\ OrdersType'
    BY <1>1, <1>2 DEF Requests, OrdersType, IsOrder, IsRequest
  <2> QED
    BY <1>2, <2>1, TypeParts, PTL
<1>3. ASSUME NEW i \in Item, NEW newShelf, IsShelf(newShelf), Restock(i, newShelf)
      PROVE  TypeOK'
  <2>1. edits' \in 0 .. MaxEdits /\ SkuOf[i] \in Sku
    BY <1>1, <1>3, CheckoutAssumption, CatalogAssumption DEF Restock, OwnTypeOK
  <2>2. VisitTypeOK'
    BY <1>1, <1>3 DEF Restock, VisitTypeOK, visits
  <2>3. OwnTypeOK' /\ UNCHANGED <<req, orders>>
    BY <1>1, <1>3, <2>1 DEF Restock, OwnTypeOK, visits
  <2> QED
    BY <1>2, <2>2, <2>3
<1>4. ASSUME NEW i \in Item, NEW n \in Counts, SetStock(i, n) \/ AddVariant(i, n)
      PROVE  TypeOK'
  <2>1. AtLeastZero(n) \in Nat
    BY CheckoutAssumption DEF AtLeastZero
  <2> QED
    BY <1>1, <1>3, <1>4, <2>1, EditType DEF SetStock, AddVariant
<1>5. ASSUME NEW i \in Item, RemoveVariant(i)
      PROVE  TypeOK'
  BY <1>1, <1>3, <1>5, EditType, 0 \in Nat DEF RemoveVariant
<1>6. ASSUME NEW s \in Sku, ResumStock(s)
      PROVE  TypeOK'
  <2>1. ShelfSum(shelf, s) \in Nat
    BY <1>1, SumsType
  <2>2. OwnTypeOK' /\ UNCHANGED <<req, orders>>
    BY <1>1, <1>6, <2>1 DEF ResumStock, Resum, OwnTypeOK, visits
  <2>3. VisitTypeOK'
    BY <1>1, <1>6 DEF ResumStock, VisitTypeOK, visits
  <2> QED
    BY <1>2, <2>2, <2>3
<1>7. ASSUME NEW s \in Sku, EditStops(s)
      PROVE  TypeOK'
  <2>1. OwnTypeOK' /\ UNCHANGED <<req, orders>>
    BY <1>1, <1>7, CheckoutAssumption DEF EditStops, tables, OwnTypeOK
  <2>2. VisitTypeOK'
    BY <1>1, <1>7 DEF EditStops, tables, VisitTypeOK
  <2> QED
    BY <1>2, <2>1, <2>2
<1>8. ASSUME NEW s \in Sku, NEW n \in PriceTags, SetPrice(s, n)
      PROVE  TypeOK'
  <2>1. AtLeastZero(n) \in Nat
    BY CheckoutAssumption DEF AtLeastZero
  <2>2. price' \in [Sku -> Nat]
    BY <1>1, <1>8, <2>1 DEF SetPrice, VisitTypeOK
  <2>3. OwnTypeOK' /\ UNCHANGED <<req, orders>>
    BY <1>1, <1>8, CheckoutAssumption DEF SetPrice, OwnTypeOK, visits
  <2>4. VisitTypeOK'
    BY <1>1, <1>8, <2>2 DEF SetPrice, VisitTypeOK, visits
  <2> QED
    BY <1>2, <2>3, <2>4
<1> QED
  BY <1>4, <1>5, <1>6, <1>7, <1>8 DEF Office

\* Every statement of every walk, cart request and edit keeps the types.
LEMMA TypeStep == TypeOK /\ [Next]_vars => TypeOK'
<1> SUFFICES ASSUME TypeOK, [Next]_vars PROVE TypeOK'
  OBVIOUS
<1>1. CASE UNCHANGED vars
  BY <1>1 DEF vars, tables, spent, TypeOK, VisitTypeOK, IsRequest, CartId
<1>2. ASSUME NEW t \in Tab, Progress(t)
      PROVE  TypeOK'
  BY <1>2, TypeTaking, TypeWriting, TypeVisit DEF Progress
<1> QED
  BY <1>1, <1>2, TypeChange, TypeSubmit, TypeFault, TypeOffice DEF Next, Submit

\* Every table, order and request keeps its shape, whatever walks interleave
\* and wherever they stop: in particular neither stock goes below zero, and no
\* walk hands back or lines an item that is not among its own lines.
THEOREM TypeCorrect == Spec => []TypeOK
<1> QED
  BY TypeInit, TypeStep, PTL DEF Spec

----------------------------------------------------------------------------
(* The orders being written.                                               *)

\* What a walk that lines its order finds in it: no tracking yet, the charge
\* of the lines the walk carries, and those of them it has inserted.
Lines(o, r) ==
  /\ o.tracking = <<>>
  /\ o.charge = Charge(r.lines, r.shipping)
  /\ DOMAIN o.lines = DOMAIN r.lines \ r.left
  /\ \A i \in DOMAIN o.lines : o.lines[i] = r.lines[i]

\* Charged for its own lines, for some form's key.
Due(o) == \E key \in ShippingKeys : o.charge = Charge(o.lines, key)

\* Inductive: a walk has something to sell; the order a walk lines is its own,
\* no other walk writes it; and every whole order is due.
WalkInv ==
  /\ \A t \in Tab : req[t].at \in WalkStages => DOMAIN req[t].lines # {}
  /\ \A t \in Tab : req[t].at = "lining" =>
       req[t].id \in DOMAIN orders /\ Lines(orders[req[t].id], req[t])
  /\ \A t, u \in Tab :
       req[t].at = "lining" /\ req[u].at = "lining" /\ req[t].id = req[u].id => t = u
  /\ \A k \in Whole : Due(orders[k])

\* The steps that write an order.
Writes(t) == InsertOrder(t) \/ InsertTracking(t) \/ \E i \in Item : InsertLine(t, i)

\* A request that is lining nothing and, if it is a walk, has something to sell.
Plain(w) == w.at # "lining" /\ (w.at \in WalkStages => DOMAIN w.lines # {})

\* A cart that is not the empty one has a line.
LEMMA NotEmpty ==
  ASSUME NEW lines, IsCart(lines), lines # EmptyCart
  PROVE  DOMAIN lines # {}
BY DEF IsCart, IsTable, EmptyCart

\* Every other step leaves the orders alone, and at most one tab answered.
LEMMA PlainSteps ==
  ASSUME TypeOK, WalkInv, [Next]_vars
  PROVE  \/ \E t \in Tab : Writes(t)
         \/ UNCHANGED <<orders, req>>
         \/ UNCHANGED orders /\ \E t \in Tab : \E w : Answer(t, w) /\ Plain(w)
<1> DEFINE Goal == \/ \E t \in Tab : Writes(t)
                   \/ UNCHANGED <<orders, req>>
                   \/ UNCHANGED orders /\ \E t \in Tab : \E w : Answer(t, w) /\ Plain(w)
<1>1. VisitTypeOK /\ Requests
  BY TypeParts
<1>2. Plain(Idle) /\ Plain([at |-> "placed"])
  BY DEF Plain, Idle, WalkStages
<1>3. ASSUME NEW t \in Tab, NEW w, UNCHANGED orders, Answer(t, w), Plain(w)
      PROVE  Goal
  BY <1>3
<1>4. ASSUME NEW t \in Tab, NEW i \in Item, NEW q \in Quantities, Change(t, i, q)
      PROVE  Goal
  <2> DEFINE r == [at |-> "storing", cart |-> Current(BrowserOf[t]), item |-> i,
                   quantity |-> Smaller(q, Stock(shelf, i))]
  <2>1. UNCHANGED orders /\ (UNCHANGED req \/ Answer(t, r))
    BY <1>4 DEF Change, SetQuantity
  <2>2. Plain(r)
    BY DEF Plain, WalkStages
  <2> HIDE DEF r
  <2> QED
    BY <1>3, <2>1, <2>2
<1>5. ASSUME NEW t \in Tab, NEW key \in FormKeys, ReadCart(t, key)
      PROVE  Goal
  <2> DEFINE c == Current(BrowserOf[t])
             r == [at |-> "taking", cart |-> c, lines |-> CartLines(t), shipping |-> key,
                   left |-> DOMAIN CartLines(t), on |-> {}, id |-> 0]
  <2>1. c \in CartId
    BY <1>1, CurrentType, VisitAssumption
  <2>2. IsCart(cart[c]) /\ cart[c] # EmptyCart
    BY <1>1, <1>5, <2>1 DEF VisitTypeOK, ReadCart
  <2>3. DOMAIN CartLines(t) # {}
    BY <2>2, NotEmpty DEF CartLines, PricedLines
  <2>4. Plain(r)
    BY <2>3 DEF Plain
  <2>5. UNCHANGED orders /\ Answer(t, r)
    BY <1>5 DEF ReadCart, tables
  <2> HIDE DEF r
  <2> QED
    BY <1>3, <2>4, <2>5
<1>6. ASSUME NEW t \in Tab, NEW at \in {"totalling", "returning", "taking"}, NEW left, NEW on, NEW id,
             req[t].at \in WalkStages, UNCHANGED orders,
             \E w \in Walk(req[t], at, left, on, id) : Answer(t, w)
      PROVE  Goal
  <2>1. PICK w \in Walk(req[t], at, left, on, id) : Answer(t, w)
    BY <1>6
  <2>2. w.at = at /\ w.lines = req[t].lines
    BY DEF Walk
  <2>3. Plain(w)
    BY <1>6, <2>2 DEF Plain, WalkInv
  <2> QED
    BY <1>3, <1>6, <2>1, <2>3
<1>7. ASSUME NEW t \in Tab, NEW i \in Item,
             TakeLine(t, i) \/ TakeTotal(t, i) \/ LoseRace(t, i) \/ HandBack(t, i)
      PROVE  Goal
  <2>1. req[t].at \in WalkStages /\ UNCHANGED orders
    BY <1>7 DEF TakeLine, TakeTotal, LoseRace, HandBack, tables, WalkStages
  <2>2. CASE TakeLine(t, i)
    BY <1>1, <1>6, <2>1, <2>2, WalkMoves
  <2>3. CASE TakeTotal(t, i)
    BY <1>1, <1>2, <1>3, <1>6, <2>1, <2>3, WalkMoves DEF Stop
  <2>4. CASE LoseRace(t, i)
    BY <1>1, <1>6, <2>1, <2>4, WalkMoves
  <2>5. CASE HandBack(t, i)
    <3>1. req[t].at = "returning"
      BY <2>5 DEF HandBack
    <3> QED
      BY <1>1, <1>6, <2>1, <2>5, <3>1, WalkMoves
  <2> QED
    BY <1>7, <2>2, <2>3, <2>4, <2>5
<1>8. ASSUME NEW t \in Tab, VisitStep(t)
      PROVE  Goal
  <2> DEFINE r == [at |-> "lowering", cart |-> req[t].cart]
  <2>1. UNCHANGED orders /\ (Answer(t, Idle) \/ Answer(t, r))
    BY <1>8 DEF VisitStep, StoreLine, ClampOut, ClampDown, ForgetCart
  <2>2. Plain(r)
    BY DEF Plain, WalkStages
  <2> HIDE DEF r
  <2> QED
    BY <1>2, <1>3, <2>1, <2>2
<1>9. ASSUME NEW t \in Tab, DeleteCartLines(t) \/ Fault(t)
      PROVE  Goal
  BY <1>2, <1>3, <1>9 DEF DeleteCartLines, Fault, Stop, tables
<1>10. ASSUME Office \/ UNCHANGED vars
      PROVE  Goal
  BY <1>10 DEF Office, SetStock, AddVariant, RemoveVariant, Restock, ResumStock, EditStops,
               SetPrice, visits, vars, tables
<1>11. ASSUME NEW t \in Tab, Progress(t)
      PROVE  Goal
  BY <1>7, <1>8, <1>9, <1>11, Zenon DEF Progress, Writes
<1> HIDE DEF Goal
<1>12. Goal
  BY <1>4, <1>5, <1>9, <1>10, <1>11, Zenon DEF Next, Submit
<1> QED
  BY <1>12 DEF Goal

\* The answered tab takes part in WalkInv with what it was answered.
LEMMA WalkGoes ==
  ASSUME TypeOK, WalkInv, NEW t \in Tab, NEW w, Answer(t, w),
         w.at \in WalkStages => DOMAIN w.lines # {},
         \A k \in DOMAIN orders : k \in DOMAIN orders',
         w.at = "lining" =>
           /\ w.id \in DOMAIN orders' /\ Lines(orders'[w.id], w)
           /\ \A u \in Tab \ {t} : req[u].at = "lining" => req[u].id # w.id,
         \A u \in Tab \ {t} : req[u].at = "lining" => orders'[req[u].id] = orders[req[u].id],
         \A k \in DOMAIN orders' : orders'[k].tracking # <<>> => Due(orders'[k])
  PROVE  WalkInv'
<1>1. req' = [u \in Tab |-> IF u = t THEN w ELSE req[u]]
  BY TypeParts DEF Requests, Answer
<1>2. \A u \in Tab : req'[u].at \in WalkStages => DOMAIN req'[u].lines # {}
  BY <1>1 DEF WalkInv
<1>3. \A u \in Tab : req'[u].at = "lining" =>
        req'[u].id \in DOMAIN orders' /\ Lines(orders'[req'[u].id], req'[u])
  BY <1>1 DEF WalkInv
<1>4. \A u, v \in Tab :
        req'[u].at = "lining" /\ req'[v].at = "lining" /\ req'[u].id = req'[v].id => u = v
  BY <1>1 DEF WalkInv
<1>5. \A k \in Whole' : Due(orders'[k])
  BY DEF Whole
<1> QED
  BY <1>2, <1>3, <1>4, <1>5 DEF WalkInv, WalkStages, Lines, Due, Charge

\* The row of orders: a new id, which no other walk lines, with every line
\* still to come.
LEMMA WalkInsertOrder ==
  ASSUME TypeOK, WalkInv, NEW t \in Tab, InsertOrder(t)
  PROVE  WalkInv'
<1> DEFINE r == req[t]
           o == [lines |-> EmptyCart, charge |-> Charge(r.lines, r.shipping),
                 status |-> "paid", tracking |-> <<>>]
<1>1. Requests /\ OrdersType /\ Len(orders) \in Nat
  BY TypeParts, OrdersLen
<1>2. PICK w \in Walk(r, "lining", DOMAIN r.lines, r.on, Len(orders) + 1) : Answer(t, w)
  BY <1>1, WalkMoves
<1>3. /\ w.at = "lining" /\ w.lines = r.lines /\ w.shipping = r.shipping
      /\ w.left = DOMAIN r.lines /\ w.id = Len(orders) + 1
  BY DEF Walk
<1>4. r.at \in WalkStages /\ DOMAIN r.lines # {}
  BY DEF InsertOrder, WalkStages, WalkInv
<1>5. Lines(o, w)
  <2>1. DOMAIN o.lines = {}
    BY DEF EmptyCart
  <2> QED
    BY <1>3, <2>1 DEF Lines
<1>6. o.tracking = <<>> /\ orders' = Append(orders, o)
  BY DEF InsertOrder
<1> HIDE DEF o
<1>7. /\ DOMAIN orders = 1 .. Len(orders)
      /\ DOMAIN orders' = 1 .. Len(orders) + 1
      /\ \A k \in 1 .. Len(orders) : orders'[k] = orders[k]
      /\ orders'[Len(orders) + 1] = o
  BY <1>1, <1>6, Grows DEF OrdersType
<1>8. \A k \in DOMAIN orders' : orders'[k].tracking # <<>> => Due(orders'[k])
  <2>1. \A k \in 1 .. Len(orders) + 1 : k \in 1 .. Len(orders) \/ k = Len(orders) + 1
    BY <1>1
  <2> QED
    BY <1>6, <1>7, <2>1 DEF WalkInv, Whole
<1>9. \A u \in Tab \ {t} : req[u].at = "lining" =>
        req[u].id # w.id /\ orders'[req[u].id] = orders[req[u].id]
  BY <1>1, <1>3, <1>7 DEF WalkInv
<1>10. \A k \in DOMAIN orders : k \in DOMAIN orders'
  BY <1>1, <1>7
<1>11. w.id \in DOMAIN orders' /\ Lines(orders'[w.id], w)
  BY <1>1, <1>3, <1>5, <1>7
<1> QED
  BY <1>2, <1>3, <1>4, <1>8, <1>9, <1>10, <1>11, WalkGoes

\* An edit of a walk's own order, the walk going on as w.
LEMMA WalkEdit ==
  ASSUME TypeOK, WalkInv, NEW t \in Tab, req[t].at = "lining", NEW o, NEW w,
         orders' = [orders EXCEPT ![req[t].id] = o], Answer(t, w),
         w.lines = req[t].lines, w.id = req[t].id,
         w.at = "lining" => Lines(o, w), w.at # "lining" => Due(o)
  PROVE  WalkInv'
<1> DEFINE r == req[t]
<1>1. OrdersType /\ r.id \in DOMAIN orders /\ DOMAIN w.lines # {}
  BY TypeParts DEF WalkInv, WalkStages
<1>2. /\ DOMAIN orders' = DOMAIN orders /\ orders'[r.id] = o
      /\ \A k \in DOMAIN orders : k # r.id => orders'[k] = orders[k]
  <2> HIDE DEF r
  <2>1. orders' = [orders EXCEPT ![r.id] = o]
    BY DEF r
  <2> QED
    BY <1>1, <2>1
<1>3. \A u \in Tab \ {t} : req[u].at = "lining" =>
        req[u].id # w.id /\ orders'[req[u].id] = orders[req[u].id]
  BY <1>2 DEF WalkInv
<1>4. \A k \in DOMAIN orders' : orders'[k].tracking # <<>> => Due(orders'[k])
  BY <1>1, <1>2 DEF WalkInv, Whole, Lines
<1> QED
  BY <1>1, <1>2, <1>3, <1>4, WalkGoes

\* One line: the order gains what its walk had left to insert.
LEMMA WalkInsertLine ==
  ASSUME TypeOK, WalkInv, NEW t \in Tab, NEW i \in Item, InsertLine(t, i)
  PROVE  WalkInv'
<1> DEFINE r == req[t]
           o == [orders[r.id] EXCEPT !.lines = UpsertLine(@, i, r.lines[i])]
<1>1. Requests /\ OrdersType /\ r.at = "lining" /\ i \in r.left
  BY TypeParts DEF InsertLine, NextLines
<1>2. r.id \in DOMAIN orders /\ Lines(orders[r.id], r) /\ IsOrder(orders[r.id])
  BY <1>1 DEF WalkInv, OrdersType
<1>3. PICK w \in Walk(r, r.at, r.left \ {i}, r.on, r.id) : Answer(t, w)
  BY <1>1, WalkMoves
<1>4. /\ w.at = "lining" /\ w.lines = r.lines /\ w.shipping = r.shipping
      /\ w.left = r.left \ {i} /\ w.id = r.id
  BY <1>1 DEF Walk
<1>5. i \in DOMAIN r.lines
  BY <1>1, RequestFields DEF Requests, WalkStages
<1>6. /\ o.tracking = orders[r.id].tracking /\ o.charge = orders[r.id].charge
      /\ o.lines = UpsertLine(orders[r.id].lines, i, r.lines[i])
  BY <1>2 DEF IsOrder
<1>7. orders' = [orders EXCEPT ![r.id] = o]
  BY DEF InsertLine
<1> HIDE DEF o
<1>8. Lines(o, w)
  BY <1>2, <1>4, <1>5, <1>6 DEF Lines, UpsertLine
<1> QED
  BY <1>1, <1>3, <1>4, <1>7, <1>8, WalkEdit

\* An order whose walk has no line left holds the walk's lines.
LEMMA LinedWhole ==
  ASSUME NEW o, IsLines(o.lines), NEW r, IsLines(r.lines), Lines(o, r), r.left = {}
  PROVE  o.lines = r.lines
BY DEF Lines, IsLines, IsTable

\* The tracking line: every line is in, so the order is due for exactly those.
LEMMA WalkInsertTracking ==
  ASSUME TypeOK, WalkInv, NEW t \in Tab, InsertTracking(t)
  PROVE  WalkInv'
<1> DEFINE r == req[t]
           o == [orders[r.id] EXCEPT !.tracking = Append(@, "paid")]
<1>1. Requests /\ OrdersType /\ r.at = "lining" /\ r.left = {} /\ r.at \in WalkStages
  BY TypeParts DEF InsertTracking, WalkStages
<1>2. r.id \in DOMAIN orders /\ Lines(orders[r.id], r) /\ IsOrder(orders[r.id])
  BY <1>1 DEF WalkInv, OrdersType
<1>3. PICK w \in Walk(r, "emptying", r.left, r.on, r.id) : Answer(t, w)
  BY <1>1, WalkMoves
<1>4. w.at = "emptying" /\ w.lines = r.lines /\ w.id = r.id
  BY DEF Walk
<1>5. o.charge = orders[r.id].charge /\ o.lines = orders[r.id].lines
  BY <1>2 DEF IsOrder
<1>6. orders' = [orders EXCEPT ![r.id] = o]
  BY DEF InsertTracking
<1> HIDE DEF o
<1>7. IsLines(r.lines) /\ r.shipping \in ShippingKeys
  BY <1>1, RequestFields DEF Requests
<1>8. o.lines = r.lines
  BY <1>1, <1>2, <1>5, <1>7, LinedWhole DEF IsOrder
<1>9. Due(o)
  BY <1>2, <1>5, <1>7, <1>8 DEF Due, Lines
<1> QED
  BY <1>1, <1>3, <1>4, <1>6, <1>9, WalkEdit

\* Every step keeps that walks line their own orders and whole orders are due.
LEMMA WalkStep == TypeOK /\ WalkInv /\ [Next]_vars => WalkInv'
<1> SUFFICES ASSUME TypeOK, WalkInv, [Next]_vars PROVE WalkInv'
  OBVIOUS
<1>1. CASE UNCHANGED <<orders, req>>
  BY <1>1 DEF WalkInv, Whole, Lines, Due, Charge, WalkStages
<1>2. ASSUME NEW t \in Tab, NEW w, UNCHANGED orders, Answer(t, w), Plain(w)
      PROVE  WalkInv'
  <2>1. \A k \in DOMAIN orders' : orders'[k].tracking # <<>> => Due(orders'[k])
    BY <1>2 DEF WalkInv, Whole
  <2> QED
    BY <1>2, <2>1, WalkGoes DEF Plain
<1> QED
  BY <1>1, <1>2, PlainSteps, WalkInsertOrder, WalkInsertLine, WalkInsertTracking DEF Writes

\* At first nobody walks and nothing is ordered.
LEMMA WalkInit == Init => WalkInv
<1> SUFFICES ASSUME Init PROVE WalkInv
  OBVIOUS
<1>1. DOMAIN orders = {}
  BY EmptySeq, LenProperties DEF Init
<1>2. \A t \in Tab : req[t].at = "idle"
  BY DEF Init, VisitInit, Idle
<1> QED
  BY <1>1, <1>2 DEF WalkInv, Whole, WalkStages

\* What a whole order is due is what the database shows.
LEMMA DueAddsUp == WalkInv => OrderAddsUp
<1> SUFFICES ASSUME WalkInv PROVE OrderAddsUp
  OBVIOUS
<1>1. ASSUME NEW lines, NEW key
      PROVE  LET o == Charge(lines, key)
             IN  /\ o.shipping_cents = ShippingCents(Subtotal(lines), o.shipping)
                 /\ o.total_cents = Subtotal(lines) + o.shipping_cents
  BY ShippingModeStable DEF Charge, ShippingCents
<1> QED
  BY <1>1 DEF WalkInv, Due, OrderAddsUp

\* An order shown with its tracking charges for all its lines and for nothing
\* else, whatever the prices and the other walks did between its statements.
THEOREM OrdersAlwaysAddUp == Spec => []OrderAddsUp
<1>1. TypeOK /\ WalkInv /\ [Next]_vars => TypeOK' /\ WalkInv'
  BY TypeStep, WalkStep
<1> QED
  BY <1>1, TypeInit, WalkInit, DueAddsUp, PTL DEF Spec

----------------------------------------------------------------------------
(* What a step does to the units the shop has.                             *)

\* On the shelf, held by a walk, or lost by one: what Sells calls the shelf.
Units(i) == Stock(shelf, i) + InFlight(i) + lost[i]

HeldAreCounts == \A t \in Tab, i \in Item : Held(req[t], i) \in Nat

\* What walks hold is counted.
LEMMA HeldTypes == TypeOK => HeldAreCounts
BY HeldType, TypeParts DEF Requests, HeldAreCounts

\* The units in flight are a count, no less than what any one walk holds.
LEMMA FlightType ==
  ASSUME TypeOK, NEW i
  PROVE  /\ InFlight(i) \in Nat
         /\ \A t \in Tab : Held(req[t], i) \in Nat /\ Held(req[t], i) <= InFlight(i)
<1> DEFINE f == [t \in Tab |-> Held(req[t], i)]
<1>1. \A t \in Tab : f[t] = Held(req[t], i) /\ f[t] \in Nat
  BY HeldType, TypeParts DEF Requests
<1>2. InFlight(i) = SumFunctionOnSet(f, Tab) /\ IsFiniteSet(Tab)
  BY CheckoutAssumption DEF InFlight, SumFunction
<1> HIDE DEF f
<1>3. SumFunctionOnSet(f, Tab) \in Nat
  BY <1>1, <1>2, SumNat
<1>4. ASSUME NEW t \in Tab
      PROVE  f[t] <= SumFunctionOnSet(f, Tab)
  <2>1. IsFiniteSet(Tab \ {t}) /\ \A u \in Tab : f[u] \in Int
    BY <1>1, <1>2, FS_RemoveElement
  <2>2. SumFunctionOnSet(f, Tab \ {t}) \in Nat
    BY <1>1, <2>1, SumNat
  <2>3. SumFunctionOnSet(f, Tab) = f[t] + SumFunctionOnSet(f, Tab \ {t})
    BY <1>2, <2>1, SumAny
  <2> QED
    BY <1>1, <2>2, <2>3
<1> QED
  BY <1>1, <1>2, <1>3, <1>4

\* The units not yet sold are counted.
LEMMA UnitsType == TypeOK => \A i \in Item : Units(i) \in Nat
<1> SUFFICES ASSUME TypeOK, NEW i \in Item PROVE Units(i) \in Nat
  OBVIOUS
<1>1. Stock(shelf, i) \in Nat /\ lost[i] \in Nat
  BY StockType, TypeParts DEF VisitTypeOK, OwnTypeOK
<1> QED
  BY <1>1, FlightType DEF Units

\* A tab's answer changes the units in flight by what that tab holds.
LEMMA FlightStep ==
  ASSUME TypeOK, TypeOK', NEW t \in Tab, NEW w, Answer(t, w), NEW i \in Item
  PROVE  /\ InFlight(i)' = InFlight(i) - Held(req[t], i) + Held(w, i)
         /\ Held(w, i) \in Nat
<1> DEFINE f == [u \in Tab |-> Held(req[u], i)]
           g == [u \in Tab |-> Held(req'[u], i)]
<1>1. req' = [u \in Tab |-> IF u = t THEN w ELSE req[u]]
  BY TypeParts DEF Requests, Answer
<1>2. HeldAreCounts'
  BY HeldTypes, PTL
<1>3. \A u \in Tab : Held(req[u], i) \in Nat /\ Held(req'[u], i) \in Nat
  BY <1>2, HeldTypes DEF HeldAreCounts, Held, HeldItems
<1>4. Held(w, i) \in Nat
  BY <1>1, <1>3
<1>5. /\ f[t] = Held(req[t], i) /\ g[t] = Held(w, i)
      /\ \A u \in Tab : f[u] \in Int
      /\ \A u \in Tab \ {t} : g[u] = f[u]
  BY <1>1, <1>3
<1>6. InFlight(i) = SumFunctionOnSet(f, Tab) /\ IsFiniteSet(Tab)
  BY CheckoutAssumption DEF InFlight, SumFunction
<1>7. InFlight(i)' = SumFunctionOnSet(g, Tab)
  BY DEF InFlight, SumFunction, Held, HeldItems
<1> HIDE DEF f, g
<1>8. SumFunctionOnSet(g, Tab) = SumFunctionOnSet(f, Tab) - f[t] + g[t]
  BY <1>4, <1>5, <1>6, SumChange
<1> QED
  BY <1>4, <1>5, <1>6, <1>7, <1>8

\* What stays: the items offered and the count of edits; the sales.  A walk
\* comes to hold only items that are offered.
Kept == /\ edits' = edits /\ DOMAIN shelf' = DOMAIN shelf
        /\ \A t \in Tab : HeldItems(req'[t]) \subseteq HeldItems(req[t]) \cup DOMAIN shelf

SameSales == Whole' = Whole /\ \A k \in Whole : orders'[k].lines = orders[k].lines

\* The four kinds of step: nothing changes hands; a walk hands back an item
\* that is offered no more; an order becomes whole; the back office edits.
Quiet == Kept /\ SameSales /\ \A i \in Item : Units(i)' = Units(i)

WrittenOff(i) ==
  /\ Kept /\ SameSales
  /\ i \notin DOMAIN shelf /\ \E t \in Tab : i \in HeldItems(req[t])
  /\ Units(i)' <= Units(i)
  /\ \A j \in Item \ {i} : Units(j)' = Units(j)

BecomesWhole(id, lines) ==
  /\ Kept
  /\ id \notin Whole /\ Whole' = Whole \cup {id}
  /\ \A k \in Whole : orders'[k].lines = orders[k].lines
  /\ orders'[id].lines = lines /\ IsLines(lines) /\ DOMAIN lines # {}
  /\ \A i \in DOMAIN lines : lines[i].quantity <= Units(i)
  /\ \A i \in Item : Units(i)' =
       IF i \in DOMAIN lines THEN Units(i) - lines[i].quantity ELSE Units(i)

Edited(i) ==
  /\ edits' = edits + 1
  /\ DOMAIN shelf' \in {DOMAIN shelf, DOMAIN shelf \cup {i}, DOMAIN shelf \ {i}}
  /\ SameSales
  /\ \A j \in Item \ {i} : Units(j)' = Units(j)

\* Orders that keep their lines and tracking are the same sales.
LEMMA SameOrders ==
  ASSUME UNCHANGED orders
  PROVE  SameSales
BY DEF SameSales, Whole

\* A tab's answer keeps Kept when that tab comes to hold offered items only.
LEMMA KeptStep ==
  ASSUME TypeOK, NEW t \in Tab, NEW w, Answer(t, w), edits' = edits,
         DOMAIN shelf' = DOMAIN shelf, HeldItems(w) \subseteq HeldItems(req[t]) \cup DOMAIN shelf
  PROVE  Kept
BY TypeParts DEF Kept, Requests, Answer

\* One item's units, when one tab is answered.
LEMMA UnitsStep ==
  ASSUME TypeOK, TypeOK', NEW t \in Tab, NEW w, Answer(t, w), NEW i \in Item
  PROVE  Units(i)' = Units(i) + (Stock(shelf', i) - Stock(shelf, i))
                              + (lost'[i] - lost[i]) + (Held(w, i) - Held(req[t], i))
<1>1. InFlight(i)' = InFlight(i) - Held(req[t], i) + Held(w, i) /\ Held(w, i) \in Nat
  BY FlightStep
<1>2. InFlight(i) \in Nat /\ Held(req[t], i) \in Nat
  BY FlightType
<1>3. IsShelf(shelf) /\ IsShelf(shelf') /\ lost[i] \in Nat /\ lost'[i] \in Nat
  BY DEF TypeOK, VisitTypeOK, IsShelf, IsTable
<1>4. Stock(shelf, i) \in Nat /\ Stock(shelf', i) \in Nat
  BY <1>3, StockType
<1>5. Units(i)' = Stock(shelf', i) + InFlight(i)' + lost'[i]
  BY DEF Units, Stock
<1> QED
  BY <1>1, <1>2, <1>3, <1>4, <1>5 DEF Units

\* Nothing changes hands when a tab holds what it held before.
LEMMA QuietStep ==
  ASSUME TypeOK, TypeOK', NEW t \in Tab, NEW w, Answer(t, w),
         UNCHANGED <<shelf, edits, lost>>, SameSales,
         HeldItems(w) = HeldItems(req[t]), HeldItems(w) # {} => w.lines = req[t].lines
  PROVE  Quiet
<1>1. Kept
  BY KeptStep
<1>2. ASSUME NEW i \in Item
      PROVE  Units(i)' = Units(i)
  <2>1. Held(w, i) = Held(req[t], i) /\ Held(w, i) \in Nat
    BY FlightStep DEF Held
  <2>2. Units(i)' = Units(i) + (Stock(shelf', i) - Stock(shelf, i))
                             + (lost'[i] - lost[i]) + (Held(w, i) - Held(req[t], i))
    BY UnitsStep
  <2>3. Stock(shelf, i) \in Nat /\ lost[i] \in Nat /\ Units(i) \in Nat
    BY StockType, UnitsType, TypeParts DEF VisitTypeOK, OwnTypeOK
  <2> QED
    BY <2>1, <2>2, <2>3
<1> QED
  BY <1>1, <1>2 DEF Quiet

\* What a walk holds, by where it is.
LEMMA HeldWhere ==
  ASSUME NEW r
  PROVE  /\ r.at \in {"taking", "totalling"} => HeldItems(r) = DOMAIN r.lines \ r.left
         /\ r.at = "returning" => HeldItems(r) = r.left
         /\ r.at = "lining" => HeldItems(r) = DOMAIN r.lines
         /\ r.at \notin {"taking", "totalling", "returning", "lining"} => HeldItems(r) = {}
BY DEF HeldItems

\* A walk that stops: what it held is lost, and still counts.
LEMMA QuietStop ==
  ASSUME TypeOK, TypeOK', NEW t \in Tab, Stop(t), UNCHANGED <<shelf, edits>>, SameSales
  PROVE  Quiet
<1>1. Answer(t, Idle) /\ HeldItems(Idle) = {}
  BY HeldWhere DEF Stop, Idle
<1>2. Kept
  BY <1>1, KeptStep
<1>3. ASSUME NEW i \in Item
      PROVE  Units(i)' = Units(i)
  <2>1. Held(Idle, i) = 0 /\ lost'[i] = lost[i] + Held(req[t], i)
    BY <1>1 DEF Held, Stop
  <2>2. Units(i)' = Units(i) + (Stock(shelf', i) - Stock(shelf, i))
                             + (lost'[i] - lost[i]) + (Held(Idle, i) - Held(req[t], i))
    BY <1>1, UnitsStep
  <2>3. /\ Stock(shelf, i) \in Nat /\ lost[i] \in Nat /\ Units(i) \in Nat
        /\ Held(req[t], i) \in Nat
    BY StockType, UnitsType, FlightType, TypeParts DEF VisitTypeOK, OwnTypeOK
  <2> QED
    BY <2>1, <2>2, <2>3
<1> QED
  BY <1>2, <1>3 DEF Quiet

\* A line taken: off the shelf, into the walk's hands.
LEMMA QuietTake ==
  ASSUME TypeOK, TypeOK', NEW t \in Tab, NEW i \in Item, TakeLine(t, i)
  PROVE  Quiet
<1> DEFINE r == req[t]
           q == r.lines[i].quantity
<1>1. PICK w \in Walk(r, "totalling", r.left \ {i}, {i}, r.id) : Answer(t, w)
  BY WalkMoves, TypeParts
<1>2. /\ w.at = "totalling" /\ w.lines = r.lines /\ w.left = r.left \ {i}
      /\ r.at = "taking" /\ i \in r.left
  BY DEF Walk, TakeLine, NextLines
<1>3. r.left \in SUBSET DOMAIN r.lines
  BY <1>2, TypeParts, RequestFields DEF Requests, WalkStages
<1>4. HeldItems(r) = DOMAIN r.lines \ r.left /\ HeldItems(w) = DOMAIN r.lines \ (r.left \ {i})
  BY <1>2, HeldWhere
<1>5. HeldItems(w) = HeldItems(r) \cup {i} /\ i \notin HeldItems(r)
  BY <1>2, <1>3, <1>4
<1>6. /\ i \in DOMAIN shelf /\ UNCHANGED <<edits, orders, lost>>
      /\ shelf' = [shelf EXCEPT ![i] = @ - q]
  BY DEF TakeLine, Covers, spent
<1>7. Kept /\ SameSales
  BY <1>1, <1>5, <1>6, KeptStep, SameOrders
<1>8. ASSUME NEW j \in Item
      PROVE  Units(j)' = Units(j)
  <2>1. /\ Held(w, j) = IF j = i THEN q ELSE Held(r, j)
        /\ j = i => Held(r, j) = 0
    BY <1>2, <1>5 DEF Held
  <2>2. Stock(shelf', j) = IF j = i THEN Stock(shelf, j) - q ELSE Stock(shelf, j)
    BY <1>6 DEF Stock
  <2>3. Units(j)' = Units(j) + (Stock(shelf', j) - Stock(shelf, j))
                             + (lost'[j] - lost[j]) + (Held(w, j) - Held(r, j))
    BY <1>1, UnitsStep
  <2>4. /\ Stock(shelf, j) \in Nat /\ lost[j] \in Nat /\ Units(j) \in Nat
        /\ Held(r, j) \in Nat /\ Held(w, j) \in Nat
    BY <1>1, StockType, UnitsType, FlightType, FlightStep, TypeParts DEF VisitTypeOK, OwnTypeOK
  <2>5. lost'[j] = lost[j]
    BY <1>6
  <2> HIDE DEF r, q
  <2> QED
    BY <2>1, <2>2, <2>3, <2>4, <2>5
<1> QED
  BY <1>7, <1>8 DEF Quiet

\* A line handed back: onto the shelf, or nowhere when its row is gone.
LEMMA HandBackTrade ==
  ASSUME TypeOK, TypeOK', NEW t \in Tab, NEW i \in Item, HandBack(t, i)
  PROVE  Quiet \/ WrittenOff(i)
<1> DEFINE r == req[t]
           q == r.lines[i].quantity
<1>1. PICK w \in Walk(r, r.at, r.left \ {i}, r.on, r.id) : Answer(t, w)
  BY WalkMoves, TypeParts
<1>2. /\ w.at = "returning" /\ w.lines = r.lines /\ w.left = r.left \ {i}
      /\ r.at = "returning" /\ i \in r.left
  BY DEF Walk, HandBack, NextLines
<1>3. HeldItems(r) = r.left /\ HeldItems(w) = r.left \ {i}
  BY <1>2, HeldWhere
<1>4. /\ DOMAIN shelf' = DOMAIN shelf /\ UNCHANGED <<edits, orders, lost>>
      /\ \A j \in DOMAIN shelf : shelf'[j] = IF j = i THEN shelf[j] + q ELSE shelf[j]
  BY DEF HandBack, spent
<1>5. Kept /\ SameSales
  BY <1>1, <1>3, <1>4, KeptStep, SameOrders
<1>6. ASSUME NEW j \in Item
      PROVE  Units(j)' = IF j = i /\ j \notin DOMAIN shelf THEN Units(j) - q ELSE Units(j)
  <2>1. /\ Held(r, j) = IF j = i THEN q ELSE Held(w, j)
        /\ j = i => Held(w, j) = 0
    BY <1>2, <1>3 DEF Held
  <2>2. Stock(shelf', j) = IF j = i /\ j \in DOMAIN shelf THEN Stock(shelf, j) + q ELSE Stock(shelf, j)
    BY <1>4 DEF Stock
  <2>3. Units(j)' = Units(j) + (Stock(shelf', j) - Stock(shelf, j))
                             + (lost'[j] - lost[j]) + (Held(w, j) - Held(r, j))
    BY <1>1, UnitsStep
  <2>4. /\ Stock(shelf, j) \in Nat /\ lost[j] \in Nat /\ Units(j) \in Nat
        /\ Held(r, j) \in Nat /\ Held(w, j) \in Nat
    BY <1>1, StockType, UnitsType, FlightType, FlightStep, TypeParts DEF VisitTypeOK, OwnTypeOK
  <2>5. lost'[j] = lost[j]
    BY <1>4
  <2> HIDE DEF r, q
  <2> QED
    BY <2>1, <2>2, <2>3, <2>4, <2>5
<1>7. CASE i \in DOMAIN shelf
  BY <1>5, <1>6, <1>7 DEF Quiet
<1>8. CASE i \notin DOMAIN shelf
  <2>1. i \in HeldItems(req[t])
    BY <1>2, <1>3
  <2>2. q = Held(r, i) /\ Held(r, i) \in Nat /\ Units(i) \in Nat
    BY <2>1, FlightType, UnitsType DEF Held
  <2>3. Units(i)' = Units(i) - q /\ \A j \in Item \ {i} : Units(j)' = Units(j)
    BY <1>6, <1>8
  <2>4. Units(i)' <= Units(i)
    BY <2>2, <2>3
  <2> QED
    BY <1>5, <1>8, <2>1, <2>3, <2>4 DEF WrittenOff
<1> QED
  BY <1>7, <1>8

\* The other steps of a walk before its order is whole, and after.
LEMMA QuietWalk ==
  ASSUME TypeOK, TypeOK', WalkInv, NEW t \in Tab,
         \/ InsertOrder(t) \/ DeleteCartLines(t)
         \/ \E i \in Item : TakeTotal(t, i) \/ LoseRace(t, i) \/ InsertLine(t, i)
  PROVE  Quiet
<1> DEFINE r == req[t]
<1>1. Requests /\ OrdersType /\ IsRequest(r)
  BY TypeParts DEF Requests
<1>2. r.at \in WalkStages => r.left \in SUBSET DOMAIN r.lines
  BY <1>1, RequestFields
<1>3. ASSUME NEW w, Answer(t, w), UNCHANGED <<shelf, edits, lost>>, SameSales,
             HeldItems(w) = HeldItems(r), w.lines = r.lines
      PROVE  Quiet
  BY <1>3, QuietStep
<1>4. ASSUME NEW i \in Item, TakeTotal(t, i)
      PROVE  Quiet
  <2>1. UNCHANGED <<shelf, edits>> /\ SameSales /\ r.at = "totalling"
    BY <1>4, SameOrders DEF TakeTotal, spent
  <2>2. CASE Stop(t)
    BY <2>1, <2>2, QuietStop
  <2>3. ASSUME NEW w \in Walk(r, "taking", r.left, {}, r.id), Answer(t, w), UNCHANGED lost
        PROVE  Quiet
    <3>1. w.at = "taking" /\ w.lines = r.lines /\ w.left = r.left
      BY DEF Walk
    <3>2. HeldItems(w) = HeldItems(r)
      BY <2>1, <3>1, HeldWhere
    <3> QED
      BY <1>3, <2>1, <2>3, <3>1, <3>2
  <2> QED
    BY <1>1, <1>4, <2>2, <2>3, WalkMoves
<1>5. ASSUME NEW i \in Item, LoseRace(t, i)
      PROVE  Quiet
  <2>1. UNCHANGED <<shelf, edits, lost>> /\ SameSales /\ r.at = "taking"
    BY <1>5, SameOrders DEF LoseRace, spent, tables
  <2>2. PICK w \in Walk(r, "returning", DOMAIN r.lines \ r.left, r.on, r.id) : Answer(t, w)
    BY <1>1, <1>5, WalkMoves
  <2>3. w.at = "returning" /\ w.lines = r.lines /\ w.left = DOMAIN r.lines \ r.left
    BY DEF Walk
  <2>4. HeldItems(w) = HeldItems(r)
    BY <2>1, <2>3, HeldWhere
  <2> QED
    BY <1>3, <2>1, <2>2, <2>3, <2>4
<1>6. CASE InsertOrder(t)
  <2>1. UNCHANGED <<shelf, edits, lost>> /\ r.at = "taking" /\ r.left = {}
    BY <1>6 DEF InsertOrder, spent
  <2>2. PICK w \in Walk(r, "lining", DOMAIN r.lines, r.on, Len(orders) + 1) : Answer(t, w)
    BY <1>1, <1>6, WalkMoves
  <2>3. w.at = "lining" /\ w.lines = r.lines
    BY DEF Walk
  <2>4. HeldItems(w) = HeldItems(r)
    BY <2>1, <2>3, HeldWhere
  <2> DEFINE o == [lines |-> EmptyCart, charge |-> Charge(r.lines, r.shipping),
                   status |-> "paid", tracking |-> <<>>]
  <2>5. orders' = Append(orders, o) /\ o.tracking = <<>>
    BY <1>6 DEF InsertOrder
  <2> HIDE DEF o
  <2>6. /\ DOMAIN orders = 1 .. Len(orders)
        /\ DOMAIN orders' = 1 .. Len(orders) + 1
        /\ Len(orders) \in Nat
        /\ \A k \in 1 .. Len(orders) : orders'[k] = orders[k]
        /\ orders'[Len(orders) + 1] = o
    BY <1>1, <2>5, Grows DEF OrdersType
  <2>7. \A k : k \in DOMAIN orders' <=> k \in DOMAIN orders \/ k = Len(orders) + 1
    BY <2>6
  <2>8. SameSales
    BY <2>5, <2>6, <2>7 DEF SameSales, Whole
  <2> QED
    BY <1>3, <2>1, <2>2, <2>3, <2>4, <2>8
<1>7. ASSUME NEW i \in Item, InsertLine(t, i)
      PROVE  Quiet
  <2>1. UNCHANGED <<shelf, edits, lost>> /\ r.at = "lining"
    BY <1>7 DEF InsertLine, spent
  <2>2. PICK w \in Walk(r, r.at, r.left \ {i}, r.on, r.id) : Answer(t, w)
    BY <1>1, <1>7, WalkMoves
  <2>3. w.at = "lining" /\ w.lines = r.lines
    BY <2>1 DEF Walk
  <2>4. HeldItems(w) = HeldItems(r)
    BY <2>1, <2>3, HeldWhere
  <2>5. r.id \in DOMAIN orders /\ orders[r.id].tracking = <<>> /\ IsOrder(orders[r.id])
    BY <1>1, <2>1 DEF WalkInv, Lines, OrdersType
  <2> DEFINE o == [orders[r.id] EXCEPT !.lines = UpsertLine(@, i, r.lines[i])]
  <2>6. orders' = [orders EXCEPT ![r.id] = o] /\ o.tracking = <<>>
    BY <1>7, <2>5 DEF InsertLine, IsOrder
  <2> HIDE DEF o, r
  <2>7. SameSales
    BY <2>5, <2>6 DEF SameSales, Whole
  <2> QED
    BY <1>3, <2>1, <2>2, <2>3, <2>4, <2>7
<1>8. CASE DeleteCartLines(t)
  <2>1. /\ UNCHANGED <<shelf, edits, lost>> /\ SameSales /\ r.at = "emptying"
        /\ Answer(t, [at |-> "placed"])
    BY <1>8, SameOrders DEF DeleteCartLines, spent
  <2>2. HeldItems(r) = {} /\ HeldItems([at |-> "placed"]) = {}
    BY <2>1, HeldWhere
  <2> QED
    BY <2>1, <2>2, QuietStep
<1> QED
  BY <1>4, <1>5, <1>6, <1>7, <1>8

\* The tracking step: the order is whole, and what its walk held is sold.
LEMMA TrackingSells ==
  ASSUME TypeOK, TypeOK', WalkInv, NEW t \in Tab, InsertTracking(t)
  PROVE  BecomesWhole(req[t].id, req[t].lines)
<1> DEFINE r == req[t]
           id == r.id
           lines == r.lines
           o == [orders[id] EXCEPT !.tracking = Append(@, "paid")]
<1>1. Requests /\ OrdersType /\ r.at = "lining" /\ r.left = {} /\ r.at \in WalkStages
  BY TypeParts DEF InsertTracking, WalkStages
<1>2. id \in DOMAIN orders /\ Lines(orders[id], r) /\ IsOrder(orders[id])
  BY <1>1 DEF WalkInv, OrdersType
<1>3. PICK w \in Walk(r, "emptying", r.left, r.on, r.id) : Answer(t, w)
  BY <1>1, WalkMoves
<1>4. HeldItems(w) = {} /\ HeldItems(r) = DOMAIN lines
  <2>1. w.at = "emptying"
    BY DEF Walk
  <2> QED
    BY <1>1, <2>1, HeldWhere
<1>5. IsLines(lines) /\ DOMAIN lines # {} /\ DOMAIN lines \subseteq Item
  BY <1>1, RequestFields DEF Requests, WalkInv
<1>6. orders' = [orders EXCEPT ![id] = o] /\ UNCHANGED <<shelf, edits, lost>>
  BY DEF InsertTracking, spent
<1>7. o.tracking # <<>>
  <2>1. orders[id].tracking \in Seq({"paid"}) /\ orders[id].tracking = <<>>
    BY <1>2 DEF IsOrder, Lines
  <2>2. Len(Append(orders[id].tracking, "paid")) = Len(orders[id].tracking) + 1
    BY <2>1, AppendProperties
  <2>3. Append(orders[id].tracking, "paid") # <<>>
    BY <2>1, <2>2, EmptySeq
  <2> HIDE DEF id
  <2> QED
    BY <1>2, <2>3 DEF IsOrder
<1>8. o.lines = lines
  <2>1. o.lines = orders[id].lines
    BY <1>2 DEF IsOrder
  <2> QED
    BY <1>1, <1>2, <1>5, <2>1, LinedWhole DEF IsOrder
<1>9. /\ id \notin Whole /\ Whole' = Whole \cup {id}
      /\ \A k \in Whole : orders'[k].lines = orders[k].lines
      /\ orders'[id].lines = lines
  <2>1. orders[id].tracking = <<>>
    BY <1>2 DEF Lines
  <2> HIDE DEF o, id
  <2> QED
    BY <1>2, <1>6, <1>7, <1>8, <2>1 DEF Whole
<1>10. Kept
  BY <1>3, <1>4, <1>6, KeptStep
<1>11. ASSUME NEW i \in Item
       PROVE  /\ i \in DOMAIN lines => lines[i].quantity <= Units(i)
              /\ Units(i)' = IF i \in DOMAIN lines THEN Units(i) - lines[i].quantity ELSE Units(i)
  <2>1. /\ Held(w, i) = 0
        /\ Held(r, i) = IF i \in DOMAIN lines THEN lines[i].quantity ELSE 0
    BY <1>4 DEF Held
  <2>2. Units(i)' = Units(i) + (Stock(shelf', i) - Stock(shelf, i))
                             + (lost'[i] - lost[i]) + (Held(w, i) - Held(r, i))
    BY <1>3, UnitsStep
  <2>3. /\ Stock(shelf, i) \in Nat /\ lost[i] \in Nat /\ Units(i) \in Nat
        /\ Held(r, i) \in Nat /\ InFlight(i) \in Nat /\ Held(r, i) <= InFlight(i)
    BY StockType, UnitsType, FlightType, TypeParts DEF VisitTypeOK, OwnTypeOK
  <2>4. Stock(shelf', i) = Stock(shelf, i) /\ lost'[i] = lost[i]
    BY <1>6
  <2> HIDE DEF r, lines
  <2> QED
    BY <2>1, <2>2, <2>3, <2>4 DEF Units
<1> HIDE DEF id, lines
<1>12. BecomesWhole(id, lines)
  BY <1>5, <1>9, <1>10, <1>11 DEF BecomesWhole
<1> QED
  BY <1>12 DEF id, lines

\* Neither the shelf, nor a request, nor what was lost: the units are the same.
LEMMA UnitsStill ==
  ASSUME UNCHANGED <<shelf, req, lost>>
  PROVE  \A i \in Item : Units(i)' = Units(i)
BY DEF Units, InFlight, Stock, Held, HeldItems

\* A step that leaves shelf, requests and orders alone is quiet.
LEMMA QuietStill ==
  ASSUME UNCHANGED <<shelf, req, lost, orders, edits>>
  PROVE  Quiet
BY UnitsStill, SameOrders DEF Quiet, Kept

\* The visitor's other requests, and a request that dies.
LEMMA QuietVisit ==
  ASSUME TypeOK, TypeOK', NEW t \in Tab,
         \/ VisitStep(t) \/ Submit(t) \/ Fault(t)
         \/ \E i \in Item, q \in Quantities : Change(t, i, q)
  PROVE  Quiet
<1>1. ASSUME NEW w, Answer(t, w), UNCHANGED <<shelf, edits, lost, orders>>,
             HeldItems(req[t]) = {}, HeldItems(w) = {}
      PROVE  Quiet
  BY <1>1, QuietStep, SameOrders
<1>2. HeldItems(Idle) = {}
  BY HeldWhere DEF Idle
<1>3. CASE VisitStep(t)
  <2> DEFINE w == [at |-> "lowering", cart |-> req[t].cart]
  <2>1. HeldItems(w) = {}
    BY HeldWhere
  <2>2. UNCHANGED <<shelf, edits, lost, orders>> /\ (Answer(t, Idle) \/ Answer(t, w))
    BY <1>3 DEF VisitStep, StoreLine, ClampOut, ClampDown, ForgetCart
  <2>3. HeldItems(req[t]) = {}
    BY <1>3, HeldWhere DEF VisitStep, StoreLine, ClampDown, ForgetCart
  <2> HIDE DEF w
  <2> QED
    BY <1>1, <1>2, <2>1, <2>2, <2>3
<1>4. ASSUME NEW key \in FormKeys, ReadCart(t, key)
      PROVE  Quiet
  <2> DEFINE w == [at |-> "taking", cart |-> Current(BrowserOf[t]), lines |-> CartLines(t),
                   shipping |-> key, left |-> DOMAIN CartLines(t), on |-> {}, id |-> 0]
  <2>1. HeldItems(w) = {}
    BY HeldWhere
  <2>2. UNCHANGED <<shelf, edits, lost, orders>> /\ Answer(t, w) /\ req[t] = Idle
    BY <1>4 DEF ReadCart, tables, spent
  <2> HIDE DEF w
  <2> QED
    BY <1>1, <1>2, <2>1, <2>2
<1>5. CASE Fault(t)
  BY <1>5, QuietStop, SameOrders DEF Fault, tables
<1>6. ASSUME NEW i \in Item, NEW q \in Quantities, Change(t, i, q)
      PROVE  Quiet
  <2> DEFINE w == [at |-> "storing", cart |-> Current(BrowserOf[t]), item |-> i,
                   quantity |-> Smaller(q, Stock(shelf, i))]
  <2>1. HeldItems(w) = {}
    BY HeldWhere
  <2>2. /\ UNCHANGED <<shelf, edits, lost, orders>> /\ req[t] = Idle
        /\ UNCHANGED req \/ Answer(t, w)
    BY <1>6 DEF Change, SetQuantity
  <2> HIDE DEF w
  <2> QED
    BY <1>1, <1>2, <2>1, <2>2, QuietStill
<1> QED
  BY <1>3, <1>4, <1>5, <1>6 DEF Submit

\* The back office: a resum moves nothing, every edit is of one item.
LEMMA OfficeTrade ==
  ASSUME TypeOK, Office
  PROVE  Quiet \/ \E i \in Item : Edited(i)
<1>1. IsShelf(shelf)
  BY TypeParts DEF VisitTypeOK
<1>2. ASSUME NEW i \in Item, NEW newShelf, Restock(i, newShelf),
             DOMAIN newShelf \in {DOMAIN shelf, DOMAIN shelf \cup {i}, DOMAIN shelf \ {i}},
             \A j \in Item \ {i} : Stock(newShelf, j) = Stock(shelf, j)
      PROVE  Edited(i)
  <2>1. /\ edits' = edits + 1 /\ shelf' = newShelf
        /\ UNCHANGED <<orders, req, lost>>
    BY <1>2 DEF Restock, visits
  <2>2. \A j \in Item \ {i} : Units(j)' = Units(j)
    BY <1>2, <2>1 DEF Units, InFlight, Stock, Held, HeldItems
  <2> QED
    BY <1>2, <2>1, <2>2, SameOrders DEF Edited
<1>3. ASSUME NEW i \in Item, NEW n \in Counts, SetStock(i, n)
      PROVE  Edited(i)
  <2> DEFINE updated == UpdateVariant(shelf, i, AtLeastZero(n))
  <2>1. /\ DOMAIN updated = DOMAIN shelf
        /\ \A j \in Item \ {i} : Stock(updated, j) = Stock(shelf, j)
    BY DEF Stock, UpdateVariant
  <2> QED
    BY <1>2, <1>3, <2>1 DEF SetStock
<1>4. ASSUME NEW i \in Item, NEW n \in Counts, AddVariant(i, n)
      PROVE  Edited(i)
  <2> DEFINE upserted == UpsertVariant(shelf, i, AtLeastZero(n))
  <2>1. /\ DOMAIN upserted = DOMAIN shelf \cup {i}
        /\ \A j \in Item \ {i} : Stock(upserted, j) = Stock(shelf, j)
    BY DEF Stock, UpsertVariant
  <2> QED
    BY <1>2, <1>4, <2>1 DEF AddVariant
<1>5. ASSUME NEW i \in Item, RemoveVariant(i)
      PROVE  Edited(i)
  <2>1. /\ DOMAIN DeleteVariant(shelf, i) = DOMAIN shelf \ {i}
        /\ \A j \in Item \ {i} : Stock(DeleteVariant(shelf, i), j) = Stock(shelf, j)
    BY DEF Stock, DeleteVariant, Restrict
  <2> QED
    BY <1>2, <1>5, <2>1 DEF RemoveVariant
<1>6. ASSUME NEW s \in Sku, ResumStock(s) \/ EditStops(s)
      PROVE  Quiet
  BY <1>6, QuietStill DEF ResumStock, EditStops, visits, tables
<1>7. ASSUME NEW s \in Sku, NEW n \in PriceTags, SetPrice(s, n)
      PROVE  \E i \in Item : Edited(i)
  <2>1. PICK i \in Item : SkuOf[i] = s
    BY CatalogAssumption
  <2>2. edits' = edits + 1 /\ UNCHANGED <<shelf, req, lost, orders>>
    BY <1>7 DEF SetPrice, visits
  <2>3. Edited(i)
    BY <2>2, UnitsStill, SameOrders DEF Edited
  <2> QED
    BY <2>3
<1> QED
  BY <1>3, <1>4, <1>5, <1>6, <1>7 DEF Office

\* Every step is of one of the four kinds.
LEMMA Trades ==
  ASSUME TypeOK, WalkInv, [Next]_vars
  PROVE  \/ Quiet
         \/ \E i \in Item : WrittenOff(i) \/ Edited(i)
         \/ \E t \in Tab : req[t].at = "lining" /\ BecomesWhole(req[t].id, req[t].lines)
<1>1. TypeOK'
  BY TypeStep
<1>2. CASE UNCHANGED vars
  BY <1>2, QuietStill DEF vars, tables, spent
<1>3. ASSUME NEW t \in Tab, Progress(t)
      PROVE  \/ Quiet
             \/ \E i \in Item : WrittenOff(i)
             \/ req[t].at = "lining" /\ BecomesWhole(req[t].id, req[t].lines)
  <2>1. CASE InsertTracking(t)
    BY <1>1, <2>1, TrackingSells DEF InsertTracking
  <2>2. ASSUME NEW i \in Item, TakeLine(t, i) \/ HandBack(t, i)
        PROVE  Quiet \/ WrittenOff(i)
    BY <1>1, <2>2, QuietTake, HandBackTrade
  <2> QED
    BY <1>1, <1>3, <2>1, <2>2, QuietWalk, QuietVisit DEF Progress
<1> QED
  BY <1>1, <1>2, <1>3, QuietVisit, OfficeTrade DEF Next

----------------------------------------------------------------------------
(* The units are accounted for.                                            *)

\* The whole orders that sold an item, and what they sold of it.
Sellers(i) == {k \in Whole : i \in DOMAIN orders[k].lines}

SoldIn(i) == [k \in Sellers(i) |-> orders[k].lines[i].quantity]

\* The units sold are a sum over the whole orders, which are finitely many.
LEMMA SoldType ==
  ASSUME TypeOK, NEW i
  PROVE  /\ Sold(i) = SumFunctionOnSet(SoldIn(i), Sellers(i))
         /\ IsFiniteSet(Sellers(i))
         /\ \A k \in Sellers(i) : SoldIn(i)[k] \in Nat
         /\ Sold(i) \in Nat
<1>1. Sold(i) = SumFunctionOnSet(SoldIn(i), Sellers(i))
  BY DEF Sold, SumFunction, SoldIn, Sellers
<1>2. OrdersType /\ Len(orders) \in Nat /\ DOMAIN orders = 1 .. Len(orders)
  BY TypeParts, OrdersLen
<1>3. IsFiniteSet(1 .. Len(orders))
  <2>1. 1 \in Int /\ Len(orders) \in Int
    BY <1>2
  <2> QED
    BY <2>1, FS_Interval
<1>4. Sellers(i) \subseteq 1 .. Len(orders)
  BY <1>2 DEF Sellers, Whole
<1>5. IsFiniteSet(Sellers(i))
  BY <1>3, <1>4, FS_Subset
<1>6. ASSUME NEW k \in Sellers(i)
      PROVE  SoldIn(i)[k] \in Nat
  <2>1. IsLines(orders[k].lines) /\ i \in DOMAIN orders[k].lines
    BY <1>2 DEF Sellers, Whole, OrdersType, IsOrder
  <2> QED
    BY <2>1 DEF SoldIn, IsLines, IsTable
<1>7. SumFunctionOnSet(SoldIn(i), Sellers(i)) \in Nat
  BY <1>5, <1>6, SumNat
<1> QED
  BY <1>1, <1>5, <1>6, <1>7

\* The same sales sold the same.
LEMMA SoldSame ==
  ASSUME SameSales, NEW i
  PROVE  Sold(i)' = Sold(i)
<1>1. Sellers(i)' = Sellers(i)
  BY DEF SameSales, Sellers
<1>2. SoldIn(i)' = SoldIn(i)
  BY <1>1 DEF SameSales, Sellers, SoldIn
<1>3. Sold(i) = SumFunction(SoldIn(i)) /\ Sold(i)' = SumFunction(SoldIn(i)')
  BY DEF Sold, SoldIn, Sellers
<1> QED
  BY <1>2, <1>3

\* An order that becomes whole adds its lines to what was sold.
LEMMA SoldMore ==
  ASSUME TypeOK, NEW id, NEW lines, BecomesWhole(id, lines), NEW i
  PROVE  Sold(i)' = IF i \in DOMAIN lines THEN Sold(i) + lines[i].quantity ELSE Sold(i)
<1> DEFINE S == Sellers(i)
           f == SoldIn(i)
           S1 == Sellers(i)'
           g == SoldIn(i)'
<1>1. /\ Sold(i) = SumFunctionOnSet(f, S) /\ IsFiniteSet(S)
      /\ \A k \in S : f[k] \in Nat
  BY SoldType
<1>2. /\ id \notin S
      /\ S1 = IF i \in DOMAIN lines THEN S \cup {id} ELSE S
  BY DEF BecomesWhole, Sellers
<1>3. /\ \A k \in S : g[k] = f[k]
      /\ i \in DOMAIN lines => g[id] = lines[i].quantity
  BY <1>2 DEF BecomesWhole, Sellers, SoldIn
<1>4. Sold(i)' = SumFunctionOnSet(g, S1)
  BY DEF Sold, SumFunction, SoldIn, Sellers
<1>5. SumFunctionOnSet(g, S) = SumFunctionOnSet(f, S) /\ SumFunctionOnSet(f, S) \in Nat
  <2> HIDE DEF S, f, g
  <2>1. S \in SUBSET S /\ \A k \in S : f[k] \in Int
    BY <1>1
  <2> QED
    BY <1>1, <1>3, <2>1, SumPart, SumNat
<1>6. CASE i \in DOMAIN lines
  <2>1. lines[i].quantity \in Nat
    BY <1>6 DEF BecomesWhole, IsLines, IsTable
  <2>2. IsFiniteSet(S1) /\ S1 = S \cup {id} /\ S1 \ {id} = S /\ id \in S1
    BY <1>1, <1>2, <1>6, FS_AddElement
  <2>3. \A k \in S1 : g[k] \in Int
    BY <1>1, <1>3, <1>6, <2>1, <2>2
  <2> HIDE DEF S, f, S1, g
  <2>4. SumFunctionOnSet(g, S1) = g[id] + SumFunctionOnSet(g, S)
    BY <2>2, <2>3, SumAny
  <2> QED
    BY <1>1, <1>3, <1>4, <1>5, <1>6, <2>1, <2>4
<1>7. CASE i \notin DOMAIN lines
  BY <1>1, <1>2, <1>4, <1>5, <1>7
<1> QED
  BY <1>6, <1>7

\* Inductive: as long as nobody edits, walks hold items that have a row, so that
\* whatever is handed back comes back.
UnitsInv ==
  edits = 0 =>
    /\ \A t \in Tab : HeldItems(req[t]) \subseteq DOMAIN shelf
    /\ \A i \in Item : Units(i) + Sold(i) = Stock(InitialShelf, i)

\* At first every unit is on the shelf.
LEMMA UnitsStart == Init => UnitsInv
<1> SUFFICES ASSUME Init PROVE UnitsInv
  OBVIOUS
<1>1. \A t \in Tab : req[t] = Idle /\ HeldItems(req[t]) = {}
  BY HeldWhere DEF Init, VisitInit, Idle
<1>2. TypeOK /\ DOMAIN orders = {}
  BY TypeInit, EmptySeq, LenProperties DEF Init
<1>3. ASSUME NEW i \in Item
      PROVE  Units(i) + Sold(i) = Stock(InitialShelf, i)
  <2>1. Sold(i) = 0
    <3>1. Sellers(i) = {}
      BY <1>2 DEF Sellers, Whole
    <3>2. Sold(i) = SumFunctionOnSet(SoldIn(i), Sellers(i))
      BY <1>2, SoldType
    <3> QED
      BY <3>1, <3>2, SumEmpty
  <2>2. InFlight(i) = 0
    <3> DEFINE f == [t \in Tab |-> Held(req[t], i)]
    <3>1. (\A t \in Tab : f[t] = 0) /\ InFlight(i) = SumFunctionOnSet(f, Tab)
      BY <1>1 DEF Held, InFlight, SumFunction
    <3> HIDE DEF f
    <3>2. {} \in SUBSET Tab /\ IsFiniteSet(Tab)
      BY CheckoutAssumption
    <3>3. SumFunctionOnSet(f, Tab) = SumFunctionOnSet(f, {})
      BY <3>1, <3>2, SumPart
    <3> QED
      BY <3>1, <3>3, SumEmpty
  <2>3. lost[i] = 0 /\ Stock(shelf, i) = Stock(InitialShelf, i) /\ Stock(shelf, i) \in Nat
    BY CheckoutAssumption, StockType DEF Init
  <2> QED
    BY <2>1, <2>2, <2>3 DEF Units
<1> QED
  BY <1>1, <1>3 DEF UnitsInv

\* As long as nobody edits, a step moves units between shelf, walks, orders
\* and loss.
LEMMA UnitsKept == TypeOK /\ WalkInv /\ UnitsInv /\ [Next]_vars => UnitsInv'
<1> SUFFICES ASSUME TypeOK, WalkInv, UnitsInv, [Next]_vars, edits' = 0
             PROVE  /\ \A t \in Tab : HeldItems(req'[t]) \subseteq DOMAIN shelf'
                    /\ \A i \in Item : Units(i)' + Sold(i)' = Stock(InitialShelf, i)
  BY DEF UnitsInv, Units, Sold, Stock, HeldItems
<1>1. edits \in Nat
  BY CheckoutAssumption, TypeParts DEF OwnTypeOK
<1>2. ASSUME Kept
      PROVE  /\ edits = 0
             /\ \A t \in Tab : HeldItems(req'[t]) \subseteq DOMAIN shelf'
             /\ \A i \in Item : Units(i) + Sold(i) = Stock(InitialShelf, i)
  BY <1>2 DEF Kept, UnitsInv
<1>3. \A i \in Item : Units(i) \in Nat /\ Sold(i) \in Nat
  BY UnitsType, SoldType
<1>4. CASE Quiet
  BY <1>2, <1>4, SoldSame DEF Quiet
<1>5. ASSUME NEW i \in Item, WrittenOff(i)
      PROVE  FALSE
  BY <1>2, <1>5 DEF WrittenOff, UnitsInv
<1>6. ASSUME NEW i \in Item, Edited(i)
      PROVE  FALSE
  BY <1>1, <1>6 DEF Edited
<1>7. ASSUME NEW id, NEW lines, BecomesWhole(id, lines)
      PROVE  \A i \in Item : Units(i)' + Sold(i)' = Stock(InitialShelf, i)
  <2> SUFFICES ASSUME NEW i \in Item
               PROVE  Units(i)' + Sold(i)' = Units(i) + Sold(i)
    BY <1>2, <1>7 DEF BecomesWhole
  <2>1. Sold(i)' = IF i \in DOMAIN lines THEN Sold(i) + lines[i].quantity ELSE Sold(i)
    BY <1>7, SoldMore
  <2>2. Units(i)' = IF i \in DOMAIN lines THEN Units(i) - lines[i].quantity ELSE Units(i)
    BY <1>7 DEF BecomesWhole
  <2>3. i \in DOMAIN lines => lines[i].quantity \in Nat
    BY <1>7 DEF BecomesWhole, IsLines, IsTable
  <2> QED
    BY <1>3, <2>1, <2>2, <2>3
<1>8. ASSUME NEW id, NEW lines, BecomesWhole(id, lines)
      PROVE  \A t \in Tab : HeldItems(req'[t]) \subseteq DOMAIN shelf'
  BY <1>2, <1>8 DEF BecomesWhole
<1> QED
  BY <1>2, <1>4, <1>5, <1>6, <1>7, <1>8, Trades DEF Quiet

\* The accounts, from the invariant.
LEMMA UnitsAre == TypeOK /\ UnitsInv => UnitsAccounted
<1> SUFFICES ASSUME TypeOK, UnitsInv, edits = 0, NEW i \in Item
             PROVE  Stock(shelf, i) + InFlight(i) + Sold(i) + lost[i] = Stock(InitialShelf, i)
  BY DEF UnitsAccounted
<1>1. /\ Stock(shelf, i) \in Nat /\ lost[i] \in Nat
      /\ InFlight(i) \in Nat /\ Sold(i) \in Nat
  BY StockType, FlightType, SoldType, TypeParts DEF VisitTypeOK, OwnTypeOK
<1>2. Units(i) + Sold(i) = Stock(InitialShelf, i)
  BY DEF UnitsInv
<1> QED
  BY <1>1, <1>2 DEF Units

\* Compensation is exact, for any number of walks that interleave and stop
\* anywhere: while the back office keeps out, every unit of the first count is
\* on the shelf, held by one walk, in one whole order, or lost with a walk.
THEOREM UnitsAlwaysAccounted == Spec => []UnitsAccounted
<1>1. TypeOK /\ WalkInv /\ UnitsInv /\ [Next]_vars => TypeOK' /\ WalkInv' /\ UnitsInv'
  BY TypeStep, WalkStep, UnitsKept
<1> QED
  BY <1>1, TypeInit, WalkInit, UnitsStart, UnitsAre, PTL DEF Spec

----------------------------------------------------------------------------
(* The walk implements the abstract sale.                                  *)

\* The first state is a first state of the abstract sale.
LEMMA SaleInit == Init => Abstract!Init
<1> SUFFICES ASSUME Init PROVE Abstract!Init
  OBVIOUS
<1>1. DOMAIN shelf \in SUBSET Item
  BY CheckoutAssumption DEF Init, IsShelf, IsTable
<1>2. [i \in Item |-> Stock(shelf, i) + InFlight(i) + lost[i]] \in [Item -> Nat]
  BY TypeInit, UnitsType DEF Units
<1>3. Whole = {}
  BY EmptySeq, LenProperties DEF Init, Whole
<1> QED
  BY <1>1, <1>2, <1>3 DEF Init, Abstract!Init

\* Each kind of step is a step of the abstract sale, or none.
LEMMA SaleStep == TypeOK /\ WalkInv /\ [Next]_vars => [Abstract!Next]_(Abstract!vars)
<1> SUFFICES ASSUME TypeOK, WalkInv, [Next]_vars
             PROVE  [Abstract!Next]_(Abstract!vars)
  OBVIOUS
<1> DEFINE units == [i \in Item |-> Stock(shelf, i) + InFlight(i) + lost[i]]
           sold == [k \in Whole |-> Quantity(orders[k].lines)]
<1>1. \A i \in Item : units[i] = Units(i) /\ units'[i] = Units(i)'
  BY DEF Units
<1>2. \A i \in Item : Units(i) \in Nat /\ Units(i)' \in Nat
  <2>1. TypeOK'
    BY TypeStep
  <2>2. (\A i \in Item : Units(i) \in Nat)'
    BY <2>1, UnitsType, PTL
  <2> QED
    BY <2>2, UnitsType
<1>3. SameSales => sold' = sold
  BY DEF SameSales, Quantity
<1>4. ASSUME NEW i \in Item, \A j \in Item \ {i} : Units(j)' = Units(j)
      PROVE  units' = [units EXCEPT ![i] = units'[i]]
  BY <1>1, <1>4
<1>5. CASE Quiet
  <2>1. units' = units /\ sold' = sold /\ DOMAIN shelf' = DOMAIN shelf /\ edits' = edits
    BY <1>1, <1>3, <1>5 DEF Quiet, Kept
  <2> QED
    BY <2>1 DEF Abstract!vars
<1>6. ASSUME NEW i \in Item, WrittenOff(i)
      PROVE  Abstract!Next
  <2>1. units'[i] \in 0 .. units[i]
    BY <1>1, <1>2, <1>6 DEF WrittenOff
  <2>2. units' = [units EXCEPT ![i] = units'[i]]
    BY <1>4, <1>6 DEF WrittenOff
  <2>3. i \notin DOMAIN shelf /\ DOMAIN shelf' = DOMAIN shelf /\ edits' = edits /\ sold' = sold
    BY <1>3, <1>6 DEF WrittenOff, Kept
  <2>4. Abstract!WriteOff(i)
    BY <2>1, <2>2, <2>3 DEF Abstract!WriteOff
  <2> QED
    BY <2>4 DEF Abstract!Next
<1>7. ASSUME NEW i \in Item, Edited(i)
      PROVE  Abstract!Next
  <2>1. units'[i] \in Nat
    BY <1>1, <1>2
  <2>2. units' = [units EXCEPT ![i] = units'[i]]
    BY <1>4, <1>7 DEF Edited
  <2>3. /\ DOMAIN shelf' \in {DOMAIN shelf, DOMAIN shelf \cup {i}, DOMAIN shelf \ {i}}
        /\ edits' = edits + 1 /\ sold' = sold
    BY <1>3, <1>7 DEF Edited
  <2>4. Abstract!Edit(i)
    BY <2>1, <2>2, <2>3 DEF Abstract!Edit
  <2> QED
    BY <2>4 DEF Abstract!Next
<1>8. ASSUME NEW id, NEW lines, BecomesWhole(id, lines)
      PROVE  Abstract!Next
  <2>1. /\ id \notin DOMAIN sold /\ DOMAIN sold' = DOMAIN sold \cup {id}
        /\ sold'[id] = Quantity(lines) /\ \A k \in DOMAIN sold : sold'[k] = sold[k]
    BY <1>8 DEF BecomesWhole, Quantity
  <2>2. sold' = [k \in DOMAIN sold \cup {id} |-> IF k = id THEN sold'[id] ELSE sold[k]]
    BY <2>1
  <2>3. /\ DOMAIN Quantity(lines) = DOMAIN lines /\ DOMAIN lines # {}
        /\ \A i \in DOMAIN lines : /\ i \in Item /\ Quantity(lines)[i] = lines[i].quantity
                                   /\ lines[i].quantity \in Nat \ {0}
    BY <1>8 DEF BecomesWhole, Quantity, IsLines, IsTable
  <2>4. \A i \in DOMAIN Quantity(lines) :
          i \in Item /\ Quantity(lines)[i] > 0 /\ Quantity(lines)[i] <= units[i]
    BY <1>1, <1>8, <2>3 DEF BecomesWhole
  <2>5. units' = [i \in Item |-> IF i \in DOMAIN Quantity(lines)
                                 THEN units[i] - Quantity(lines)[i] ELSE units[i]]
    BY <1>1, <1>8, <2>3 DEF BecomesWhole
  <2>6. DOMAIN shelf' = DOMAIN shelf /\ edits' = edits
    BY <1>8 DEF BecomesWhole, Kept
  <2>7. Abstract!Sell(id)
    BY <2>1, <2>2, <2>3, <2>4, <2>5, <2>6 DEF Abstract!Sell
  <2>8. id \in DOMAIN sold'
    BY <2>1
  <2> QED
    BY <2>7, <2>8 DEF Abstract!Next
<1> QED
  BY <1>5, <1>6, <1>7, <1>8, Trades

\* The edge checkout, a walk of statements that each commit alone, implements
\* the abstract sale, for any shop and any number of visitors: an order is sold
\* when it becomes whole, from units its walk holds; handing back, stopping and
\* losing a race sell nothing and make no unit.
THEOREM ImplementsSale == Spec => Sells
<1>1. TypeOK /\ WalkInv /\ [Next]_vars => TypeOK' /\ WalkInv' /\ [Abstract!Next]_(Abstract!vars)
  BY TypeStep, WalkStep, SaleStep
<1> QED
  BY <1>1, TypeInit, WalkInit, SaleInit, PTL DEF Spec, Sells, Abstract!Spec
=============================================================================

----------------------------- MODULE SqliteShop -----------------------------
(***************************************************************************)
(* The native shop as a whole: the checkout, the life of the orders it     *)
(* sells and the back office, on the same tables.  Here a cancellation     *)
(* meets a size the back office removed, the sweep an order that was sold  *)
(* while it ran, and an order page whatever its two readings gave it.      *)
(*                                                                         *)
(* The checkout is SqliteCheckout and the life of an order SqliteOrders,   *)
(* started with no order; this module adds the products the back office    *)
(* creates and the order pages, and says what the parts leave unchanged.   *)
(***************************************************************************)
EXTENDS SqliteCheckout

CONSTANTS FirstProducts,   \* the skus the catalog starts with
          OneSize,         \* the item of each sku that has no size in its name
          Desk,            \* order pages that may be open at once
          MaxRequests,     \* bound: requests from order pages
          MaxActs          \* bound: changes of cart, edits and requests together;
                           \*   no page is opened when they are spent

ASSUME ShopAssumption ==
  /\ FirstProducts \subseteq Sku
  /\ OneSize \in [Sku -> Item] /\ \A s \in Sku : SkuOf[OneSize[s]] = s
  /\ \A i \in DOMAIN InitialShelf : SkuOf[i] \in FirstProducts
  /\ MaxRequests \in Nat /\ MaxActs \in Nat

VARIABLES
  known,                   \* the rows of products
  desk, sweep, requests,   \* what SqliteOrders adds
  page,                    \* the order page each desk shows
  count,                   \* history: each row when it was last counted, less
                           \*   what orders had taken and given back until then
  astray                   \* history: units given back to rows that are gone,
                           \*   by product, since its last resum

Life == INSTANCE SqliteOrders WITH Bought <- <<>>

counting == <<count, astray>>
life == <<desk, sweep, requests, page>>
shopVars == <<vars, known, life, counting>>

Closed == [id |-> 0]

Spare == changes + edits + requests < MaxActs

\* What the orders moved on row i: taken when sold, given back by each
\* cancellation on record.
Moved(i) ==
  SumFunction([id \in {k \in DOMAIN orders : i \in DOMAIN orders[k].lines} |->
    (Cardinality(Life!Cancellations(id)) - 1) * orders[id].lines[i].quantity])

ShopInit ==
  /\ Init
  /\ known = FirstProducts
  /\ desk = [d \in Desk |-> Idle] /\ sweep = Life!NoSweep /\ requests = 0
  /\ page = [d \in Desk |-> Closed]
  /\ count = [i \in Item |-> Stock(InitialShelf, i)]
  /\ astray = [s \in Sku |-> 0]

----------------------------------------------------------------------------
(* Checkout.  A request that fails on the way is left to SqliteCheckout.    *)

Checkout ==
  /\ \E t \in Tab :
       \/ \E i \in Item, q \in Quantities : Spare /\ Change(t, i, q)
       \/ Submit(t) \/ Progress(t)
  /\ UNCHANGED <<known, life, counting>>

----------------------------------------------------------------------------
(* The back office, on the products there are.                             *)

\* A row was counted and its product resummed.
Counted(i) ==
  /\ count' = [count EXCEPT ![i] = Stock(shelf', i) - Moved(i)]
  /\ astray' = [astray EXCEPT ![SkuOf[i]] = 0]

EditRow(i) ==
  /\ Spare
  /\ SkuOf[i] \in known
  /\ (\E n \in Counts : SetStock(i, n) \/ AddVariant(i, n)) \/ RemoveVariant(i)
  /\ Counted(i)
  /\ UNCHANGED <<known, life>>

EditPrice(s) ==
  /\ Spare
  /\ s \in known
  /\ \E n \in PriceTags : SetPrice(s, n)
  /\ UNCHANGED <<known, life, counting>>

\* Mutation: the second insert forgotten.
ProductOnly(s, n) == shelf' = shelf

\* The one row a new product can be bought from.
FirstRow(s, n) == shelf' = UpsertVariant(shelf, OneSize[s], AtLeastZero(n))

\* A sku that is taken is turned away; the two inserts are one transaction.
CreateProduct(s, n, p) ==
  /\ Spare
  /\ s \notin known
  /\ edits < MaxEdits
  /\ edits' = edits + 1
  /\ known' = known \cup {s}
  /\ FirstRow(s, n)
  /\ total' = [total EXCEPT ![s] = AtLeastZero(n)]
  /\ price' = [price EXCEPT ![s] = AtLeastZero(p)]
  /\ Counted(OneSize[s])
  /\ UNCHANGED <<visits, orders, faults, life>>

BackOffice ==
  \/ \E i \in Item : EditRow(i)
  \/ \E s \in Sku : EditPrice(s) \/ \E n \in Counts, p \in PriceTags : CreateProduct(s, n, p)

----------------------------------------------------------------------------
(* An order page: the order is read for its buttons, and read again for    *)
(* its timeline, when the page opens and after every answer.               *)

Rung(status) ==
  [paid |-> 0, packing |-> 1, shipped |-> 2, delivered |-> 3, cancelled |-> 4][status]

Open(d) == page[d] # Closed

Show(d, p) == page' = [page EXCEPT ![d] = p]

OpenPage(d, id) ==
  /\ ~Open(d)
  /\ desk[d] = Idle
  /\ Spare
  /\ Show(d, [id |-> id, step |-> orders[id].status, cancellable |-> orders[id].status \in Workshop,
              drawn |-> FALSE, timeline |-> 0])
  /\ UNCHANGED <<vars, known, desk, sweep, requests, counting>>

\* The timeline is the tracking up to now; its lines never change.
DrawTimeline(d) ==
  /\ Open(d) /\ ~page[d].drawn
  /\ Show(d, [page[d] EXCEPT !.drawn = TRUE, !.timeline = Len(orders[page[d].id].tracking)])
  /\ UNCHANGED <<vars, known, desk, sweep, requests, counting>>

\* Mutation: the version does not move, and the timeline is not read again.
AnsweredOnly(p, status) == [p EXCEPT !.step = status]

\* The answer becomes the step, and moving the version draws the timeline again.
Answered(p, status) == [p EXCEPT !.step = status, !.drawn = FALSE]

\* The buttons hide from the rung they were last told.
MayAdvance(d) == Open(d) /\ Rung(page[d].step) < 3

MayCancel(d) == Open(d) /\ page[d].cancellable /\ Rung(page[d].step) < 2

\* One click of a page is in flight at a time; the page itself hides no button
\* while it waits.
ClickAdvance(d) ==
  /\ Spare
  /\ MayAdvance(d)
  /\ LET id == page[d].id
     IN  \/ Life!AskAdvance(d, id) /\ UNCHANGED page
         \/ /\ ~HasNextStep(orders[id].status)
            /\ Life!Receive(d, Idle)
            /\ Show(d, Answered(page[d], orders[id].status))
  /\ UNCHANGED <<price, visits, edits, known, counting>>

Advance(d) ==
  /\ Life!Advance(d)
  /\ Show(d, Answered(page[d], NextStep(desk[d].seen)))
  /\ UNCHANGED <<price, visits, edits, known, counting>>

\* The form leaves the page; the redirect opens a new one.
ClickCancel(d) ==
  /\ Spare
  /\ MayCancel(d)
  /\ LET id == page[d].id
     IN  \/ Life!AskCancel(d, id)
         \/ orders[id].status \notin Workshop /\ Life!Receive(d, Idle)
  /\ Show(d, Closed)
  /\ UNCHANGED <<price, visits, edits, known, counting>>

\* Units of a row that is gone go to the product and to no row.
Cancel(d) ==
  /\ Life!Cancel(d)
  /\ LET lines == orders[desk[d].id].lines
         gone == Restrict(lines, DOMAIN lines \ DOMAIN shelf)
     IN astray' = [s \in Sku |-> astray[s] + UnitsOf(gone, s)]
  /\ UNCHANGED <<price, visits, edits, known, page, count>>

OrderPage ==
  \E d \in Desk :
    \/ \E id \in DOMAIN orders : OpenPage(d, id)
    \/ DrawTimeline(d)
    \/ ClickAdvance(d) \/ Advance(d) \/ ClickCancel(d) \/ Cancel(d)

----------------------------------------------------------------------------
Sweep ==
  /\ Life!Sweep
  /\ UNCHANGED <<price, visits, edits, known, page, counting>>

SweepFails ==
  /\ Life!SweepFails
  /\ UNCHANGED <<price, visits, edits, known, page, counting>>

ShopNext == Checkout \/ BackOffice \/ OrderPage \/ Sweep \/ SweepFails

ShopSpec == ShopInit /\ [][ShopNext]_shopVars

\* As in SqliteOrders: march_parcels loops on its interval, nothing else must
\* ever happen.
FairShop == ShopSpec /\ WF_shopVars(Sweep)

----------------------------------------------------------------------------
\* The shape of the tables, the pages and the histories.
ShopTypeOK ==
  /\ IsShelf(shelf) /\ \A i \in DOMAIN shelf : SkuOf[i] \in known
  /\ \A s \in Sku : total[s] >= 0
  /\ known \in SUBSET Sku
  /\ \A d \in Desk : Life!IsRequest(desk[d])
  /\ DOMAIN sweep \subseteq DOMAIN orders
  /\ requests \in 0 .. MaxRequests
  /\ \A d \in Desk : Open(d) =>
       page[d] \in [id : DOMAIN orders, step : Statuses, cancellable : BOOLEAN,
                    drawn : BOOLEAN, timeline : Nat]
  /\ count \in [Item -> Int] /\ astray \in [Sku -> Nat]

\* products.stock is what the product page calls sold out or low, and the
\* guard of the column is what a sale could trip over.  Sales, cancellations
\* and edits in any order leave it at the sum of the sizes, plus what was
\* given back to sizes removed since: it may promise units nobody can buy,
\* and never hides units that are there, nor stops a sale.
TotalExplained == \A s \in Sku : total[s] = ShelfSum(shelf, s) + astray[s]

\* The shelf can be audited across the whole shop: a row holds its last count,
\* less what was sold and plus what was cancelled since, however the sales,
\* stale cancellations, removals and counts followed each other.
ShelfBalances == \A i \in DOMAIN shelf : shelf[i] = count[i] + Moved(i)

\* An order page agrees with itself: once drawn, the timeline holds the step
\* its buttons go by, although the two come from different readings and the
\* sweep and other pages write in between.
PageAgrees ==
  \A d \in Desk : Open(d) /\ page[d].drawn =>
    \E k \in 1 .. page[d].timeline : orders[page[d].id].tracking[k] = page[d].step

\* The shop as a whole implements the abstract sale, orders coming back to the
\* sizes still there: whatever order pages, sweeps and removals do between them,
\* an order is sold whole from units on the shelf, and a cancellation returns
\* what one order holds and nothing else.
SellsAndTakesBack == Abstract!SpecWithReturns

Parcels == INSTANCE Parcel WITH
  status <- [id \in DOMAIN orders |-> orders[id].status],
  reached <- [id \in DOMAIN orders |-> Range(orders[id].tracking)]

\* Orders that are sold while sweeps run and pages are open climb as promised
\* too: no rung is jumped, and each status is on record with the rung it came from.
ShopClimbs == Parcels!Spec

\* Every order ever sold is delivered or cancelled in the end, one sold while
\* a sweep was running included.
EverySaleSettles ==
  <>[](\A id \in DOMAIN orders : orders[id].status \in {"delivered", "cancelled"})

----------------------------------------------------------------------------
(* What the schema says, and the whole shop does not keep.                 *)

\* products.stock: "sum of the variants".  A cancellation that comes after a
\* size was removed gives its units back to the product and to no variant.
SumOfVariants == TotalIsSum

\* "Every product has at least one variant row": nothing stops the back office
\* from removing the last size.
EveryProductHasARow == \A s \in known : \E i \in DOMAIN shelf : SkuOf[i] = s
=============================================================================

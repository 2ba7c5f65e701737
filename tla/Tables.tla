------------------------------ MODULE Tables -------------------------------
(***************************************************************************)
(* The shop's tables and the SQL statements that move stock, as operators  *)
(* from a table to the table the statement leaves.  Both backends send the *)
(* same statements; they differ in which of them form one transaction.     *)
(*                                                                         *)
(* An item is a (sku, size) pair, the key of `variants' and, with the cart *)
(* id, of `cart_lines'.  The tables:                                       *)
(*   shelf   variants.stock: a function whose domain is the rows present   *)
(*   total   products.stock: a function over all skus (rows never leave)   *)
(*   a cart  a function from the items it holds to their quantities        *)
(***************************************************************************)
EXTENDS Rules

CONSTANTS Item,   \* every (sku, size) pair a visitor or the back office names
          Sku,    \* the rows of `products'
          SkuOf   \* the sku of each item

ASSUME CatalogAssumption ==
  /\ SkuOf \in [Item -> Sku]
  /\ \A s \in Sku : \E i \in Item : SkuOf[i] = s

\* A table has some rows, never infinitely many.
IsTable(f, Values) ==
  DOMAIN f \subseteq Item /\ IsFiniteSet(DOMAIN f) /\ f \in [DOMAIN f -> Values]

IsShelf(f) == IsTable(f, Nat)

\* check (quantity > 0)
IsCart(f) == IsTable(f, Nat \ {0})

\* Cart or order lines: quantities and the price each line was read with.
IsLines(f) == IsTable(f, [quantity : Nat \ {0}, price : Nat])

EmptyCart == [i \in {} |-> 0]

\* coalesce((select stock from variants where ...), 0)
Stock(shelf, i) == IF i \in DOMAIN shelf THEN shelf[i] ELSE 0

\* The units of sku s among lines, and on the shelf.
UnitsOf(lines, s) ==
  SumFunction([i \in {j \in DOMAIN lines : SkuOf[j] = s} |-> lines[i].quantity])

ShelfSum(shelf, s) == SumFunctionOnSet(shelf, {i \in DOMAIN shelf : SkuOf[i] = s})

----------------------------------------------------------------------------
(* Selling and giving back.                                                *)

\* Mutation: the guard on the stock is forgotten.
CoversRow(shelf, i, q) == i \in DOMAIN shelf

\* update variants set stock = stock - q where ... and stock >= q, for a line
Covers(shelf, i, q) == i \in DOMAIN shelf /\ shelf[i] >= q

CoversAll(shelf, lines) == \A i \in DOMAIN lines : Covers(shelf, i, lines[i].quantity)

TakeAll(shelf, lines) ==
  [i \in DOMAIN shelf |->
     IF i \in DOMAIN lines THEN shelf[i] - lines[i].quantity ELSE shelf[i]]

\* Mutation: one unit per line, whatever its quantity.
GiveOneBack(shelf, lines) ==
  [i \in DOMAIN shelf |-> IF i \in DOMAIN lines THEN shelf[i] + 1 ELSE shelf[i]]

\* update variants set stock = stock + q where ...: a row that is gone stays gone
GiveBackAll(shelf, lines) ==
  [i \in DOMAIN shelf |->
     IF i \in DOMAIN lines THEN shelf[i] + lines[i].quantity ELSE shelf[i]]

\* Mutation: one unit per line, whatever its quantity.
TakeOneEach(total, lines) ==
  [s \in Sku |-> total[s] - SumFunction([i \in {j \in DOMAIN lines : SkuOf[j] = s} |-> 1])]

\* update products set stock = stock -/+ q where sku = ..., once per line
TakeTotals(total, lines) == [s \in Sku |-> total[s] - UnitsOf(lines, s)]

GiveBackTotals(total, lines) == [s \in Sku |-> total[s] + UnitsOf(lines, s)]

----------------------------------------------------------------------------
(* The back office.                                                        *)

\* add_variant's upsert
UpsertVariant(shelf, i, n) ==
  [j \in DOMAIN shelf \cup {i} |-> IF j = i THEN n ELSE shelf[j]]

\* set_stock's update: it matches no row when the variant is gone
UpdateVariant(shelf, i, n) == [j \in DOMAIN shelf |-> IF j = i THEN n ELSE shelf[j]]

DeleteVariant(shelf, i) == Restrict(shelf, DOMAIN shelf \ {i})

\* resum_stock
Resum(total, shelf, s) == [total EXCEPT ![s] = ShelfSum(shelf, s)]

----------------------------------------------------------------------------
(* The cart.                                                               *)

\* remove_from_cart, and set_quantity's upsert
DeleteLine(cart, i) == Restrict(cart, DOMAIN cart \ {i})

UpsertLine(cart, i, q) ==
  [j \in DOMAIN cart \cup {i} |-> IF j = i THEN q ELSE cart[j]]

\* Mutations: without coalesce, the first statement leaves the lines whose row
\* is gone; and the schema without its check.
DeleteSoldOut(cart, shelf) ==
  Restrict(cart, {i \in DOMAIN cart : i \in DOMAIN shelf => shelf[i] > 0})

Unchecked(cart, shelf) == FALSE

\* clamp_cart_to_stock, its two statements.  A line whose row is gone counts
\* as out of stock in the first; in the second it compares with NULL, so it
\* is left alone.
ClampDelete(cart, shelf) == Restrict(cart, {i \in DOMAIN cart : Stock(shelf, i) > 0})

TooLong(cart, shelf) == {i \in DOMAIN cart : i \in DOMAIN shelf /\ cart[i] > shelf[i]}

ClampUpdate(cart, shelf) ==
  [i \in DOMAIN cart |-> IF i \in TooLong(cart, shelf) THEN shelf[i] ELSE cart[i]]

\* check (quantity > 0): the update would bring a line down to zero
ClampUpdateFails(cart, shelf) == \E i \in TooLong(cart, shelf) : shelf[i] = 0

\* What place_order reads: each line with the price its product has now.
PricedLines(cart, price) ==
  [i \in DOMAIN cart |-> [quantity |-> cart[i], price |-> price[SkuOf[i]]]]
=============================================================================

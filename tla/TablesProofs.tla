---------------------------- MODULE TablesProofs ----------------------------
(***************************************************************************)
(* What the statements of Tables and the rules of Rules return, for any    *)
(* catalog: lemmas the proofs about the checkouts and the orders cite.     *)
(***************************************************************************)
EXTENDS Tables, FiniteSetTheorems, SequenceTheorems, TLAPS

----------------------------------------------------------------------------
(* Sums over finite sets.                                                   *)

\* Induction, with a set in place of a predicate: a set that holds every part of
\* S whose smaller parts it holds, holds every part of S.
LEMMA PartsInduction ==
  ASSUME NEW S, IsFiniteSet(S), NEW G,
         \A T \in SUBSET S : (\A U \in SUBSET T : U # T => U \in G) => T \in G
  PROVE  \A T \in SUBSET S : T \in G
<1> DEFINE B == {T \in SUBSET S : T \notin G}
<1>1. SUFFICES ASSUME B # {} PROVE FALSE
  OBVIOUS
<1>2. IsWellFoundedOn(StrictSubsetOrdering(S), SUBSET S)
  BY FS_StrictSubsetOrderingWellFounded, FS_FiniteSubsetsOfFinite
<1>3. B \subseteq SUBSET S
  OBVIOUS
<1>4. PICK T \in B : \A U \in B : ~(<<U, T>> \in StrictSubsetOrdering(S))
  <2> HIDE DEF B
  <2> QED BY <1>1, <1>2, <1>3, WFMin
<1>5. \A U \in SUBSET T : U # T => U \in G
  BY <1>4 DEF StrictSubsetOrdering
<1> QED
  BY <1>4, <1>5

(* The fold of SumFunctionOnSet, which takes the terms in the order CHOOSE  *)
(* gives them.                                                              *)

First(s) == CHOOSE x \in s : TRUE

SumUpTo(f, it, s) == IF s = {} THEN 0 ELSE f[First(s)] + it[s \ {First(s)}]

SumOver(f, S) == CHOOSE it : it = [s \in SUBSET S |-> SumUpTo(f, it, s)]

\* The library's sum is that fold.
LEMMA SumDef == ASSUME NEW f, NEW S PROVE SumFunctionOnSet(f,S) = SumOver(f, S)[S]
BY Zenon DEF SumFunctionOnSet, FoldFunctionOnSet, MapThenFoldSet, SumOver, SumUpTo, First

\* What is chosen from a set that is not empty is in it.
LEMMA FirstIn == ASSUME NEW s, s # {} PROVE First(s) \in s
BY DEF First

\* The recursion has a solution: by induction on how many elements the sets it
\* is followed down to may have.
LEMMA SumOverEquation ==
  ASSUME NEW f, NEW S, IsFiniteSet(S)
  PROVE  \A s \in SUBSET S : SumOver(f, S)[s] = SumUpTo(f, SumOver(f, S), s)
<1> DEFINE Small(n) == {s \in SUBSET S : Cardinality(s) <= n}
           Fit(it, n) == it = [s \in Small(n) |-> SumUpTo(f, it, s)]
           G == {T \in SUBSET S : \E it : Fit(it, Cardinality(T))}
<1>0. \A s \in SUBSET S : IsFiniteSet(s) /\ Cardinality(s) \in Nat
  BY FS_Subset, FS_CardinalityType
<1>1. {} \in G
  <2>1. Cardinality({}) = 0 /\ \A s \in Small(0) : s = {}
    BY <1>0, FS_EmptySet
  <2>2. Fit([s \in Small(0) |-> 0], 0)
    BY <2>1 DEF SumUpTo
  <2> QED
    BY <2>1, <2>2
<1>2. ASSUME NEW n \in Nat, NEW g, Fit(g, n)
      PROVE  \E it : Fit(it, n + 1)
  <2> DEFINE h == [s \in Small(n + 1) |-> SumUpTo(f, g, s)]
  <2>2. ASSUME NEW s \in Small(n + 1), s # {}
        PROVE  h[s \ {First(s)}] = g[s \ {First(s)}]
    <3> DEFINE r == s \ {First(s)}
    <3>1. Cardinality(r) = Cardinality(s) - 1
      BY <1>0, <2>2, FirstIn, FS_RemoveElement
    <3>2. r \in Small(n) /\ r \in Small(n + 1)
      BY <1>0, <3>1
    <3>3. g[r] = SumUpTo(f, g, r)
      BY <1>2, <3>2
    <3> QED
      BY <3>2, <3>3
  <2>3. \A s \in Small(n + 1) : SumUpTo(f, g, s) = SumUpTo(f, h, s)
    <3> HIDE DEF h
    <3> QED BY <2>2 DEF SumUpTo
  <2>4. Fit(h, n + 1)
    BY <2>3
  <2> QED
    BY <2>4
<1>3. ASSUME NEW T \in SUBSET S, \A U \in SUBSET T : U # T => U \in G
      PROVE  T \in G
  <2>1. CASE T = {}
    BY <1>1, <2>1
  <2>2. CASE T # {}
    <3>1. PICK x \in T : TRUE
      BY <2>2
    <3>2. T \ {x} \in G
      BY <1>3, <3>1
    <3>3. Cardinality(T) = Cardinality(T \ {x}) + 1 /\ Cardinality(T \ {x}) \in Nat
      BY <1>0, <3>1, FS_RemoveElement
    <3>4. \E it : Fit(it, Cardinality(T \ {x}))
      BY <3>2
    <3>5. \E it : Fit(it, Cardinality(T))
      <4> HIDE DEF Fit
      <4> QED BY <1>2, <3>3, <3>4
    <3> QED
      BY <3>5
  <2> QED
    BY <2>1, <2>2
<1>4. S \in G
  <2> HIDE DEF G
  <2> QED BY <1>3, PartsInduction
<1>5. SUBSET S = Small(Cardinality(S))
  BY FS_CardinalityType, FS_Subset, <1>0
<1>6. \E it : it = [s \in SUBSET S |-> SumUpTo(f, it, s)]
  BY <1>4, <1>5
<1>7. PICK it : it = SumOver(f, S)
  OBVIOUS
<1>8. it = [s \in SUBSET S |-> SumUpTo(f, it, s)]
  BY <1>6, <1>7 DEF SumOver
<1> QED
  BY <1>7, <1>8

\* The fold of a part does not depend on the set it is a part of.
LEMMA SumOverAgrees ==
  ASSUME NEW f, NEW S, IsFiniteSet(S), NEW R \in SUBSET S
  PROVE  SumOver(f, S)[R] = SumFunctionOnSet(f, R)
<1> DEFINE G == {T \in SUBSET R : SumOver(f, R)[T] = SumOver(f, S)[T]}
<1>1. IsFiniteSet(R)
  BY FS_Subset
<1>2. ASSUME NEW T \in SUBSET R, \A U \in SUBSET T : U # T => U \in G
      PROVE  T \in G
  <2>1. SumOver(f, R)[T] = SumUpTo(f, SumOver(f, R), T) /\ SumOver(f, S)[T] = SumUpTo(f, SumOver(f, S), T)
    BY <1>1, SumOverEquation
  <2>2. T # {} => T \ {First(T)} \in G
    BY <1>2, FirstIn
  <2> QED
    BY <2>1, <2>2 DEF SumUpTo
<1>3. R \in G
  <2> HIDE DEF G
  <2> QED BY <1>1, <1>2, PartsInduction
<1> QED
  BY <1>3, SumDef

\* Nothing adds up to zero.
LEMMA SumEmpty == ASSUME NEW f PROVE SumFunctionOnSet(f, {}) = 0
<1>1. IsFiniteSet({}) /\ {} \in SUBSET {}
  BY FS_EmptySet
<1>2. SumOver(f, {})[{}] = SumUpTo(f, SumOver(f, {}), {})
  BY <1>1, SumOverEquation
<1> QED
  BY <1>2, SumDef DEF SumUpTo

\* The chosen term, then the others.
LEMMA SumFirst ==
  ASSUME NEW f, NEW S, IsFiniteSet(S), S # {}
  PROVE  SumFunctionOnSet(f, S) = f[First(S)] + SumFunctionOnSet(f, S \ {First(S)})
<1>1. S \in SUBSET S /\ S \ {First(S)} \in SUBSET S
  OBVIOUS
<1>2. SumOver(f, S)[S] = SumUpTo(f, SumOver(f, S), S)
  BY <1>1, SumOverEquation
<1> QED
  BY <1>1, <1>2, SumDef, SumOverAgrees DEF SumUpTo

\* A sum of integers is one, and any term of it may be taken first.
LEMMA SumAny ==
  ASSUME NEW f, NEW S, IsFiniteSet(S), \A x \in S : f[x] \in Int
  PROVE  /\ SumFunctionOnSet(f, S) \in Int
         /\ \A y \in S : SumFunctionOnSet(f, S) = f[y] + SumFunctionOnSet(f, S \ {y})
<1> DEFINE Sum(T) == SumFunctionOnSet(f, T)
           G == {T \in SUBSET S : Sum(T) \in Int /\ \A y \in T : Sum(T) = f[y] + Sum(T \ {y})}
<1>1. ASSUME NEW T \in SUBSET S, \A U \in SUBSET T : U # T => U \in G
      PROVE  T \in G
  <2> HIDE DEF Sum
  <2>1. CASE T = {}
    BY <2>1, SumEmpty DEF Sum
  <2>2. CASE T # {}
    <3> DEFINE c == First(T)
    <3>1. c \in T /\ T \ {c} \in G
      BY <1>1, <2>2, FirstIn
    <3>2. Sum(T) = f[c] + Sum(T \ {c})
      BY <2>2, SumFirst, FS_Subset DEF Sum
    <3> HIDE DEF c
    <3>3. Sum(T) \in Int
      BY <3>1, <3>2
    <3>4. ASSUME NEW y \in T, y # c
          PROVE  Sum(T) = f[y] + Sum(T \ {y})
      <4>1. T \ {y} \in G /\ (T \ {y}) \ {c} = (T \ {c}) \ {y}
        BY <1>1, <3>4
      <4>2. Sum(T \ {y}) = f[c] + Sum((T \ {y}) \ {c})
        BY <3>1, <3>4, <4>1
      <4>3. Sum(T \ {c}) = f[y] + Sum((T \ {c}) \ {y})
        BY <3>1, <3>4
      <4>4. (T \ {c}) \ {y} \in G
        BY <1>1, <3>4
      <4> QED
        BY <3>1, <3>2, <3>4, <4>1, <4>2, <4>3, <4>4
    <3> QED
      BY <3>2, <3>3, <3>4
  <2> QED
    BY <2>1, <2>2
<1>2. S \in G
  <2> HIDE DEF G
  <2> QED BY <1>1, PartsInduction
<1> QED
  BY <1>2

\* Terms added two by two.
LEMMA SumPlus ==
  ASSUME NEW f, NEW g, NEW h, NEW S, IsFiniteSet(S),
         \A x \in S : f[x] \in Int /\ g[x] \in Int /\ h[x] = f[x] + g[x]
  PROVE  SumFunctionOnSet(h, S) = SumFunctionOnSet(f, S) + SumFunctionOnSet(g, S)
<1> DEFINE G == {T \in SUBSET S : SumFunctionOnSet(h, T) = SumFunctionOnSet(f, T) + SumFunctionOnSet(g, T)}
<1>1. ASSUME NEW T \in SUBSET S, \A U \in SUBSET T : U # T => U \in G
      PROVE  T \in G
  <2>1. CASE T = {}
    BY <2>1, SumEmpty
  <2>2. CASE T # {}
    <3>1. PICK c \in T : TRUE
      BY <2>2
    <3>2. T \ {c} \in G /\ IsFiniteSet(T) /\ IsFiniteSet(T \ {c})
      BY <1>1, FS_Subset
    <3>3. /\ SumFunctionOnSet(f, T) = f[c] + SumFunctionOnSet(f, T \ {c})
          /\ SumFunctionOnSet(g, T) = g[c] + SumFunctionOnSet(g, T \ {c})
          /\ SumFunctionOnSet(h, T) = h[c] + SumFunctionOnSet(h, T \ {c})
      <4>1. \A x \in T : f[x] \in Int /\ g[x] \in Int /\ h[x] \in Int
        OBVIOUS
      <4> QED
        BY <3>2, <4>1, SumAny
    <3>4. SumFunctionOnSet(f, T \ {c}) \in Int /\ SumFunctionOnSet(g, T \ {c}) \in Int
      BY <3>2, SumAny
    <3>5. f[c] \in Int /\ g[c] \in Int /\ h[c] = f[c] + g[c]
      OBVIOUS
    <3>6. SumFunctionOnSet(h, T \ {c}) = SumFunctionOnSet(f, T \ {c}) + SumFunctionOnSet(g, T \ {c})
      BY <3>2
    <3>7. SumFunctionOnSet(h, T) = SumFunctionOnSet(f, T) + SumFunctionOnSet(g, T)
      BY <3>3, <3>4, <3>5, <3>6
    <3> QED
      BY <3>7
  <2> QED
    BY <2>1, <2>2
<1>2. S \in G
  <2> HIDE DEF G
  <2> QED BY <1>1, PartsInduction
<1> QED
  BY <1>2

\* Counts add up to a count.
LEMMA SumNat ==
  ASSUME NEW f, NEW S, IsFiniteSet(S), \A x \in S : f[x] \in Nat
  PROVE  SumFunctionOnSet(f, S) \in Nat
<1> DEFINE G == {T \in SUBSET S : SumFunctionOnSet(f, T) \in Nat}
<1>1. ASSUME NEW T \in SUBSET S, \A U \in SUBSET T : U # T => U \in G
      PROVE  T \in G
  <2>1. CASE T = {}
    BY <2>1, SumEmpty
  <2>2. CASE T # {}
    <3>1. T \ {First(T)} \in G /\ IsFiniteSet(T) /\ First(T) \in T
      BY <1>1, <2>2, FS_Subset, FirstIn
    <3>2. SumFunctionOnSet(f, T) = f[First(T)] + SumFunctionOnSet(f, T \ {First(T)})
      BY <2>2, <3>1, SumFirst
    <3> QED
      BY <3>1, <3>2
  <2> QED
    BY <2>1, <2>2
<1>2. S \in G
  <2> HIDE DEF G
  <2> QED BY <1>1, PartsInduction
<1> QED
  BY <1>2

\* Zeros do not count; and, with S for its own part, equal terms have equal sums.
LEMMA SumPart ==
  ASSUME NEW f, NEW g, NEW S, IsFiniteSet(S), NEW R \in SUBSET S,
         \A x \in R : f[x] \in Int /\ g[x] = f[x],
         \A x \in S \ R : f[x] = 0
  PROVE  SumFunctionOnSet(f, S) = SumFunctionOnSet(g, R)
<1> DEFINE G == {T \in SUBSET S : SumFunctionOnSet(f, T) = SumFunctionOnSet(g, T \cap R)}
<1>1. ASSUME NEW T \in SUBSET S, \A U \in SUBSET T : U # T => U \in G
      PROVE  T \in G
  <2>1. CASE T = {}
    <3>1. T \cap R = {}
      BY <2>1
    <3> QED
      BY <2>1, <3>1, SumEmpty
  <2>2. CASE T # {}
    <3>1. PICK c \in T : TRUE
      BY <2>2
    <3>2. T \ {c} \in G /\ IsFiniteSet(T) /\ IsFiniteSet(T \ {c}) /\ IsFiniteSet(T \cap R)
      BY <1>1, FS_Subset, FS_Intersection
    <3>3. \A x \in S : f[x] \in Int
      OBVIOUS
    <3>4. /\ SumFunctionOnSet(f, T) = f[c] + SumFunctionOnSet(f, T \ {c})
          /\ SumFunctionOnSet(f, T \ {c}) \in Int
      BY <3>2, <3>3, SumAny
    <3>5. SumFunctionOnSet(f, T \ {c}) = SumFunctionOnSet(g, (T \ {c}) \cap R)
      BY <3>2
    <3>6. CASE c \in R
      <4>1. (T \cap R) \ {c} = (T \ {c}) \cap R /\ c \in T \cap R
        BY <3>6
      <4>2. \A x \in T \cap R : g[x] \in Int
        OBVIOUS
      <4>3. SumFunctionOnSet(g, T \cap R) = g[c] + SumFunctionOnSet(g, (T \cap R) \ {c})
        BY <3>2, <4>1, <4>2, SumAny
      <4>4. SumFunctionOnSet(f, T) = SumFunctionOnSet(g, T \cap R)
        BY <3>4, <3>5, <3>6, <4>1, <4>3
      <4> QED
        BY <4>4
    <3>7. CASE c \notin R
      <4>1. T \cap R = (T \ {c}) \cap R
        BY <3>7
      <4>2. f[c] = 0 /\ \A n \in Int : 0 + n = n
        BY <3>7
      <4>3. SumFunctionOnSet(f, T) = SumFunctionOnSet(g, T \cap R)
        BY <3>4, <3>5, <4>1, <4>2
      <4> QED
        BY <4>3
    <3> QED
      BY <3>6, <3>7
  <2> QED
    BY <2>1, <2>2
<1>2. S \in G
  <2> HIDE DEF G
  <2> QED BY <1>1, PartsInduction
<1>3. S \cap R = R
  OBVIOUS
<1> QED
  BY <1>2, <1>3

\* A sum changes by what one of its terms changes.
LEMMA SumChange ==
  ASSUME NEW f, NEW g, NEW S, IsFiniteSet(S), NEW y \in S,
         f[y] \in Int, g[y] \in Int,
         \A x \in S \ {y} : f[x] \in Int /\ g[x] = f[x]
  PROVE  SumFunctionOnSet(g, S) = SumFunctionOnSet(f, S) - f[y] + g[y]
<1>1. \A x \in S : f[x] \in Int /\ g[x] \in Int
  OBVIOUS
<1>2. IsFiniteSet(S \ {y}) /\ S \ {y} \in SUBSET (S \ {y})
  BY FS_RemoveElement
<1>3. SumFunctionOnSet(f, S \ {y}) = SumFunctionOnSet(g, S \ {y})
  BY <1>2, SumPart
<1>4. /\ SumFunctionOnSet(f, S) = f[y] + SumFunctionOnSet(f, S \ {y})
      /\ SumFunctionOnSet(g, S) = g[y] + SumFunctionOnSet(g, S \ {y})
      /\ SumFunctionOnSet(f, S \ {y}) \in Int
  BY <1>1, <1>2, SumAny
<1> QED
  BY <1>3, <1>4

----------------------------------------------------------------------------
(* Rules.                                                                  *)

\* A stored shipping key is one of the modes, and is priced like the key the
\* form carried.
LEMMA ShippingModeStable ==
  ASSUME NEW key
  PROVE  /\ ShippingMode(key) \in DOMAIN SHIPPING_MODES
         /\ ShippingMode(ShippingMode(key)) = ShippingMode(key)
BY DEF ShippingMode, SHIPPING_MODES

\* The next rung of an order that has one is a status.
LEMMA NextStepType ==
  ASSUME NEW status \in DOMAIN Ladder
  PROVE  NextStep(status) \in Statuses
BY DEF NextStep, Ladder, Statuses

----------------------------------------------------------------------------
(* The shelf.                                                              *)

\* The guard of the decrement is what keeps the shelf out of the red.
LEMMA TakeAllType ==
  ASSUME NEW table, IsShelf(table), NEW lines, IsLines(lines), CoversAll(table, lines)
  PROVE  IsShelf(TakeAll(table, lines))
BY DEF IsShelf, IsLines, IsTable, CoversAll, Covers, TakeAll

\* Giving back lines keeps a shelf a shelf: the rows are those that were there.
LEMMA GiveBackAllType ==
  ASSUME NEW table, IsShelf(table), NEW lines, IsLines(lines)
  PROVE  IsShelf(GiveBackAll(table, lines))
BY DEF IsShelf, IsLines, IsTable, GiveBackAll

\* Setting a count that is zero or more, and removing a row, keep it a shelf.
LEMMA EditType ==
  ASSUME NEW table, IsShelf(table), NEW i \in Item, NEW n \in Nat
  PROVE  /\ IsShelf(UpsertVariant(table, i, n))
         /\ IsShelf(UpdateVariant(table, i, n))
         /\ IsShelf(DeleteVariant(table, i))
<1>1. IsFiniteSet(DOMAIN table \cup {i}) /\ IsFiniteSet(DOMAIN table \ {i})
  BY FS_AddElement, FS_RemoveElement DEF IsShelf, IsTable
<1> QED
  BY <1>1 DEF IsShelf, IsTable, UpsertVariant, UpdateVariant, DeleteVariant, Restrict

----------------------------------------------------------------------------
(* The cart.                                                               *)

\* The stock of an item is a count, its row there or not.
LEMMA StockType ==
  ASSUME NEW table, IsShelf(table), NEW i
  PROVE  Stock(table, i) \in Nat
BY DEF IsShelf, IsTable, Stock

\* No statement on cart_lines stores a quantity the check forbids.
LEMMA CartType ==
  ASSUME NEW lines, IsCart(lines), NEW i \in Item, NEW q \in Nat \ {0}
  PROVE  IsCart(DeleteLine(lines, i)) /\ IsCart(UpsertLine(lines, i, q))
<1>1. IsFiniteSet(DOMAIN lines \cup {i}) /\ IsFiniteSet(DOMAIN lines \ {i})
  BY FS_AddElement, FS_RemoveElement DEF IsCart, IsTable
<1> QED
  BY <1>1 DEF IsCart, IsTable, DeleteLine, UpsertLine, Restrict

\* The clamp's first statement only deletes; the second, unless it is refused,
\* brings lines down to a count above zero.
LEMMA ClampType ==
  ASSUME NEW lines, IsCart(lines), NEW table, IsShelf(table)
  PROVE  /\ IsCart(ClampDelete(lines, table))
         /\ ~ClampUpdateFails(lines, table) => IsCart(ClampUpdate(lines, table))
<1>1. IsFiniteSet({i \in DOMAIN lines : Stock(table, i) > 0})
  BY FS_Subset DEF IsCart, IsTable
<1> QED
  BY <1>1 DEF IsCart, IsShelf, IsTable, ClampDelete, ClampUpdate, ClampUpdateFails, TooLong, Restrict

\* An empty cart is a cart.
LEMMA EmptyCartType == IsCart(EmptyCart)
BY FS_EmptySet DEF IsCart, IsTable, EmptyCart

\* What place_order reads are lines, for the items of the cart.
LEMMA PricedLinesType ==
  ASSUME NEW lines, IsCart(lines), NEW tags \in [Sku -> Nat]
  PROVE  /\ IsLines(PricedLines(lines, tags))
         /\ DOMAIN PricedLines(lines, tags) = DOMAIN lines
BY CatalogAssumption DEF IsCart, IsLines, IsTable, PricedLines

----------------------------------------------------------------------------
(* Sums over the shelf and over lines.                                     *)

\* The rows of one product, on the shelf or among lines.
RowsOf(table, s) == {i \in DOMAIN table : SkuOf[i] = s}

\* A product has finitely many rows in a finite table.
LEMMA RowsFinite ==
  ASSUME NEW table, IsFiniteSet(DOMAIN table), NEW s
  PROVE  IsFiniteSet(RowsOf(table, s))
BY FS_Subset DEF RowsOf

\* A product's units are a count.
LEMMA SumsType ==
  ASSUME NEW s
  PROVE  /\ \A table : IsShelf(table) => ShelfSum(table, s) \in Nat
         /\ \A lines : IsLines(lines) => UnitsOf(lines, s) \in Nat
<1>1. ASSUME NEW table, IsShelf(table)
      PROVE  ShelfSum(table, s) \in Nat
  <2>1. IsFiniteSet(RowsOf(table, s)) /\ \A i \in RowsOf(table, s) : table[i] \in Nat
    BY <1>1, RowsFinite DEF RowsOf, IsShelf, IsTable
  <2> QED
    BY <2>1, SumNat DEF RowsOf, ShelfSum
<1>2. ASSUME NEW lines, IsLines(lines)
      PROVE  UnitsOf(lines, s) \in Nat
  <2> DEFINE q == [i \in RowsOf(lines, s) |-> lines[i].quantity]
  <2>1. IsFiniteSet(RowsOf(lines, s)) /\ \A i \in RowsOf(lines, s) : q[i] \in Nat
    BY <1>2, RowsFinite DEF RowsOf, IsLines, IsTable
  <2>2. SumFunctionOnSet(q, RowsOf(lines, s)) \in Nat
    BY <2>1, SumNat
  <2> QED
    BY <2>2 DEF RowsOf, UnitsOf, SumFunction
<1> QED
  BY <1>1, <1>2

\* What lines take from, or give back to, rows that are there is what the sum
\* of the rows loses or gains; units of rows that are gone go nowhere.
LEMMA LinesMoveSum ==
  ASSUME NEW table, IsShelf(table), NEW lines, IsLines(lines), NEW s,
         NEW moved, IsShelf(moved), DOMAIN moved = DOMAIN table,
         NEW sign \in {-1, 1},
         \A i \in DOMAIN table :
           moved[i] = IF i \in DOMAIN lines THEN table[i] + sign * lines[i].quantity ELSE table[i]
  PROVE  ShelfSum(moved, s) =
           ShelfSum(table, s) + sign * UnitsOf(Restrict(lines, DOMAIN lines \cap DOMAIN table), s)
<1> DEFINE R == RowsOf(table, s)
           there == Restrict(lines, DOMAIN lines \cap DOMAIN table)
           T == RowsOf(there, s)
           units == [i \in T |-> there[i].quantity]
           moves == [i \in DOMAIN table |-> IF i \in DOMAIN lines THEN lines[i].quantity ELSE 0]
<1>1. IsFiniteSet(R) /\ T \in SUBSET R /\ RowsOf(moved, s) = R
  BY RowsFinite DEF RowsOf, Restrict, IsShelf, IsTable
<1>2. \A i \in DOMAIN lines : lines[i].quantity \in Nat
  BY DEF IsLines, IsTable
<1>3. /\ \A i \in T : moves[i] \in Int /\ units[i] = moves[i]
      /\ \A i \in R \ T : moves[i] = 0
  BY <1>2 DEF RowsOf, Restrict
<1>4. SumFunctionOnSet(moves, R) = SumFunctionOnSet(units, T)
  <2> HIDE DEF R, T, moves, units
  <2> QED
    BY <1>1, <1>3, SumPart
<1>5. SumFunctionOnSet(units, T) = UnitsOf(there, s)
  BY DEF UnitsOf, SumFunction, RowsOf
<1>6. \A i \in R : table[i] \in Int /\ moves[i] \in Int /\ moved[i] \in Int
  BY <1>2 DEF RowsOf, IsShelf, IsTable
<1>7. CASE sign = 1
  <2>1. \A i \in R : moved[i] = table[i] + moves[i]
    BY <1>2, <1>6, <1>7 DEF RowsOf
  <2>2. SumFunctionOnSet(moved, R) = SumFunctionOnSet(table, R) + SumFunctionOnSet(moves, R)
    <3> HIDE DEF R, moves
    <3> QED
      BY <1>1, <1>6, <2>1, SumPlus
  <2>3. SumFunctionOnSet(moves, R) \in Int
    <3> HIDE DEF R, moves
    <3> QED
      BY <1>1, <1>6, SumAny
  <2> QED
    BY <1>1, <1>4, <1>5, <1>7, <2>2, <2>3 DEF ShelfSum, RowsOf
<1>8. CASE sign = -1
  <2>1. \A i \in R : table[i] = moved[i] + moves[i]
    BY <1>2, <1>6, <1>8 DEF RowsOf
  <2>2. SumFunctionOnSet(table, R) = SumFunctionOnSet(moved, R) + SumFunctionOnSet(moves, R)
    <3> HIDE DEF R, moves
    <3> QED
      BY <1>1, <1>6, <2>1, SumPlus
  <2>3. SumFunctionOnSet(moves, R) \in Int /\ SumFunctionOnSet(moved, R) \in Int
    <3> HIDE DEF R, moves
    <3> QED
      BY <1>1, <1>6, SumAny
  <2> QED
    BY <1>1, <1>4, <1>5, <1>8, <2>2, <2>3 DEF ShelfSum, RowsOf
<1> QED
  BY <1>7, <1>8

\* Lines whose rows are all there.
LEMMA AllThere ==
  ASSUME NEW lines, IsLines(lines), NEW D, DOMAIN lines \subseteq D
  PROVE  Restrict(lines, DOMAIN lines \cap D) = lines
BY DEF Restrict, IsLines, IsTable

\* A sale takes as much from the sum of a product's rows as from products.stock.
LEMMA TakeAllSum ==
  ASSUME NEW table, IsShelf(table), NEW lines, IsLines(lines), CoversAll(table, lines), NEW s
  PROVE  ShelfSum(TakeAll(table, lines), s) = ShelfSum(table, s) - UnitsOf(lines, s)
<1>1. IsShelf(TakeAll(table, lines)) /\ DOMAIN TakeAll(table, lines) = DOMAIN table
  BY TakeAllType DEF TakeAll
<1>2. DOMAIN lines \subseteq DOMAIN table
  BY DEF CoversAll, Covers
<1>3. \A i \in DOMAIN table : TakeAll(table, lines)[i] =
        IF i \in DOMAIN lines THEN table[i] + (-1) * lines[i].quantity ELSE table[i]
  BY DEF TakeAll, IsShelf, IsLines, IsTable
<1>4. ShelfSum(TakeAll(table, lines), s) = ShelfSum(table, s) + (-1) * UnitsOf(lines, s)
  BY <1>1, <1>2, <1>3, LinesMoveSum, AllThere
<1> QED
  BY <1>4, SumsType

\* A cancellation gives back to the sum what its lines hold of rows still there.
LEMMA GiveBackAllSum ==
  ASSUME NEW table, IsShelf(table), NEW lines, IsLines(lines), NEW s
  PROVE  ShelfSum(GiveBackAll(table, lines), s) =
           ShelfSum(table, s) + UnitsOf(Restrict(lines, DOMAIN lines \cap DOMAIN table), s)
<1> DEFINE there == Restrict(lines, DOMAIN lines \cap DOMAIN table)
<1>1. IsShelf(GiveBackAll(table, lines)) /\ DOMAIN GiveBackAll(table, lines) = DOMAIN table
  BY GiveBackAllType DEF GiveBackAll
<1>2. \A i \in DOMAIN table : GiveBackAll(table, lines)[i] =
        IF i \in DOMAIN lines THEN table[i] + 1 * lines[i].quantity ELSE table[i]
  BY DEF GiveBackAll, IsShelf, IsLines, IsTable
<1>3. ShelfSum(GiveBackAll(table, lines), s) = ShelfSum(table, s) + 1 * UnitsOf(there, s)
  BY <1>1, <1>2, LinesMoveSum
<1>4. IsLines(there)
  BY FS_Subset DEF IsLines, IsTable, Restrict
<1> QED
  BY <1>3, <1>4, SumsType

\* The sum of a product's rows looks at no other product.
LEMMA OtherSums ==
  ASSUME NEW table, IsShelf(table), NEW edited, IsShelf(edited), NEW s,
         \A i \in Item : SkuOf[i] = s =>
           /\ i \in DOMAIN edited <=> i \in DOMAIN table
           /\ i \in DOMAIN table => edited[i] = table[i]
  PROVE  ShelfSum(edited, s) = ShelfSum(table, s)
<1> DEFINE R == RowsOf(table, s)
<1>1. RowsOf(edited, s) = R /\ R \in SUBSET R /\ IsFiniteSet(R)
  BY RowsFinite DEF RowsOf, IsShelf, IsTable
<1>2. \A i \in R : table[i] \in Int /\ edited[i] = table[i]
  BY DEF RowsOf, IsShelf, IsTable
<1>3. SumFunctionOnSet(table, R) = SumFunctionOnSet(edited, R)
  <2> HIDE DEF R
  <2> QED
    BY <1>1, <1>2, SumPart
<1> QED
  BY <1>1, <1>3 DEF ShelfSum, RowsOf

----------------------------------------------------------------------------
(* Tables that grow.                                                       *)

\* A sequence grows by one element at its end.
LEMMA Grows ==
  ASSUME NEW s, s \in Seq(Range(s)), NEW e
  PROVE  /\ Append(s, e) \in Seq(Range(Append(s, e)))
         /\ Len(s) \in Nat
         /\ DOMAIN s = 1 .. Len(s)
         /\ DOMAIN Append(s, e) = 1 .. Len(s) + 1
         /\ \A k \in 1 .. Len(s) : Append(s, e)[k] = s[k]
         /\ Append(s, e)[Len(s) + 1] = e
<1> DEFINE S == Range(s) \cup {e}
           u == Append(s, e)
<1>1. /\ Len(s) \in Nat
      /\ DOMAIN s = 1 .. Len(s)
      /\ s \in [1 .. Len(s) -> Range(s)]
  BY LenProperties
<1>2. s \in Seq(S)
  <2>1. \A k \in 1 .. Len(s) : s[k] \in S
    BY <1>1
  <2>2. s \in [1 .. Len(s) -> S]
    BY <1>1, <2>1
  <2> QED
    BY <1>1, <2>2
<1>3. /\ u \in Seq(S)
      /\ Len(u) = Len(s) + 1
      /\ \A k \in 1 .. Len(s) : u[k] = s[k]
      /\ u[Len(s) + 1] = e
  BY <1>2, AppendProperties
<1>4. u \in Seq(Range(u)) /\ DOMAIN u = 1 .. Len(s) + 1
  BY <1>3, SeqOfRange, LenProperties
<1> QED
  BY <1>1, <1>3, <1>4

----------------------------------------------------------------------------
(* The audit of the orders: what the cancellations on record gave back.    *)

Marks(steps) == {n \in DOMAIN steps : steps[n] = "cancelled"}

Holding(book, i) == {k \in DOMAIN book : i \in DOMAIN book[k].lines}

Refund(book, i, id) == Cardinality(Marks(book[id].tracking)) * book[id].lines[i].quantity

Refunds(book, i) == SumFunction([id \in Holding(book, i) |-> Refund(book, i, id)])

\* What the audit asks of the orders: finitely many, with lines and tracking.
IsBook(book) ==
  /\ IsFiniteSet(DOMAIN book)
  /\ \A k \in DOMAIN book : IsLines(book[k].lines) /\ book[k].tracking \in Seq(Statuses)

\* The cancellations on record are counted; a line of tracking adds one, if it is one.
LEMMA MarksAppend ==
  ASSUME NEW steps \in Seq(Statuses), NEW status \in Statuses
  PROVE  /\ IsFiniteSet(Marks(steps))
         /\ Cardinality(Marks(Append(steps, status))) =
              Cardinality(Marks(steps)) + (IF status = "cancelled" THEN 1 ELSE 0)
<1> DEFINE more == Append(steps, status)
           n == Len(steps)
<1>1. /\ n \in Nat /\ DOMAIN steps = 1 .. n /\ DOMAIN more = 1 .. n + 1
      /\ more[n + 1] = status /\ \A m \in 1 .. n : more[m] = steps[m]
  BY AppendProperties, LenProperties
<1> HIDE DEF more, n
<1>2. IsFiniteSet(Marks(steps))
  <2>1. IsFiniteSet(1 .. n) /\ Marks(steps) \in SUBSET (1 .. n)
    BY <1>1, FS_Interval DEF Marks
  <2> QED
    BY <2>1, FS_Subset
<1>3. n + 1 \notin Marks(steps)
  BY <1>1 DEF Marks
<1>4. Marks(more) = IF status = "cancelled" THEN Marks(steps) \cup {n + 1} ELSE Marks(steps)
  BY <1>1 DEF Marks
<1>5. Cardinality(Marks(steps)) \in Nat
  BY <1>2, FS_CardinalityType
<1>6. Cardinality(Marks(steps) \cup {n + 1}) = Cardinality(Marks(steps)) + 1
  BY <1>2, <1>3, FS_AddElement
<1> QED
  BY <1>2, <1>4, <1>5, <1>6 DEF more

\* What an order's cancellations gave back is a count.
LEMMA RefundType ==
  ASSUME NEW book, IsBook(book), NEW i
  PROVE  /\ IsFiniteSet(Holding(book, i))
         /\ \A id \in Holding(book, i) :
              /\ Cardinality(Marks(book[id].tracking)) \in Nat
              /\ book[id].lines[i].quantity \in Nat
              /\ Refund(book, i, id) \in Nat
         /\ Refunds(book, i) \in Nat
<1>1. IsFiniteSet(Holding(book, i))
  BY FS_Subset DEF Holding, IsBook
<1>2. ASSUME NEW id \in Holding(book, i)
      PROVE  /\ Cardinality(Marks(book[id].tracking)) \in Nat
             /\ book[id].lines[i].quantity \in Nat
             /\ Refund(book, i, id) \in Nat
  <2>1. Cardinality(Marks(book[id].tracking)) \in Nat
    <3>1. "paid" \in Statuses /\ book[id].tracking \in Seq(Statuses)
      BY DEF Statuses, Holding, IsBook
    <3> QED
      BY <3>1, MarksAppend, FS_CardinalityType
  <2>2. book[id].lines[i].quantity \in Nat
    BY DEF Holding, IsBook, IsLines, IsTable
  <2>3. \A m, n \in Nat : m * n \in Nat
    OBVIOUS
  <2> QED
    BY <2>1, <2>2, <2>3 DEF Refund
<1> DEFINE f == [id \in Holding(book, i) |-> Refund(book, i, id)]
<1>3. SumFunctionOnSet(f, Holding(book, i)) \in Nat
  BY <1>1, <1>2, SumNat
<1> QED
  BY <1>1, <1>2, <1>3 DEF Refunds, SumFunction

\* A line of tracking adds to the audit what it says was given back.
LEMMA RefundStep ==
  ASSUME NEW book, IsBook(book), NEW noted, DOMAIN noted = DOMAIN book,
         NEW id \in DOMAIN book, NEW status \in Statuses,
         \A k \in DOMAIN book : noted[k].lines = book[k].lines,
         noted[id].tracking = Append(book[id].tracking, status),
         \A k \in DOMAIN book \ {id} : noted[k].tracking = book[k].tracking,
         NEW i
  PROVE  Refunds(noted, i) = Refunds(book, i)
           + (IF status = "cancelled" /\ i \in DOMAIN book[id].lines
              THEN book[id].lines[i].quantity ELSE 0)
<1> DEFINE H == Holding(book, i)
           f == [k \in H |-> Refund(book, i, k)]
           g == [k \in H |-> Refund(noted, i, k)]
<1>1. Holding(noted, i) = H /\ IsFiniteSet(H)
  BY RefundType DEF Holding
<1>2. /\ Refunds(book, i) = SumFunctionOnSet(f, H)
      /\ Refunds(noted, i) = SumFunctionOnSet(g, H)
  BY <1>1 DEF Refunds, SumFunction
<1>3. \A k \in H : f[k] \in Int
  BY RefundType
<1>4. \A k \in H \ {id} : g[k] = f[k]
  BY DEF Refund, Holding
<1>5. CASE id \in H
  <2>1. /\ Cardinality(Marks(book[id].tracking)) \in Nat
        /\ book[id].lines[i].quantity \in Nat
    BY <1>5, RefundType
  <2>2. Cardinality(Marks(noted[id].tracking)) =
          Cardinality(Marks(book[id].tracking)) + (IF status = "cancelled" THEN 1 ELSE 0)
    BY MarksAppend DEF IsBook
  <2>3. \A m, n \in Nat : (m + 1) * n = m * n + n /\ (m + 0) * n = m * n /\ m * n \in Nat
    OBVIOUS
  <2>4. g[id] = f[id] + (IF status = "cancelled" THEN book[id].lines[i].quantity ELSE 0)
    <3> DEFINE m == Cardinality(Marks(book[id].tracking))
               n == book[id].lines[i].quantity
               more == IF status = "cancelled" THEN 1 ELSE 0
    <3>1. f[id] = m * n /\ g[id] = (m + more) * n
      BY <1>5, <2>2 DEF Refund
    <3>2. m \in Nat /\ n \in Nat
      BY <2>1
    <3> HIDE DEF m, n, f, g
    <3>3. (m + more) * n = m * n + (IF status = "cancelled" THEN n ELSE 0)
      BY <2>3, <3>2
    <3> QED
      BY <3>1, <3>3 DEF n
  <2>5. g[id] \in Int /\ f[id] \in Int
    BY <1>3, <1>5, <2>1, <2>4
  <2>6. SumFunctionOnSet(g, H) = SumFunctionOnSet(f, H) - f[id] + g[id]
    <3> HIDE DEF f, g, H
    <3> QED
      BY <1>1, <1>3, <1>4, <1>5, <2>5, SumChange
  <2>7. SumFunctionOnSet(f, H) \in Int
    <3> HIDE DEF f, H
    <3> QED
      BY <1>1, <1>3, SumAny
  <2>8. i \in DOMAIN book[id].lines
    BY <1>5 DEF Holding
  <2> HIDE DEF f, g, H
  <2> QED
    BY <1>2, <2>1, <2>4, <2>5, <2>6, <2>7, <2>8
<1>6. CASE id \notin H
  <2>1. \A k \in H : g[k] = f[k]
    BY <1>4, <1>6
  <2>2. f = g /\ i \notin DOMAIN book[id].lines
    BY <1>6, <2>1 DEF Holding
  <2> QED
    BY <1>2, <2>2, RefundType
<1> QED
  BY <1>5, <1>6

\* An audit looks at lines and tracking, never at the status.
LEMMA RefundSame ==
  ASSUME NEW book, NEW noted, DOMAIN noted = DOMAIN book,
         \A k \in DOMAIN book : noted[k].lines = book[k].lines /\ noted[k].tracking = book[k].tracking,
         NEW i
  PROVE  Refunds(noted, i) = Refunds(book, i)
<1>1. Holding(noted, i) = Holding(book, i)
  BY DEF Holding
<1>2. \A k \in Holding(book, i) : Refund(noted, i, k) = Refund(book, i, k)
  BY DEF Holding, Refund
<1> QED
  BY <1>1, <1>2 DEF Refunds

\* Orders never cancelled gave nothing back.
LEMMA RefundNone ==
  ASSUME NEW book, IsBook(book), \A k \in DOMAIN book : Marks(book[k].tracking) = {}, NEW i
  PROVE  Refunds(book, i) = 0
<1> DEFINE H == Holding(book, i)
           f == [k \in H |-> Refund(book, i, k)]
<1>1. IsFiniteSet(H) /\ {} \in SUBSET H
  BY RefundType
<1>2. \A k \in H \ {} : f[k] = 0
  <2> SUFFICES ASSUME NEW k \in H
               PROVE  f[k] = 0
    OBVIOUS
  <2>1. Cardinality(Marks(book[k].tracking)) = 0
    BY FS_EmptySet DEF Holding
  <2>2. book[k].lines[i].quantity \in Nat
    BY RefundType
  <2>3. \A n \in Nat : 0 * n = 0
    OBVIOUS
  <2> QED
    BY <2>1, <2>2, <2>3 DEF Refund
<1>3. SumFunctionOnSet(f, H) = SumFunctionOnSet(f, {})
  <2> HIDE DEF f, H
  <2> QED
    BY <1>1, <1>2, SumPart
<1> QED
  BY <1>3, SumEmpty DEF Refunds, SumFunction
=============================================================================

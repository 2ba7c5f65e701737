----------------------------- MODULE Steppers -----------------------------
(***************************************************************************)
(* The quantities on one page: a row of the cart (src/app/cart.rs), or the *)
(* stepper and the sizes of a product page (src/app/shop.rs), and the bill *)
(* or badge beside it.  A control reads its signals, calls a procedure and *)
(* writes the answer into signals; nothing stops a second click meanwhile, *)
(* and the answers come in any order.                                      *)
(*                                                                         *)
(* Other tabs of the browser write the lines of the cart too, and so do    *)
(* its checkouts; other people buy.  A restocking would only make what a   *)
(* page says of the stock too low.  A call has an id: the answers come in  *)
(* any order, so the order of the clicks is no part of the state.  How     *)
(* the runtime carries signals, calls and shards is not in this            *)
(* repository: a click's arguments are read when it happens, a signal that *)
(* is written is seen at once, and a shard is asked for again until it is  *)
(* there for the version at hand.                                          *)
(***************************************************************************)
EXTENDS Tables

CONSTANTS InitialStock,
          Call,            \* bound: ids for the calls in flight
          MaxSales         \* bound: units other people buy

ASSUME SteppersAssumption ==
  IsFiniteSet(Item) /\ InitialStock \in [Item -> Nat] /\ MaxSales \in Nat

VARIABLES
  stock, line,    \* variants.stock; the quantity of each line, zero when there is none
  page,           \* what the page shows, or Closed
  calls,          \* its calls in flight, by id
  bill,           \* the pieces the badge and the bill of the page count
  behind,         \* version has moved on since
  doubt,          \* history: a click came before the answer to another, an
                  \* answer was lost, or something else wrote the line
  unread          \* history: something else wrote the cart since the bill

histories == <<doubt, unread>>
vars == <<stock, line, page, calls, bill, behind, histories>>

Closed == [kind |-> "none"]

\* Who clicked: somebody who had every answer, somebody who had not, or a page
\* that is no longer there.
Patient == "patient"
Hurried == "hurried"
Gone == "gone"

Pieces == SumFunction(line)

NoCalls == [i \in {} |-> Closed]

Init ==
  /\ stock = InitialStock /\ line = [z \in Item |-> 0]
  /\ page = Closed /\ calls = NoCalls
  /\ bill = 0 /\ behind = FALSE
  /\ doubt = FALSE /\ unread = FALSE

----------------------------------------------------------------------------
(* Loading a page.                                                         *)

\* The calls of the page that was there go on with nobody to answer.
Orphans ==
  [i \in {j \in DOMAIN calls : calls[j].at # "answered"} |-> [calls[i] EXCEPT !.by = Gone]]

\* The line, the bill and the badge of a page are read one after the other in the
\* code; here in one step, as if nothing wrote the cart meanwhile.
Load(kind, z, offered) ==
  /\ page' = [kind |-> kind, size |-> z, shown |-> line[z], blocked |-> FALSE,
              offered |-> offered]
  /\ calls' = Orphans
  /\ bill' = Pieces /\ behind' = FALSE
  /\ doubt' = (Orphans # NoCalls) /\ unread' = FALSE
  /\ UNCHANGED <<stock, line>>

\* cart: a row for each line there is.
LoadRow == \E z \in Item : line[z] > 0 /\ Load("row", z, {})

\* product: preselects a size that is in stock; without one there is no stepper.
LoadPanel ==
  \E s \in Sku :
    LET offered == {z \in Item : SkuOf[z] = s /\ stock[z] > 0}
    IN \E z \in offered : Load("panel", z, offered)

----------------------------------------------------------------------------
(* The controls.                                                           *)

\* A second click leaves the visitor unsure of the first one's answer too.
Unsure(c) == IF c.by = Patient THEN [c EXCEPT !.by = Hurried] ELSE c

Click(op, z, n) ==
  /\ page # Closed
  /\ \E i \in Call \ DOMAIN calls :
       calls' = [j \in DOMAIN calls \cup {i} |->
                   IF j # i THEN Unsure(calls[j])
                   ELSE [at |-> "sent", op |-> op, size |-> z, n |-> n,
                         by |-> IF calls = NoCalls THEN Patient ELSE Hurried]]
  /\ doubt' = (doubt \/ calls # NoCalls)
  /\ UNCHANGED <<stock, line, bill, behind, unread>>

\* The product page hides its stepper at zero; a row asks for less than that.
Stepper == page # Closed /\ (page.kind = "panel" => page.shown > 0)

Lower ==
  /\ Stepper
  /\ Click("lower", page.size, page.shown - 1)
  /\ UNCHANGED page

Raise ==
  /\ Stepper
  /\ page' = [page EXCEPT !.blocked = FALSE]
  /\ Click("raise", page.size, page.shown + 1)

\* The button of a product page that shows nothing in the cart.
Add ==
  /\ page # Closed /\ ~Stepper
  /\ Click("raise", page.size, 1)
  /\ UNCHANGED page

TakeOut ==
  /\ page.kind = "row"
  /\ Click("remove", page.size, 0)
  /\ UNCHANGED page

\* Mutation: the size alone changes, and its count is what the page has.
PickTrusting(z) ==
  /\ page.kind = "panel" /\ z \in page.offered
  /\ page' = [page EXCEPT !.size = z]
  /\ UNCHANGED <<stock, line, calls, bill, behind, histories>>

\* The size changes at once, its count when the answer comes.
Pick(z) ==
  /\ page.kind = "panel" /\ z \in page.offered
  /\ page' = [page EXCEPT !.size = z]
  /\ Click("ask", z, 0)

----------------------------------------------------------------------------
(* The server.                                                             *)

CallAt(i, stage) == calls[i].at = stage

Without(i) == Restrict(calls, DOMAIN calls \ {i})

\* The answer is on its way to whoever waits for it.
Answered(i, n) ==
  calls' = IF calls[i].by = Gone THEN Without(i)
           ELSE [calls EXCEPT ![i].at = "answered", ![i].n = n]

\* A call that no other click overlapped says what the line on the page is.
Tells(i) == calls[i].by = Patient /\ calls[i].size = page.size

Write(i, n) ==
  /\ line' = [line EXCEPT ![calls[i].size] = n]
  /\ doubt' = (doubt /\ ~Tells(i))
  /\ unread' = (unread \/ calls[i].by = Gone)
  /\ Answered(i, n)
  /\ UNCHANGED <<stock, page, bill, behind>>

\* remove_from_cart, and set_quantity down to zero or below: one statement.
Delete(i) ==
  /\ CallAt(i, "sent") /\ calls[i].op # "ask" /\ calls[i].n <= 0
  /\ Write(i, 0)

\* Mutation: what is asked for is stored.
ReadNoStock(i) ==
  /\ CallAt(i, "sent") /\ calls[i].op # "ask" /\ calls[i].n > 0
  /\ calls' = [calls EXCEPT ![i].at = "storing"]
  /\ UNCHANGED <<stock, line, page, bill, behind, histories>>

\* set_quantity reads the stock, and stores or deletes in a second statement.
ReadStock(i) ==
  /\ CallAt(i, "sent") /\ calls[i].op # "ask" /\ calls[i].n > 0
  /\ LET s == stock[calls[i].size]
     IN calls' = [calls EXCEPT ![i].at = "storing", ![i].n = IF @ < s THEN @ ELSE s]
  /\ UNCHANGED <<stock, line, page, bill, behind, histories>>

Store(i) ==
  /\ CallAt(i, "storing")
  /\ Write(i, calls[i].n)

\* in_cart.
Held(i) ==
  /\ CallAt(i, "sent") /\ calls[i].op = "ask"
  /\ Answered(i, line[calls[i].size])
  /\ doubt' = (doubt /\ ~Tells(i))
  /\ UNCHANGED <<stock, line, page, bill, behind, unread>>

Serve(i) == Delete(i) \/ ReadStock(i) \/ Store(i) \/ Held(i)

----------------------------------------------------------------------------
(* The answers.                                                            *)

\* The bubble of a row: + changed nothing.
Bubble(c) == page.kind = "row" /\ c.op = "raise" /\ c.n = page.shown

AfterAnswer(c) == [page EXCEPT !.shown = c.n, !.blocked = Bubble(c)]

Bumps(c) == c.op # "ask"

Apply(i) ==
  /\ CallAt(i, "answered")
  /\ page' = AfterAnswer(calls[i])
  /\ behind' = (behind \/ Bumps(calls[i]))
  /\ calls' = Without(i)
  /\ UNCHANGED <<stock, line, bill, histories>>

\* bill and cart_badge, asked for again at the version at hand.
Refresh ==
  /\ behind
  /\ bill' = Pieces /\ behind' = FALSE /\ unread' = FALSE
  /\ UNCHANGED <<stock, line, page, calls, doubt>>

----------------------------------------------------------------------------
\* A call that never arrives, dies in the server, or whose answer is lost: what
\* comes after the await does not happen.
Lose(i) ==
  /\ calls' = Without(i)
  /\ doubt' = TRUE /\ unread' = TRUE
  /\ UNCHANGED <<stock, line, page, bill, behind>>

\* Another tab, or a checkout that empties or clamps the cart, writes a line:
\* never more than there once was.
Elsewhere(z, n) ==
  /\ n \in 0 .. InitialStock[z] \ {line[z]}
  /\ line' = [line EXCEPT ![z] = n]
  /\ doubt' = (doubt \/ (page # Closed /\ page.size = z))
  /\ unread' = TRUE
  /\ UNCHANGED <<stock, page, calls, bill, behind>>

\* Somebody else buys.
Sell(z) ==
  /\ stock[z] > 0 /\ SumFunction(InitialStock) - SumFunction(stock) < MaxSales
  /\ stock' = [stock EXCEPT ![z] = @ - 1]
  /\ UNCHANGED <<line, page, calls, bill, behind, histories>>

Next ==
  \/ LoadRow \/ LoadPanel
  \/ Lower \/ Raise \/ Add \/ TakeOut
  \/ \E z \in Item : Pick(z) \/ Sell(z) \/ \E n \in 0 .. InitialStock[z] : Elsewhere(z, n)
  \/ \E i \in DOMAIN calls : Serve(i) \/ Apply(i) \/ Lose(i)
  \/ Refresh

Spec == Init /\ [][Next]_vars

----------------------------------------------------------------------------
Largest == CHOOSE n \in Range(InitialStock) : \A m \in Range(InitialStock) : m <= n

IsPage(p) ==
  \/ p = Closed
  \/ p \in [kind : {"row", "panel"}, size : Item, shown : 0 .. Largest,
            blocked : BOOLEAN, offered : SUBSET Item]

IsCall(c) ==
  c \in [at : {"sent", "storing", "answered"}, op : {"lower", "raise", "remove", "ask"},
         size : Item, n : -1 .. Largest + 1, by : {Patient, Hurried, Gone}]

\* Page and calls keep their shape; no line, and no number on the page, exceeds
\* what there ever was in stock.
TypeOK ==
  /\ \A z \in Item : stock[z] \in 0 .. InitialStock[z] /\ line[z] \in 0 .. InitialStock[z]
  /\ IsPage(page) /\ bill \in Nat
  /\ DOMAIN calls \subseteq Call /\ \A i \in DOMAIN calls : IsCall(calls[i])
  /\ {behind, doubt, unread} \subseteq BOOLEAN

Quiet == page # Closed /\ calls = NoCalls

\* "The number on the page is the line it changes": a page that has its answers
\* shows what the cart holds of the size it shows, after any changes of size
\* too; unless it was clicked before it had its answer, lost one, or something
\* else wrote the line.
NumberIsTheLine == Quiet /\ ~doubt => page.shown = line[page.size]

\* "When + changes nothing, this bubble says why": to a visitor who waits for
\* each answer, a row that says there are only so many says so of a stock that
\* had no more.
BubbleTellsTheTruth == Quiet /\ ~doubt /\ page.blocked => page.shown >= stock[page.size]

\* "Every total is the server's opinion": once a page has its answers, its bill
\* and its badge count what the cart holds, whichever of its controls wrote it.
BillIsTheCart == Quiet /\ ~behind /\ ~unread => bill = Pieces

\* The same of every visitor: what the bubble names is what there is in stock.
\* Two clicks on + before the first answer ask for the same number; the second
\* answer finds that number on the page, and the bubble names it as the stock.
BubbleNamesTheStock == page # Closed /\ page.blocked => page.shown >= stock[page.size]
=============================================================================

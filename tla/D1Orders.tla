------------------------------ MODULE D1Orders ------------------------------
(***************************************************************************)
(* The life of an order at the edge, once it is paid: customers advance or *)
(* cancel it from its page, and cron ticks (tick, advance_pending) move    *)
(* every waiting order up one rung.                                        *)
(*                                                                         *)
(* D1 has no open transaction: every write is a statement of its own, a    *)
(* status and its tracking line are two, and a cancellation is two per     *)
(* line and two more.  A Worker may die between any of them, and a tick    *)
(* may start while the one before it is still under way.                   *)
(***************************************************************************)
EXTENDS Tables, Sequences, FiniteSets

CONSTANTS Desk, Tick,     \* requests, and ticks, that may be in flight at once
          InitialShelf,
          Bought,         \* the lines of each order, a sequence of lines
          MaxRequests, MaxFaults

ASSUME OrdersAssumption ==
  /\ IsShelf(InitialShelf)
  /\ Len(Bought) \in Nat /\ Bought = [k \in 1 .. Len(Bought) |-> Bought[k]]
  /\ \A k \in 1 .. Len(Bought) : IsLines(Bought[k])
  /\ Desk \cap Tick = {} /\ IsFiniteSet(Desk \cup Tick)
  /\ MaxRequests \in Nat /\ MaxFaults \in Nat

VARIABLES
  shelf, total,
  orders,             \* order and order_lines, status and tracking, by id
  work,               \* what each Worker has in flight
  requests, faults,   \* what has been spent of each bound
  stray,              \* history: units given back by cancellations that stopped
  unnoted             \* history: statuses, by id, whose tracking line never came

tables == <<shelf, total, orders>>
history == <<stray, unnoted>>
vars == <<tables, work, requests, faults, history>>

Worker == Desk \cup Tick

Ids == 1 .. Len(Bought)

Idle == [at |-> "idle"]

\* A Worker moves the orders it read, a function from their ids to the
\* statuses it saw; or it cancels one, line by line.
\*   moving      the orders still to move
\*   noting      a status is written, its tracking line is not
\*   returning   the lines still to give back, and the one whose variants row
\*               is incremented but whose products row is not
IsTodo(f) == DOMAIN f \subseteq Ids /\ f \in [DOMAIN f -> DOMAIN Ladder]

IsWork(r) ==
  \/ r = Idle
  \/ /\ r.at = "moving"
     /\ r \in [at : {"moving"}, todo : {r.todo}] /\ IsTodo(r.todo)
  \/ /\ r.at = "noting"
     /\ r \in [at : {"noting"}, id : Ids, step : Statuses, todo : {r.todo}]
     /\ IsTodo(r.todo)
  \/ /\ r.at = "returning"
     /\ r \in [at : {"returning"}, id : Ids, left : {r.left}, on : {r.on}]
     /\ r.left \cup r.on \subseteq DOMAIN Bought[r.id]

\* The orders are whole.  place_order writes one in several statements, so a tick
\* or a cancellation may see one without all of its lines; not here.
Init ==
  /\ shelf = InitialShelf
  /\ total = [s \in Sku |-> ShelfSum(InitialShelf, s)]
  /\ orders = [k \in Ids |->
                 [lines |-> Bought[k], status |-> "paid", tracking |-> <<"paid">>]]
  /\ work = [a \in Worker |-> Idle]
  /\ requests = 0 /\ faults = 0
  /\ stray = [i \in Item |-> 0]
  /\ unnoted = [k \in Ids |-> {}]

Goes(a, r) == work' = [work EXCEPT ![a] = r]

\* The loop's next turn, or its end.
Rest(todo) == IF DOMAIN todo = {} THEN Idle ELSE [at |-> "moving", todo |-> todo]

----------------------------------------------------------------------------
(* advance_order and advance_pending.                                      *)

Receive(d, r) ==
  /\ work[d] = Idle
  /\ requests < MaxRequests
  /\ requests' = requests + 1
  /\ Goes(d, r)
  /\ UNCHANGED <<tables, faults, history>>

\* The order is read; one with nowhere to go is answered at once.
AskAdvance(d, id) ==
  /\ HasNextStep(orders[id].status)
  /\ Receive(d, [at |-> "moving", todo |-> [k \in {id} |-> orders[id].status]])

\* Mutations: the list of statuses in the query too long, or too short.
EveryOrder == Ids

NotShipped == {id \in Ids : orders[id].status \in {"paid", "packing"}}

Waiting == {id \in Ids : HasNextStep(orders[id].status)}

\* A tick reads its list; with nothing waiting it does nothing.
TickStart(k) ==
  /\ work[k] = Idle
  /\ Waiting # {}
  /\ Goes(k, [at |-> "moving", todo |-> [id \in Waiting |-> orders[id].status]])
  /\ UNCHANGED <<tables, requests, faults, history>>

\* The first statement of a move: the rung after the one that was seen.  A tick
\* skips a row without a next step; its query lists none.
SetStatus(a, id) ==
  /\ work[a].at = "moving"
  /\ id \in DOMAIN work[a].todo
  /\ LET step == NextStep(work[a].todo[id])
     IN  /\ orders' = [orders EXCEPT ![id].status = step]
         /\ Goes(a, [at |-> "noting", id |-> id, step |-> step,
                     todo |-> Restrict(work[a].todo, DOMAIN work[a].todo \ {id})])
  /\ UNCHANGED <<shelf, total, requests, faults, history>>

\* The second one.
InsertTracking(a) ==
  /\ work[a].at = "noting"
  /\ orders' = [orders EXCEPT ![work[a].id].tracking = Append(@, work[a].step)]
  /\ Goes(a, Rest(work[a].todo))
  /\ UNCHANGED <<shelf, total, requests, faults, history>>

----------------------------------------------------------------------------
(* cancel_order.                                                           *)

Returning(id, left, on) == [at |-> "returning", id |-> id, left |-> left, on |-> on]

\* The order is read; one that left the workshop is not cancelled.
AskCancel(d, id) ==
  /\ orders[id].status \in Workshop
  /\ Receive(d, Returning(id, DOMAIN orders[id].lines, {}))

\* The units of a line, first to the variant; a row that is gone stays gone.
GiveBack(d, i) ==
  /\ work[d].at = "returning"
  /\ i \in work[d].left /\ work[d].on = {}
  /\ shelf' = GiveBackAll(shelf, Restrict(orders[work[d].id].lines, {i}))
  /\ Goes(d, Returning(work[d].id, work[d].left \ {i}, {i}))
  /\ UNCHANGED <<total, orders, requests, faults, history>>

\* Then to the product.
GiveBackTotal(d, i) ==
  /\ work[d].at = "returning"
  /\ i \in work[d].on
  /\ total' = GiveBackTotals(total, Restrict(orders[work[d].id].lines, {i}))
  /\ Goes(d, Returning(work[d].id, work[d].left, {}))
  /\ UNCHANGED <<shelf, orders, requests, faults, history>>

Close(d) ==
  /\ work[d].at = "returning"
  /\ work[d].left = {} /\ work[d].on = {}
  /\ orders' = [orders EXCEPT ![work[d].id].status = "cancelled"]
  /\ Goes(d, [at |-> "noting", id |-> work[d].id, step |-> "cancelled",
              todo |-> [k \in {} |-> "paid"]])
  /\ UNCHANGED <<shelf, total, requests, faults, history>>

----------------------------------------------------------------------------
(* Failures.                                                               *)

\* The items a Worker gave back for a cancellation that has no tracking line.
GivenBack(r) ==
  CASE r.at = "returning" -> DOMAIN orders[r.id].lines \ r.left
    [] r.at = "noting" /\ r.step = "cancelled" -> DOMAIN orders[r.id].lines
    [] OTHER -> {}

Given(r, i) == IF i \in GivenBack(r) THEN orders[r.id].lines[i].quantity ELSE 0

\* Any statement may fail and the Worker may die: it stops where it is.
Stop(a) ==
  /\ work[a] # Idle
  /\ faults < MaxFaults
  /\ faults' = faults + 1
  /\ stray' = [i \in Item |-> stray[i] + Given(work[a], i)]
  /\ unnoted' = [k \in Ids |-> unnoted[k] \cup
                   (IF work[a].at = "noting" /\ work[a].id = k THEN {work[a].step} ELSE {})]
  /\ Goes(a, Idle)
  /\ UNCHANGED <<tables, requests>>

----------------------------------------------------------------------------
Step(a) == InsertTracking(a) \/ \E id \in Ids : SetStatus(a, id)

Cancelling(d) == Close(d) \/ \E i \in Item : GiveBack(d, i) \/ GiveBackTotal(d, i)

Next ==
  \/ \E d \in Desk : \/ \E id \in Ids : AskAdvance(d, id) \/ AskCancel(d, id)
                     \/ Cancelling(d)
  \/ \E k \in Tick : TickStart(k)
  \/ \E a \in Worker : Step(a) \/ Stop(a)

Spec == Init /\ [][Next]_vars

\* The cron keeps firing, and a Worker that lives runs its statements.  Nothing
\* is asked of the requests.
FairSpec == Spec /\ \A k \in Tick : WF_vars(TickStart(k) \/ Step(k))

----------------------------------------------------------------------------
TypeOK ==
  /\ IsShelf(shelf)
  /\ total = [s \in Sku |-> total[s]]
  /\ orders = [k \in Ids |-> orders[k]]
  /\ \A id \in Ids :
       orders[id] \in [lines : {Bought[id]}, status : Statuses, tracking : Seq(Statuses)]
  /\ work = [a \in Worker |-> work[a]] /\ \A a \in Worker : IsWork(work[a])
  /\ requests \in 0 .. MaxRequests /\ faults \in 0 .. MaxFaults
  /\ stray = [i \in Item |-> stray[i]]
  /\ unnoted \in [Ids -> SUBSET Statuses]

----------------------------------------------------------------------------
(* The orders climb as promised: a status was reached when its row was     *)
(* written, even while its tracking line is still to come or never came.   *)

InFlight(id) == {work[a].step : a \in {b \in Worker : work[b].at = "noting" /\ work[b].id = id}}

Reached(id) == Range(orders[id].tracking) \cup InFlight(id) \cup unnoted[id]

Abstract == INSTANCE Parcel WITH
  status <- [id \in Ids |-> orders[id].status],
  reached <- [id \in Ids |-> Reached(id)]

\* However ticks, requests and deaths interleave, an order never jumps a rung,
\* is cancelled from a workshop it was in, and what its tracking lacks is what
\* a dead Worker left unwritten.
Climbs == Abstract!Spec

Cancellations(id) == {n \in DOMAIN orders[id].tracking : orders[id].tracking[n] = "cancelled"}

\* The shelf can be audited: what it holds beyond its first count was given
\* back by the cancellations on record, those under way, and those that died.
ShelfAuditsToTracking ==
  \A i \in DOMAIN shelf :
    shelf[i] = InitialShelf[i] + stray[i]
      + SumFunction([a \in Worker |-> Given(work[a], i)])
      + SumFunction([id \in {k \in Ids : i \in DOMAIN orders[k].lines} |->
                       Cardinality(Cancellations(id)) * orders[id].lines[i].quantity])

\* Every parcel gets somewhere and stays there, though two ticks may move the
\* same order from the same reading and a late one may take it back down.
EveryParcelSettles ==
  \A id \in Ids : <>[](orders[id].status \in {"delivered", "cancelled"})
=============================================================================

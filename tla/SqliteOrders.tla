---------------------------- MODULE SqliteOrders ----------------------------
(***************************************************************************)
(* The life of an order on the native host, once it is paid: customers     *)
(* advance or cancel it from its page, and the sweep (march_parcels) moves *)
(* every waiting order up one rung per period.                             *)
(*                                                                         *)
(* Every writer reads the status first and writes later, in a transaction  *)
(* of its own that does not look at the status again; the writes of one    *)
(* transaction are one step.                                               *)
(***************************************************************************)
EXTENDS Tables, Sequences, FiniteSets

CONSTANTS Desk,           \* requests that may be in flight at once
          InitialShelf,
          Bought,         \* the lines of each order, a sequence of lines
          MaxRequests, MaxFaults

ASSUME OrdersAssumption ==
  /\ IsShelf(InitialShelf)
  /\ Len(Bought) \in Nat /\ Bought = [k \in 1 .. Len(Bought) |-> Bought[k]]
  /\ \A k \in 1 .. Len(Bought) : IsLines(Bought[k])
  /\ MaxRequests \in Nat /\ MaxFaults \in Nat

VARIABLES
  shelf, total,
  orders,            \* order and order_lines, status and tracking, by id
  desk,              \* the request each desk has in flight
  sweep,             \* the statuses the running sweep read, by id, still to move
  requests, faults   \* what has been spent of each bound

vars == <<shelf, total, orders, desk, sweep, requests, faults>>

Ids == DOMAIN orders

Idle == [at |-> "idle"]

NoSweep == [k \in {} |-> "paid"]

IsRequest(r) ==
  \/ r = Idle
  \/ r \in [at : {"advancing"}, id : Ids, seen : DOMAIN Ladder]
  \/ r \in [at : {"cancelling"}, id : Ids]

Init ==
  /\ shelf = InitialShelf
  /\ total = [s \in Sku |-> ShelfSum(InitialShelf, s)]
  /\ orders = [k \in 1 .. Len(Bought) |->
                 [lines |-> Bought[k], status |-> "paid", tracking |-> <<"paid">>]]
  /\ desk = [d \in Desk |-> Idle]
  /\ sweep = NoSweep
  /\ requests = 0 /\ faults = 0

\* Mutation: a cancelled order keeps its status, and gets the tracking line.
RecordUnlessCancelled(id, status) ==
  orders' = [orders EXCEPT ![id].status = IF @ = "cancelled" THEN @ ELSE status,
                           ![id].tracking = Append(@, status)]

\* The transaction's last two writes: the status and its tracking line.
Record(id, status) ==
  orders' = [orders EXCEPT ![id].status = status,
                           ![id].tracking = Append(@, status)]

Receive(d, r) ==
  /\ desk[d] = Idle
  /\ requests < MaxRequests
  /\ requests' = requests + 1
  /\ desk' = [desk EXCEPT ![d] = r]
  /\ UNCHANGED <<shelf, total, orders, sweep, faults>>

----------------------------------------------------------------------------
(* advance_order.                                                          *)

\* The order is read; one with nowhere to go is answered at once.
AskAdvance(d, id) ==
  /\ HasNextStep(orders[id].status)
  /\ Receive(d, [at |-> "advancing", id |-> id, seen |-> orders[id].status])

Advance(d) ==
  /\ desk[d].at = "advancing"
  /\ Record(desk[d].id, NextStep(desk[d].seen))
  /\ desk' = [desk EXCEPT ![d] = Idle]
  /\ UNCHANGED <<shelf, total, sweep, requests, faults>>

----------------------------------------------------------------------------
(* cancel_order.                                                           *)

\* The order is read; one that left the workshop is not cancelled.
AskCancel(d, id) ==
  /\ orders[id].status \in Workshop
  /\ Receive(d, [at |-> "cancelling", id |-> id])

Cancel(d) ==
  /\ desk[d].at = "cancelling"
  /\ LET id == desk[d].id
     IN  /\ shelf' = GiveBackAll(shelf, orders[id].lines)
         /\ total' = GiveBackTotals(total, orders[id].lines)
         /\ Record(id, "cancelled")
  /\ desk' = [desk EXCEPT ![d] = Idle]
  /\ UNCHANGED <<sweep, requests, faults>>

----------------------------------------------------------------------------
(* advance_pending, called by march_parcels: one sweep at a time.          *)

\* Mutations: the list of statuses in the query too long, or too short.
EveryOrder == Ids

NotShipped == {id \in Ids : orders[id].status \in {"paid", "packing"}}

Waiting == {id \in Ids : HasNextStep(orders[id].status)}

SweepStart ==
  /\ sweep = NoSweep
  /\ Waiting # {}
  /\ sweep' = [id \in Waiting |-> orders[id].status]
  /\ UNCHANGED <<shelf, total, orders, desk, requests, faults>>

\* The next row of the list, in whatever order the query gave it.  The loop skips
\* a row without a next step; the query lists none.
SweepOne(id) ==
  /\ id \in DOMAIN sweep
  /\ Record(id, NextStep(sweep[id]))
  /\ sweep' = Restrict(sweep, DOMAIN sweep \ {id})
  /\ UNCHANGED <<shelf, total, desk, requests, faults>>

\* An error, or a restart, gives up the rest of the list until the next period.
SweepFails ==
  /\ sweep # NoSweep
  /\ faults < MaxFaults
  /\ faults' = faults + 1
  /\ sweep' = NoSweep
  /\ UNCHANGED <<shelf, total, orders, desk, requests>>

Sweep == SweepStart \/ \E id \in Ids : SweepOne(id)

----------------------------------------------------------------------------
Next ==
  \/ \E d \in Desk :
       \/ \E id \in Ids : AskAdvance(d, id) \/ AskCancel(d, id)
       \/ Advance(d) \/ Cancel(d)
  \/ Sweep \/ SweepFails

Spec == Init /\ [][Next]_vars

\* The interval keeps ticking and the loop never ends.  Nothing is asked of
\* the requests: one whose connection dropped simply never goes on.
FairSpec == Spec /\ WF_vars(Sweep)

----------------------------------------------------------------------------
TypeOK ==
  /\ IsShelf(shelf)
  /\ total = [s \in Sku |-> total[s]]
  /\ orders = [k \in 1 .. Len(Bought) |-> orders[k]]
  /\ \A id \in Ids :
       orders[id] \in [lines : {Bought[id]}, status : Statuses, tracking : Seq(Statuses)]
  /\ desk = [d \in Desk |-> desk[d]] /\ \A d \in Desk : IsRequest(desk[d])
  /\ DOMAIN sweep \subseteq Ids /\ sweep \in [DOMAIN sweep -> DOMAIN Ladder]
  /\ requests \in 0 .. MaxRequests /\ faults \in 0 .. MaxFaults

Steps(id) == orders[id].tracking

\* The rungs an order has on record are the ones it reached.
Abstract == INSTANCE Parcel WITH
  status <- [id \in Ids |-> orders[id].status],
  reached <- [id \in Ids |-> Range(Steps(id))]

\* However customers and sweeps write over each other from stale readings, an
\* order lives as the edge's does: it never jumps a rung, is cancelled only if
\* it was in the workshop, and each status it takes is put on record with it.
Climbs == Abstract!Spec

Cancellations(id) == {n \in DOMAIN Steps(id) : Steps(id)[n] = "cancelled"}

\* The shelf can be audited from the orders: what it holds beyond its first
\* count is what the cancellations on record gave back, line by line.
ShelfAuditsToTracking ==
  \A i \in DOMAIN shelf :
    shelf[i] = InitialShelf[i]
      + SumFunction([id \in {k \in Ids : i \in DOMAIN orders[k].lines} |->
                       Cardinality(Cancellations(id)) * orders[id].lines[i].quantity])

\* Every parcel gets somewhere and stays there: the sweep never leaves an
\* order on a rung it could climb from, whatever failed on the way.
EveryParcelSettles ==
  \A id \in 1 .. Len(Bought) : <>[](orders[id].status \in {"delivered", "cancelled"})

----------------------------------------------------------------------------
(* What the comments claim, and the interleavings break.                   *)

\* "Cancels an order while it is still in the workshop -- paid or packing,
\* nothing later", and the sweep walks "every order that still has a rung to
\* climb": an order is cancelled in the workshop only, and left alone from then on.
CancelledInWorkshopForGood ==
  [][\A id \in Ids : Steps(id)' # Steps(id)
       => /\ orders[id].status # "cancelled"
          /\ orders'[id].status = "cancelled" => orders[id].status \in Workshop]_vars
=============================================================================

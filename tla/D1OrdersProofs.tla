--------------------------- MODULE D1OrdersProofs ---------------------------
(***************************************************************************)
(* Proofs about D1Orders, for any number of orders, requests, overlapping  *)
(* ticks and deaths.                                                       *)
(***************************************************************************)
EXTENDS D1Orders, TablesProofs, TLAPS

----------------------------------------------------------------------------
(* Types.                                                                  *)

\* What the orders keep while their statuses and tracking are written.
OrdersType ==
  /\ orders = [k \in Ids |-> orders[k]]
  /\ \A id \in Ids :
       orders[id] \in [lines : {Bought[id]}, status : Statuses, tracking : Seq(Statuses)]

WorkType == work = [a \in Worker |-> work[a]] /\ \A a \in Worker : IsWork(work[a])

\* A Worker that takes on well-typed work leaves all work well-typed.
LEMMA GoesType ==
  ASSUME WorkType, NEW a \in Worker, NEW r, IsWork(r), Goes(a, r)
  PROVE  WorkType'
BY DEF WorkType, Goes, IsWork, IsTodo, Ids

\* What a Worker carries, by where it stands.
LEMMA WorkFields ==
  ASSUME WorkType, NEW a \in Worker
  PROVE  /\ work[a].at = "moving" => IsTodo(work[a].todo)
         /\ work[a].at = "noting" =>
              work[a].id \in Ids /\ work[a].step \in Statuses /\ IsTodo(work[a].todo)
         /\ work[a].at = "returning" =>
              work[a].id \in Ids /\ work[a].left \cup work[a].on \subseteq DOMAIN Bought[work[a].id]
BY DEF WorkType, IsWork, Idle

\* The lines of an order stay those that were bought.
LEMMA OrderLines ==
  ASSUME OrdersType, NEW id \in Ids
  PROVE  IsLines(orders[id].lines) /\ orders[id].lines = Bought[id]
BY OrdersAssumption DEF OrdersType, Ids

\* A status written, or a line of tracking, keeps the orders well-typed.
LEMMA WriteType ==
  ASSUME OrdersType, NEW id \in Ids, NEW step \in Statuses,
         \/ orders' = [orders EXCEPT ![id].status = step]
         \/ orders' = [orders EXCEPT ![id].tracking = Append(@, step)]
  PROVE  OrdersType'
<1>1. Append(orders[id].tracking, step) \in Seq(Statuses)
  <2>1. orders[id].tracking \in Seq(Statuses)
    BY DEF OrdersType
  <2> QED
    BY <2>1, AppendProperties
<1> QED
  BY <1>1 DEF OrdersType, Ids

\* The rest of a list is a list.
LEMMA TodoType ==
  ASSUME NEW todo, IsTodo(todo), NEW id
  PROVE  IsTodo(Restrict(todo, DOMAIN todo \ {id}))
BY DEF IsTodo, Restrict

\* Whatever a Worker has left to do is well-typed work.
LEMMA RestType ==
  ASSUME NEW todo, IsTodo(todo)
  PROVE  IsWork(Rest(todo))
BY DEF Rest, IsWork

\* One step of the specification keeps everything well-typed.
LEMMA TypeStep == TypeOK /\ [Next]_vars => TypeOK'
<1> SUFFICES ASSUME TypeOK, [Next]_vars
             PROVE  TypeOK'
  OBVIOUS
<1> USE OrdersAssumption
<1>0. OrdersType /\ WorkType
  BY DEF TypeOK, OrdersType, WorkType
<1> DEFINE Others == /\ IsShelf(shelf')
                     /\ total' = [s \in Sku |-> total'[s]]
                     /\ requests' \in 0 .. MaxRequests /\ faults' \in 0 .. MaxFaults
                     /\ stray' = [i \in Item |-> stray'[i]]
                     /\ unnoted' \in [Ids -> SUBSET Statuses]
<1>a. OrdersType' /\ WorkType' /\ Others => TypeOK'
  BY DEF TypeOK, OrdersType, WorkType, Ids
<1>b. UNCHANGED <<shelf, total, requests, faults, history>> => Others
  BY DEF TypeOK, history
<1>1. ASSUME NEW d \in Desk, NEW r, IsWork(r), Receive(d, r)
      PROVE  TypeOK'
  <2>1. OrdersType' /\ WorkType'
    BY <1>0, <1>1, GoesType DEF Receive, Worker, tables, OrdersType, Ids
  <2>2. Others
    BY <1>1 DEF Receive, tables, history, TypeOK
  <2> QED
    BY <1>a, <2>1, <2>2
<1>2. ASSUME NEW d \in Desk, NEW id \in Ids, AskAdvance(d, id)
      PROVE  TypeOK'
  <2>1. IsTodo([k \in {id} |-> orders[id].status])
    BY <1>2 DEF AskAdvance, HasNextStep, IsTodo
  <2> QED
    BY <1>1, <1>2, <2>1 DEF AskAdvance, IsWork
<1>3. ASSUME NEW d \in Desk, NEW id \in Ids, AskCancel(d, id)
      PROVE  TypeOK'
  <2>1. DOMAIN orders[id].lines = DOMAIN Bought[id]
    BY <1>0, OrderLines
  <2> QED
    BY <1>1, <1>3, <2>1 DEF AskCancel, IsWork, Returning
<1>4. ASSUME NEW k \in Tick, TickStart(k)
      PROVE  TypeOK'
  <2>1. IsTodo([id \in Waiting |-> orders[id].status])
    BY DEF IsTodo, Waiting, HasNextStep
  <2>2. OrdersType' /\ WorkType'
    BY <1>0, <1>4, <2>1, GoesType DEF TickStart, Worker, tables, OrdersType, Ids, IsWork
  <2>3. Others
    BY <1>4 DEF TickStart, tables, history, TypeOK
  <2> QED
    BY <1>a, <2>2, <2>3
<1>5. ASSUME NEW a \in Worker, NEW id \in Ids, SetStatus(a, id)
      PROVE  TypeOK'
  <2>1. IsTodo(work[a].todo) /\ work[a].todo[id] \in DOMAIN Ladder
    BY <1>0, <1>5, WorkFields DEF SetStatus, IsTodo
  <2>2. NextStep(work[a].todo[id]) \in Statuses
    BY <2>1, NextStepType
  <2>3. OrdersType'
    BY <1>0, <1>5, <2>2, WriteType DEF SetStatus
  <2>4. IsTodo(Restrict(work[a].todo, DOMAIN work[a].todo \ {id}))
    BY <2>1, TodoType
  <2>5. WorkType'
    BY <1>0, <1>5, <2>2, <2>4, GoesType DEF SetStatus, IsWork
  <2> QED
    BY <1>5, <1>a, <1>b, <2>3, <2>5 DEF SetStatus
<1>6. ASSUME NEW a \in Worker, InsertTracking(a)
      PROVE  TypeOK'
  <2>1. work[a].id \in Ids /\ work[a].step \in Statuses /\ IsTodo(work[a].todo)
    BY <1>0, <1>6, WorkFields DEF InsertTracking
  <2>2. OrdersType'
    BY <1>0, <1>6, <2>1, WriteType DEF InsertTracking
  <2>3. WorkType'
    BY <1>0, <1>6, <2>1, RestType, GoesType DEF InsertTracking
  <2> QED
    BY <1>6, <1>a, <1>b, <2>2, <2>3 DEF InsertTracking
<1>7. ASSUME NEW d \in Desk, NEW i \in Item, GiveBack(d, i) \/ GiveBackTotal(d, i)
      PROVE  TypeOK'
  <2>1. /\ work[d].id \in Ids /\ d \in Worker
        /\ work[d].left \cup work[d].on \subseteq DOMAIN Bought[work[d].id]
        /\ i \in work[d].left \cup work[d].on
    BY <1>0, <1>7, WorkFields DEF GiveBack, GiveBackTotal, Worker
  <2>2. WorkType'
    <3>1. /\ IsWork(Returning(work[d].id, work[d].left \ {i}, {i}))
          /\ IsWork(Returning(work[d].id, work[d].left, {}))
      BY <2>1 DEF IsWork, Returning
    <3> QED
      BY <1>0, <1>7, <2>1, <3>1, GoesType DEF GiveBack, GiveBackTotal
  <2>3. IsShelf(shelf') /\ total' = [s \in Sku |-> total'[s]]
    <3>1. IsLines(Restrict(orders[work[d].id].lines, {i}))
      <4>1. IsLines(orders[work[d].id].lines) /\ i \in DOMAIN orders[work[d].id].lines
        BY <1>0, <2>1, OrderLines
      <4> QED
        BY <4>1, FS_Singleton DEF IsLines, IsTable, Restrict
    <3>2. IsShelf(GiveBackAll(shelf, Restrict(orders[work[d].id].lines, {i})))
      BY <3>1, GiveBackAllType DEF TypeOK
    <3>3. CASE GiveBack(d, i)
      BY <3>2, <3>3 DEF GiveBack, TypeOK
    <3>4. CASE GiveBackTotal(d, i)
      BY <3>4 DEF GiveBackTotal, GiveBackTotals, TypeOK
    <3> QED
      BY <1>7, <3>3, <3>4
  <2>4. OrdersType' /\ Others
    BY <1>0, <1>7, <2>3 DEF GiveBack, GiveBackTotal, OrdersType, Ids, history, TypeOK
  <2> QED
    BY <1>a, <2>2, <2>4
<1>8. ASSUME NEW d \in Desk, Close(d)
      PROVE  TypeOK'
  <2>1. work[d].id \in Ids /\ d \in Worker
    BY <1>0, <1>8, WorkFields DEF Close, Worker
  <2>2. OrdersType'
    BY <1>0, <1>8, <2>1, WriteType DEF Close, Statuses
  <2>3. WorkType'
    BY <1>0, <1>8, <2>1, GoesType DEF Close, IsWork, IsTodo, Statuses
  <2> QED
    BY <1>8, <1>a, <1>b, <2>2, <2>3 DEF Close
<1>9. ASSUME NEW a \in Worker, Stop(a)
      PROVE  TypeOK'
  <2>1. OrdersType' /\ WorkType'
    BY <1>0, <1>9, GoesType DEF Stop, tables, OrdersType, Ids, IsWork
  <2>2. unnoted' \in [Ids -> SUBSET Statuses]
    BY <1>0, <1>9, WorkFields DEF Stop, TypeOK
  <2>3. Others
    BY <1>9, <2>2 DEF Stop, tables, TypeOK
  <2> QED
    BY <1>a, <2>1, <2>3
<1>10. CASE UNCHANGED vars
  BY <1>10, <1>0, <1>a, <1>b DEF vars, tables, OrdersType, WorkType, Ids
<1> QED
  BY <1>2, <1>3, <1>4, <1>5, <1>6, <1>7, <1>8, <1>9, <1>10 DEF Next, Step, Cancelling

\* The first state is well-typed.
LEMMA TypeInit == Init => TypeOK
<1> SUFFICES ASSUME Init PROVE TypeOK
  OBVIOUS
<1>1. <<"paid">> \in Seq(Statuses) /\ "paid" \in Statuses
  BY DEF Statuses
<1> QED
  BY <1>1, OrdersAssumption DEF Init, TypeOK, IsWork, Ids

\* Every table, Worker and history of the order life stays well-typed.
THEOREM TypeCorrect == Spec => []TypeOK
BY TypeInit, TypeStep, PTL DEF Spec

----------------------------------------------------------------------------
(* The orders climb as promised.                                           *)

\* The strengthening: whatever a Worker saw, however long ago, the order
\* reached; and a status written is reached at once.
Saw(r) ==
  /\ r.at \in {"moving", "noting"} => \A id \in DOMAIN r.todo : r.todo[id] \in Reached(id)
  /\ r.at = "noting" => r.step \in Reached(r.id)
  /\ r.at = "returning" => Workshop \cap Reached(r.id) # {}

ReachedInv ==
  /\ TypeOK
  /\ \A id \in Ids : orders[id].status \in Reached(id)
  /\ \A a \in Worker : Saw(work[a])

\* What a step may do to the statuses: reach one of them, on one order; or
\* nothing.
Reaches(id, step) ==
  /\ Reached(id)' = Reached(id) \cup {step}
  /\ \A k \in Ids \ {id} : Reached(k)' = Reached(k)

SameReach == \A id \in Ids : Reached(id)' = Reached(id)

\* A line more in the tracking is a status more in its range.
LEMMA RangeAppend ==
  ASSUME NEW S, NEW seq \in Seq(S), NEW x \in S
  PROVE  Range(Append(seq, x)) = Range(seq) \cup {x}
<1>1. /\ Append(seq, x) \in Seq(S)
      /\ Len(Append(seq, x)) = Len(seq) + 1
      /\ \A n \in 1 .. Len(seq) : Append(seq, x)[n] = seq[n]
      /\ Append(seq, x)[Len(seq) + 1] = x
  BY AppendProperties
<1>2. /\ DOMAIN seq = 1 .. Len(seq) /\ Len(seq) \in Nat
      /\ DOMAIN Append(seq, x) = 1 .. Len(seq) + 1
  BY <1>1, LenProperties
<1> QED
  BY <1>1, <1>2 DEF Range

\* A Worker that had no status to note, and takes none, changes none in flight.
LEMMA InFlightSame ==
  ASSUME WorkType, NEW a \in Worker, NEW r, Goes(a, r),
         work[a].at # "noting", r.at # "noting"
  PROVE  \A id : InFlight(id)' = InFlight(id)
BY DEF InFlight, Goes, WorkType

\* One that takes a status to note puts it in flight.
LEMMA InFlightMore ==
  ASSUME WorkType, NEW a \in Worker, NEW r, Goes(a, r),
         work[a].at # "noting", r.at = "noting"
  PROVE  /\ InFlight(r.id)' = InFlight(r.id) \cup {r.step}
         /\ \A k : k # r.id => InFlight(k)' = InFlight(k)
BY DEF InFlight, Goes, WorkType

\* One that had a status to note, and is done with it, takes at most that one out
\* of flight: another Worker may carry the same.
LEMMA InFlightLess ==
  ASSUME WorkType, NEW a \in Worker, NEW r, Goes(a, r), r.at # "noting",
         NEW id, NEW step, work[a].at = "noting", work[a].id = id, work[a].step = step
  PROVE  /\ InFlight(id)' \cup {step} = InFlight(id)
         /\ \A k : k # id => InFlight(k)' = InFlight(k)
BY DEF InFlight, Goes, WorkType

\* A step that writes no tracking line and notes nothing reaches nothing.
LEMMA QuietStep ==
  ASSUME TypeOK, NEW a \in Worker, NEW r, Goes(a, r),
         work[a].at # "noting", r.at # "noting", UNCHANGED <<orders, unnoted>>
  PROVE  SameReach
BY InFlightSame DEF SameReach, Reached, TypeOK, WorkType

\* A status written reaches it, and nothing else.
LEMMA WriteReaches ==
  ASSUME TypeOK, NEW a \in Worker, NEW r, Goes(a, r), work[a].at # "noting",
         r.at = "noting", r.id \in Ids,
         orders' = [orders EXCEPT ![r.id].status = r.step], UNCHANGED unnoted
  PROVE  /\ Reaches(r.id, r.step)
         /\ orders'[r.id].status = r.step
         /\ \A k \in Ids \ {r.id} : orders'[k].status = orders[k].status
<1>1. /\ \A k \in Ids : orders'[k].tracking = orders[k].tracking
      /\ orders'[r.id].status = r.step
      /\ \A k \in Ids \ {r.id} : orders'[k].status = orders[k].status
  BY DEF TypeOK
<1>2. /\ InFlight(r.id)' = InFlight(r.id) \cup {r.step}
      /\ \A k : k # r.id => InFlight(k)' = InFlight(k)
  BY InFlightMore DEF TypeOK, WorkType
<1> QED
  BY <1>1, <1>2 DEF Reaches, Reached

\* A tracking line, or a Worker that dies before it, reaches nothing new.
LEMMA NotedReaches ==
  ASSUME TypeOK, NEW a \in Worker, InsertTracking(a) \/ Stop(a)
  PROVE  SameReach /\ \A k \in Ids : orders'[k].status = orders[k].status
<1>0. WorkType
  BY DEF TypeOK, WorkType
<1>1. CASE InsertTracking(a)
  <2>1. PICK id \in Ids, step \in Statuses : id = work[a].id /\ step = work[a].step
    BY <1>0, <1>1, WorkFields DEF InsertTracking
  <2>2. Rest(work[a].todo).at # "noting"
    BY DEF Rest, Idle
  <2>3. /\ InFlight(id)' \cup {step} = InFlight(id)
        /\ \A k : k # id => InFlight(k)' = InFlight(k)
    BY <1>0, <1>1, <2>1, <2>2, InFlightLess DEF InsertTracking
  <2>4. /\ orders'[id].tracking = Append(orders[id].tracking, step)
        /\ \A k \in Ids \ {id} : orders'[k] = orders[k]
        /\ \A k \in Ids : orders'[k].status = orders[k].status
        /\ orders[id].tracking \in Seq(Statuses)
    BY <1>1, <2>1 DEF InsertTracking, TypeOK
  <2>5. Range(orders'[id].tracking) = Range(orders[id].tracking) \cup {step}
    BY <2>1, <2>4, RangeAppend
  <2>6. unnoted' = unnoted
    BY <1>1 DEF InsertTracking, history
  <2>7. Reached(id)' = Reached(id)
    BY <2>3, <2>5, <2>6 DEF Reached
  <2>8. ASSUME NEW k \in Ids \ {id}
        PROVE  Reached(k)' = Reached(k)
    BY <2>3, <2>4, <2>6 DEF Reached
  <2> QED
    BY <2>4, <2>7, <2>8 DEF SameReach
<1>2. CASE Stop(a) /\ work[a].at = "noting"
  <2>1. PICK id \in Ids, step \in Statuses : id = work[a].id /\ step = work[a].step
    BY <1>0, <1>2, WorkFields
  <2>2. /\ InFlight(id)' \cup {step} = InFlight(id)
        /\ \A k : k # id => InFlight(k)' = InFlight(k)
    BY <1>0, <1>2, <2>1, InFlightLess DEF Stop, Idle
  <2>3. /\ orders' = orders
        /\ unnoted'[id] = unnoted[id] \cup {step}
        /\ \A k \in Ids \ {id} : unnoted'[k] = unnoted[k]
    BY <1>2, <2>1 DEF Stop, tables, TypeOK
  <2>4. Reached(id)' = Reached(id)
    BY <2>2, <2>3 DEF Reached
  <2>5. ASSUME NEW k \in Ids \ {id}
        PROVE  Reached(k)' = Reached(k)
    BY <2>2, <2>3 DEF Reached
  <2> QED
    BY <2>3, <2>4, <2>5 DEF SameReach
<1>3. CASE Stop(a) /\ work[a].at # "noting"
  <2>1. orders' = orders /\ \A k \in Ids : unnoted'[k] = unnoted[k]
    BY <1>3 DEF Stop, tables, TypeOK
  <2>2. \A id : InFlight(id)' = InFlight(id)
    BY <1>0, <1>3, InFlightSame DEF Stop, Idle
  <2> QED
    BY <2>1, <2>2 DEF SameReach, Reached
<1> QED
  BY <1>1, <1>2, <1>3

\* What a Worker saw stays reached, as long as nothing reached is forgotten.
LEMMA SawKept ==
  ASSUME ReachedInv, NEW b \in Worker, work'[b] = work[b],
         \A id \in Ids : Reached(id) \subseteq Reached(id)'
  PROVE  Saw(work[b])'
<1>1. PICK r : r = work[b]
  OBVIOUS
<1>2. Saw(r) /\ WorkType
  BY <1>1 DEF ReachedInv, TypeOK, WorkType
<1>3. /\ r.at \in {"moving", "noting"} => DOMAIN r.todo \subseteq Ids
      /\ r.at \in {"noting", "returning"} => r.id \in Ids
  BY <1>1, <1>2, WorkFields DEF IsTodo
<1>4. /\ r.at \in {"moving", "noting"} =>
           \A id \in DOMAIN r.todo : r.todo[id] \in Reached(id)'
      /\ r.at = "noting" => r.step \in Reached(r.id)'
      /\ r.at = "returning" => Workshop \cap Reached(r.id)' # {}
  BY <1>2, <1>3 DEF Saw
<1> QED
  BY <1>1, <1>4 DEF Saw

\* A Worker takes on work from what was reached, and the others go on.
LEMMA SawStep ==
  ASSUME ReachedInv, TypeOK', NEW a \in Worker, NEW r, Goes(a, r), Saw(r)',
         \A id \in Ids : Reached(id) \subseteq Reached(id)',
         \A id \in Ids : orders'[id].status \in Reached(id)'
  PROVE  ReachedInv'
<1>1. work'[a] = r /\ \A b \in Worker \ {a} : work'[b] = work[b]
  BY DEF ReachedInv, TypeOK, Goes
<1>2. ASSUME NEW b \in Worker
      PROVE  Saw(work[b])'
  <2>1. CASE b = a
    BY <1>1, <2>1
  <2>2. CASE b # a
    BY <1>1, <2>2, SawKept
  <2> QED
    BY <2>1, <2>2
<1>3. \A id \in Ids : (orders[id].status \in Reached(id))'
  OBVIOUS
<1>4. Ids' = Ids /\ Worker' = Worker
  BY DEF Ids, Worker
<1> QED
  BY <1>2, <1>3, <1>4 DEF ReachedInv

\* A rung is reached from the one below it, and cancelled from the workshop.
LEMMA CameFromRung ==
  /\ \A s \in DOMAIN Ladder : s \in CameFrom(NextStep(s))
  /\ \A s \in Workshop : s \in CameFrom("cancelled")
BY DEF CameFrom, NextStep, Ladder, Statuses, Workshop

\* A status written after one it can be reached from is an abstract move.
LEMMA AbstractMove ==
  ASSUME NEW id \in Ids, NEW step \in Statuses, NEW s \in Reached(id) \cap CameFrom(step),
         Reaches(id, step), orders'[id].status = step,
         \A k \in Ids \ {id} : orders'[k].status = orders[k].status
  PROVE  Abstract!Next
<1> DEFINE status == [k \in Ids |-> orders[k].status]
           reached == [k \in Ids |-> Reached(k)]
<1>1. Abstract!CameFrom(step) = CameFrom(step) /\ step \in Abstract!Statuses
  BY DEF Abstract!CameFrom, CameFrom, Abstract!Statuses, Statuses, Abstract!Ladder, Ladder,
         Abstract!Workshop, Workshop
<1>2. reached[id] \cap Abstract!CameFrom(step) # {}
  BY <1>1
<1>3. status' = [status EXCEPT ![id] = step]
  BY DEF Ids
<1>4. reached' = [reached EXCEPT ![id] = @ \cup {step}]
  BY DEF Ids, Reaches
<1>5. Abstract!Move(id, step)
  BY <1>2, <1>3, <1>4 DEF Abstract!Move
<1> QED
  BY <1>1, <1>5 DEF Abstract!Next, Abstract!Order

\* A step that reaches nothing and writes no status is an abstract stutter.
LEMMA AbstractStutter ==
  ASSUME SameReach, \A k \in Ids : orders'[k].status = orders[k].status
  PROVE  UNCHANGED Abstract!vars
BY DEF SameReach, Abstract!vars, Ids

\* A step that takes on work and writes nothing to the orders.
LEMMA QuietClimb ==
  ASSUME ReachedInv, TypeOK', NEW a \in Worker, NEW r, Goes(a, r),
         work[a].at # "noting", r.at # "noting", UNCHANGED <<orders, unnoted>>, Saw(r)'
  PROVE  ReachedInv' /\ UNCHANGED Abstract!vars
<1>1. SameReach
  BY QuietStep DEF ReachedInv
<1> QED
  BY <1>1, SawStep, AbstractStutter DEF ReachedInv, SameReach

\* A status written from one that was reached.
LEMMA WriteClimb ==
  ASSUME ReachedInv, TypeOK', NEW a \in Worker, NEW r, Goes(a, r), work[a].at # "noting",
         r.at = "noting", r.id \in Ids, r.step \in Statuses, IsTodo(r.todo),
         orders' = [orders EXCEPT ![r.id].status = r.step], UNCHANGED unnoted,
         NEW s \in Reached(r.id) \cap CameFrom(r.step),
         \A id \in DOMAIN r.todo : r.todo[id] \in Reached(id)
  PROVE  ReachedInv' /\ Abstract!Next
<1>1. /\ Reaches(r.id, r.step)
      /\ orders'[r.id].status = r.step
      /\ \A k \in Ids \ {r.id} : orders'[k].status = orders[k].status
  BY WriteReaches DEF ReachedInv
<1>2. \A id \in Ids : Reached(id) \subseteq Reached(id)' /\ orders'[id].status \in Reached(id)'
  BY <1>1 DEF Reaches, ReachedInv
<1>3. Saw(r)'
  BY <1>1, <1>2 DEF Saw, IsTodo, Reaches
<1> QED
  BY <1>1, <1>2, <1>3, SawStep, AbstractMove

\* One step keeps what was seen reached, and is a step, or a stutter, of the
\* abstract life of an order.
LEMMA ClimbStep ==
  ASSUME ReachedInv, [Next]_vars
  PROVE  ReachedInv' /\ [Abstract!Next]_(Abstract!vars)
<1>0. TypeOK /\ TypeOK' /\ WorkType
  BY TypeStep DEF ReachedInv, TypeOK, WorkType
<1>1. ASSUME NEW d \in Desk, NEW id \in Ids, AskAdvance(d, id)
      PROVE  ReachedInv' /\ UNCHANGED Abstract!vars
  <2>1. PICK s : s = orders[id].status /\ s \in Reached(id)
    BY DEF ReachedInv
  <2> DEFINE r == [at |-> "moving", todo |-> [k \in {id} |-> s]]
  <2>2. /\ d \in Worker /\ Goes(d, r) /\ work[d].at # "noting"
        /\ UNCHANGED <<orders, unnoted>>
    BY <1>1, <2>1 DEF AskAdvance, Receive, Worker, Idle, tables, history
  <2>3. SameReach
    BY <1>0, <2>2, QuietStep
  <2>4. Saw(r)'
    BY <2>1, <2>3 DEF Saw, SameReach
  <2> QED
    BY <1>0, <2>2, <2>4, QuietClimb
<1>2. ASSUME NEW d \in Desk, NEW id \in Ids, AskCancel(d, id)
      PROVE  ReachedInv' /\ UNCHANGED Abstract!vars
  <2>1. PICK left : left = DOMAIN orders[id].lines
    OBVIOUS
  <2> DEFINE r == Returning(id, left, {})
  <2>2. /\ d \in Worker /\ Goes(d, r) /\ work[d].at # "noting"
        /\ UNCHANGED <<orders, unnoted>>
    BY <1>2, <2>1 DEF AskCancel, Receive, Worker, Idle, tables, history
  <2>3. SameReach /\ Workshop \cap Reached(id) # {}
    BY <1>0, <1>2, <2>2, QuietStep DEF AskCancel, ReachedInv, Returning
  <2>4. Saw(r)'
    BY <2>3 DEF Saw, SameReach, Returning
  <2> QED
    BY <1>0, <2>2, <2>4, QuietClimb DEF Returning
<1>3. ASSUME NEW k \in Tick, TickStart(k)
      PROVE  ReachedInv' /\ UNCHANGED Abstract!vars
  <2>1. PICK todo : todo = [id \in Waiting |-> orders[id].status]
    OBVIOUS
  <2> DEFINE r == [at |-> "moving", todo |-> todo]
  <2>2. /\ k \in Worker /\ Goes(k, r) /\ work[k].at # "noting"
        /\ UNCHANGED <<orders, unnoted>>
    BY <1>3, <2>1 DEF TickStart, Worker, Idle, tables, history
  <2>3. SameReach
    BY <1>0, <2>2, QuietStep
  <2>4. DOMAIN todo \subseteq Ids /\ \A id \in DOMAIN todo : todo[id] \in Reached(id)
    BY <2>1 DEF Waiting, ReachedInv
  <2>5. Saw(r)'
    BY <2>3, <2>4 DEF Saw, SameReach
  <2> QED
    BY <1>0, <2>2, <2>5, QuietClimb
<1>4. ASSUME NEW a \in Worker, NEW id \in Ids, SetStatus(a, id)
      PROVE  ReachedInv' /\ Abstract!Next
  <2>1. PICK todo : todo = work[a].todo
    OBVIOUS
  <2> DEFINE rest == Restrict(todo, DOMAIN todo \ {id})
             step == NextStep(todo[id])
             r == [at |-> "noting", id |-> id, step |-> step, todo |-> rest]
  <2>2. IsTodo(todo) /\ id \in DOMAIN todo /\ \A k \in DOMAIN todo : todo[k] \in Reached(k)
    BY <1>0, <1>4, <2>1, WorkFields DEF SetStatus, ReachedInv, Saw
  <2>3. todo[id] \in Reached(id) \cap CameFrom(step) /\ step \in Statuses
    BY <2>2, CameFromRung, NextStepType DEF IsTodo
  <2>4. /\ Goes(a, r) /\ work[a].at # "noting" /\ UNCHANGED unnoted
        /\ orders' = [orders EXCEPT ![id].status = step]
    BY <1>4, <2>1 DEF SetStatus, history
  <2>5. IsTodo(rest) /\ \A k \in DOMAIN rest : rest[k] \in Reached(k)
    BY <2>2, TodoType DEF Restrict
  <2>6. r.at = "noting" /\ r.id = id /\ r.step = step /\ r.todo = rest
    OBVIOUS
  <2> HIDE DEF rest, step, r
  <2> QED
    BY <1>0, <2>3, <2>4, <2>5, <2>6, WriteClimb
<1>5. ASSUME NEW a \in Worker, InsertTracking(a)
      PROVE  ReachedInv' /\ UNCHANGED Abstract!vars
  <2>1. PICK todo : todo = work[a].todo
    OBVIOUS
  <2>2. IsTodo(todo) /\ \A k \in DOMAIN todo : todo[k] \in Reached(k)
    BY <1>0, <1>5, <2>1, WorkFields DEF InsertTracking, ReachedInv, Saw
  <2>3. SameReach /\ \A k \in Ids : orders'[k].status = orders[k].status
    BY <1>0, <1>5, NotedReaches
  <2>4. Saw(Rest(todo))'
    BY <2>2, <2>3 DEF Saw, Rest, Idle, IsTodo, SameReach
  <2>5. Goes(a, Rest(todo))
    BY <1>5, <2>1 DEF InsertTracking
  <2> QED
    BY <1>0, <2>3, <2>4, <2>5, SawStep, AbstractStutter DEF ReachedInv, SameReach
<1>6. ASSUME NEW a \in Worker, Stop(a)
      PROVE  ReachedInv' /\ UNCHANGED Abstract!vars
  <2>1. SameReach /\ \A k \in Ids : orders'[k].status = orders[k].status
    BY <1>0, <1>6, NotedReaches
  <2>2. Goes(a, Idle) /\ Saw(Idle)'
    BY <1>6 DEF Stop, Saw, Idle
  <2> QED
    BY <1>0, <2>1, <2>2, SawStep, AbstractStutter DEF ReachedInv, SameReach
<1>7. ASSUME NEW d \in Desk, NEW i \in Item, GiveBack(d, i) \/ GiveBackTotal(d, i)
      PROVE  ReachedInv' /\ UNCHANGED Abstract!vars
  <2>1. PICK id, left, on : /\ id = work[d].id
                            /\ Goes(d, Returning(id, left, on))
    BY <1>7 DEF GiveBack, GiveBackTotal
  <2> DEFINE r == Returning(id, left, on)
  <2>2. /\ d \in Worker /\ id \in Ids /\ work[d].at = "returning"
        /\ UNCHANGED <<orders, unnoted>> /\ Workshop \cap Reached(id) # {}
    BY <1>0, <1>7, <2>1, WorkFields
    DEF GiveBack, GiveBackTotal, Worker, history, ReachedInv, Saw
  <2>3. SameReach
    BY <1>0, <2>1, <2>2, QuietStep DEF Returning
  <2>4. Saw(r)'
    BY <2>2, <2>3 DEF Saw, SameReach, Returning
  <2> QED
    BY <1>0, <2>1, <2>2, <2>4, QuietClimb DEF Returning
<1>8. ASSUME NEW d \in Desk, Close(d)
      PROVE  ReachedInv' /\ Abstract!Next
  <2>1. PICK id \in Ids : id = work[d].id /\ Workshop \cap Reached(id) # {}
    BY <1>0, <1>8, WorkFields DEF Close, Worker, ReachedInv, Saw
  <2> DEFINE r == [at |-> "noting", id |-> id, step |-> "cancelled",
                   todo |-> [k \in {} |-> "paid"]]
  <2>2. PICK s \in Reached(id) : s \in CameFrom("cancelled")
    BY <2>1, CameFromRung
  <2>3. /\ d \in Worker /\ Goes(d, r) /\ work[d].at # "noting" /\ UNCHANGED unnoted
        /\ orders' = [orders EXCEPT ![id].status = "cancelled"]
    BY <1>8, <2>1 DEF Close, history, Worker
  <2>4. IsTodo(r.todo) /\ DOMAIN r.todo = {} /\ r.step \in Statuses
    BY DEF IsTodo, Statuses
  <2> QED
    BY <1>0, <2>2, <2>3, <2>4, WriteClimb
<1>9. CASE UNCHANGED vars
  <2>1. SameReach
    BY <1>9 DEF vars, tables, history, SameReach, Reached, InFlight
  <2>2. \A a \in Worker : Saw(work[a])'
    BY <1>9, <2>1, SawKept DEF vars, SameReach
  <2> QED
    BY <1>0, <1>9, <2>1, <2>2, AbstractStutter
    DEF ReachedInv, vars, tables, SameReach, Ids, Worker
<1> QED
  BY <1>1, <1>2, <1>3, <1>4, <1>5, <1>6, <1>7, <1>8, <1>9 DEF Next, Step, Cancelling

\* Every order starts paid, with the line that says so, and nobody saw anything.
LEMMA ClimbInit == Init => ReachedInv /\ Abstract!Init
<1> SUFFICES ASSUME Init PROVE ReachedInv /\ Abstract!Init
  OBVIOUS
<1>1. \A id \in Ids : InFlight(id) = {} /\ unnoted[id] = {}
  BY DEF Init, InFlight, Idle
<1>2. \A id \in Ids : orders[id].status = "paid" /\ Range(orders[id].tracking) = {"paid"}
  BY DEF Init, Range
<1>3. \A id \in Ids : Reached(id) = {"paid"}
  BY <1>1, <1>2 DEF Reached
<1>4. \A a \in Worker : Saw(work[a])
  BY DEF Init, Idle, Saw
<1> QED
  BY <1>2, <1>3, <1>4, TypeInit DEF ReachedInv, Abstract!Init, Abstract!Order

\* The edge implements the abstract life of an order, whatever ticks overlap,
\* readings go stale and Workers die: no order jumps a rung, and none is
\* cancelled that was never in the workshop.
THEOREM AlwaysClimbs == Spec => Climbs
<1>1. ReachedInv /\ [Next]_vars => ReachedInv' /\ [Abstract!Next]_(Abstract!vars)
  BY ClimbStep
<1> QED
  BY <1>1, ClimbInit, PTL DEF Spec, Climbs, Abstract!Spec

----------------------------------------------------------------------------
(* Stock and tracking.                                                     *)

\* What a Worker gave back and nothing records yet, from the lines as bought.
Hand(r, i) ==
  IF /\ \/ r.at = "returning" /\ i \notin r.left
        \/ r.at = "noting" /\ r.step = "cancelled"
     /\ i \in DOMAIN Bought[r.id]
  THEN Bought[r.id][i].quantity ELSE 0

InHand(w, i) == SumFunctionOnSet([a \in Worker |-> Hand(w[a], i)], Worker)

\* Well-typed orders are a book to audit.
LEMMA BookOf ==
  ASSUME NEW book, book = [k \in Ids |-> book[k]],
         \A id \in Ids :
           book[id] \in [lines : {Bought[id]}, status : Statuses, tracking : Seq(Statuses)]
  PROVE  IsBook(book)
<1>1. IsFiniteSet(Ids)
  <2>1. Len(Bought) \in Int /\ 1 \in Int
    BY OrdersAssumption
  <2> QED
    BY <2>1, FS_Interval DEF Ids
<1>2. DOMAIN book = Ids
  OBVIOUS
<1>3. \A id \in Ids : IsLines(book[id].lines) /\ book[id].tracking \in Seq(Statuses)
  BY OrdersAssumption DEF Ids
<1> QED
  BY <1>1, <1>2, <1>3 DEF IsBook

\* Their lines are those bought.
LEMMA OrdersAreBook ==
  ASSUME TypeOK
  PROVE  /\ IsBook(orders) /\ DOMAIN orders = Ids
         /\ \A id \in Ids : orders[id].lines = Bought[id] /\ IsLines(Bought[id])
<1>1. IsBook(orders)
  BY BookOf DEF TypeOK
<1> QED
  BY <1>1, OrdersAssumption DEF TypeOK, Ids

\* What a Worker holds is a count.
LEMMA HandType ==
  ASSUME NEW r, IsWork(r), NEW i
  PROVE  Hand(r, i) \in Nat
<1>1. \A id \in Ids : \A j \in DOMAIN Bought[id] : Bought[id][j].quantity \in Nat
  BY OrdersAssumption DEF IsLines, IsTable, Ids
<1> QED
  BY <1>1 DEF Hand, IsWork, Idle

\* What the model counts is that.
LEMMA GivenIs ==
  ASSUME TypeOK, NEW a \in Worker, NEW i
  PROVE  Given(work[a], i) = Hand(work[a], i)
<1>1. \A id \in Ids : orders[id].lines = Bought[id]
  BY OrdersAreBook
<1>2. PICK r : r = work[a]
  OBVIOUS
<1>3. r.at \in {"noting", "returning"} => r.id \in Ids
  BY <1>2, WorkFields DEF TypeOK, WorkType
<1>4. CASE r.at = "returning"
  BY <1>1, <1>2, <1>3, <1>4 DEF Given, GivenBack, Hand
<1>5. CASE r.at # "returning"
  BY <1>1, <1>2, <1>3, <1>5 DEF Given, GivenBack, Hand
<1> QED
  BY <1>4, <1>5

\* The audit, in the terms of the lemmas about it.
LEMMA AuditIs ==
  TypeOK => (ShelfAuditsToTracking <=>
               \A i \in DOMAIN shelf :
                 shelf[i] = InitialShelf[i] + stray[i] + InHand(work, i) + Refunds(orders, i))
<1> SUFFICES ASSUME TypeOK, NEW i
             PROVE  /\ SumFunction([a \in Worker |-> Given(work[a], i)]) = InHand(work, i)
                    /\ SumFunction([id \in {k \in Ids : i \in DOMAIN orders[k].lines} |->
                         Cardinality(Cancellations(id)) * orders[id].lines[i].quantity])
                         = Refunds(orders, i)
  BY DEF ShelfAuditsToTracking
<1>2. \A a \in Worker : Given(work[a], i) = Hand(work[a], i)
  BY GivenIs
<1>3. [a \in Worker |-> Given(work[a], i)] = [a \in Worker |-> Hand(work[a], i)]
  BY <1>2
<1>4. DOMAIN orders = Ids
  BY DEF TypeOK
<1> QED
  BY <1>3, <1>4 DEF InHand, SumFunction, Refunds, Refund, Holding, Marks, Cancellations

\* What is in hand changes by what one Worker's hand changes.
LEMMA HandStep ==
  ASSUME WorkType, NEW a \in Worker, NEW r, IsWork(r), Goes(a, r), NEW i
  PROVE  /\ InHand(work, i) \in Int
         /\ InHand(work', i) = InHand(work, i) - Hand(work[a], i) + Hand(r, i)
<1> DEFINE f == [b \in Worker |-> Hand(work[b], i)]
           g == [b \in Worker |-> Hand(work'[b], i)]
<1>1. IsFiniteSet(Worker)
  BY OrdersAssumption DEF Worker
<1>2. \A b \in Worker : f[b] \in Int
  BY HandType DEF WorkType
<1>3. /\ g[a] = Hand(r, i) /\ g[a] \in Int
      /\ \A b \in Worker \ {a} : g[b] = f[b]
  BY HandType DEF Goes, WorkType
<1>4. f[a] = Hand(work[a], i)
  OBVIOUS
<1>5. InHand(work, i) = SumFunctionOnSet(f, Worker) /\ InHand(work', i) = SumFunctionOnSet(g, Worker)
  BY DEF InHand
<1> HIDE DEF f, g
<1>6. SumFunctionOnSet(f, Worker) \in Int
  BY <1>1, <1>2, SumAny
<1>7. SumFunctionOnSet(g, Worker) = SumFunctionOnSet(f, Worker) - f[a] + g[a]
  BY <1>1, <1>2, <1>3, SumChange
<1> QED
  BY <1>3, <1>4, <1>5, <1>6, <1>7

\* The strengthening: the rows are those of the first count, and what died in
\* hand is a count.
AuditInv ==
  /\ TypeOK
  /\ DOMAIN shelf = DOMAIN InitialShelf
  /\ stray \in [Item -> Nat]
  /\ ShelfAuditsToTracking

\* A step keeps the audit when, row by row, what the shelf gains is what died,
\* is in one Worker's hand, or is on record now and was not before.
LEMMA AuditKept ==
  ASSUME AuditInv, TypeOK', NEW a \in Worker, NEW r, IsWork(r), Goes(a, r),
         DOMAIN shelf' = DOMAIN shelf, stray' \in [Item -> Nat],
         \A i \in DOMAIN shelf :
           shelf'[i] + stray[i] + Hand(work[a], i) + Refunds(orders, i) =
             shelf[i] + stray'[i] + Hand(r, i) + Refunds(orders', i)
  PROVE  AuditInv'
<1>0. TypeOK /\ WorkType /\ IsBook(orders)
  BY OrdersAreBook DEF AuditInv, TypeOK, WorkType
<1>1. IsBook(orders')
  BY BookOf DEF TypeOK, Ids
<1>2. ASSUME NEW i \in DOMAIN shelf
      PROVE  shelf'[i] = InitialShelf[i] + stray'[i] + InHand(work', i) + Refunds(orders', i)
  <2>1. /\ InHand(work, i) \in Int
        /\ InHand(work', i) = InHand(work, i) - Hand(work[a], i) + Hand(r, i)
    BY <1>0, HandStep
  <2>2. Refunds(orders, i) \in Nat /\ Refunds(orders', i) \in Nat
    BY <1>0, <1>1, RefundType
  <2>3. Hand(work[a], i) \in Nat /\ Hand(r, i) \in Nat
    BY <1>0, HandType DEF WorkType
  <2>4. /\ i \in Item /\ shelf[i] \in Nat /\ shelf'[i] \in Nat /\ InitialShelf[i] \in Nat
        /\ stray[i] \in Nat /\ stray'[i] \in Nat
    BY OrdersAssumption DEF AuditInv, TypeOK, IsShelf, IsTable
  <2>5. shelf[i] = InitialShelf[i] + stray[i] + InHand(work, i) + Refunds(orders, i)
    BY <1>0, AuditIs DEF AuditInv
  <2>6. shelf'[i] + stray[i] + Hand(work[a], i) + Refunds(orders, i) =
          shelf[i] + stray'[i] + Hand(r, i) + Refunds(orders', i)
    OBVIOUS
  <2> QED
    BY <2>1, <2>2, <2>3, <2>4, <2>5, <2>6
<1>3. ShelfAuditsToTracking'
  <2>1. \A i \in DOMAIN shelf' :
          shelf'[i] = InitialShelf[i] + stray'[i] + InHand(work', i) + Refunds(orders', i)
    BY <1>2
  <2>2. (\A i \in DOMAIN shelf :
          shelf[i] = InitialShelf[i] + stray[i] + InHand(work, i) + Refunds(orders, i))'
    BY <2>1 DEF InHand, Worker, Hand
  <2> QED
    BY <2>2, AuditIs, PTL
<1> QED
  BY <1>3 DEF AuditInv

\* The same, for a step that leaves the shelf, the dead and the record alone.
LEMMA AuditQuiet ==
  ASSUME AuditInv, TypeOK', NEW a \in Worker, NEW r, IsWork(r), Goes(a, r),
         UNCHANGED <<shelf, stray>>,
         \A i \in DOMAIN shelf :
           Hand(r, i) = Hand(work[a], i) /\ Refunds(orders', i) = Refunds(orders, i)
  PROVE  AuditInv'
BY AuditKept DEF AuditInv

\* One step keeps the audit.
LEMMA AuditStep == AuditInv /\ [Next]_vars => AuditInv'
<1> SUFFICES ASSUME AuditInv, [Next]_vars
             PROVE  AuditInv'
  OBVIOUS
<1>0. TypeOK /\ TypeOK' /\ WorkType /\ OrdersType /\ IsBook(orders) /\ DOMAIN orders = Ids
  BY TypeStep, OrdersAreBook DEF AuditInv, TypeOK, WorkType, OrdersType
<1>1. \A id \in Ids : orders[id].lines = Bought[id] /\ IsLines(Bought[id])
  BY <1>0, OrdersAreBook
<1>2. ASSUME NEW d \in Desk, NEW id \in Ids, AskAdvance(d, id)
      PROVE  AuditInv'
  <2> DEFINE r == [at |-> "moving", todo |-> [k \in {id} |-> orders[id].status]]
  <2>1. /\ d \in Worker /\ Goes(d, r) /\ work[d] = Idle
        /\ UNCHANGED <<shelf, stray, orders>>
    BY <1>2 DEF AskAdvance, Receive, Worker, tables, history
  <2>2. IsWork(r)
    BY <1>2 DEF AskAdvance, HasNextStep, IsTodo, IsWork
  <2>3. \A i : Hand(r, i) = 0 /\ Hand(Idle, i) = 0
    BY DEF Hand, Idle
  <2> HIDE DEF r
  <2> QED
    BY <1>0, <2>1, <2>2, <2>3, AuditQuiet
<1>3. ASSUME NEW d \in Desk, NEW id \in Ids, AskCancel(d, id)
      PROVE  AuditInv'
  <2> DEFINE r == Returning(id, DOMAIN Bought[id], {})
  <2>1. /\ d \in Worker /\ Goes(d, r) /\ work[d] = Idle
        /\ UNCHANGED <<shelf, stray, orders>>
    BY <1>1, <1>3 DEF AskCancel, Receive, Worker, tables, history
  <2>2. IsWork(r)
    BY DEF IsWork, Returning
  <2>3. \A i : Hand(r, i) = 0 /\ Hand(Idle, i) = 0
    BY DEF Hand, Idle, Returning
  <2> HIDE DEF r
  <2> QED
    BY <1>0, <2>1, <2>2, <2>3, AuditQuiet
<1>4. ASSUME NEW k \in Tick, TickStart(k)
      PROVE  AuditInv'
  <2> DEFINE r == [at |-> "moving", todo |-> [id \in Waiting |-> orders[id].status]]
  <2>1. /\ k \in Worker /\ Goes(k, r) /\ work[k] = Idle
        /\ UNCHANGED <<shelf, stray, orders>>
    BY <1>4 DEF TickStart, Worker, tables, history
  <2>2. IsWork(r)
    BY DEF IsTodo, Waiting, HasNextStep, IsWork
  <2>3. \A i : Hand(r, i) = 0 /\ Hand(Idle, i) = 0
    BY DEF Hand, Idle
  <2> HIDE DEF r
  <2> QED
    BY <1>0, <2>1, <2>2, <2>3, AuditQuiet
<1>5. ASSUME NEW a \in Worker, NEW id \in Ids, SetStatus(a, id)
      PROVE  AuditInv'
  <2> DEFINE step == NextStep(work[a].todo[id])
             r == [at |-> "noting", id |-> id, step |-> step,
                   todo |-> Restrict(work[a].todo, DOMAIN work[a].todo \ {id})]
  <2>1. IsTodo(work[a].todo) /\ work[a].todo[id] \in DOMAIN Ladder
    BY <1>0, <1>5, WorkFields DEF SetStatus, IsTodo
  <2>2. step \in Statuses /\ step # "cancelled"
    BY <2>1 DEF NextStep, Ladder, Statuses
  <2>3. IsWork(r)
    BY <2>1, <2>2, TodoType DEF IsWork
  <2>4. /\ Goes(a, r) /\ work[a].at = "moving" /\ UNCHANGED <<shelf, stray>>
        /\ orders' = [orders EXCEPT ![id].status = step]
    BY <1>5 DEF SetStatus, history
  <2>5. \A i : Hand(r, i) = 0 /\ Hand(work[a], i) = 0
    BY <2>2, <2>4 DEF Hand
  <2> HIDE DEF r, step
  <2>6. \A i : Refunds(orders', i) = Refunds(orders, i)
    <3>1. /\ DOMAIN orders' = DOMAIN orders
          /\ \A k \in DOMAIN orders : /\ orders'[k].lines = orders[k].lines
                                     /\ orders'[k].tracking = orders[k].tracking
      BY <1>0, <2>4 DEF OrdersType
    <3> QED
      BY <3>1, RefundSame
  <2> QED
    BY <1>0, <2>3, <2>4, <2>5, <2>6, AuditQuiet
<1>6. ASSUME NEW a \in Worker, InsertTracking(a)
      PROVE  AuditInv'
  <2>1. PICK id \in Ids, step \in Statuses : id = work[a].id /\ step = work[a].step
    BY <1>0, <1>6, WorkFields DEF InsertTracking
  <2>2. PICK r : r = Rest(work[a].todo)
    OBVIOUS
  <2>3. IsWork(r) /\ r.at \in {"idle", "moving"}
    <3>1. IsTodo(work[a].todo)
      BY <1>0, <1>6, WorkFields DEF InsertTracking
    <3> QED
      BY <2>2, <3>1, RestType DEF Rest, Idle
  <2>4. /\ Goes(a, r) /\ UNCHANGED <<shelf, stray>> /\ work[a].at = "noting"
        /\ orders' = [orders EXCEPT ![id].tracking = Append(@, step)]
    BY <1>6, <2>1, <2>2 DEF InsertTracking, history
  <2>5. /\ DOMAIN orders' = Ids
        /\ \A k \in Ids : orders'[k].lines = orders[k].lines
        /\ orders'[id].tracking = Append(orders[id].tracking, step)
        /\ \A k \in Ids \ {id} : orders'[k].tracking = orders[k].tracking
    BY <1>0, <2>4 DEF OrdersType
  <2>6. ASSUME NEW i \in DOMAIN shelf
        PROVE  shelf'[i] + stray[i] + Hand(work[a], i) + Refunds(orders, i) =
                 shelf[i] + stray'[i] + Hand(r, i) + Refunds(orders', i)
    <3>1. Hand(r, i) = 0
      BY <2>3 DEF Hand
    <3>2. Hand(work[a], i) = IF step = "cancelled" /\ i \in DOMAIN orders[id].lines
                             THEN orders[id].lines[i].quantity ELSE 0
      BY <1>1, <2>1, <2>4 DEF Hand
    <3>3. Refunds(orders', i) = Refunds(orders, i)
            + (IF step = "cancelled" /\ i \in DOMAIN orders[id].lines
               THEN orders[id].lines[i].quantity ELSE 0)
      BY <1>0, <2>5, RefundStep
    <3>4. Refunds(orders', i) = Refunds(orders, i) + Hand(work[a], i)
      BY <3>2, <3>3, Zenon
    <3>5. /\ i \in Item /\ shelf[i] \in Nat /\ stray[i] \in Nat
          /\ Refunds(orders, i) \in Nat /\ Hand(work[a], i) \in Nat
      BY <1>0, RefundType, HandType DEF AuditInv, TypeOK, IsShelf, IsTable, WorkType
    <3> QED
      BY <2>4, <3>1, <3>4, <3>5
  <2> QED
    BY <1>0, <2>3, <2>4, <2>6, AuditKept DEF AuditInv
<1>7. ASSUME NEW d \in Desk, NEW i \in Item, GiveBack(d, i)
      PROVE  AuditInv'
  <2>1. PICK id \in Ids, left \in SUBSET DOMAIN Bought[work[d].id] :
              id = work[d].id /\ left = work[d].left
    BY <1>0, <1>7, WorkFields DEF GiveBack, Worker
  <2> DEFINE r == Returning(id, left \ {i}, {i})
  <2>2. /\ d \in Worker /\ Goes(d, r) /\ i \in left /\ work[d].at = "returning"
        /\ UNCHANGED <<stray, orders>>
        /\ shelf' = GiveBackAll(shelf, Restrict(Bought[id], {i}))
    BY <1>1, <1>7, <2>1 DEF GiveBack, Worker, history
  <2>3. IsWork(r) /\ i \in DOMAIN Bought[id]
    BY <2>1, <2>2 DEF IsWork, Returning
  <2>4. ASSUME NEW j \in DOMAIN shelf
        PROVE  shelf'[j] + stray[j] + Hand(work[d], j) + Refunds(orders, j) =
                 shelf[j] + stray'[j] + Hand(r, j) + Refunds(orders', j)
    <3>1. shelf'[j] = IF j = i THEN shelf[j] + Bought[id][i].quantity ELSE shelf[j]
      BY <2>2, <2>3 DEF GiveBackAll, Restrict
    <3>2. /\ j = i => Hand(work[d], j) = 0 /\ Hand(r, j) = Bought[id][i].quantity
          /\ j # i => Hand(r, j) = Hand(work[d], j)
      BY <2>1, <2>2, <2>3 DEF Hand, Returning
    <3>3. /\ j \in Item /\ shelf[j] \in Nat /\ stray[j] \in Nat /\ Bought[id][i].quantity \in Nat
          /\ Refunds(orders, j) \in Nat /\ Hand(work[d], j) \in Nat
      <4>1. IsLines(Bought[id])
        BY <1>1
      <4> QED
        BY <1>0, <2>2, <2>3, <4>1, RefundType, HandType
        DEF AuditInv, TypeOK, IsShelf, IsTable, WorkType, IsLines
    <3> QED
      BY <2>2, <3>1, <3>2, <3>3
  <2>5. DOMAIN shelf' = DOMAIN shelf
    BY <2>2 DEF GiveBackAll
  <2> HIDE DEF r
  <2> QED
    BY <1>0, <2>2, <2>3, <2>4, <2>5, AuditKept DEF AuditInv
<1>8. ASSUME NEW d \in Desk, NEW i \in Item, GiveBackTotal(d, i)
      PROVE  AuditInv'
  <2>1. PICK id \in Ids, left \in SUBSET DOMAIN Bought[work[d].id] :
              id = work[d].id /\ left = work[d].left
    BY <1>0, <1>8, WorkFields DEF GiveBackTotal, Worker
  <2> DEFINE r == Returning(id, left, {})
  <2>2. /\ d \in Worker /\ Goes(d, r) /\ work[d].at = "returning"
        /\ UNCHANGED <<shelf, stray, orders>>
    BY <1>8, <2>1 DEF GiveBackTotal, Worker, history
  <2>3. IsWork(r)
    BY <2>1 DEF IsWork, Returning
  <2>4. \A j : Hand(r, j) = Hand(work[d], j)
    BY <2>1, <2>2 DEF Hand, Returning
  <2> HIDE DEF r
  <2> QED
    BY <1>0, <2>2, <2>3, <2>4, AuditQuiet
<1>9. ASSUME NEW d \in Desk, Close(d)
      PROVE  AuditInv'
  <2>1. PICK id \in Ids : id = work[d].id
    BY <1>0, <1>9, WorkFields DEF Close, Worker
  <2> DEFINE r == [at |-> "noting", id |-> id, step |-> "cancelled",
                   todo |-> [k \in {} |-> "paid"]]
  <2>2. /\ d \in Worker /\ Goes(d, r) /\ work[d].at = "returning" /\ work[d].left = {}
        /\ UNCHANGED <<shelf, stray>>
        /\ orders' = [orders EXCEPT ![id].status = "cancelled"]
    BY <1>9, <2>1 DEF Close, Worker, history
  <2>3. IsWork(r)
    BY DEF IsWork, IsTodo, Statuses
  <2>4. \A i : Hand(r, i) = Hand(work[d], i)
    BY <2>1, <2>2 DEF Hand
  <2> HIDE DEF r
  <2>5. \A i : Refunds(orders', i) = Refunds(orders, i)
    <3>1. /\ DOMAIN orders' = DOMAIN orders
          /\ \A k \in DOMAIN orders : /\ orders'[k].lines = orders[k].lines
                                     /\ orders'[k].tracking = orders[k].tracking
      BY <1>0, <2>2 DEF OrdersType
    <3> QED
      BY <3>1, RefundSame
  <2> QED
    BY <1>0, <2>2, <2>3, <2>4, <2>5, AuditQuiet
<1>10. ASSUME NEW a \in Worker, Stop(a)
       PROVE  AuditInv'
  <2>1. /\ Goes(a, Idle) /\ UNCHANGED <<shelf, orders>>
        /\ stray' = [i \in Item |-> stray[i] + Given(work[a], i)]
    BY <1>10 DEF Stop, tables
  <2>2. \A i : Given(work[a], i) = Hand(work[a], i) /\ Hand(Idle, i) = 0
    <3>1. \A i : Given(work[a], i) = Hand(work[a], i)
      BY <1>0, GivenIs
    <3> QED
      BY <3>1 DEF Hand, Idle
  <2>3. \A i : Hand(work[a], i) \in Nat
    BY <1>0, HandType DEF WorkType
  <2>4. stray' \in [Item -> Nat] /\ \A i \in Item : stray'[i] = stray[i] + Hand(work[a], i)
    BY <2>1, <2>2, <2>3 DEF AuditInv
  <2>5. ASSUME NEW i \in DOMAIN shelf
        PROVE  shelf'[i] + stray[i] + Hand(work[a], i) + Refunds(orders, i) =
                 shelf[i] + stray'[i] + Hand(Idle, i) + Refunds(orders', i)
    <3>1. /\ i \in Item /\ shelf[i] \in Nat /\ stray[i] \in Nat
          /\ Refunds(orders, i) \in Nat /\ Hand(work[a], i) \in Nat
      BY <1>0, <2>3, RefundType DEF AuditInv, TypeOK, IsShelf, IsTable
    <3> QED
      BY <2>1, <2>2, <2>4, <3>1
  <2> QED
    BY <1>0, <2>1, <2>4, <2>5, AuditKept DEF IsWork
<1>11. CASE UNCHANGED vars
  BY <1>0, <1>11 DEF vars, tables, history, AuditInv, ShelfAuditsToTracking, Given, GivenBack,
                     Cancellations, Worker, Ids
<1> QED
  BY <1>2, <1>3, <1>4, <1>5, <1>6, <1>7, <1>8, <1>9, <1>10, <1>11 DEF Next, Step, Cancelling

\* At first nothing was cancelled, nor in hand.
LEMMA AuditInit == Init => AuditInv
<1> SUFFICES ASSUME Init PROVE AuditInv
  OBVIOUS
<1>1. TypeOK /\ IsBook(orders)
  BY TypeInit, OrdersAreBook
<1>2. \A i : Refunds(orders, i) = 0
  <2>1. \A k \in DOMAIN orders : Marks(orders[k].tracking) = {}
    BY DEF Init, Marks
  <2> QED
    BY <1>1, <2>1, RefundNone
<1>3. \A i : InHand(work, i) = 0
  <2> SUFFICES ASSUME NEW i
               PROVE  InHand(work, i) = 0
    OBVIOUS
  <2> DEFINE f == [a \in Worker |-> Hand(work[a], i)]
  <2>1. \A a \in Worker : f[a] = 0
    BY DEF Init, Hand, Idle
  <2>2. IsFiniteSet(Worker) /\ {} \in SUBSET Worker
    BY OrdersAssumption DEF Worker
  <2>3. SumFunctionOnSet(f, Worker) = SumFunctionOnSet(f, {})
    <3> HIDE DEF f
    <3> QED
      BY <2>1, <2>2, SumPart
  <2> QED
    BY <2>3, SumEmpty DEF InHand
<1>4. /\ shelf = InitialShelf /\ stray \in [Item -> Nat]
      /\ \A i \in DOMAIN shelf : i \in Item /\ shelf[i] \in Nat /\ stray[i] = 0
  BY OrdersAssumption DEF Init, IsShelf, IsTable
<1>5. \A i \in DOMAIN shelf :
        shelf[i] = InitialShelf[i] + stray[i] + InHand(work, i) + Refunds(orders, i)
  BY <1>2, <1>3, <1>4
<1> QED
  BY <1>1, <1>4, <1>5, AuditIs DEF AuditInv

\* The shelf can always be audited, whatever overlaps and wherever Workers die:
\* what it gained is on record, in a Worker's hand, or died there.
THEOREM ShelfAlwaysAudits == Spec => []ShelfAuditsToTracking
<1>1. AuditInv => ShelfAuditsToTracking
  BY DEF AuditInv
<1> QED
  BY <1>1, AuditInit, AuditStep, PTL DEF Spec
=============================================================================

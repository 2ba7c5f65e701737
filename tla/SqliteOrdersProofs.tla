------------------------- MODULE SqliteOrdersProofs -------------------------
(***************************************************************************)
(* Proofs about SqliteOrders, for any number of orders, desks and items.   *)
(***************************************************************************)
EXTENDS SqliteOrders, TablesProofs, TLAPS

----------------------------------------------------------------------------
(* Types.                                                                  *)

\* Writing a status to an order keeps every order well-typed.
LEMMA RecordType ==
  ASSUME TypeOK, NEW id \in Ids, NEW status \in Statuses, Record(id, status)
  PROVE  /\ Ids' = Ids
         /\ orders' = [k \in 1 .. Len(Bought) |-> orders'[k]]
         /\ \A k \in Ids : orders'[k] \in [lines : {Bought[k]}, status : Statuses,
                                           tracking : Seq(Statuses)]
<1>1. /\ orders = [k \in 1 .. Len(Bought) |-> orders[k]]
      /\ \A k \in Ids : orders[k] \in [lines : {Bought[k]}, status : Statuses,
                                       tracking : Seq(Statuses)]
  BY DEF TypeOK
<1>2. DOMAIN orders = 1 .. Len(Bought)
  BY <1>1
<1>3. orders' = [k \in DOMAIN orders |->
                   IF k = id THEN [[orders[id] EXCEPT !.status = status]
                                     EXCEPT !.tracking = Append(orders[id].tracking, status)]
                   ELSE orders[k]]
  BY DEF Record, Ids
<1>4. Append(orders[id].tracking, status) \in Seq(Statuses)
  <2>1. orders[id].tracking \in Seq(Statuses)
    BY <1>1
  <2> QED
    BY <2>1, AppendProperties
<1>5. orders'[id] \in [lines : {Bought[id]}, status : Statuses, tracking : Seq(Statuses)]
  BY <1>1, <1>3, <1>4 DEF Ids
<1> QED
  BY <1>1, <1>2, <1>3, <1>5 DEF Ids

\* One step of the specification keeps every table, request and list well-typed.
LEMMA TypeStep == TypeOK /\ [Next]_vars => TypeOK'
<1> SUFFICES ASSUME TypeOK, [Next]_vars
             PROVE  TypeOK'
  OBVIOUS
<1> USE OrdersAssumption
<1>1. ASSUME NEW d \in Desk, NEW id \in Ids, AskAdvance(d, id)
      PROVE  TypeOK'
  <2>1. [at |-> "advancing", id |-> id, seen |-> orders[id].status]
          \in [at : {"advancing"}, id : Ids, seen : DOMAIN Ladder]
    BY <1>1 DEF AskAdvance, HasNextStep
  <2>2. requests' \in 0 .. MaxRequests
    BY <1>1 DEF AskAdvance, Receive, TypeOK
  <2> QED
    BY <1>1, <2>1, <2>2 DEF AskAdvance, Receive, TypeOK, IsRequest, Ids
<1>2. ASSUME NEW d \in Desk, NEW id \in Ids, AskCancel(d, id)
      PROVE  TypeOK'
  <2>1. requests' \in 0 .. MaxRequests
    BY <1>2 DEF AskCancel, Receive, TypeOK
  <2> QED
    BY <1>2, <2>1 DEF AskCancel, Receive, TypeOK, IsRequest, Ids
<1>3. ASSUME NEW d \in Desk, Advance(d)
      PROVE  TypeOK'
  <2>1. desk[d].id \in Ids /\ desk[d].seen \in DOMAIN Ladder
    BY <1>3 DEF Advance, TypeOK, IsRequest, Idle
  <2>2. /\ Ids' = Ids
        /\ orders' = [k \in 1 .. Len(Bought) |-> orders'[k]]
        /\ \A k \in Ids : orders'[k] \in [lines : {Bought[k]}, status : Statuses,
                                          tracking : Seq(Statuses)]
    BY <1>3, <2>1, NextStepType, RecordType DEF Advance
  <2>3. desk' = [c \in Desk |-> desk'[c]] /\ \A c \in Desk : IsRequest(desk'[c])
    BY <1>3 DEF Advance, TypeOK, IsRequest
  <2> QED
    BY <1>3, <2>2, <2>3 DEF Advance, TypeOK, IsRequest
<1>4. ASSUME NEW d \in Desk, Cancel(d)
      PROVE  TypeOK'
  <2>1. desk[d].id \in Ids
    BY <1>4 DEF Cancel, TypeOK, IsRequest, Idle
  <2>2. /\ Ids' = Ids
        /\ orders' = [k \in 1 .. Len(Bought) |-> orders'[k]]
        /\ \A k \in Ids : orders'[k] \in [lines : {Bought[k]}, status : Statuses,
                                          tracking : Seq(Statuses)]
    BY <1>4, <2>1, RecordType DEF Cancel, Statuses
  <2>3. IsShelf(shelf')
    <3>1. desk[d].id \in 1 .. Len(Bought)
      BY <2>1 DEF TypeOK, Ids
    <3>2. IsLines(orders[desk[d].id].lines)
      BY <2>1, <3>1 DEF TypeOK
    <3> QED
      BY <1>4, <3>2, GiveBackAllType DEF Cancel, TypeOK
  <2>4. total' = [s \in Sku |-> total'[s]]
    BY <1>4 DEF Cancel, GiveBackTotals
  <2>5. desk' = [c \in Desk |-> desk'[c]] /\ \A c \in Desk : IsRequest(desk'[c])
    BY <1>4 DEF Cancel, TypeOK, IsRequest
  <2> QED
    BY <1>4, <2>2, <2>3, <2>4, <2>5 DEF Cancel, TypeOK, IsRequest
<1>5. CASE SweepStart
  <2>1. sweep' = [id \in Waiting |-> orders[id].status]
    BY <1>5 DEF SweepStart
  <2>2. DOMAIN sweep' \subseteq Ids /\ sweep' \in [DOMAIN sweep' -> DOMAIN Ladder]
    BY <2>1 DEF Waiting, HasNextStep
  <2> QED
    BY <1>5, <2>2 DEF SweepStart, TypeOK, IsRequest, Ids
<1>6. ASSUME NEW id \in Ids, SweepOne(id)
      PROVE  TypeOK'
  <2>1. sweep[id] \in DOMAIN Ladder
    BY <1>6 DEF SweepOne, TypeOK
  <2>2. /\ Ids' = Ids
        /\ orders' = [k \in 1 .. Len(Bought) |-> orders'[k]]
        /\ \A k \in Ids : orders'[k] \in [lines : {Bought[k]}, status : Statuses,
                                          tracking : Seq(Statuses)]
    BY <1>6, <2>1, NextStepType, RecordType DEF SweepOne
  <2>3. DOMAIN sweep' \subseteq Ids /\ sweep' \in [DOMAIN sweep' -> DOMAIN Ladder]
    BY <1>6 DEF SweepOne, TypeOK, Restrict
  <2> QED
    BY <1>6, <2>2, <2>3 DEF SweepOne, TypeOK, IsRequest
<1>7. CASE SweepFails
  <2>1. faults' \in 0 .. MaxFaults
    BY <1>7 DEF SweepFails, TypeOK
  <2>2. DOMAIN sweep' = {} /\ sweep' \in [DOMAIN sweep' -> DOMAIN Ladder]
    BY <1>7 DEF SweepFails, NoSweep
  <2> QED
    BY <1>7, <2>1, <2>2 DEF SweepFails, TypeOK, IsRequest, Ids
<1>8. CASE UNCHANGED vars
  BY <1>8 DEF vars, TypeOK, IsRequest, Ids
<1> QED
  BY <1>1, <1>2, <1>3, <1>4, <1>5, <1>6, <1>7, <1>8 DEF Next, Sweep

\* The tables before any request are well-typed.
LEMMA TypeInit == Init => TypeOK
<1> SUFFICES ASSUME Init PROVE TypeOK
  OBVIOUS
<1>1. <<"paid">> \in Seq(Statuses)
  BY DEF Statuses
<1>2. /\ Ids = 1 .. Len(Bought)
      /\ \A id \in Ids : orders[id] \in [lines : {Bought[id]}, status : Statuses,
                                        tracking : Seq(Statuses)]
  BY <1>1 DEF Init, Ids, Statuses
<1>3. DOMAIN sweep = {} /\ sweep \in [DOMAIN sweep -> DOMAIN Ladder]
  BY DEF Init, NoSweep
<1> QED
  BY <1>2, <1>3, OrdersAssumption DEF Init, TypeOK, IsRequest

\* Every table, request and list of the order life stays well-typed.
THEOREM TypeCorrect == Spec => []TypeOK
BY TypeInit, TypeStep, PTL DEF Spec

----------------------------------------------------------------------------
(* Status and tracking.                                                    *)

\* The page's status badge and its tracking never disagree: the last tracking
\* line of an order is its status, however the writers raced.
StatusMatchesTracking ==
  \A id \in Ids : Steps(id) # <<>> /\ orders[id].status = Steps(id)[Len(Steps(id))]

\* Tracking tells a possible story: every line but the first follows, later,
\* a line of a rung it can be reached from.  A stale writer may repeat a rung,
\* never invent one.
TrackingTellsAStory ==
  \A id \in Ids : \A n \in DOMAIN Steps(id) :
    IF n = 1 THEN Steps(id)[n] = "paid"
    ELSE \E m \in 1 .. n - 1 : Steps(id)[m] \in CameFrom(Steps(id)[n])

OnRecord(id, status) == \E n \in DOMAIN Steps(id) : Steps(id)[n] = status

\* The strengthening: a status some writer read, however long ago, has its line
\* in the tracking of the order, which only grows.
Recorded(d) ==
  /\ desk[d].at = "advancing" => OnRecord(desk[d].id, desk[d].seen)
  /\ desk[d].at = "cancelling" => \E s \in Workshop : OnRecord(desk[d].id, s)

SeenIsOnRecord ==
  /\ \A d \in Desk : Recorded(d)
  /\ \A id \in DOMAIN sweep : OnRecord(id, sweep[id])

StoryInv == TypeOK /\ StatusMatchesTracking /\ TrackingTellsAStory /\ SeenIsOnRecord

\* A rung is reached from the one below it, and cancelled from the workshop.
LEMMA CameFromRung ==
  /\ \A s \in DOMAIN Ladder : s \in CameFrom(NextStep(s))
  /\ \A s \in Workshop : s \in CameFrom("cancelled")
BY DEF CameFrom, NextStep, Ladder, Statuses, Workshop

\* A status written after a line it can be reached from leaves both properties
\* in place, and every line that was there.
LEMMA RecordStory ==
  ASSUME StoryInv, NEW id \in Ids, NEW status \in Statuses, Record(id, status),
         NEW s \in CameFrom(status), OnRecord(id, s)
  PROVE  /\ StatusMatchesTracking'
         /\ TrackingTellsAStory'
         /\ \A k \in Ids, r \in Statuses : OnRecord(k, r) => OnRecord(k, r)'
<1> DEFINE new == Append(Steps(id), status)
<1>1. Steps(id) \in Seq(Statuses) /\ Steps(id) # <<>>
  BY DEF StoryInv, TypeOK, StatusMatchesTracking, Steps
<1>2. /\ new \in Seq(Statuses)
      /\ new # <<>>
      /\ Len(new) = Len(Steps(id)) + 1
      /\ \A n \in 1 .. Len(Steps(id)) : new[n] = Steps(id)[n]
      /\ new[Len(new)] = status
  BY <1>1, AppendProperties
<1>3. /\ Ids' = Ids
      /\ orders'[id].status = status /\ Steps(id)' = new
      /\ \A k \in Ids \ {id} : orders'[k] = orders[k]
  BY DEF Record, Ids, Steps, StoryInv, TypeOK
<1>4. /\ DOMAIN Steps(id) = 1 .. Len(Steps(id))
      /\ DOMAIN new = 1 .. Len(Steps(id)) + 1
      /\ Len(Steps(id)) \in Nat \ {0}
  BY <1>1, <1>2, LenProperties, EmptySeq
<1> HIDE DEF new
<1>5. StatusMatchesTracking'
  BY <1>2, <1>3 DEF StoryInv, StatusMatchesTracking, Steps
<1>6. TrackingTellsAStory'
  <2> SUFFICES ASSUME NEW k \in Ids, NEW n \in DOMAIN Steps(k)'
               PROVE  IF n = 1 THEN Steps(k)'[n] = "paid"
                      ELSE \E m \in 1 .. n - 1 : Steps(k)'[m] \in CameFrom(Steps(k)'[n])
    BY <1>3 DEF TrackingTellsAStory
  <2>1. CASE k # id
    BY <2>1, <1>3 DEF StoryInv, TrackingTellsAStory, Steps
  <2>2. CASE k = id /\ n <= Len(Steps(id))
    <3>1. n \in DOMAIN Steps(id) /\ n \in 1 .. Len(Steps(id))
      BY <2>2, <1>3, <1>4
    <3>2. \A m \in 1 .. n : new[m] = Steps(id)[m]
      BY <3>1, <1>2, <1>4
    <3>3. IF n = 1 THEN Steps(id)[n] = "paid"
          ELSE \E m \in 1 .. n - 1 : Steps(id)[m] \in CameFrom(Steps(id)[n])
      BY <3>1 DEF StoryInv, TrackingTellsAStory
    <3> QED
      BY <2>2, <1>3, <3>1, <3>2, <3>3
  <2>3. CASE k = id /\ n = Len(Steps(id)) + 1
    <3>1. PICK m \in DOMAIN Steps(id) : Steps(id)[m] = s
      BY DEF OnRecord
    <3>2. m \in 1 .. n - 1 /\ n # 1 /\ new[m] = s /\ new[n] = status
      BY <3>1, <2>3, <1>2, <1>4
    <3> QED
      BY <2>3, <1>3, <3>2
  <2> QED
    BY <2>1, <2>2, <2>3, <1>3, <1>4
<1>7. ASSUME NEW k \in Ids, NEW r \in Statuses, OnRecord(k, r)
      PROVE  OnRecord(k, r)'
  <2>1. PICK n \in DOMAIN Steps(k) : Steps(k)[n] = r
    BY <1>7 DEF OnRecord
  <2>2. n \in DOMAIN Steps(k)' /\ Steps(k)'[n] = r
    BY <2>1, <1>2, <1>3, <1>4 DEF Steps
  <2> QED
    BY <2>2 DEF OnRecord
<1> QED
  BY <1>5, <1>6, <1>7

\* The statuses a writer may have read are statuses.
LEMMA SeenTypes ==
  /\ DOMAIN Ladder \subseteq Statuses /\ Workshop \subseteq Statuses
  /\ "cancelled" \in Statuses
BY DEF Ladder, Workshop, Statuses

\* A step that leaves the orders alone leaves what is on record alone.
LEMMA SameRecord ==
  ASSUME StoryInv, UNCHANGED orders
  PROVE  /\ StatusMatchesTracking'
         /\ TrackingTellsAStory'
         /\ \A k \in Ids, r \in Statuses : OnRecord(k, r) => OnRecord(k, r)'
BY DEF StoryInv, StatusMatchesTracking, TrackingTellsAStory, OnRecord, Steps, Ids

\* A status just read is on record: it is the last line of the tracking.
LEMMA StatusIsOnRecord ==
  ASSUME StoryInv, NEW id \in Ids
  PROVE  OnRecord(id, orders[id].status)
<1>1. Steps(id) \in Seq(Statuses) /\ Steps(id) # <<>>
  BY DEF StoryInv, TypeOK, StatusMatchesTracking, Steps
<1>2. Len(Steps(id)) \in DOMAIN Steps(id)
  BY <1>1, LenProperties, EmptySeq
<1> QED
  BY <1>2 DEF StoryInv, StatusMatchesTracking, OnRecord

\* What a request in flight carries.
LEMMA RequestFields ==
  ASSUME TypeOK, NEW d \in Desk
  PROVE  /\ desk[d].at = "advancing" => desk[d].id \in Ids /\ desk[d].seen \in DOMAIN Ladder
         /\ desk[d].at = "cancelling" => desk[d].id \in Ids
<1>1. CASE desk[d] = Idle
  BY <1>1 DEF Idle
<1>2. CASE desk[d] \in [at : {"advancing"}, id : Ids, seen : DOMAIN Ladder]
  BY <1>2
<1>3. CASE desk[d] \in [at : {"cancelling"}, id : Ids]
  BY <1>3
<1> QED
  BY <1>1, <1>2, <1>3 DEF TypeOK, IsRequest

\* A desk that keeps its request, or is done with it, stays recorded.
LEMMA DeskKept ==
  ASSUME StoryInv, NEW d \in Desk, desk'[d] = desk[d] \/ desk'[d] = Idle,
         \A k \in Ids, r \in Statuses : OnRecord(k, r) => OnRecord(k, r)'
  PROVE  Recorded(d)'
<1>1. TypeOK /\ Recorded(d)
  BY DEF StoryInv, SeenIsOnRecord
<1>2. CASE desk'[d] = Idle
  BY <1>2 DEF Idle, Recorded
<1>3. CASE desk'[d] = desk[d]
  <2>1. ASSUME desk[d].at = "advancing"
        PROVE  OnRecord(desk[d].id, desk[d].seen)'
    BY <2>1, <1>1, <1>3, RequestFields, SeenTypes DEF Recorded, OnRecord
  <2>2. ASSUME desk[d].at = "cancelling"
        PROVE  \E s \in Workshop : OnRecord(desk[d].id, s)'
    <3>1. PICK s \in Workshop : OnRecord(desk[d].id, s)
      BY <2>2, <1>1 DEF Recorded
    <3>2. desk[d].id \in Ids /\ s \in Statuses
      BY <2>2, <1>1, RequestFields, SeenTypes
    <3> QED
      BY <3>1, <3>2, <1>3 DEF OnRecord
  <2> QED
    BY <1>3, <2>1, <2>2 DEF Recorded
<1> QED
  BY <1>2, <1>3

\* So does what is left of a sweep.
LEMMA SweepKept ==
  ASSUME StoryInv, NEW id \in DOMAIN sweep, sweep'[id] = sweep[id],
         \A k \in Ids, r \in Statuses : OnRecord(k, r) => OnRecord(k, r)'
  PROVE  OnRecord(id, sweep[id])'
<1>1. id \in Ids /\ sweep[id] \in Statuses /\ OnRecord(id, sweep[id])
  BY SeenTypes DEF StoryInv, TypeOK, SeenIsOnRecord
<1> QED
  BY <1>1 DEF OnRecord

\* One step keeps the story: each writer's transaction, from a status that is
\* on record; each reading, which is of the last line.
LEMMA StoryStep == StoryInv /\ [Next]_vars => StoryInv'
<1> SUFFICES ASSUME StoryInv, [Next]_vars
             PROVE  StoryInv'
  OBVIOUS
<1> DEFINE Kept == \A k \in Ids, r \in Statuses : OnRecord(k, r) => OnRecord(k, r)'
<1> USE SeenTypes
<1>0. TypeOK /\ TypeOK'
  BY TypeStep DEF StoryInv
<1>1. ASSUME NEW d \in Desk, NEW id \in Ids, AskAdvance(d, id)
      PROVE  StoryInv'
  <2>1. PICK s \in Statuses : s = orders[id].status /\ OnRecord(id, s)
    BY <1>0, StatusIsOnRecord DEF TypeOK
  <2>2. /\ StatusMatchesTracking' /\ TrackingTellsAStory' /\ Kept
        /\ sweep' = sweep
        /\ desk' = [desk EXCEPT ![d] = [at |-> "advancing", id |-> id,
                                        seen |-> orders[id].status]]
    BY <1>1, SameRecord DEF AskAdvance, Receive
  <2>3. Recorded(d)'
    <3>1. OnRecord(id, s)'
      BY <2>1, <2>2
    <3>2. desk'[d] = [at |-> "advancing", id |-> id, seen |-> s]
      BY <1>0, <2>1, <2>2 DEF TypeOK
    <3> QED
      BY <3>1, <3>2 DEF Recorded, OnRecord, Steps
  <2>4. \A c \in Desk : Recorded(c)'
    BY <2>2, <2>3, DeskKept DEF StoryInv, TypeOK
  <2>5. \A k \in DOMAIN sweep' : OnRecord(k, sweep[k])'
    BY <2>2, SweepKept
  <2> QED
    BY <1>0, <2>2, <2>4, <2>5 DEF StoryInv, SeenIsOnRecord
<1>2. ASSUME NEW d \in Desk, NEW id \in Ids, AskCancel(d, id)
      PROVE  StoryInv'
  <2>1. PICK s \in Workshop : OnRecord(id, s)
    BY <1>2, StatusIsOnRecord DEF AskCancel
  <2>2. /\ StatusMatchesTracking' /\ TrackingTellsAStory' /\ Kept
        /\ sweep' = sweep
        /\ desk' = [desk EXCEPT ![d] = [at |-> "cancelling", id |-> id]]
    BY <1>2, SameRecord DEF AskCancel, Receive
  <2>3. Recorded(d)'
    <3>1. OnRecord(id, s)' /\ s \in Workshop
      BY <2>1, <2>2
    <3>2. desk'[d] = [at |-> "cancelling", id |-> id]
      BY <1>0, <2>2 DEF TypeOK
    <3> QED
      BY <3>1, <3>2 DEF Recorded, OnRecord, Steps
  <2>4. \A c \in Desk : Recorded(c)'
    BY <2>2, <2>3, DeskKept DEF StoryInv, TypeOK
  <2>5. \A k \in DOMAIN sweep' : OnRecord(k, sweep[k])'
    BY <2>2, SweepKept
  <2> QED
    BY <1>0, <2>2, <2>4, <2>5 DEF StoryInv, SeenIsOnRecord
<1>3. ASSUME NEW d \in Desk, Advance(d)
      PROVE  StoryInv'
  <2>1. /\ desk[d].id \in Ids /\ desk[d].seen \in DOMAIN Ladder
        /\ OnRecord(desk[d].id, desk[d].seen)
    BY <1>0, <1>3, RequestFields DEF Advance, StoryInv, SeenIsOnRecord, Recorded
  <2>2. StatusMatchesTracking' /\ TrackingTellsAStory' /\ Kept
    BY <1>3, <2>1, RecordStory, CameFromRung, NextStepType DEF Advance
  <2>3. SeenIsOnRecord'
    <3>1. /\ sweep' = sweep
          /\ \A c \in Desk : desk'[c] = desk[c] \/ desk'[c] = Idle
      BY <1>0, <1>3 DEF Advance, TypeOK
    <3> QED
      BY <2>2, <3>1, DeskKept, SweepKept DEF SeenIsOnRecord
  <2> QED
    BY <1>0, <2>2, <2>3 DEF StoryInv
<1>4. ASSUME NEW d \in Desk, Cancel(d)
      PROVE  StoryInv'
  <2>1. /\ desk[d].id \in Ids
        /\ \E s \in Workshop : OnRecord(desk[d].id, s)
    BY <1>0, <1>4, RequestFields DEF Cancel, StoryInv, SeenIsOnRecord, Recorded
  <2>2. StatusMatchesTracking' /\ TrackingTellsAStory' /\ Kept
    BY <1>4, <2>1, RecordStory, CameFromRung DEF Cancel
  <2>3. SeenIsOnRecord'
    <3>1. /\ sweep' = sweep
          /\ \A c \in Desk : desk'[c] = desk[c] \/ desk'[c] = Idle
      BY <1>0, <1>4 DEF Cancel, TypeOK
    <3> QED
      BY <2>2, <3>1, DeskKept, SweepKept DEF SeenIsOnRecord
  <2> QED
    BY <1>0, <2>2, <2>3 DEF StoryInv
<1>5. CASE SweepStart
  <2>1. /\ StatusMatchesTracking' /\ TrackingTellsAStory' /\ Kept
        /\ desk' = desk
        /\ sweep' = [id \in Waiting |-> orders[id].status]
    BY <1>5, SameRecord DEF SweepStart
  <2>2. ASSUME NEW id \in DOMAIN sweep'
        PROVE  OnRecord(id, sweep[id])'
    <3>1. id \in Ids /\ sweep'[id] = orders[id].status
      BY <2>1 DEF Waiting
    <3>2. PICK s \in Statuses : s = orders[id].status /\ OnRecord(id, s)
      BY <1>0, <3>1, StatusIsOnRecord DEF TypeOK
    <3>3. OnRecord(id, s)'
      BY <2>1, <3>1, <3>2
    <3> QED
      BY <3>1, <3>2, <3>3 DEF OnRecord
  <2>3. SeenIsOnRecord'
    BY <2>1, <2>2, DeskKept DEF SeenIsOnRecord
  <2> QED
    BY <1>0, <2>1, <2>3 DEF StoryInv
<1>6. ASSUME NEW id \in Ids, SweepOne(id)
      PROVE  StoryInv'
  <2>1. sweep[id] \in DOMAIN Ladder /\ OnRecord(id, sweep[id])
    BY <1>0, <1>6 DEF SweepOne, TypeOK, StoryInv, SeenIsOnRecord
  <2>2. StatusMatchesTracking' /\ TrackingTellsAStory' /\ Kept
    BY <1>6, <2>1, RecordStory, CameFromRung, NextStepType DEF SweepOne
  <2>3. SeenIsOnRecord'
    <3>1. /\ desk' = desk
          /\ \A k \in DOMAIN sweep' : k \in DOMAIN sweep /\ sweep'[k] = sweep[k]
      BY <1>6 DEF SweepOne, Restrict
    <3> QED
      BY <2>2, <3>1, DeskKept, SweepKept DEF SeenIsOnRecord
  <2> QED
    BY <1>0, <2>2, <2>3 DEF StoryInv
<1>7. CASE SweepFails
  <2>1. /\ StatusMatchesTracking' /\ TrackingTellsAStory' /\ Kept
        /\ desk' = desk /\ DOMAIN sweep' = {}
    BY <1>7, SameRecord DEF SweepFails, NoSweep
  <2>2. SeenIsOnRecord'
    BY <2>1, DeskKept, SweepKept DEF SeenIsOnRecord
  <2> QED
    BY <1>0, <2>1, <2>2 DEF StoryInv
<1>8. CASE UNCHANGED vars
  <2>1. /\ StatusMatchesTracking' /\ TrackingTellsAStory' /\ Kept
        /\ desk' = desk /\ sweep' = sweep
    BY <1>8, SameRecord DEF vars
  <2>2. SeenIsOnRecord'
    BY <2>1, DeskKept, SweepKept DEF SeenIsOnRecord
  <2> QED
    BY <1>0, <2>1, <2>2 DEF StoryInv
<1> QED
  BY <1>1, <1>2, <1>3, <1>4, <1>5, <1>6, <1>7, <1>8 DEF Next, Sweep

\* Every order starts with one line, paid, and no writer has read anything.
LEMMA StoryInit == Init => StoryInv
<1> SUFFICES ASSUME Init PROVE StoryInv
  OBVIOUS
<1>1. TypeOK
  BY TypeInit
<1>2. \A id \in Ids : Steps(id) = <<"paid">> /\ orders[id].status = "paid"
  BY DEF Init, Ids, Steps
<1>3. StatusMatchesTracking /\ TrackingTellsAStory
  BY <1>2 DEF StatusMatchesTracking, TrackingTellsAStory
<1>4. SeenIsOnRecord
  BY DEF Init, SeenIsOnRecord, Recorded, Idle, NoSweep
<1> QED
  BY <1>1, <1>3, <1>4 DEF StoryInv

\* The last tracking line of an order is its status, for any number of
\* customers, desks and orders, and any interleaving of their stale writes.
THEOREM StatusAlwaysMatchesTracking == Spec => []StatusMatchesTracking
<1>1. StoryInv => StatusMatchesTracking
  BY DEF StoryInv
<1> QED
  BY <1>1, StoryInit, StoryStep, PTL DEF Spec

\* Tracking always tells a possible story: no rung is invented, only repeated.
THEOREM TrackingAlwaysTellsAStory == Spec => []TrackingTellsAStory
<1>1. StoryInv => TrackingTellsAStory
  BY DEF StoryInv
<1> QED
  BY <1>1, StoryInit, StoryStep, PTL DEF Spec

----------------------------------------------------------------------------
(* The abstract life of an order.                                          *)

\* A status written after one on record that it can be reached from is an
\* abstract move.
LEMMA RecordClimbs ==
  ASSUME StoryInv, NEW id \in Ids, NEW step \in Statuses, Record(id, step),
         NEW s \in CameFrom(step), OnRecord(id, s)
  PROVE  Abstract!Next
<1> DEFINE status == [k \in Ids |-> orders[k].status]
           reached == [k \in Ids |-> Range(Steps(k))]
<1>1. Abstract!CameFrom(step) = CameFrom(step) /\ step \in Abstract!Statuses
  BY DEF Abstract!CameFrom, CameFrom, Abstract!Statuses, Statuses, Abstract!Ladder, Ladder,
         Abstract!Workshop, Workshop
<1>2. Steps(id) \in Seq(Statuses)
  BY DEF StoryInv, TypeOK, Steps
<1>3. /\ Ids' = Ids
      /\ orders'[id].status = step /\ Steps(id)' = Append(Steps(id), step)
      /\ \A k \in Ids \ {id} : orders'[k] = orders[k]
  BY <1>2 DEF Record, Ids, Steps, StoryInv, TypeOK
<1>4. reached[id] \cap Abstract!CameFrom(step) # {}
  BY <1>1, <1>2 DEF OnRecord, Range
<1>5. status' = [status EXCEPT ![id] = step]
  BY <1>3
<1>6. reached' = [reached EXCEPT ![id] = @ \cup {step}]
  <2>1. Range(Append(Steps(id), step)) = Range(Steps(id)) \cup {step}
    BY <1>2, AppendProperties DEF Range
  <2> QED
    BY <1>2, <1>3, <2>1 DEF Steps
<1>7. Abstract!Move(id, step)
  BY <1>4, <1>5, <1>6 DEF Abstract!Move
<1> QED
  BY <1>1, <1>7 DEF Abstract!Next, Abstract!Order

\* Each writer's transaction is a move, from the rung it read; nothing else
\* touches an order.
LEMMA ClimbStep == StoryInv /\ [Next]_vars => [Abstract!Next]_(Abstract!vars)
<1> SUFFICES ASSUME StoryInv, [Next]_vars
             PROVE  [Abstract!Next]_(Abstract!vars)
  OBVIOUS
<1> USE SeenTypes
<1>0. TypeOK
  BY DEF StoryInv
<1>1. ASSUME UNCHANGED orders
      PROVE  UNCHANGED Abstract!vars
  BY <1>1 DEF Abstract!vars, Steps, Ids
<1>2. ASSUME NEW d \in Desk, Advance(d)
      PROVE  Abstract!Next
  <2>1. /\ desk[d].id \in Ids /\ desk[d].seen \in DOMAIN Ladder
        /\ OnRecord(desk[d].id, desk[d].seen)
    BY <1>0, <1>2, RequestFields DEF Advance, StoryInv, SeenIsOnRecord, Recorded
  <2> QED
    BY <1>2, <2>1, RecordClimbs, CameFromRung, NextStepType DEF Advance
<1>3. ASSUME NEW d \in Desk, Cancel(d)
      PROVE  Abstract!Next
  <2>1. desk[d].id \in Ids /\ \E s \in Workshop : OnRecord(desk[d].id, s)
    BY <1>0, <1>3, RequestFields DEF Cancel, StoryInv, SeenIsOnRecord, Recorded
  <2> QED
    BY <1>3, <2>1, RecordClimbs, CameFromRung DEF Cancel
<1>4. ASSUME NEW id \in Ids, SweepOne(id)
      PROVE  Abstract!Next
  <2>1. sweep[id] \in DOMAIN Ladder /\ OnRecord(id, sweep[id])
    BY <1>0, <1>4 DEF SweepOne, TypeOK, StoryInv, SeenIsOnRecord
  <2> QED
    BY <1>4, <2>1, RecordClimbs, CameFromRung, NextStepType DEF SweepOne
<1>5. CASE \/ \E d \in Desk, id \in Ids : AskAdvance(d, id) \/ AskCancel(d, id)
           \/ SweepStart \/ SweepFails \/ UNCHANGED vars
  <2>1. UNCHANGED orders
    BY <1>5 DEF AskAdvance, AskCancel, Receive, SweepStart, SweepFails, vars
  <2> QED
    BY <1>1, <2>1
<1> QED
  BY <1>2, <1>3, <1>4, <1>5 DEF Next, Sweep

\* The native host implements the same abstract life of an order as the edge,
\* for any orders, desks and sweeps: no order jumps a rung, none is cancelled
\* that was never in the workshop, and every status is on record.
THEOREM AlwaysClimbs == Spec => Climbs
<1>1. Init => Abstract!Init
  BY DEF Init, Abstract!Init, Abstract!Order, Steps, Range, Ids
<1> QED
  BY <1>1, StoryInit, StoryStep, ClimbStep, PTL DEF Spec, Climbs, Abstract!Spec

----------------------------------------------------------------------------
(* Stock and tracking.                                                     *)

\* What a step may do to the rows and the orders: write one status, that is not
\* cancelled, with its tracking line; cancel one order, with all it gives back;
\* or nothing.
StockKept == UNCHANGED <<shelf, total>>

Moved == StockKept /\ \E id \in Ids, status \in Statuses \ {"cancelled"} : Record(id, status)

Cancelled ==
  \E id \in Ids :
    /\ shelf' = GiveBackAll(shelf, orders[id].lines)
    /\ total' = GiveBackTotals(total, orders[id].lines)
    /\ Record(id, "cancelled")

\* A step writes one status that is no cancellation, cancels one order, or
\* writes none.
LEMMA StepWrites ==
  ASSUME TypeOK, [Next]_vars
  PROVE  Moved \/ Cancelled \/ (StockKept /\ UNCHANGED orders)
<1>0. \A s \in DOMAIN Ladder : NextStep(s) \in Statuses \ {"cancelled"}
  BY DEF NextStep, Ladder, Statuses
<1>1. ASSUME NEW d \in Desk, Advance(d)
      PROVE  Moved
  <2>1. desk[d].id \in Ids /\ desk[d].seen \in DOMAIN Ladder
    BY <1>1, RequestFields DEF Advance
  <2> QED
    BY <1>0, <1>1, <2>1 DEF Advance, Moved, StockKept
<1>2. ASSUME NEW d \in Desk, Cancel(d)
      PROVE  Cancelled
  BY <1>2, RequestFields DEF Cancel, Cancelled
<1>3. ASSUME NEW id \in Ids, SweepOne(id)
      PROVE  Moved
  <2>1. sweep[id] \in DOMAIN Ladder
    BY <1>3 DEF SweepOne, TypeOK
  <2> QED
    BY <1>0, <1>3, <2>1 DEF SweepOne, Moved, StockKept
<1>4. ASSUME NEW d \in Desk, NEW id \in Ids, AskAdvance(d, id) \/ AskCancel(d, id)
      PROVE  StockKept /\ UNCHANGED orders
  BY <1>4 DEF AskAdvance, AskCancel, Receive, StockKept
<1>5. CASE SweepStart \/ SweepFails \/ UNCHANGED vars
  BY <1>5 DEF SweepStart, SweepFails, vars, StockKept
<1> QED
  BY <1>1, <1>2, <1>3, <1>4, <1>5 DEF Next, Sweep

\* The orders are a book the audit can read; the lines are those bought.
LEMMA OrdersAreBook ==
  ASSUME TypeOK
  PROVE  /\ IsBook(orders) /\ DOMAIN orders = 1 .. Len(Bought)
         /\ \A id \in Ids : orders[id].lines = Bought[id] /\ IsLines(Bought[id])
<1>1. DOMAIN orders = 1 .. Len(Bought) /\ IsFiniteSet(1 .. Len(Bought))
  <2>1. orders = [k \in 1 .. Len(Bought) |-> orders[k]]
    BY DEF TypeOK
  <2>2. Len(Bought) \in Int /\ 1 \in Int
    BY OrdersAssumption
  <2> QED
    BY <2>1, <2>2, FS_Interval
<1>2. \A id \in Ids : /\ orders[id].lines = Bought[id] /\ IsLines(Bought[id])
                      /\ orders[id].tracking \in Seq(Statuses)
  BY <1>1, OrdersAssumption DEF TypeOK, Ids
<1> QED
  BY <1>1, <1>2 DEF IsBook, Ids

\* A status and its line are written together, on one order.
LEMMA RecordWrites ==
  ASSUME TypeOK, NEW id \in Ids, NEW status \in Statuses, Record(id, status)
  PROVE  /\ DOMAIN orders' = DOMAIN orders
         /\ \A k \in DOMAIN orders : orders'[k].lines = orders[k].lines
         /\ orders'[id].tracking = Append(orders[id].tracking, status)
         /\ \A k \in DOMAIN orders \ {id} : orders'[k].tracking = orders[k].tracking
BY DEF Record, TypeOK, Ids

\* The audit, in the terms of the lemmas about it.
LEMMA AuditIs ==
  ShelfAuditsToTracking <=> \A i \in DOMAIN shelf : shelf[i] = InitialShelf[i] + Refunds(orders, i)
BY DEF ShelfAuditsToTracking, Refunds, Refund, Holding, Marks, Cancellations, Steps, Ids

\* The strengthening: the rows are those of the first count.
AuditInv == TypeOK /\ DOMAIN shelf = DOMAIN InitialShelf /\ ShelfAuditsToTracking

\* One step keeps the audit: what a cancellation gives back to a row is what
\* its tracking line adds.
LEMMA AuditStep == AuditInv /\ [Next]_vars => AuditInv'
<1> SUFFICES ASSUME AuditInv, [Next]_vars
             PROVE  AuditInv'
  OBVIOUS
<1>0. TypeOK /\ TypeOK' /\ DOMAIN shelf = DOMAIN InitialShelf /\ IsBook(orders)
  BY TypeStep, OrdersAreBook DEF AuditInv
<1>1. \A i \in DOMAIN shelf : /\ shelf[i] = InitialShelf[i] + Refunds(orders, i)
                              /\ InitialShelf[i] \in Nat
  BY <1>0, AuditIs, OrdersAssumption DEF AuditInv, IsShelf, IsTable
<1>2. ASSUME DOMAIN shelf' = DOMAIN shelf,
             \A i \in DOMAIN shelf : shelf'[i] = InitialShelf[i] + Refunds(orders', i)
      PROVE  AuditInv'
  <2>1. ShelfAuditsToTracking'
    BY <1>2 DEF ShelfAuditsToTracking, Refunds, Refund, Holding, Marks, Cancellations, Steps, Ids
  <2> QED
    BY <1>0, <1>2, <2>1 DEF AuditInv
<1>3. CASE Moved
  <2>1. PICK id \in Ids, status \in Statuses \ {"cancelled"} : Record(id, status)
    BY <1>3 DEF Moved
  <2>2. \A i \in DOMAIN shelf : Refunds(orders', i) = Refunds(orders, i)
    <3> SUFFICES ASSUME NEW i \in DOMAIN shelf
                 PROVE  Refunds(orders', i) = Refunds(orders, i)
      OBVIOUS
    <3>1. Refunds(orders', i) = Refunds(orders, i) + 0
      BY <1>0, <2>1, RecordWrites, RefundStep DEF Ids
    <3> QED
      BY <1>0, <3>1, RefundType
  <2> QED
    BY <1>1, <1>2, <1>3, <2>2 DEF Moved, StockKept
<1>4. CASE Cancelled
  <2>1. PICK id \in Ids : /\ shelf' = GiveBackAll(shelf, orders[id].lines)
                          /\ Record(id, "cancelled")
    BY <1>4 DEF Cancelled
  <2> DEFINE given(i) == IF i \in DOMAIN orders[id].lines THEN orders[id].lines[i].quantity ELSE 0
  <2>2. \A i : Refunds(orders', i) = Refunds(orders, i) + given(i)
    <3> SUFFICES ASSUME NEW i
                 PROVE  Refunds(orders', i) = Refunds(orders, i) + given(i)
      OBVIOUS
    <3>1. "cancelled" \in Statuses
      BY DEF Statuses
    <3> QED
      BY <1>0, <2>1, <3>1, RecordWrites, RefundStep DEF Ids
  <2>3. \A i \in DOMAIN shelf : shelf[i] \in Nat /\ shelf'[i] = shelf[i] + given(i)
    BY <1>0, <2>1 DEF GiveBackAll, TypeOK, IsShelf, IsTable
  <2>4. \A i \in DOMAIN shelf : given(i) \in Nat /\ Refunds(orders, i) \in Nat
    <3>1. IsLines(orders[id].lines)
      BY <1>0 DEF IsBook, Ids
    <3> QED
      BY <1>0, <3>1, RefundType DEF IsLines, IsTable
  <2>5. DOMAIN shelf' = DOMAIN shelf
    BY <2>1 DEF GiveBackAll
  <2> HIDE DEF given
  <2> QED
    BY <1>1, <1>2, <2>2, <2>3, <2>4, <2>5
<1>5. CASE StockKept /\ UNCHANGED orders
  BY <1>1, <1>2, <1>5 DEF StockKept
<1> QED
  BY <1>0, <1>3, <1>4, <1>5, StepWrites

\* At first nothing was cancelled.
LEMMA AuditInit == Init => AuditInv
<1> SUFFICES ASSUME Init PROVE AuditInv
  OBVIOUS
<1>1. TypeOK /\ IsBook(orders)
  BY TypeInit, OrdersAreBook
<1>2. \A k \in DOMAIN orders : Marks(orders[k].tracking) = {}
  BY DEF Init, Marks
<1>3. \A i \in DOMAIN shelf : shelf[i] = InitialShelf[i] + Refunds(orders, i)
  <2>1. \A i : Refunds(orders, i) = 0
    BY <1>1, <1>2, RefundNone
  <2>2. shelf = InitialShelf /\ \A i \in DOMAIN InitialShelf : InitialShelf[i] \in Nat
    BY OrdersAssumption DEF Init, IsShelf, IsTable
  <2> QED
    BY <2>1, <2>2
<1> QED
  BY <1>1, <1>3, AuditIs DEF Init, AuditInv

\* The shelf can always be audited from the orders, whatever writers raced and
\* however many times an order was cancelled.
THEOREM ShelfAlwaysAudits == Spec => []ShelfAuditsToTracking
<1>1. AuditInv => ShelfAuditsToTracking
  BY DEF AuditInv
<1> QED
  BY <1>1, AuditInit, AuditStep, PTL DEF Spec

\* products.stock follows: it stays the sum of the variants.
TotalIsSum == \A s \in Sku : total[s] = ShelfSum(shelf, s)

\* The orders were sold from rows that are still there; SqliteShop is about
\* the rows that are not.
RowsRemain == \A k \in 1 .. Len(Bought) : DOMAIN Bought[k] \subseteq DOMAIN InitialShelf

SumInv == TypeOK /\ DOMAIN shelf = DOMAIN InitialShelf /\ TotalIsSum

\* One step keeps the sum: a cancellation gives as much to the rows as to the product.
LEMMA SumStep == RowsRemain /\ SumInv /\ [Next]_vars => SumInv'
<1> SUFFICES ASSUME RowsRemain, SumInv, [Next]_vars
             PROVE  SumInv'
  OBVIOUS
<1>0. TypeOK /\ TypeOK' /\ DOMAIN shelf = DOMAIN InitialShelf
  BY TypeStep DEF SumInv
<1>1. CASE StockKept
  BY <1>0, <1>1 DEF StockKept, SumInv, TotalIsSum
<1>2. CASE Cancelled
  <2>1. PICK id \in Ids : /\ shelf' = GiveBackAll(shelf, orders[id].lines)
                          /\ total' = GiveBackTotals(total, orders[id].lines)
    BY <1>2 DEF Cancelled
  <2>2. PICK lines : lines = orders[id].lines
    OBVIOUS
  <2>3. IsLines(lines) /\ DOMAIN lines \subseteq DOMAIN shelf /\ IsShelf(shelf)
    BY <1>0, <2>2, OrdersAreBook DEF RowsRemain, Ids, TypeOK
  <2>4. ASSUME NEW s \in Sku
        PROVE  total'[s] = ShelfSum(shelf', s)
    <3>1. total'[s] = total[s] + UnitsOf(lines, s) /\ total[s] = ShelfSum(shelf, s)
      BY <2>1, <2>2 DEF GiveBackTotals, SumInv, TotalIsSum
    <3>2. Restrict(lines, DOMAIN lines \cap DOMAIN shelf) = lines
      BY <2>3, AllThere
    <3>3. ShelfSum(shelf', s) = ShelfSum(shelf, s) + UnitsOf(lines, s)
      BY <2>1, <2>2, <2>3, <3>2, GiveBackAllSum
    <3> QED
      BY <3>1, <3>3
  <2>5. DOMAIN shelf' = DOMAIN shelf
    BY <2>1 DEF GiveBackAll
  <2> QED
    BY <1>0, <2>4, <2>5 DEF SumInv, TotalIsSum
<1> QED
  BY <1>0, <1>1, <1>2, StepWrites DEF Moved

\* products.stock follows the rows through every cancellation.
THEOREM TotalAlwaysSum ==
  ASSUME RowsRemain
  PROVE  Spec => []TotalIsSum
<1>1. Init => SumInv
  BY TypeInit DEF Init, SumInv, TotalIsSum
<1>2. SumInv /\ [Next]_vars => SumInv'
  BY SumStep
<1>3. SumInv => TotalIsSum
  BY DEF SumInv
<1> QED
  BY <1>1, <1>2, <1>3, PTL DEF Spec
=============================================================================

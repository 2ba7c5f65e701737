--------------------------- MODULE SteppersProofs ---------------------------
(***************************************************************************)
(* Proofs about Steppers, for any shop of finitely many items and any      *)
(* number of calls in flight.                                              *)
(***************************************************************************)
EXTENDS Steppers, TablesProofs

\* A finite set of counts has a largest: Largest bounds every stock there was.
LEMMA LargestBounds ==
  ASSUME NEW z \in Item
  PROVE  Largest \in Nat /\ InitialStock[z] \in 0 .. Largest
<1> DEFINE Top(T) == \E m \in T : \A x \in T : InitialStock[x] <= InitialStock[m]
           G == {T \in SUBSET Item : T # {} => Top(T)}
<1>1. ASSUME NEW T \in SUBSET Item, \A U \in SUBSET T : U # T => U \in G
      PROVE  T \in G
  <2> SUFFICES ASSUME T # {} PROVE Top(T)
    OBVIOUS
  <2>1. PICK y \in T : TRUE
    OBVIOUS
  <2>2. T \ {y} \in G
    BY <1>1, <2>1
  <2>3. CASE T \ {y} = {}
    BY <2>3, SteppersAssumption
  <2>4. CASE T \ {y} # {}
    <3>1. PICK m \in T \ {y} : \A x \in T \ {y} : InitialStock[x] <= InitialStock[m]
      BY <2>2, <2>4
    <3>2. /\ InitialStock[m] \in Nat /\ InitialStock[y] \in Nat
          /\ \A x \in T : InitialStock[x] \in Nat
      BY SteppersAssumption
    <3>3. CASE InitialStock[m] <= InitialStock[y]
      <4>1. \A x \in T : InitialStock[x] <= InitialStock[y]
        BY <3>1, <3>2, <3>3
      <4> QED
        BY <4>1
    <3>4. CASE InitialStock[y] <= InitialStock[m]
      <4>1. \A x \in T : InitialStock[x] <= InitialStock[m]
        BY <3>1, <3>4
      <4> QED
        BY <4>1
    <3> QED
      BY <3>2, <3>3, <3>4
  <2> QED
    BY <2>3, <2>4
<1>2. Item \in G
  <2> HIDE DEF G
  <2> QED
    BY <1>1, PartsInduction, SteppersAssumption
<1>3. PICK m \in Item : \A x \in Item : InitialStock[x] <= InitialStock[m]
  BY <1>2
<1>4. /\ InitialStock[m] \in Range(InitialStock)
      /\ \A n \in Range(InitialStock) : n \in Nat /\ n <= InitialStock[m]
  BY <1>3, SteppersAssumption DEF Range
<1>5. /\ Largest \in Range(InitialStock)
      /\ \A n \in Range(InitialStock) : n <= Largest
  BY <1>4 DEF Largest
<1>6. InitialStock[z] \in Range(InitialStock)
  BY SteppersAssumption DEF Range
<1> QED
  BY <1>4, <1>5, <1>6

----------------------------------------------------------------------------
(* Types.                                                                  *)

\* The tables: functions on all items, never above the first count.
TablesOK ==
  /\ stock \in [Item -> Nat] /\ line \in [Item -> Nat]
  /\ \A z \in Item : stock[z] <= InitialStock[z] /\ line[z] <= InitialStock[z]

Pages == [kind : {"row", "panel"}, size : Item, shown : 0 .. Largest,
          blocked : BOOLEAN, offered : SUBSET Item]

Shown ==
  /\ page = Closed \/ page \in Pages
  /\ bill \in Nat /\ {behind, doubt, unread} \subseteq BOOLEAN

\* A call that will store something asks for no more than there was; an answer
\* is a number a page may show; and only a page calls.
CallOK(c) ==
  /\ IsCall(c)
  /\ c.at = "storing" => c.n \in 0 .. InitialStock[c.size] /\ c.op # "ask"
  /\ c.at = "answered" => c.n \in 0 .. Largest

CallsOK ==
  /\ calls = [i \in DOMAIN calls |-> calls[i]] /\ DOMAIN calls \subseteq Call
  /\ \A i \in DOMAIN calls : CallOK(calls[i])
  /\ page = Closed => DOMAIN calls = {}

TypeInv == TablesOK /\ Shown /\ CallsOK

\* The type invariant, from its parts.
LEMMA TypeHolds == TypeInv => TypeOK
BY SteppersAssumption
   DEF TypeInv, TypeOK, TablesOK, Shown, Pages, CallsOK, CallOK, IsPage

\* What a call is made of.
LEMMA CallFields ==
  ASSUME NEW c, IsCall(c)
  PROVE  /\ c.at \in {"sent", "storing", "answered"}
         /\ c.op \in {"lower", "raise", "remove", "ask"}
         /\ c.size \in Item /\ c.n \in Int /\ c.by \in {Patient, Hurried, Gone}
BY DEF IsCall

\* The pieces in a cart are a count.
LEMMA PiecesType == TablesOK => Pieces \in Nat
BY SumNat, SteppersAssumption DEF TablesOK, Pieces, SumFunction

\* No calls, in the words of either form.
LEMMA NoCallsIs ==
  ASSUME calls = [i \in DOMAIN calls |-> calls[i]]
  PROVE  calls = NoCalls <=> DOMAIN calls = {}
BY DEF NoCalls

\* The calls once more with one changed, with one gone, and with one more.
LEMMA CallsChanged ==
  ASSUME CallsOK, NEW i \in DOMAIN calls, NEW c, CallOK(c), calls' = [calls EXCEPT ![i] = c],
         page' = page
  PROVE  CallsOK'
BY DEF CallsOK, CallOK, IsCall

\* One call fewer.
LEMMA CallsWithout ==
  ASSUME CallsOK, NEW i, calls' = Without(i), page' = Closed => page = Closed
  PROVE  CallsOK'
BY DEF CallsOK, CallOK, IsCall, Without, Restrict

\* A page that is loaded: its number is a line, its calls those not yet served.
LEMMA LoadType ==
  ASSUME TypeInv, NEW kind \in {"row", "panel"}, NEW z \in Item, NEW offered \in SUBSET Item,
         Load(kind, z, offered)
  PROVE  TypeInv'
<1>1. line[z] \in 0 .. Largest
  BY LargestBounds, SteppersAssumption DEF TypeInv, TablesOK
<1>2. page' \in Pages /\ page' # Closed
  BY <1>1 DEF Load, Pages, Closed
<1>3. CallsOK'
  <2>1. ASSUME NEW i \in DOMAIN calls'
        PROVE  /\ i \in DOMAIN calls /\ calls[i].at # "answered"
               /\ calls'[i] = [calls[i] EXCEPT !.by = Gone]
    BY <2>1 DEF Load, Orphans
  <2>2. ASSUME NEW i \in DOMAIN calls'
        PROVE  CallOK(calls'[i])
    <3>1. CallOK(calls[i]) /\ IsCall(calls[i])
      BY <2>1, <2>2 DEF TypeInv, CallsOK, CallOK
    <3> QED
      BY <2>1, <2>2, <3>1 DEF CallOK, IsCall
  <2>3. calls' = [i \in DOMAIN calls' |-> calls'[i]]
    BY DEF Load, Orphans
  <2> QED
    BY <1>2, <2>1, <2>2, <2>3 DEF CallsOK, TypeInv
<1>4. TablesOK'
  BY DEF TypeInv, TablesOK, Load
<1>5. Shown'
  BY <1>2, PiecesType DEF Load, Shown, TypeInv
<1> QED
  BY <1>3, <1>4, <1>5 DEF TypeInv

\* A click: one call more, and the others less patient.
Clicked(i, op, z, n) ==
  /\ i \notin DOMAIN calls
  /\ DOMAIN calls' = DOMAIN calls \cup {i}
  /\ calls' = [j \in DOMAIN calls' |-> calls'[j]]
  /\ calls'[i] = [at |-> "sent", op |-> op, size |-> z, n |-> n,
                  by |-> IF DOMAIN calls = {} THEN Patient ELSE Hurried]
  /\ \A j \in DOMAIN calls :
       /\ calls'[j].at = calls[j].at /\ calls'[j].op = calls[j].op
       /\ calls'[j].size = calls[j].size /\ calls'[j].n = calls[j].n
       /\ calls'[j].by # Patient
       /\ calls'[j] = Unsure(calls[j])

\* That is what a click does.
LEMMA ClickIs ==
  ASSUME CallsOK, NEW op, NEW z, NEW n, Click(op, z, n)
  PROVE  \E i \in Call : Clicked(i, op, z, n)
<1>1. PICK i \in Call \ DOMAIN calls :
        calls' = [j \in DOMAIN calls \cup {i} |->
                   IF j # i THEN Unsure(calls[j])
                   ELSE [at |-> "sent", op |-> op, size |-> z, n |-> n,
                         by |-> IF calls = NoCalls THEN Patient ELSE Hurried]]
  BY DEF Click
<1>2. calls = NoCalls <=> DOMAIN calls = {}
  BY NoCallsIs DEF CallsOK
<1>3. \A j \in DOMAIN calls :
        /\ Unsure(calls[j]).at = calls[j].at /\ Unsure(calls[j]).op = calls[j].op
        /\ Unsure(calls[j]).size = calls[j].size /\ Unsure(calls[j]).n = calls[j].n
        /\ Unsure(calls[j]).by # Patient
  BY DEF Unsure, CallsOK, CallOK, IsCall, Patient, Hurried
<1> QED
  BY <1>1, <1>2, <1>3 DEF Clicked

\* A click adds a call, and changes no other but by its patience.
LEMMA ClickType ==
  ASSUME TypeInv, NEW op \in {"lower", "raise", "remove", "ask"}, NEW z \in Item,
         NEW n \in -1 .. Largest + 1, Click(op, z, n),
         page' \in Pages
  PROVE  TypeInv'
<1>1. PICK i \in Call : Clicked(i, op, z, n)
  BY ClickIs DEF TypeInv
<1>2. CallOK(calls'[i])
  BY <1>1 DEF CallOK, IsCall, Clicked
<1>3. ASSUME NEW j \in DOMAIN calls
      PROVE  CallOK(calls'[j])
  <2>1. CallOK(calls[j]) /\ IsCall(calls[j])
    BY DEF TypeInv, CallsOK, CallOK
  <2> QED
    BY <1>1, <2>1 DEF CallOK, IsCall, Unsure, Clicked
<1>4. CallsOK'
  BY <1>1, <1>2, <1>3 DEF CallsOK, TypeInv, Closed, Pages, Clicked
<1>5. TablesOK' /\ Shown'
  BY DEF TypeInv, TablesOK, Shown, Click
<1> QED
  BY <1>4, <1>5 DEF TypeInv

\* The controls of a page: what they ask for is one off what is shown.
LEMMA ControlType ==
  ASSUME TypeInv, Lower \/ Raise \/ Add \/ TakeOut \/ \E z \in Item : Pick(z)
  PROVE  TypeInv'
<1>1. page \in Pages
  BY DEF TypeInv, Shown, Lower, Raise, Add, TakeOut, Pick, Click
<1>2. page.size \in Item /\ page.shown \in 0 .. Largest /\ Largest \in Nat
  BY <1>1, LargestBounds DEF Pages
<1>3. CASE Lower
  BY <1>1, <1>2, <1>3, ClickType DEF Lower
<1>4. CASE Raise
  <2>1. page' \in Pages
    BY <1>1, <1>4 DEF Raise, Pages
  <2>2. page.shown + 1 \in -1 .. Largest + 1
    BY <1>2
  <2>3. Click("raise", page.size, page.shown + 1)
    BY <1>4 DEF Raise
  <2> QED
    BY <1>2, <2>1, <2>2, <2>3, ClickType
<1>5. CASE Add
  BY <1>1, <1>2, <1>5, ClickType DEF Add
<1>6. CASE TakeOut
  BY <1>1, <1>2, <1>6, ClickType DEF TakeOut
<1>7. ASSUME NEW z \in Item, Pick(z)
      PROVE  TypeInv'
  <2>1. page' \in Pages
    BY <1>1, <1>7 DEF Pick, Pages
  <2> QED
    BY <1>2, <1>7, <2>1, ClickType DEF Pick
<1> QED
  BY <1>3, <1>4, <1>5, <1>6, <1>7

\* A call that is answered, by what the page may show.
LEMMA AnsweredType ==
  ASSUME CallsOK, NEW i \in DOMAIN calls, NEW n \in 0 .. Largest, Answered(i, n), page' = page
  PROVE  CallsOK'
<1>1. CASE calls[i].by = Gone
  BY <1>1, CallsWithout DEF Answered
<1>2. CASE calls[i].by # Gone
  <2> DEFINE c == [calls[i] EXCEPT !.at = "answered", !.n = n]
  <2>1. IsCall(calls[i]) /\ n \in -1 .. Largest + 1
    BY LargestBounds DEF CallsOK, CallOK, IsCall
  <2>2. CallOK(c)
    BY <2>1 DEF CallOK, IsCall
  <2>3. calls' = [calls EXCEPT ![i] = c]
    BY <1>2, <2>1 DEF Answered, CallsOK
  <2> HIDE DEF c
  <2> QED
    BY <2>2, <2>3, CallsChanged
<1> QED
  BY <1>1, <1>2

\* A line written by the server, by no more than there was.
LEMMA WriteType ==
  ASSUME TypeInv, NEW i \in DOMAIN calls, NEW n \in Nat, n <= InitialStock[calls[i].size],
         Write(i, n)
  PROVE  TypeInv'
<1>1. calls[i].size \in Item
  BY CallFields DEF TypeInv, CallsOK, CallOK
<1>2. n \in 0 .. Largest
  BY <1>1, LargestBounds
<1>3. CallsOK'
  BY <1>2, AnsweredType DEF TypeInv, Write
<1>4. TablesOK'
  BY <1>1 DEF TypeInv, TablesOK, Write
<1>5. Shown'
  BY DEF TypeInv, Shown, Write
<1> QED
  BY <1>3, <1>4, <1>5 DEF TypeInv

\* The server's statements.
LEMMA ServeType ==
  ASSUME TypeInv, NEW i \in DOMAIN calls, Serve(i)
  PROVE  TypeInv'
<1>0. /\ CallsOK /\ TablesOK /\ Shown /\ CallOK(calls[i]) /\ IsCall(calls[i])
      /\ calls[i].size \in Item /\ calls[i].n \in Int
  BY CallFields DEF TypeInv, CallsOK, CallOK
<1>1. InitialStock[calls[i].size] \in Nat /\ stock[calls[i].size] \in Nat
      /\ line[calls[i].size] \in Nat /\ line[calls[i].size] <= InitialStock[calls[i].size]
      /\ stock[calls[i].size] <= InitialStock[calls[i].size]
  BY <1>0, SteppersAssumption DEF TablesOK
<1>2. CASE Delete(i)
  BY <1>1, <1>2, WriteType DEF Delete
<1>3. CASE ReadStock(i)
  <2> DEFINE s == stock[calls[i].size]
             n == IF calls[i].n < s THEN calls[i].n ELSE s
             c == [calls[i] EXCEPT !.at = "storing", !.n = n]
  <2>1. n \in 0 .. InitialStock[calls[i].size] /\ n \in 0 .. Largest
    BY <1>0, <1>1, <1>3, LargestBounds DEF ReadStock
  <2>2. c.size = calls[i].size /\ c.n = n /\ c.at = "storing" /\ c.op # "ask"
    BY <1>0, <1>3 DEF IsCall, ReadStock
  <2>3. IsCall(c)
    <3>1. n \in -1 .. Largest + 1
      BY <1>0, <2>1, LargestBounds
    <3> HIDE DEF n
    <3> QED
      BY <1>0, <3>1 DEF IsCall
  <2>4. CallOK(c)
    BY <2>1, <2>2, <2>3 DEF CallOK
  <2>5. calls' = [calls EXCEPT ![i] = c]
    BY <1>0, <1>3 DEF ReadStock, CallsOK, IsCall
  <2>6. page' = page /\ UNCHANGED <<stock, line, bill, behind, doubt, unread>>
    BY <1>3 DEF ReadStock, histories
  <2> HIDE DEF c, n, s
  <2>7. CallsOK'
    BY <1>0, <2>4, <2>5, <2>6, CallsChanged
  <2> QED
    BY <2>6, <2>7 DEF TypeInv, TablesOK, Shown
<1>4. CASE Store(i)
  <2>1. calls[i].n \in 0 .. InitialStock[calls[i].size]
    BY <1>0, <1>4 DEF Store, CallAt, CallOK
  <2> QED
    BY <1>1, <1>4, <2>1, WriteType DEF Store
<1>5. CASE Held(i)
  <2>1. line[calls[i].size] \in 0 .. Largest
    BY <1>0, <1>1, LargestBounds
  <2>2. CallsOK'
    BY <1>0, <1>5, <2>1, AnsweredType DEF Held
  <2> QED
    BY <1>0, <1>5, <2>2 DEF Held, TypeInv, TablesOK, Shown
<1> QED
  BY <1>2, <1>3, <1>4, <1>5 DEF Serve

\* The answer as the page takes it.
LEMMA ApplyType ==
  ASSUME TypeInv, NEW i \in DOMAIN calls, Apply(i)
  PROVE  TypeInv'
<1>1. /\ CallsOK /\ TablesOK /\ Shown /\ CallOK(calls[i])
      /\ page # Closed /\ page \in Pages /\ calls[i].n \in 0 .. Largest
  BY DEF TypeInv, CallsOK, CallOK, Apply, CallAt, Shown
<1>2. page' \in Pages /\ page' # Closed
  BY <1>1 DEF Apply, AfterAnswer, Bubble, Pages, Closed
<1>3. CallsOK'
  BY <1>1, <1>2, CallsWithout DEF Apply
<1>4. behind' \in BOOLEAN
  BY <1>1 DEF Apply, Bumps, Shown
<1> QED
  BY <1>1, <1>2, <1>3, <1>4 DEF TypeInv, TablesOK, Shown, Apply, histories

\* At first everything is as InitialStock says and nobody is on a page.
LEMMA TypeInit == Init => TypeInv
<1> SUFFICES ASSUME Init PROVE TypeInv
  OBVIOUS
<1>1. TablesOK
  BY SteppersAssumption DEF Init, TablesOK
<1>2. Shown
  BY DEF Init, Shown
<1>3. CallsOK
  BY DEF Init, CallsOK, NoCalls
<1> QED
  BY <1>1, <1>2, <1>3 DEF TypeInv

\* Every step keeps the types.
LEMMA TypeStep == TypeInv /\ [Next]_vars => TypeInv'
<1> SUFFICES ASSUME TypeInv, [Next]_vars PROVE TypeInv'
  OBVIOUS
<1>0. TablesOK /\ Shown /\ CallsOK
  BY DEF TypeInv
<1>1. CASE UNCHANGED vars
  BY <1>1 DEF vars, histories, TypeInv, TablesOK, Shown, CallsOK, CallOK, IsCall
<1>2. CASE LoadRow
  <2>1. PICK z \in Item : Load("row", z, {})
    BY <1>2 DEF LoadRow
  <2> QED
    BY <2>1, LoadType
<1>3. CASE LoadPanel
  <2>1. PICK offered \in SUBSET Item, z \in Item : Load("panel", z, offered)
    BY <1>3 DEF LoadPanel
  <2> QED
    BY <2>1, LoadType
<1>4. CASE Lower \/ Raise \/ Add \/ TakeOut \/ \E z \in Item : Pick(z)
  BY <1>4, ControlType
<1>5. ASSUME NEW z \in Item, Sell(z)
      PROVE  TypeInv'
  <2>1. /\ stock' = [stock EXCEPT ![z] = stock[z] - 1] /\ line' = line
        /\ stock[z] \in Nat /\ stock[z] > 0 /\ stock[z] <= InitialStock[z]
        /\ InitialStock[z] \in Nat
    BY <1>0, <1>5, SteppersAssumption DEF TablesOK, Sell
  <2>2. stock[z] - 1 \in Nat /\ stock[z] - 1 <= InitialStock[z]
    BY <2>1
  <2>3. TablesOK'
    BY <1>0, <2>1, <2>2 DEF TablesOK
  <2> QED
    BY <1>0, <1>5, <2>3 DEF Sell, histories, TypeInv, Shown, CallsOK, CallOK, IsCall
<1>6. ASSUME NEW z \in Item, NEW n \in 0 .. InitialStock[z], Elsewhere(z, n)
      PROVE  TypeInv'
  <2>1. TablesOK'
    BY <1>0, <1>6, SteppersAssumption DEF TablesOK, Elsewhere
  <2> QED
    BY <1>0, <1>6, <2>1 DEF Elsewhere, TypeInv, Shown, CallsOK, CallOK, IsCall
<1>7. ASSUME NEW i \in DOMAIN calls, Serve(i)
      PROVE  TypeInv'
  BY <1>7, ServeType
<1>8. ASSUME NEW i \in DOMAIN calls, Apply(i)
      PROVE  TypeInv'
  BY <1>8, ApplyType
<1>9. ASSUME NEW i \in DOMAIN calls, Lose(i)
      PROVE  TypeInv'
  <2>1. CallsOK'
    BY <1>0, <1>9, CallsWithout DEF Lose
  <2> QED
    BY <1>0, <1>9, <2>1 DEF Lose, TypeInv, TablesOK, Shown
<1>10. CASE Refresh
  BY <1>0, <1>10, PiecesType DEF Refresh, TypeInv, TablesOK, Shown, CallsOK, CallOK, IsCall
<1> QED
  BY <1>1, <1>2, <1>3, <1>4, <1>5, <1>6, <1>7, <1>8, <1>9, <1>10 DEF Next

\* Page, calls and tables keep their shape, for any number of calls in flight:
\* no line, and no number on a page, is ever above what there was in stock.
THEOREM TypeCorrect == Spec => []TypeOK
BY TypeInit, TypeStep, TypeHolds, PTL DEF Spec

----------------------------------------------------------------------------
(* What a patient visitor knows.                                           *)

\* What each control asks for.
Asked == [lower |-> page.shown - 1, raise |-> page.shown + 1, remove |-> 0]

\* What was asked for, or what the stock allows of it.
Allowed(c) == c.n = Asked[c.op] \/ (c.n < Asked[c.op] /\ c.n >= stock[c.size])

\* A click that no other overlapped is the only call there is, for the size on
\* the page; it asks for one off the number on the page, and gets that or less
\* as far as the stock allows.
PatientOK(i) ==
  LET c == calls[i]
  IN  c.by = Patient =>
        /\ DOMAIN calls = {i} /\ c.size = page.size
        /\ c.op # "ask" /\ c.at = "sent" => c.n = Asked[c.op]
        /\ c.op # "ask" /\ c.at = "storing" => Allowed(c)
        /\ c.op = "raise" /\ c.at = "answered" => Allowed(c)

Patience == \A i \in DOMAIN calls : PatientOK(i)

\* Without a doubt the number on the page is the line, save that the answer of
\* the one call there may be is still to be shown; and the bubble tells the truth.
Clear ==
  page # Closed /\ ~doubt =>
    /\ DOMAIN calls = {} => /\ page.shown = line[page.size]
                            /\ page.blocked => page.shown >= stock[page.size]
    /\ \A i \in DOMAIN calls :
         /\ calls[i].by = Patient
         /\ calls[i].at = "answered" => calls[i].n = line[page.size]
         /\ calls[i].at # "answered" /\ calls[i].op # "ask" => page.shown = line[page.size]

\* A bill that is not the cart knows it: a call of the page has written and its
\* answer will ask for the bill again.
Billed ==
  page # Closed /\ ~unread /\ ~behind =>
    bill = Pieces \/ \E i \in DOMAIN calls : calls[i].at = "answered" /\ calls[i].op # "ask"

\* With a patient call there is no other.
LEMMA OneCall ==
  ASSUME Patience, NEW i \in DOMAIN calls, NEW j \in DOMAIN calls, calls[j].by = Patient
  PROVE  i = j
BY DEF Patience, PatientOK

\* Without a doubt a call in flight is a patient one.
LEMMA ClearCall ==
  ASSUME CallsOK, Clear, ~doubt, NEW i \in DOMAIN calls
  PROVE  calls[i].by = Patient /\ page # Closed
BY DEF CallsOK, Clear

\* A page that is loaded waits for nobody.
LEMMA LoadKnown ==
  ASSUME TypeInv, NEW kind, NEW z \in Item, NEW offered, Load(kind, z, offered)
  PROVE  Patience' /\ Clear' /\ Billed'
<1>1. \A i \in DOMAIN calls' : calls'[i].by = Gone
  <2>1. ASSUME NEW i \in DOMAIN calls'
        PROVE  i \in DOMAIN calls /\ calls'[i] = [calls[i] EXCEPT !.by = Gone]
    BY DEF Load, Orphans
  <2>2. ASSUME NEW i \in DOMAIN calls'
        PROVE  calls'[i].by = Gone
    BY <2>1, <2>2 DEF TypeInv, CallsOK, CallOK, IsCall
  <2> QED
    BY <2>2
<1>2. Patience'
  BY <1>1 DEF Patience, PatientOK, Patient, Gone
<1>3. ~doubt' => DOMAIN calls' = {}
  BY DEF Load, NoCalls
<1>4. page'.shown = line'[page'.size] /\ page'.blocked = FALSE
  BY DEF Load
<1>5. Clear'
  BY <1>3, <1>4 DEF Clear
<1>6. Billed'
  BY DEF Load, Billed, Pieces
<1> QED
  BY <1>2, <1>5, <1>6

\* A control that asks for one off the number on the page, or for a count.
LEMMA ClickKnown ==
  ASSUME TypeInv, Patience, Clear, Billed,
         NEW op \in {"lower", "raise", "remove", "ask"}, NEW n, Click(op, page'.size, n),
         page' # Closed, page'.shown = page.shown,
         op # "ask" => n = Asked[op] /\ page'.size = page.size
  PROVE  Patience' /\ Clear' /\ Billed'
<1>1. PICK i \in Call : Clicked(i, op, page'.size, n)
  BY ClickIs DEF TypeInv
<1>2. \A j \in DOMAIN calls : calls'[j].by # Patient
  BY <1>1 DEF Clicked
<1>3. /\ DOMAIN calls' = DOMAIN calls \cup {i} /\ i \notin DOMAIN calls
      /\ calls'[i].size = page'.size /\ calls'[i].at = "sent"
      /\ calls'[i].op = op /\ calls'[i].n = n
      /\ DOMAIN calls = {} => calls'[i].by = Patient
      /\ calls'[i].by = Patient => DOMAIN calls = {}
  BY <1>1 DEF Clicked, Patient, Hurried
<1>4. op # "ask" => n = Asked'[op]
  BY DEF Asked
<1>5. Patience'
  BY <1>2, <1>3, <1>4 DEF Patience, PatientOK
<1>6. Clear'
  <2> SUFFICES ASSUME ~doubt'
               PROVE  /\ \A j \in DOMAIN calls' :
                           /\ calls'[j].by = Patient /\ calls'[j].at # "answered"
                           /\ calls'[j].op # "ask" => page'.shown = line'[page'.size]
    BY <1>3 DEF Clear
  <2>1. ~doubt /\ DOMAIN calls = {} /\ page # Closed /\ line' = line
    BY DEF Click, NoCalls
  <2>2. page.shown = line[page.size]
    BY <2>1 DEF Clear
  <2> QED
    BY <1>3, <2>1, <2>2
<1>7. Billed'
  BY <1>1 DEF Billed, Click, Clicked, Pieces
<1> QED
  BY <1>5, <1>6, <1>7

\* The controls.
LEMMA ControlKnown ==
  ASSUME TypeInv, Patience, Clear, Billed, Lower \/ Raise \/ Add \/ TakeOut \/ \E z \in Item : Pick(z)
  PROVE  Patience' /\ Clear' /\ Billed'
<1>1. page \in Pages /\ page # Closed
  BY DEF TypeInv, Shown, Lower, Raise, Add, TakeOut, Pick, Click
<1>2. page.shown \in Nat
  BY <1>1 DEF Pages
<1>3. CASE Lower
  BY <1>1, <1>3, ClickKnown DEF Lower, Asked
<1>4. CASE Raise
  <2>1. page' # Closed /\ page'.shown = page.shown /\ page'.size = page.size
    BY <1>1, <1>4 DEF Raise, Pages, Closed
  <2>2. Click("raise", page'.size, page.shown + 1) /\ page.shown + 1 = Asked["raise"]
    BY <1>4, <2>1 DEF Raise, Asked
  <2> QED
    BY <2>1, <2>2, ClickKnown
<1>5. CASE Add
  <2>1. page.shown = 0
    BY <1>1, <1>2, <1>5 DEF Add, Stepper
  <2>2. Click("raise", page'.size, 1) /\ page' = page /\ 1 = Asked["raise"]
    BY <1>5, <2>1 DEF Add, Asked
  <2> QED
    BY <1>1, <2>2, ClickKnown
<1>6. CASE TakeOut
  BY <1>1, <1>6, ClickKnown DEF TakeOut, Asked
<1>7. ASSUME NEW z \in Item, Pick(z)
      PROVE  Patience' /\ Clear' /\ Billed'
  <2>1. page' # Closed /\ page'.shown = page.shown /\ page'.size = z
    BY <1>1, <1>7 DEF Pick, Pages, Closed
  <2>2. Click("ask", page'.size, 0)
    BY <1>7, <2>1 DEF Pick
  <2> QED
    BY <2>1, <2>2, ClickKnown
<1> QED
  BY <1>3, <1>4, <1>5, <1>6, <1>7

\* A call is answered with what the line then holds: a patient one ends the
\* doubt, another one leaves it.
LEMMA AnswerKnown ==
  ASSUME TypeInv, Patience, Clear, NEW i \in DOMAIN calls, NEW n, Answered(i, n),
         calls[i].at # "answered",
         page' = page, stock' = stock, doubt' = (doubt /\ ~Tells(i)),
         line'[calls[i].size] = n,
         calls[i].op = "raise" /\ calls[i].by = Patient =>
           n = Asked["raise"] \/ (n < Asked["raise"] /\ n >= stock[calls[i].size])
  PROVE  Patience' /\ Clear'
<1>0. CallsOK /\ IsCall(calls[i])
  BY DEF TypeInv, CallsOK, CallOK
<1>1. CASE calls[i].by = Patient
  <2>1. DOMAIN calls = {i} /\ calls[i].size = page.size
    BY <1>1 DEF Patience, PatientOK
  <2>2. ~doubt'
    BY <1>1, <2>1 DEF Tells
  <2>3. calls' = [calls EXCEPT ![i] = [calls[i] EXCEPT !.at = "answered", !.n = n]]
    BY <1>0, <1>1 DEF Answered, Patient, Gone, CallsOK, IsCall
  <2>4. /\ DOMAIN calls' = {i} /\ calls'[i].at = "answered" /\ calls'[i].n = n
        /\ calls'[i].by = Patient /\ calls'[i].size = page.size /\ calls'[i].op = calls[i].op
    BY <1>0, <1>1, <2>1, <2>3 DEF IsCall
  <2>5. Patience'
    BY <1>1, <2>1, <2>4 DEF Patience, PatientOK, Allowed, Asked
  <2>6. Clear'
    BY <2>1, <2>4 DEF Clear
  <2> QED
    BY <2>5, <2>6
<1>2. CASE calls[i].by # Patient
  <2>1. \A j \in DOMAIN calls : calls[j].by # Patient
    BY <1>2, OneCall
  <2>2. \A j \in DOMAIN calls' : j \in DOMAIN calls /\ calls'[j].by # Patient
    BY <1>0, <2>1 DEF Answered, Without, Restrict, CallsOK, IsCall
  <2>3. doubt /\ doubt'
    <3>1. ~Tells(i)
      BY <1>2 DEF Tells
    <3>2. doubt
      BY <1>0, <1>2, ClearCall
    <3> QED
      BY <3>1, <3>2
  <2> QED
    BY <2>2, <2>3 DEF Patience, PatientOK, Clear
<1> QED
  BY <1>1, <1>2

\* A line the page's own call writes makes its answer ask for the bill.
LEMMA WriteBilled ==
  ASSUME TypeInv, NEW i \in DOMAIN calls, calls[i].op # "ask", NEW n, Write(i, n)
  PROVE  Billed'
<1>1. CASE calls[i].by = Gone
  BY <1>1 DEF Write, Billed
<1>2. CASE calls[i].by # Gone
  <2>1. calls' = [calls EXCEPT ![i] = [calls[i] EXCEPT !.at = "answered", !.n = n]]
    BY <1>2 DEF Write, Answered, TypeInv, CallsOK, CallOK, IsCall
  <2>2. i \in DOMAIN calls' /\ calls'[i].at = "answered" /\ calls'[i].op # "ask"
    BY <2>1 DEF TypeInv, CallsOK, CallOK, IsCall
  <2> QED
    BY <2>2 DEF Billed
<1> QED
  BY <1>1, <1>2

\* The server's statements.
LEMMA ServeKnown ==
  ASSUME TypeInv, Patience, Clear, Billed, NEW i \in DOMAIN calls, Serve(i)
  PROVE  Patience' /\ Clear' /\ Billed'
<1>0. /\ CallsOK /\ TablesOK /\ CallOK(calls[i]) /\ IsCall(calls[i]) /\ PatientOK(i)
      /\ calls[i].size \in Item /\ calls[i].n \in Int
  BY CallFields DEF TypeInv, CallsOK, CallOK, Patience
<1>1. page # Closed /\ page.shown \in Nat
  BY DEF TypeInv, CallsOK, Shown, Pages
<1>2. CASE Delete(i)
  <2>1. calls[i].op = "raise" => calls[i].by # Patient
    BY <1>0, <1>1, <1>2 DEF PatientOK, Asked, Delete, CallAt
  <2>2. line'[calls[i].size] = 0
    BY <1>0, <1>2 DEF Delete, Write, TablesOK
  <2>3. /\ Answered(i, 0) /\ page' = page /\ stock' = stock /\ doubt' = (doubt /\ ~Tells(i))
        /\ calls[i].at # "answered" /\ calls[i].op # "ask" /\ Write(i, 0)
    BY <1>2 DEF Delete, Write, CallAt
  <2>4. Patience' /\ Clear'
    BY <2>1, <2>2, <2>3, AnswerKnown
  <2> QED
    BY <2>3, <2>4, WriteBilled
<1>3. CASE ReadStock(i)
  <2> DEFINE n == IF calls[i].n < stock[calls[i].size] THEN calls[i].n ELSE stock[calls[i].size]
             c == [calls[i] EXCEPT !.at = "storing", !.n = n]
  <2>1. calls' = [calls EXCEPT ![i] = c]
    BY <1>0, <1>3 DEF ReadStock, CallsOK, IsCall
  <2>2. /\ c.by = calls[i].by /\ c.op = calls[i].op /\ c.op # "ask" /\ c.size = calls[i].size
        /\ c.at = "storing" /\ c.n = n
        /\ calls[i].at = "sent"
    BY <1>0, <1>3 DEF ReadStock, IsCall, CallAt
  <2>3. /\ UNCHANGED <<stock, line, page, bill, behind, doubt, unread>>
    BY <1>3 DEF ReadStock, histories
  <2>4. stock[calls[i].size] \in Nat
    BY <1>0 DEF TablesOK
  <2>5. calls[i].by = Patient => calls[i].n = Asked[calls[i].op]
    BY <1>0, <2>2 DEF PatientOK
  <2>6. n = calls[i].n \/ (n < calls[i].n /\ n >= stock[calls[i].size])
    BY <1>0, <2>4
  <2>7. calls[i].by = Patient => Allowed(c)
    BY <2>2, <2>5, <2>6 DEF Allowed
  <2> HIDE DEF c, n
  <2>8. /\ DOMAIN calls' = DOMAIN calls /\ calls'[i] = c
        /\ \A j \in DOMAIN calls \ {i} : calls'[j] = calls[j]
    BY <1>0, <2>1 DEF CallsOK
  <2>9. Patience'
    <3>1. PatientOK(i)'
      BY <1>0, <2>2, <2>3, <2>7, <2>8 DEF PatientOK, Allowed, Asked
    <3>2. ASSUME NEW j \in DOMAIN calls \ {i}
          PROVE  PatientOK(j)'
      BY <2>3, <2>8, <3>2 DEF Patience, PatientOK, Allowed, Asked
    <3> QED
      BY <2>8, <3>1, <3>2 DEF Patience
  <2>10. Clear'
    BY <2>2, <2>3, <2>8 DEF Clear
  <2>11. Billed'
    BY <2>2, <2>3, <2>8 DEF Billed, Pieces
  <2> QED
    BY <2>9, <2>10, <2>11
<1>4. CASE Store(i)
  <2>1. /\ Answered(i, calls[i].n) /\ page' = page /\ stock' = stock
        /\ doubt' = (doubt /\ ~Tells(i))
        /\ calls[i].at = "storing" /\ calls[i].op # "ask" /\ Write(i, calls[i].n)
    BY <1>0, <1>4 DEF Store, Write, CallAt, CallOK
  <2>2. line'[calls[i].size] = calls[i].n
    BY <1>0, <1>4 DEF Store, Write, TablesOK
  <2>3. calls[i].op = "raise" /\ calls[i].by = Patient => Allowed(calls[i])
    BY <1>0, <2>1 DEF PatientOK
  <2>4. Patience' /\ Clear'
    BY <2>1, <2>2, <2>3, AnswerKnown DEF Allowed
  <2> QED
    BY <2>1, <2>4, WriteBilled
<1>5. CASE Held(i)
  <2>1. /\ Answered(i, line[calls[i].size]) /\ page' = page /\ stock' = stock
        /\ doubt' = (doubt /\ ~Tells(i))
        /\ calls[i].at = "sent" /\ calls[i].op = "ask" /\ line' = line
        /\ UNCHANGED <<bill, behind, unread>>
    BY <1>5 DEF Held, CallAt
  <2>2. Patience' /\ Clear'
    BY <2>1, AnswerKnown
  <2>3. \A j \in DOMAIN calls \ {i} : j \in DOMAIN calls' /\ calls'[j] = calls[j]
    BY <1>0, <2>1 DEF Answered, Without, Restrict, CallsOK
  <2>4. Billed'
    BY <2>1, <2>3 DEF Billed, Pieces
  <2> QED
    BY <2>2, <2>4
<1> QED
  BY <1>2, <1>3, <1>4, <1>5 DEF Serve

\* A call that is over leaves no patient one behind.
LEMMA OverKnown ==
  ASSUME CallsOK, Patience, NEW i \in DOMAIN calls, calls' = Without(i)
  PROVE  /\ Patience' /\ DOMAIN calls' = DOMAIN calls \ {i}
         /\ \A j \in DOMAIN calls' : calls'[j] = calls[j] /\ calls'[j].by # Patient
<1>1. /\ DOMAIN calls' = DOMAIN calls \ {i}
      /\ \A j \in DOMAIN calls' : calls'[j] = calls[j]
  BY DEF Without, Restrict
<1>2. \A j \in DOMAIN calls' : calls'[j].by # Patient
  BY <1>1, OneCall
<1> QED
  BY <1>1, <1>2 DEF Patience, PatientOK

\* The answer, as the page shows it.
LEMMA ApplyKnown ==
  ASSUME TypeInv, Patience, Clear, Billed, NEW i \in DOMAIN calls, Apply(i)
  PROVE  Patience' /\ Clear' /\ Billed'
<1>0. /\ CallsOK /\ page \in Pages /\ page # Closed
      /\ page.shown \in Nat /\ calls[i].at = "answered"
  BY DEF TypeInv, CallsOK, Shown, Pages, Apply, CallAt
<1>1. /\ Patience' /\ DOMAIN calls' = DOMAIN calls \ {i}
      /\ \A j \in DOMAIN calls' : calls'[j] = calls[j] /\ calls'[j].by # Patient
  BY <1>0, OverKnown DEF Apply
<1>2. /\ page'.shown = calls[i].n /\ page'.size = page.size
      /\ page'.blocked = (page.kind = "row" /\ calls[i].op = "raise" /\ calls[i].n = page.shown)
      /\ UNCHANGED <<stock, line, bill, doubt, unread>>
      /\ behind' = (behind \/ calls[i].op # "ask")
  BY <1>0 DEF Apply, AfterAnswer, Bubble, Bumps, Pages, histories
<1>3. Clear'
  <2> SUFFICES ASSUME ~doubt
               PROVE  /\ page'.shown = line[page.size]
                      /\ page'.blocked => page'.shown >= stock[page.size]
                      /\ DOMAIN calls' = {}
    BY <1>2 DEF Clear
  <2>1. calls[i].by = Patient /\ calls[i].n = line[page.size]
    BY <1>0 DEF Clear
  <2>2. /\ DOMAIN calls = {i} /\ calls[i].size = page.size
        /\ calls[i].op = "raise" => Allowed(calls[i])
    BY <1>0, <2>1 DEF Patience, PatientOK
  <2>3. calls[i].op = "raise" /\ calls[i].n = page.shown => calls[i].n >= stock[page.size]
    BY <1>0, <2>2 DEF Allowed, Asked
  <2> QED
    BY <1>1, <1>2, <2>1, <2>2, <2>3
<1>4. Billed'
  BY <1>0, <1>1, <1>2 DEF Billed, Pieces
<1> QED
  BY <1>1, <1>3, <1>4

\* Every step keeps what a visitor and a bill can know.
LEMMA KnownStep ==
  ASSUME TypeInv, Patience, Clear, Billed, [Next]_vars
  PROVE  Patience' /\ Clear' /\ Billed'
<1>0. TablesOK /\ Shown /\ CallsOK
  BY DEF TypeInv
<1>1. CASE UNCHANGED vars
  BY <1>1 DEF vars, histories, Patience, PatientOK, Clear, Billed, Allowed, Asked, Pieces
<1>2. CASE LoadRow \/ LoadPanel
  <2>1. PICK kind \in {"row", "panel"}, z \in Item, offered \in SUBSET Item : Load(kind, z, offered)
    BY <1>2 DEF LoadRow, LoadPanel
  <2> QED
    BY <2>1, LoadKnown
<1>3. CASE Lower \/ Raise \/ Add \/ TakeOut \/ \E z \in Item : Pick(z)
  BY <1>3, ControlKnown
<1>4. ASSUME NEW z \in Item, Sell(z)
      PROVE  Patience' /\ Clear' /\ Billed'
  <2>1. UNCHANGED <<line, page, calls, bill, behind, doubt, unread>>
    BY <1>4 DEF Sell, histories
  <2>2. \A x \in Item : stock[x] \in Nat /\ stock'[x] \in Int /\ stock'[x] <= stock[x]
    BY <1>0, <1>4 DEF Sell, TablesOK
  <2>3. ASSUME NEW c, IsCall(c), c.op # "ask", Allowed(c), page # Closed
        PROVE  Allowed(c)'
    <3>1. /\ c.size \in Item /\ c.n \in Int /\ Asked[c.op] \in Int /\ Asked' = Asked
          /\ stock[c.size] \in Nat /\ stock'[c.size] \in Int /\ stock'[c.size] <= stock[c.size]
      BY <1>0, <2>1, <2>2, <2>3, CallFields DEF Asked, Shown, Pages
    <3> QED
      BY <2>3, <3>1 DEF Allowed
  <2>4. Patience'
    <3>1. ASSUME NEW i \in DOMAIN calls
          PROVE  PatientOK(i)'
      <4>1. IsCall(calls[i]) /\ PatientOK(i) /\ page # Closed
        BY <1>0 DEF CallsOK, CallOK, Patience
      <4>2. Asked' = Asked
        BY <2>1 DEF Asked
      <4> QED
        BY <2>1, <2>3, <4>1, <4>2 DEF PatientOK
    <3> QED
      BY <2>1, <3>1 DEF Patience
  <2>5. Clear'
    <3>1. page # Closed => page.size \in Item /\ page.shown \in Nat
      BY <1>0 DEF Shown, Pages
    <3>2. page # Closed /\ page.shown >= stock[page.size] => page.shown >= stock'[page.size]
      BY <2>2, <3>1
    <3> QED
      BY <2>1, <3>2 DEF Clear
  <2> QED
    BY <2>1, <2>4, <2>5 DEF Billed, Pieces
<1>5. ASSUME NEW z \in Item, NEW n \in 0 .. InitialStock[z], Elsewhere(z, n)
      PROVE  Patience' /\ Clear' /\ Billed'
  <2>1. /\ UNCHANGED <<stock, page, calls, bill, behind>> /\ unread' = TRUE
        /\ doubt' = (doubt \/ (page # Closed /\ page.size = z))
        /\ line' = [line EXCEPT ![z] = n]
    BY <1>5 DEF Elsewhere
  <2>2. Patience'
    BY <2>1 DEF Patience, PatientOK, Allowed, Asked
  <2>3. Clear'
    <3>1. SUFFICES ASSUME ~doubt', page # Closed
                   PROVE  line'[page.size] = line[page.size]
      BY <2>1 DEF Clear
    <3>2. page.size \in Item /\ page.size # z
      BY <1>0, <2>1, <3>1 DEF Shown, Pages
    <3> QED
      BY <1>0, <2>1, <3>2 DEF TablesOK
  <2> QED
    BY <2>1, <2>2, <2>3 DEF Billed
<1>6. ASSUME NEW i \in DOMAIN calls, Serve(i)
      PROVE  Patience' /\ Clear' /\ Billed'
  BY <1>6, ServeKnown
<1>7. ASSUME NEW i \in DOMAIN calls, Apply(i)
      PROVE  Patience' /\ Clear' /\ Billed'
  BY <1>7, ApplyKnown
<1>8. ASSUME NEW i \in DOMAIN calls, Lose(i)
      PROVE  Patience' /\ Clear' /\ Billed'
  <2>1. Patience'
    BY <1>0, <1>8, OverKnown DEF Lose
  <2> QED
    BY <1>8, <2>1 DEF Lose, Clear, Billed
<1>9. CASE Refresh
  BY <1>9 DEF Refresh, Patience, PatientOK, Clear, Billed, Allowed, Asked, Pieces
<1> QED
  BY <1>1, <1>2, <1>3, <1>4, <1>5, <1>6, <1>7, <1>8, <1>9 DEF Next

\* Inductive: the shape of the state, and what can be known from it.
StepperInv == TypeInv /\ Patience /\ Clear /\ Billed

\* Every reachable state is such a state.
LEMMA StepperHolds == Spec => []StepperInv
<1>1. Init => StepperInv
  <2> SUFFICES ASSUME Init PROVE StepperInv
    OBVIOUS
  <2>1. DOMAIN calls = {} /\ page = Closed
    BY DEF Init, NoCalls
  <2> QED
    BY <2>1, TypeInit DEF StepperInv, Patience, Clear, Billed
<1>2. StepperInv /\ [Next]_vars => StepperInv'
  BY TypeStep, KnownStep DEF StepperInv
<1> QED
  BY <1>1, <1>2, PTL DEF Spec

\* The number on a page that has its answers is the line it changes, for any
\* number of sizes and calls, if since the page was drawn, or since the last
\* click that was on its own, no two clicks overlapped, no answer was lost and
\* nothing else wrote the line.  Anything else sets doubt: of quick clicks and
\* other tabs this says only that the next click on its own mends the number.
THEOREM NumberAlwaysTheLine == Spec => []NumberIsTheLine
<1>1. StepperInv => NumberIsTheLine
  BY NoCallsIs DEF StepperInv, TypeInv, CallsOK, Clear, NumberIsTheLine, Quiet
<1> QED
  BY <1>1, StepperHolds, PTL

\* The bubble speaks of a limit only where there is one, under the same
\* condition: no click before an answer, no answer lost, nobody else's writes.
THEOREM BubbleAlwaysTellsTheTruth == Spec => []BubbleTellsTheTruth
<1>1. StepperInv => BubbleTellsTheTruth
  BY NoCallsIs DEF StepperInv, TypeInv, CallsOK, Clear, BubbleTellsTheTruth, Quiet
<1> QED
  BY <1>1, StepperHolds, PTL

\* A bill read since the last answer is the cart's, unless an answer was lost or
\* something but the page wrote the cart since.
THEOREM BillAlwaysTheCart == Spec => []BillIsTheCart
<1>1. StepperInv => BillIsTheCart
  BY NoCallsIs DEF StepperInv, TypeInv, CallsOK, Billed, BillIsTheCart, Quiet
<1> QED
  BY <1>1, StepperHolds, PTL
=============================================================================

---------------------------- MODULE AccountProofs ----------------------------
(***************************************************************************)
(* Proofs about Account, for any browsers, emails, passwords and bounds,   *)
(* on either host, whatever dies between two statements.                   *)
(***************************************************************************)
EXTENDS Account, FiniteSetTheorems, TLAPS

----------------------------------------------------------------------------
(* Types.                                                                  *)

Requests == req = [b \in Browser |-> req[b]] /\ \A b \in Browser : IsRequest(req[b])

\* Users are never forgotten and ids never given out again.
Grown == /\ DOMAIN account \subseteq DOMAIN account'
         /\ saved \in Nat /\ saved' \in Nat /\ saved <= saved'

\* One well-typed answer leaves all requests well-typed.
LEMMA AnswerType ==
  ASSUME Requests, Grown, NEW b \in Browser,
         req' = [req EXCEPT ![b] = req'[b]], IsRequest(req[b])'
  PROVE  Requests'
<1>1. ASSUME NEW x \in Browser
      PROVE  IsRequest(req[x])'
  <2>1. CASE x = b
    BY <2>1
  <2>2. CASE x # b
    <3>1. req'[x] = req[x] /\ IsRequest(req[x])
      BY <2>2 DEF Requests
    <3> QED
      BY <3>1 DEF IsRequest, Grown, Idle, TextToKeep, SomeText
  <2> QED
    BY <2>1, <2>2
<1> QED
  BY <1>1 DEF Requests

\* What a request carries, by where it stands.
LEMMA RequestFields ==
  ASSUME Requests, NEW b \in Browser
  PROVE  /\ req[b].at = "registering" => req[b].user \in Email /\ req[b].password \in Password
         /\ req[b].at \notin {"idle", "registering"} => req[b].user \in DOMAIN account
         /\ req[b].at \in {"removing", "clearing", "defaulting"} => req[b].id \in 1 .. saved
BY DEF Requests, IsRequest, Idle

\* The tables, the cookies and what the pages showed.
TablesOK ==
  /\ host \in Hosts
  /\ DOMAIN account \subseteq Email /\ \A e \in DOMAIN account : account[e] \in Password
  /\ session \in [Browser -> DOMAIN account \cup {Nobody}]
  /\ saved \in 0 .. MaxAddresses /\ DOMAIN book \subseteq 1 .. saved
  /\ \A id \in DOMAIN book : book[id] \in [user : DOMAIN account, default : BOOLEAN]
  /\ drawn \in [Browser -> SUBSET (1 .. saved)]

\* A visitor who is signed in is a user.
LEMMA SignedInIsUser ==
  ASSUME TablesOK, NEW b \in Browser, SignedIn(b)
  PROVE  session[b] \in DOMAIN account
BY DEF TablesOK, SignedIn

\* A user inserted keeps the tables well-typed.
LEMMA InsertUserType ==
  ASSUME TablesOK, Requests, NEW b \in Browser, InsertUser(b)
  PROVE  Grown /\ TablesOK'
<1> DEFINE u == req[b].user
<1>1. u \in Email /\ req[b].password \in Password
  BY RequestFields DEF InsertUser, At
<1>2. CASE u \in DOMAIN account
  BY <1>2, AccountAssumption DEF InsertUser, TablesOK, Grown
<1>3. CASE u \notin DOMAIN account
  <2>1. account' = [e \in DOMAIN account \cup {u} |-> IF e = u THEN req[b].password ELSE account[e]]
    BY <1>3 DEF InsertUser
  <2>2. DOMAIN account' = DOMAIN account \cup {u}
    BY <2>1
  <2>3. \A e \in DOMAIN account' : account'[e] \in Password
    BY <1>1, <2>1 DEF TablesOK
  <2>4. UNCHANGED <<host, session, book, saved, drawn>>
    BY DEF InsertUser
  <2>5. session \in [Browser -> DOMAIN account' \cup {Nobody}]
    BY <2>2 DEF TablesOK
  <2>6. \A id \in DOMAIN book : book[id] \in [user : DOMAIN account', default : BOOLEAN]
    BY <2>2 DEF TablesOK
  <2> QED
    BY <1>1, <2>2, <2>3, <2>4, <2>5, <2>6, AccountAssumption DEF TablesOK, Grown
<1> QED
  BY <1>2, <1>3

\* An address of a user, inserted, keeps the tables well-typed.
LEMMA InsertType ==
  ASSUME TablesOK, NEW u \in DOMAIN account, Insert(u),
         UNCHANGED <<host, account, session, drawn>>
  PROVE  Grown /\ TablesOK'
<1>1. saved' = saved + 1 /\ saved' \in 0 .. MaxAddresses /\ saved \in Nat
  BY AccountAssumption DEF Insert, TablesOK
<1>2. DOMAIN book' = DOMAIN book \cup {saved'}
  BY DEF Insert
<1>3. DOMAIN book' \subseteq 1 .. saved'
  BY <1>1, <1>2 DEF TablesOK
<1>4. \A id \in DOMAIN book' : book'[id] \in [user : DOMAIN account, default : BOOLEAN]
  BY DEF Insert, TablesOK
<1>5. drawn \in [Browser -> SUBSET (1 .. saved')]
  BY <1>1 DEF TablesOK
<1> QED
  BY <1>1, <1>3, <1>4, <1>5 DEF TablesOK, Grown

\* Clearing, marking and removing keep the book well-typed.
LEMMA BookType ==
  ASSUME TablesOK, UNCHANGED <<host, account, session, saved, drawn>>,
         DOMAIN book' \subseteq DOMAIN book,
         \A id \in DOMAIN book' :
           book'[id].user = book[id].user /\ book'[id] \in [user : DOMAIN account, default : BOOLEAN]
  PROVE  Grown /\ TablesOK'
BY AccountAssumption DEF TablesOK, Grown

\* The first statement of a change of default: the rows stay, none of u is the
\* default.
LEMMA ClearedType ==
  ASSUME TablesOK, NEW u
  PROVE  /\ DOMAIN Cleared(u) = DOMAIN book
         /\ \A id \in DOMAIN book :
              Cleared(u)[id] = [user |-> book[id].user,
                                default |-> book[id].default /\ book[id].user # u]
BY DEF TablesOK, Cleared

\* The second one: the rows stay, the row named is the default if it is u's.
LEMMA MarkedType ==
  ASSUME NEW f, NEW Users, \A i \in DOMAIN f : f[i] \in [user : Users, default : BOOLEAN],
         NEW b, NEW u, NEW id
  PROVE  /\ DOMAIN Marked(f, u, id) = DOMAIN f
         /\ \A i \in DOMAIN f :
              Marked(f, u, id)[i] = [user |-> f[i].user,
                                     default |-> f[i].default \/ (f[i].user = u /\ i = id)]
BY DEF Marked

----------------------------------------------------------------------------
\* Requests that stand still stay well-typed.
LEMMA StillType ==
  ASSUME Requests, Grown, UNCHANGED req
  PROVE  Requests'
BY DEF Requests, IsRequest, Grown, Idle, TextToKeep, SomeText

\* A request is answered, and the tables are as they were.
LEMMA OnlyAnswered ==
  ASSUME TablesOK, UNCHANGED <<host, tables, drawn>>
  PROVE  Grown /\ TablesOK'
BY AccountAssumption DEF TablesOK, Grown, tables

\* An answer replaces one request.
LEMMA AnswerOf ==
  ASSUME Requests, NEW b \in Browser, NEW r, Answer(b, r)
  PROVE  req' = [req EXCEPT ![b] = req'[b]] /\ req'[b] = r
BY DEF Answer, Requests

\* A cookie set or deleted keeps the tables well-typed.
LEMMA CookieType ==
  ASSUME TablesOK, NEW b \in Browser, NEW u \in DOMAIN account \cup {Nobody},
         session' = [session EXCEPT ![b] = u],
         UNCHANGED <<host, account, book, saved, drawn>>
  PROVE  Grown /\ TablesOK'
BY AccountAssumption DEF TablesOK, Grown

\* What a visitor does keeps the types.
LEMMA VisitType ==
  ASSUME TablesOK, Requests, NEW b \in Browser, Visit(b)
  PROVE  TablesOK' /\ Requests'
<1>1. ASSUME NEW c \in Tries[b], Register(b, c[1], c[2])
      PROVE  TablesOK' /\ Requests'
  <2>1. c[2] \in Password /\ Normal[c[1]] \in Email
    BY AccountAssumption
  <2>2. Grown /\ TablesOK'
    BY <1>1, OnlyAnswered DEF Register
  <2>3. /\ req' = [req EXCEPT ![b] = req'[b]]
        /\ req'[b] = [at |-> "registering", user |-> Normal[c[1]], password |-> c[2]]
    BY <1>1, AnswerOf DEF Register
  <2>4. IsRequest(req[b])'
    BY <2>1, <2>3 DEF IsRequest
  <2> QED
    BY <2>2, <2>3, <2>4, AnswerType
<1>2. ASSUME NEW c \in Tries[b], SignIn(b, c[1], c[2])
      PROVE  TablesOK' /\ Requests'
  <2>1. Normal[c[1]] \in DOMAIN account
    BY <1>2 DEF SignIn, Verify, EmailTaken
  <2>2. Grown /\ TablesOK' /\ account' = account
    BY <1>2, OnlyAnswered DEF SignIn, tables
  <2>3. req' = [req EXCEPT ![b] = req'[b]] /\ req'[b] = [at |-> "opening", user |-> Normal[c[1]]]
    BY <1>2, AnswerOf DEF SignIn
  <2>4. IsRequest(req[b])'
    BY <2>1, <2>2, <2>3 DEF IsRequest
  <2> QED
    BY <2>2, <2>3, <2>4, AnswerType
<1>3. CASE SignOut(b)
  BY <1>3, CookieType, StillType DEF SignOut
<1>4. CASE OpenPage(b)
  <2>1. Grown /\ TablesOK'
    BY <1>4, AccountAssumption DEF OpenPage, TablesOK, Grown, tables, Addresses
  <2> QED
    BY <1>4, <2>1, StillType DEF OpenPage
<1>5. ASSUME NEW r, Ask(b, r),
             session[b] \in DOMAIN account =>
               \/ r \in [at : {"adding"}, user : DOMAIN account]
               \/ r \in [at : {"removing", "clearing"}, user : DOMAIN account, id : 1 .. saved]
               \/ r \in [at : {"addressing"}, user : DOMAIN account, choice : TextToKeep .. saved]
      PROVE  TablesOK' /\ Requests'
  <2>1. session[b] \in DOMAIN account
    BY <1>5, SignedInIsUser DEF Ask
  <2>2. Grown /\ TablesOK' /\ account' = account /\ saved' = saved
    BY <1>5, OnlyAnswered DEF Ask, tables
  <2>3. req' = [req EXCEPT ![b] = req'[b]] /\ req'[b] = r
    BY <1>5, AnswerOf DEF Ask
  <2>4. IsRequest(req[b])'
    BY <1>5, <2>1, <2>2, <2>3 DEF IsRequest
  <2> QED
    BY <2>2, <2>3, <2>4, AnswerType
<1>6. drawn[b] \subseteq 1 .. saved /\ saved \in Nat
  BY AccountAssumption DEF TablesOK
<1>7. CASE AskAdd(b)
  BY <1>5, <1>7 DEF AskAdd
<1>8. ASSUME NEW id \in drawn[b], AskRemove(b, id) \/ AskDefault(b, id)
      PROVE  TablesOK' /\ Requests'
  <2>1. CASE AskRemove(b, id)
    <3> DEFINE r == [at |-> "removing", user |-> session[b], id |-> id]
    <3>1. Ask(b, r)
      BY <2>1 DEF AskRemove
    <3>2. session[b] \in DOMAIN account =>
            r \in [at : {"removing", "clearing"}, user : DOMAIN account, id : 1 .. saved]
      BY <1>6
    <3> QED
      BY <1>5, <3>1, <3>2
  <2>2. CASE AskDefault(b, id)
    <3> DEFINE r == [at |-> "clearing", user |-> session[b], id |-> id]
    <3>1. Ask(b, r)
      BY <2>2 DEF AskDefault
    <3>2. session[b] \in DOMAIN account =>
            r \in [at : {"removing", "clearing"}, user : DOMAIN account, id : 1 .. saved]
      BY <1>6
    <3> QED
      BY <1>5, <3>1, <3>2
  <2> QED
    BY <1>8, <2>1, <2>2
<1>9. ASSUME NEW choice \in drawn[b] \cup {SomeText, TextToKeep}, Submit(b, choice)
      PROVE  TablesOK' /\ Requests'
  <2> DEFINE r == [at |-> "addressing", user |-> session[b], choice |-> choice]
  <2>1. Ask(b, r)
    BY <1>9 DEF Submit
  <2>2. choice \in TextToKeep .. saved
    BY <1>6 DEF TextToKeep, SomeText
  <2>3. session[b] \in DOMAIN account =>
          r \in [at : {"addressing"}, user : DOMAIN account, choice : TextToKeep .. saved]
    BY <2>2
  <2> QED
    BY <1>5, <2>1, <2>3
<1> QED
  BY <1>1, <1>2, <1>3, <1>4, <1>7, <1>8, <1>9 DEF Visit

\* What becomes of a registration or of a sign-in keeps the types.
LEMMA EntryType ==
  ASSUME TablesOK, Requests, NEW b \in Browser,
         \/ InsertUser(b) \/ SelectId(b) \/ OpenSession(b) \/ CreateCart(b) \/ AttachCart(b)
         \/ Fault(b)
  PROVE  TablesOK' /\ Requests'
<1> DEFINE u == req[b].user
<1>1. CASE InsertUser(b)
  <2>1. Grown /\ TablesOK'
    BY <1>1, InsertUserType
  <2>2. PICK r : Answer(b, r) /\ (r = Idle \/ r \in [at : {"selecting", "opening"}, user : {u}])
                              /\ (r # Idle => u \in DOMAIN account')
    BY <1>1 DEF InsertUser, At, Idle
  <2>3. req' = [req EXCEPT ![b] = req'[b]] /\ req'[b] = r
    BY <2>2, AnswerOf
  <2>4. IsRequest(req[b])'
    BY <2>2, <2>3 DEF IsRequest
  <2> QED
    BY <2>1, <2>3, <2>4, AnswerType
<1>2. ASSUME NEW r, Answer(b, r), UNCHANGED <<host, tables, drawn>>,
             r \in [at : {"opening", "creating", "attaching"}, user : DOMAIN account]
      PROVE  TablesOK' /\ Requests'
  <2>1. Grown /\ TablesOK' /\ account' = account
    BY <1>2, OnlyAnswered DEF tables
  <2>2. req' = [req EXCEPT ![b] = req'[b]] /\ req'[b] = r
    BY <1>2, AnswerOf
  <2>3. IsRequest(req[b])'
    BY <1>2, <2>1, <2>2 DEF IsRequest
  <2> QED
    BY <2>1, <2>2, <2>3, AnswerType
<1>3. req[b].at \in {"selecting", "opening", "creating", "attaching"}
        => req[b] \in [at : {"selecting", "opening", "creating", "attaching"}, user : DOMAIN account]
  BY DEF Requests, IsRequest, Idle
<1>4. CASE SelectId(b)
  BY <1>2, <1>3, <1>4 DEF SelectId, At
<1>5. CASE OpenSession(b)
  <2>1. CASE host = "edge"
    BY <1>2, <1>3, <1>5, <2>1 DEF OpenSession, At
  <2>2. CASE host # "edge"
    BY <1>2, <1>3, <1>5, <2>2 DEF OpenSession, At
  <2> QED
    BY <2>1, <2>2
<1>6. CASE CreateCart(b)
  BY <1>2, <1>3, <1>6 DEF CreateCart, At
<1>7. ASSUME Answer(b, Idle), Grown, TablesOK'
      PROVE  TablesOK' /\ Requests'
  <2>1. req' = [req EXCEPT ![b] = req'[b]] /\ IsRequest(req[b])'
    BY <1>7, AnswerOf DEF IsRequest
  <2> QED
    BY <1>7, <2>1, AnswerType
<1>8. CASE AttachCart(b)
  <2>1. Grown /\ TablesOK'
    BY <1>3, <1>8, CookieType DEF AttachCart, At, Carry
  <2> QED
    BY <1>7, <1>8, <2>1 DEF AttachCart
<1>9. CASE Fault(b)
  <2>1. Answer(b, Idle) /\ UNCHANGED <<host, account, book, saved, drawn>>
    BY <1>9 DEF Fault
  <2>2. CASE UNCHANGED session
    BY <1>7, <2>1, <2>2, OnlyAnswered DEF tables
  <2>3. CASE At(b, "attaching") /\ Carry(b)
    <3>1. Grown /\ TablesOK'
      BY <1>3, <2>1, <2>3, CookieType DEF At, Carry
    <3> QED
      BY <1>7, <2>1, <3>1
  <2> QED
    BY <1>9, <2>2, <2>3 DEF Fault
<1> QED
  BY <1>1, <1>4, <1>5, <1>6, <1>8, <1>9

\* What becomes of a change of a book keeps the types.
LEMMA BookStepType ==
  ASSUME TablesOK, Requests, NEW b \in Browser,
         \/ AddAddress(b) \/ RemoveAddress(b) \/ SetDefault(b) \/ ClearDefault(b) \/ MakeDefault(b)
  PROVE  TablesOK' /\ Requests'
<1> DEFINE u == req[b].user
           BookOf(f) == \A i \in DOMAIN f : f[i] \in [user : DOMAIN account, default : BOOLEAN]
<1>1. u \in DOMAIN account
  BY RequestFields DEF AddAddress, RemoveAddress, SetDefault, ClearDefault, MakeDefault, At
<1>2. ASSUME Answer(b, Idle), Grown, TablesOK'
      PROVE  TablesOK' /\ Requests'
  <2>1. req' = [req EXCEPT ![b] = req'[b]] /\ IsRequest(req[b])'
    BY <1>2, AnswerOf DEF IsRequest
  <2> QED
    BY <1>2, <2>1, AnswerType
<1>3. BookOf(book)
  BY DEF TablesOK
<1>4. ASSUME NEW f, BookOf(f), NEW id
      PROVE  /\ DOMAIN Marked(f, u, id) = DOMAIN f
             /\ \A i \in DOMAIN f : /\ Marked(f, u, id)[i].user = f[i].user
                                    /\ Marked(f, u, id)[i] \in [user : DOMAIN account, default : BOOLEAN]
  BY <1>4 DEF Marked
<1>5. /\ DOMAIN Cleared(u) = DOMAIN book
      /\ \A i \in DOMAIN book : /\ Cleared(u)[i].user = book[i].user
                                /\ Cleared(u)[i] \in [user : DOMAIN account, default : BOOLEAN]
  BY <1>3 DEF Cleared
<1>6. CASE AddAddress(b)
  BY <1>1, <1>2, <1>6, InsertType DEF AddAddress
<1>7. CASE RemoveAddress(b)
  <2>1. /\ DOMAIN book' \subseteq DOMAIN book
        /\ \A i \in DOMAIN book' : book'[i] = book[i]
    BY <1>7 DEF RemoveAddress, Restrict
  <2>2. UNCHANGED <<host, account, session, saved, drawn>>
    BY <1>7 DEF RemoveAddress
  <2>3. Grown /\ TablesOK'
    BY <1>3, <2>1, <2>2, BookType
  <2> QED
    BY <1>2, <1>7, <2>3 DEF RemoveAddress
<1>8. CASE SetDefault(b)
  <2>1. book' = Marked(Cleared(u), u, req[b].id)
    BY <1>8 DEF SetDefault
  <2>2. BookOf(Cleared(u))
    BY <1>5
  <2>3. /\ DOMAIN book' = DOMAIN book
        /\ \A i \in DOMAIN book : /\ book'[i].user = book[i].user
                                  /\ book'[i] \in [user : DOMAIN account, default : BOOLEAN]
    BY <1>4, <1>5, <2>1, <2>2
  <2>4. UNCHANGED <<host, account, session, saved, drawn>>
    BY <1>8 DEF SetDefault
  <2>5. Grown /\ TablesOK'
    BY <2>3, <2>4, BookType
  <2> QED
    BY <1>2, <1>8, <2>5 DEF SetDefault
<1>9. CASE ClearDefault(b)
  <2>1. book' = Cleared(u) /\ UNCHANGED <<host, account, session, saved, drawn>>
    BY <1>9 DEF ClearDefault
  <2>2. Grown /\ TablesOK' /\ account' = account /\ saved' = saved
    BY <1>5, <2>1, BookType
  <2>3. req[b] \in [at : {"clearing"}, user : DOMAIN account, id : 1 .. saved]
    BY <1>9 DEF Requests, IsRequest, Idle, ClearDefault, At
  <2>4. /\ req' = [req EXCEPT ![b] = req'[b]]
        /\ req'[b] \in [at : {"defaulting"}, user : DOMAIN account, id : 1 .. saved]
    BY <1>9, <2>3, AnswerOf DEF ClearDefault
  <2>5. IsRequest(req[b])'
    BY <2>2, <2>4 DEF IsRequest
  <2> QED
    BY <2>2, <2>4, <2>5, AnswerType
<1>10. CASE MakeDefault(b)
  <2>1. book' = Marked(book, u, req[b].id) /\ UNCHANGED <<host, account, session, saved, drawn>>
    BY <1>10 DEF MakeDefault
  <2>2. Grown /\ TablesOK'
    BY <1>3, <1>4, <2>1, BookType
  <2> QED
    BY <1>2, <1>10, <2>2 DEF MakeDefault
<1> QED
  BY <1>6, <1>7, <1>8, <1>9, <1>10

\* What becomes of an order keeps the types.
LEMMA PaymentType ==
  ASSUME TablesOK, Requests, NEW b \in Browser,
         ReadAddress(b) \/ TakeText(b) \/ PlaceOrder(b)
  PROVE  TablesOK' /\ Requests'
<1> DEFINE u == req[b].user
<1>1. u \in DOMAIN account
  BY RequestFields DEF ReadAddress, TakeText, PlaceOrder, At
<1>2. ASSUME NEW r, Answer(b, r), Grown, TablesOK',
             r = Idle \/ r \in [at : {"placing"}, user : DOMAIN account', ship_to : DOMAIN account' \cup {SomeText}]
      PROVE  TablesOK' /\ Requests'
  <2>1. req' = [req EXCEPT ![b] = req'[b]] /\ req'[b] = r
    BY <1>2, AnswerOf
  <2>2. IsRequest(req[b])'
    BY <1>2, <2>1 DEF IsRequest
  <2> QED
    BY <1>2, <2>1, <2>2, AnswerType
<1>3. CASE ReadAddress(b)
  <2>1. Grown /\ TablesOK' /\ account' = account
    BY <1>3, OnlyAnswered DEF ReadAddress, tables
  <2>2. CASE FindAddress(u, req[b].choice)
    <3>1. book[req[b].choice].user = u
      BY <2>2 DEF FindAddress, Addresses
    <3>2. Answer(b, [at |-> "placing", user |-> u, ship_to |-> book[req[b].choice].user])
      BY <1>3, <2>2 DEF ReadAddress
    <3> QED
      BY <1>1, <1>2, <2>1, <3>1, <3>2
  <2>3. CASE ~FindAddress(u, req[b].choice)
    <3>1. Answer(b, Idle)
      BY <1>3, <2>3 DEF ReadAddress
    <3> QED
      BY <1>2, <2>1, <3>1
  <2> QED
    BY <2>2, <2>3
<1>4. CASE TakeText(b)
  <2>1. Grown /\ TablesOK'
    BY <1>1, <1>4, InsertType, OnlyAnswered DEF TakeText, tables
  <2>2. Answer(b, [at |-> "placing", user |-> u, ship_to |-> SomeText])
    BY <1>4 DEF TakeText
  <2>3. u \in DOMAIN account'
    BY <1>1, <2>1 DEF Grown
  <2> QED
    BY <1>2, <2>1, <2>2, <2>3
<1>5. CASE PlaceOrder(b)
  BY <1>2, <1>5, OnlyAnswered DEF PlaceOrder
<1> QED
  BY <1>3, <1>4, <1>5

\* Every step keeps the types.
LEMMA TypeStep ==
  ASSUME TablesOK, Requests, [Next]_vars
  PROVE  TablesOK' /\ Requests'
<1>1. CASE UNCHANGED vars
  BY <1>1 DEF TablesOK, Requests, IsRequest, vars, tables
<1>2. ASSUME NEW b \in Browser, Visit(b) \/ Progress(b) \/ Fault(b) \/ Expire(b)
      PROVE  TablesOK' /\ Requests'
  <2>1. CASE Expire(b)
    BY <2>1, CookieType, StillType DEF Expire
  <2> QED
    BY <1>2, <2>1, VisitType, EntryType, BookStepType, PaymentType DEF Progress
<1> QED
  BY <1>1, <1>2 DEF Next

\* The type invariant, as the two parts steps are shown to keep.
LEMMA TypeParts == TypeOK <=> TablesOK /\ Requests
BY DEF TypeOK, TablesOK, Requests

\* Tables, cookies and requests keep their shape, and every session, address
\* and request is of a user there is.
THEOREM TypeCorrect == Spec => []TypeOK
<1>1. Init => TablesOK /\ Requests
  BY AccountAssumption DEF Init, TablesOK, Requests, IsRequest
<1>2. (TablesOK /\ Requests) /\ [Next]_vars => (TablesOK /\ Requests)'
  BY TypeStep
<1> QED
  BY <1>1, <1>2, TypeParts, PTL DEF Spec

----------------------------------------------------------------------------
(* A session is earned.  On the way to it, a request that registers holds   *)
(* what was typed, and one that opens a session knows the password of the   *)
(* account; passwords never change, as no account is ever replaced.         *)

Knows(b, u) == \E c \in Tries[b] : account[u] = c[2]

OnTheWay(b) ==
  /\ At(b, "registering") => \E c \in Tries[b] : req[b].password = c[2]
  /\ req[b].at \in {"selecting", "opening", "creating", "attaching"} => Knows(b, req[b].user)

EarnedBy(b) == (SignedIn(b) => Knows(b, session[b])) /\ OnTheWay(b)

Earned == \A b \in Browser : EarnedBy(b)

Step(b) == Visit(b) \/ Progress(b) \/ Fault(b) \/ Expire(b)

\* One step answers one request, and sets one cookie at most: to nobody, or to
\* the user whose session the request opened.
LEMMA OneAnswer ==
  ASSUME TablesOK, Requests, NEW b \in Browser, Step(b)
  PROVE  /\ \A x \in Browser \ {b} : req'[x] = req[x] /\ session'[x] = session[x]
         /\ \/ session'[b] = session[b] \/ session'[b] = Nobody
            \/ At(b, "attaching") /\ session'[b] = req[b].user
<1>1. CASE Visit(b)
  BY <1>1 DEF TablesOK, Requests, Visit, Register, SignIn, SignOut, OpenPage, AskAdd, AskRemove,
              AskDefault, Submit, Ask, Answer, tables
<1>2. CASE Progress(b)
  BY <1>2 DEF TablesOK, Requests, Progress, InsertUser, SelectId, OpenSession, CreateCart,
              AttachCart, AddAddress, RemoveAddress, SetDefault, ClearDefault, MakeDefault,
              ReadAddress, TakeText, PlaceOrder, Carry, Answer, tables
<1>3. CASE Fault(b) \/ Expire(b)
  BY <1>3 DEF TablesOK, Requests, Fault, Expire, Carry, Answer
<1> QED
  BY <1>1, <1>2, <1>3 DEF Step

\* No step replaces a password.
LEMMA PasswordsStay ==
  ASSUME TablesOK, Requests, NEW b \in Browser, Step(b)
  PROVE  \A u \in DOMAIN account : u \in DOMAIN account' /\ account'[u] = account[u]
<1>1. CASE InsertUser(b)
  BY <1>1 DEF InsertUser
<1>2. CASE ~InsertUser(b)
  <2>1. CASE Visit(b)
    BY <2>1 DEF Visit, Register, SignIn, SignOut, OpenPage, AskAdd, AskRemove, AskDefault, Submit, Ask, tables
  <2>2. CASE Progress(b)
    BY <1>2, <2>2 DEF Progress, SelectId, OpenSession, CreateCart, AttachCart, AddAddress, RemoveAddress,
                      SetDefault, ClearDefault, MakeDefault, ReadAddress, TakeText, PlaceOrder, tables
  <2> QED
    BY <2>1, <2>2 DEF Step, Fault, Expire
<1> QED
  BY <1>1, <1>2

\* The request that moved is still on its way, with a password of its visitor.
LEMMA WayStep ==
  ASSUME TablesOK, Requests, NEW b \in Browser, Step(b), OnTheWay(b)
  PROVE  OnTheWay(b)'
<1> DEFINE Entering(r) == r.at \in {"registering", "selecting", "opening", "creating", "attaching"}
<1>1. \A u \in DOMAIN account : Knows(b, u) => u \in DOMAIN account' /\ Knows(b, u)'
  BY PasswordsStay DEF Knows
<1>2. req[b].at \in {"selecting", "opening", "creating", "attaching"}
        => \E c \in Tries[b] : account'[req[b].user] = c[2]
  BY <1>1, RequestFields DEF OnTheWay, Knows
<1>3. CASE ~Entering(req'[b])
  BY <1>3 DEF OnTheWay, At
<1>4. CASE UNCHANGED req
  BY <1>2, <1>4 DEF OnTheWay, At, Knows
<1>5. ASSUME NEW c \in Tries[b], Register(b, c[1], c[2])
      PROVE  OnTheWay(b)'
  <2>1. req'[b] = [at |-> "registering", user |-> Normal[c[1]], password |-> c[2]]
    BY <1>5, AnswerOf DEF Register
  <2> QED
    BY <2>1 DEF OnTheWay, At
<1>6. ASSUME NEW c \in Tries[b], SignIn(b, c[1], c[2])
      PROVE  OnTheWay(b)'
  <2>1. req'[b] = [at |-> "opening", user |-> Normal[c[1]]]
    BY <1>6, AnswerOf DEF SignIn
  <2>2. Normal[c[1]] \in DOMAIN account /\ Knows(b, Normal[c[1]])
    BY <1>6 DEF SignIn, Verify, EmailTaken, Knows
  <2>3. Knows(b, Normal[c[1]])'
    BY <1>1, <2>2
  <2> QED
    BY <2>1, <2>3 DEF OnTheWay, At, Knows
<1>7. CASE InsertUser(b)
  <2>1. CASE req[b].user \in DOMAIN account
    BY <1>7, <2>1, <1>3, AnswerOf DEF InsertUser, Idle
  <2>2. CASE req[b].user \notin DOMAIN account
    <3>1. PICK c \in Tries[b] : req[b].password = c[2]
      BY <1>7 DEF OnTheWay, InsertUser
    <3>2. account'[req[b].user] = c[2]
      BY <1>7, <2>2, <3>1 DEF InsertUser
    <3>3. req'[b] = [at |-> IF host = "edge" THEN "selecting" ELSE "opening", user |-> req[b].user]
      BY <1>7, <2>2, AnswerOf DEF InsertUser
    <3> QED
      BY <3>2, <3>3 DEF OnTheWay, At, Knows
  <2> QED
    BY <2>1, <2>2
<1>8. ASSUME req[b].at \in {"selecting", "opening", "creating", "attaching"},
             req'[b].user = req[b].user, req'[b].at # "registering"
      PROVE  OnTheWay(b)'
  BY <1>2, <1>8 DEF OnTheWay, At, Knows
<1>9. req[b].at \in {"selecting", "opening", "creating", "attaching"}
        => req[b] \in [at : {"selecting", "opening", "creating", "attaching"}, user : DOMAIN account]
  BY DEF Requests, IsRequest, Idle
<1>10. CASE SelectId(b)
  BY <1>8, <1>9, <1>10, AnswerOf DEF SelectId, At
<1>11. CASE OpenSession(b)
  <2>1. CASE host = "edge"
    BY <1>8, <1>9, <1>11, <2>1, AnswerOf DEF OpenSession, At
  <2>2. CASE host # "edge"
    BY <1>8, <1>9, <1>11, <2>2, AnswerOf DEF OpenSession, At
  <2> QED
    BY <2>1, <2>2
<1>12. CASE CreateCart(b)
  BY <1>8, <1>9, <1>12, AnswerOf DEF CreateCart, At
<1>13. CASE AttachCart(b) \/ Fault(b) \/ PlaceOrder(b) \/ AddAddress(b) \/ RemoveAddress(b) \/ SetDefault(b) \/ MakeDefault(b)
  BY <1>3, <1>13, AnswerOf DEF AttachCart, Fault, PlaceOrder, AddAddress, RemoveAddress, SetDefault, MakeDefault, Idle
<1>14. CASE ClearDefault(b)
  <2>1. req[b] \in [at : {"clearing"}, user : DOMAIN account, id : 1 .. saved]
    BY <1>14 DEF Requests, IsRequest, Idle, ClearDefault, At
  <2>2. req'[b].at = "defaulting"
    BY <1>14, <2>1, AnswerOf DEF ClearDefault
  <2> QED
    BY <1>3, <2>2
<1>15. CASE ReadAddress(b)
  <2>1. PICK r : Answer(b, r) /\ r.at \in {"placing", "idle"}
    BY <1>15 DEF ReadAddress, Idle
  <2> QED
    BY <1>3, <2>1, AnswerOf
<1>16. CASE TakeText(b)
  BY <1>3, <1>16, AnswerOf DEF TakeText
<1>17. CASE SignOut(b) \/ Expire(b) \/ OpenPage(b)
  BY <1>4, <1>17 DEF SignOut, Expire, OpenPage
<1>18. ASSUME NEW r, Ask(b, r), r.at \in {"adding", "removing", "clearing", "addressing"}
       PROVE  OnTheWay(b)'
  BY <1>3, <1>18, AnswerOf DEF Ask
<1>19. CASE AskAdd(b)
  BY <1>18, <1>19 DEF AskAdd
<1>20. ASSUME NEW id \in drawn[b], AskRemove(b, id) \/ AskDefault(b, id)
       PROVE  OnTheWay(b)'
  BY <1>18, <1>20 DEF AskRemove, AskDefault
<1>21. ASSUME NEW choice \in drawn[b] \cup {SomeText, TextToKeep}, Submit(b, choice)
       PROVE  OnTheWay(b)'
  BY <1>18, <1>21 DEF Submit
<1> QED
  BY <1>5, <1>6, <1>7, <1>10, <1>11, <1>12, <1>13, <1>14, <1>15, <1>16, <1>17, <1>19, <1>20, <1>21
     DEF Step, Visit, Progress

\* Every step of any visitor keeps that sessions are earned.
LEMMA EarnedStep ==
  ASSUME TablesOK, Requests, Earned, [Next]_vars
  PROVE  Earned'
<1>1. CASE UNCHANGED vars
  BY <1>1 DEF Earned, EarnedBy, SignedIn, Knows, OnTheWay, At, vars, tables
<1>2. ASSUME NEW b \in Browser, Step(b), NEW x \in Browser
      PROVE  EarnedBy(x)'
  <2>1. \A u \in DOMAIN account : Knows(x, u) => Knows(x, u)'
    BY <1>2, PasswordsStay DEF Knows
  <2>2. session[x] # Nobody => session[x] \in DOMAIN account
    BY DEF TablesOK
  <2>3. CASE x # b
    <3>1. req'[x] = req[x] /\ session'[x] = session[x]
      BY <1>2, <2>3, OneAnswer
    <3>2. OnTheWay(x)'
      BY <2>1, <3>1, RequestFields DEF Earned, EarnedBy, OnTheWay, At, Knows
    <3> QED
      BY <2>1, <2>2, <3>1, <3>2 DEF Earned, EarnedBy, SignedIn, Knows
  <2>4. CASE x = b
    <3>1. OnTheWay(b)'
      BY <1>2, WayStep DEF Earned, EarnedBy
    <3>2. At(b, "attaching") => Knows(b, req[b].user) /\ req[b].user \in DOMAIN account
      BY RequestFields DEF Earned, EarnedBy, OnTheWay, At
    <3>3. \/ session'[b] = session[b] \/ session'[b] = Nobody
          \/ At(b, "attaching") /\ session'[b] = req[b].user
      BY <1>2, OneAnswer
    <3>4. SignedIn(b)' => Knows(b, session[b])'
      BY <2>1, <2>2, <2>4, <3>2, <3>3 DEF Earned, EarnedBy, SignedIn, Knows
    <3> QED
      BY <2>4, <3>1, <3>4 DEF EarnedBy
  <2> QED
    BY <2>3, <2>4
<1> QED
  BY <1>1, <1>2 DEF Earned, Next, Step

\* Whoever holds a session knows the password of its account, however many
\* visitors registered one email at once and whatever died on the way.
THEOREM SessionsEarned == Spec => []SessionsAreEarned
<1>1. Init => Earned
  BY DEF Init, Earned, EarnedBy, SignedIn, OnTheWay, At, Idle
<1>2. Earned => SessionsAreEarned
  BY DEF Earned, EarnedBy, Knows, SessionsAreEarned
<1>3. (TablesOK /\ Requests) /\ Earned /\ [Next]_vars => Earned'
  BY EarnedStep
<1>4. Spec => [](TablesOK /\ Requests)
  BY TypeCorrect, TypeParts, PTL
<1> QED
  BY <1>1, <1>2, <1>3, <1>4, PTL DEF Spec

----------------------------------------------------------------------------
(* Whose book a request reads and changes.                                 *)

\* What an order will be sent to, of one browser.
OwnAddress(b) == At(b, "placing") => req[b].ship_to \in {req[b].user, SomeText}

\* Whoever's page the address id was read from, the text an order takes is its
\* visitor's.
LEMMA OwnAddressStep ==
  ASSUME TablesOK, Requests, NEW b \in Browser, Step(b), OwnAddress(b)
  PROVE  OwnAddress(b)'
<1> DEFINE Other(r) == r.at # "placing"
<1>1. CASE Other(req'[b]) \/ UNCHANGED req
  BY <1>1 DEF OwnAddress, At
<1>2. CASE TakeText(b)
  BY <1>2, AnswerOf DEF TakeText, OwnAddress, At
<1>3. CASE ReadAddress(b)
  <2>1. CASE FindAddress(req[b].user, req[b].choice)
    <3>1. req'[b] = [at |-> "placing", user |-> req[b].user, ship_to |-> book[req[b].choice].user]
      BY <1>3, <2>1, AnswerOf DEF ReadAddress
    <3>2. book[req[b].choice].user = req[b].user
      BY <2>1 DEF FindAddress, Addresses
    <3> QED
      BY <3>1, <3>2 DEF OwnAddress, At
  <2>2. CASE ~FindAddress(req[b].user, req[b].choice)
    BY <1>1, <1>3, <2>2, AnswerOf DEF ReadAddress, Idle
  <2> QED
    BY <2>1, <2>2
<1>4. CASE Visit(b)
  <2>1. ASSUME NEW r, Answer(b, r), r.at # "placing"
        PROVE  OwnAddress(b)'
    BY <1>1, <2>1, AnswerOf
  <2>2. ASSUME NEW c \in Tries[b], Register(b, c[1], c[2]) \/ SignIn(b, c[1], c[2])
        PROVE  OwnAddress(b)'
    BY <2>1, <2>2 DEF Register, SignIn
  <2>3. CASE SignOut(b) \/ OpenPage(b)
    BY <1>1, <2>3 DEF SignOut, OpenPage
  <2>4. CASE AskAdd(b)
    BY <2>1, <2>4 DEF AskAdd, Ask
  <2>5. ASSUME NEW id \in drawn[b], AskRemove(b, id) \/ AskDefault(b, id)
        PROVE  OwnAddress(b)'
    BY <2>1, <2>5 DEF AskRemove, AskDefault, Ask
  <2>6. ASSUME NEW choice \in drawn[b] \cup {SomeText, TextToKeep}, Submit(b, choice)
        PROVE  OwnAddress(b)'
    BY <2>1, <2>6 DEF Submit, Ask
  <2> QED
    BY <1>4, <2>2, <2>3, <2>4, <2>5, <2>6 DEF Visit
<1>5. CASE Fault(b) \/ Expire(b)
  BY <1>1, <1>5, AnswerOf DEF Fault, Expire, Idle
<1>6. CASE InsertUser(b) \/ AttachCart(b) \/ AddAddress(b) \/ RemoveAddress(b) \/ SetDefault(b) \/ MakeDefault(b) \/ PlaceOrder(b)
  <2>1. \E r : Answer(b, r) /\ r.at # "placing"
    BY <1>6 DEF InsertUser, AttachCart, AddAddress, RemoveAddress, SetDefault, MakeDefault, PlaceOrder, Idle
  <2> QED
    BY <1>1, <2>1, AnswerOf
<1>7. CASE SelectId(b) \/ OpenSession(b) \/ CreateCart(b) \/ ClearDefault(b)
  <2>1. \E stage : stage # "placing" /\ Answer(b, [req[b] EXCEPT !.at = stage])
    BY <1>7 DEF SelectId, OpenSession, CreateCart, ClearDefault
  <2>2. \/ req[b] \in [at : {"selecting", "opening", "creating"}, user : DOMAIN account]
        \/ req[b] \in [at : {"clearing"}, user : DOMAIN account, id : 1 .. saved]
    BY <1>7 DEF SelectId, OpenSession, CreateCart, ClearDefault, At, Requests, IsRequest, Idle
  <2>3. \A stage : [req[b] EXCEPT !.at = stage].at = stage
    BY <2>2
  <2> QED
    BY <1>1, <2>1, <2>3, AnswerOf
<1> QED
  BY <1>2, <1>3, <1>4, <1>5, <1>6, <1>7 DEF Step, Progress

\* An order goes to an address of who pays, or to the text of the form.
THEOREM OwnBookOnly == Spec => []OrdersFromOwnBook
<1> DEFINE All == \A b \in Browser : OwnAddress(b)
<1>1. Init => All
  BY DEF Init, OwnAddress, At, Idle
<1>2. (TablesOK /\ Requests) /\ All /\ [Next]_vars => All'
  <2> SUFFICES ASSUME TablesOK, Requests, All, [Next]_vars
               PROVE  All'
    OBVIOUS
  <2>1. CASE UNCHANGED vars
    BY <2>1 DEF OwnAddress, At, vars
  <2>2. ASSUME NEW b \in Browser, Step(b), NEW x \in Browser
        PROVE  OwnAddress(x)'
    <3>1. CASE x = b
      BY <2>2, <3>1, OwnAddressStep
    <3>2. CASE x # b
      BY <2>2, <3>2, OneAnswer DEF OwnAddress, At
    <3> QED
      BY <3>1, <3>2
  <2> QED
    BY <2>1, <2>2 DEF Next, Step
<1>3. All => OrdersFromOwnBook
  BY DEF OwnAddress, OrdersFromOwnBook
<1>4. Spec => [](TablesOK /\ Requests)
  BY TypeCorrect, TypeParts, PTL
<1> QED
  BY <1>1, <1>2, <1>3, <1>4, PTL DEF Spec

\* What a step does to the book, by whom.
LEMMA BookEffect ==
  ASSUME NEW b \in Browser, Step(b)
  PROVE  \/ UNCHANGED book
         \/ (AddAddress(b) \/ TakeText(b)) /\ Insert(req[b].user)
         \/ RemoveAddress(b) \/ SetDefault(b) \/ ClearDefault(b) \/ MakeDefault(b)
<1>1. CASE Visit(b)
  BY <1>1 DEF Visit, Register, SignIn, SignOut, OpenPage, AskAdd, AskRemove, AskDefault, Submit, Ask, tables
<1>2. CASE Progress(b)
  BY <1>2 DEF Progress, InsertUser, SelectId, OpenSession, CreateCart, AttachCart, AddAddress,
              ReadAddress, TakeText, PlaceOrder, tables
<1> QED
  BY <1>1, <1>2 DEF Step, Fault, Expire

\* An address that is not of the user whose request it is stays as it is.
LEMMA OthersStay ==
  ASSUME TablesOK, Requests, NEW b \in Browser, Step(b),
         NEW id \in DOMAIN book, book[id].user # req[b].user
  PROVE  id \in DOMAIN book' /\ book'[id] = book[id]
<1> DEFINE u == req[b].user
<1>1. CASE Insert(u)
  <2>1. id # saved'
    BY <1>1, AccountAssumption DEF Insert, TablesOK
  <2> QED
    BY <1>1, <2>1 DEF Insert
<1>2. CASE RemoveAddress(b)
  BY <1>2 DEF RemoveAddress, Restrict, Addresses
<1>3. book[id] = [user |-> book[id].user, default |-> book[id].default] /\ book[id].default \in BOOLEAN
  BY DEF TablesOK
<1>4. id \in DOMAIN Cleared(u) /\ Cleared(u)[id] = book[id]
  BY <1>3 DEF Cleared
<1>5. ASSUME NEW f, id \in DOMAIN f, f[id] = book[id], NEW i
      PROVE  id \in DOMAIN Marked(f, u, i) /\ Marked(f, u, i)[id] = book[id]
  BY <1>3, <1>5 DEF Marked
<1>6. CASE SetDefault(b)
  BY <1>4, <1>5, <1>6 DEF SetDefault
<1>7. CASE ClearDefault(b)
  BY <1>4, <1>7 DEF ClearDefault
<1>8. CASE MakeDefault(b)
  BY <1>5, <1>8 DEF MakeDefault
<1> QED
  BY <1>1, <1>2, <1>6, <1>7, <1>8, BookEffect

\* Whatever changes the book is answered, so that its request moved.
LEMMA ChangerMoves ==
  ASSUME TablesOK, Requests, NEW b \in Browser, Step(b)
  PROVE  UNCHANGED book \/ req'[b] # req[b]
<1>1. CASE AddAddress(b) \/ RemoveAddress(b) \/ SetDefault(b) \/ MakeDefault(b)
  BY <1>1, AnswerOf DEF AddAddress, RemoveAddress, SetDefault, MakeDefault, At, Idle
<1>2. CASE TakeText(b)
  BY <1>2, AnswerOf DEF TakeText, At
<1>3. CASE ClearDefault(b)
  <2>1. req[b] \in [at : {"clearing"}, user : DOMAIN account, id : 1 .. saved]
    BY <1>3 DEF Requests, IsRequest, Idle, ClearDefault, At
  <2> QED
    BY <1>3, <2>1, AnswerOf DEF ClearDefault
<1> QED
  BY <1>1, <1>2, <1>3, BookEffect

\* A request changes and removes addresses of its own user only.
THEOREM OwnAddressesOnly == Spec => NobodyElsesBook
<1> DEFINE Gone(id) == id \in DOMAIN book' => book'[id] # book[id]
<1>1. ASSUME TablesOK, Requests, [Next]_vars, NEW id \in DOMAIN book, Gone(id)
      PROVE  \E b \in Browser : req[b] # req'[b] /\ req[b].user = book[id].user
  <2>1. PICK b \in Browser : Step(b)
    BY <1>1 DEF Next, Step, vars, tables
  <2>2. req[b].user = book[id].user
    BY <1>1, <2>1, OthersStay
  <2>3. book' # book
    BY <1>1
  <2> QED
    BY <1>1, <2>1, <2>2, <2>3, ChangerMoves
<1>2. Spec => [](TablesOK /\ Requests)
  BY TypeCorrect, TypeParts, PTL
<1>3. (TablesOK /\ Requests) /\ [Next]_vars
        => [\A id \in DOMAIN book : Gone(id) => \E b \in Browser : req[b] # req'[b] /\ req[b].user = book[id].user]_vars
  BY <1>1
<1> QED
  BY <1>2, <1>3, PTL DEF Spec, NobodyElsesBook

----------------------------------------------------------------------------
(* One default.  Between the two statements of a change of default, the     *)
(* book has none, or what was asked for is not in it any more; and no other *)
(* change is in flight that could fill it, unless two have overlapped.      *)

Single(u) == \A i, j \in Defaults(u) : i = j

Between(b) == req[b].at \in {"clearing", "defaulting"}

Alone == \A x, y \in Browser : Between(x) /\ Between(y) /\ req[x].user = req[y].user => x = y

Vacant(x) ==
  At(x, "defaulting") =>
    /\ host = "edge"
    /\ ~overlapped => \A u \in {req[x].user} : Defaults(u) = {} \/ req[x].id \notin Addresses(u)

Defaulted ==
  /\ \A x \in Browser : Vacant(x)
  /\ ~overlapped => Alone
  /\ host = "native" \/ ~overlapped => \A u \in Email : Single(u)

\* Who is between the two statements after a step was so before it, for the
\* same user; or has just asked, and found nobody there.
LEMMA BetweenStep ==
  ASSUME TablesOK, Requests, NEW b \in Browser, Step(b), Between(b)'
  PROVE  \/ UNCHANGED <<req, overlapped>>
         \/ /\ ClearDefault(b) /\ UNCHANGED overlapped
            /\ req'[b].user = req[b].user /\ req'[b].id = req[b].id /\ req'[b].at = "defaulting"
         \/ /\ req'[b].at = "clearing" /\ UNCHANGED book
            /\ overlapped' = (overlapped \/ Defaulting(req'[b].user) # {})
<1>1. ASSUME NEW r, Answer(b, r), r.at \notin {"clearing", "defaulting"}
      PROVE  FALSE
  BY <1>1, AnswerOf DEF Between
<1>2. CASE Visit(b)
  <2>1. ASSUME NEW c \in Tries[b], Register(b, c[1], c[2]) \/ SignIn(b, c[1], c[2])
        PROVE  FALSE
    BY <1>1, <2>1 DEF Register, SignIn
  <2>2. CASE SignOut(b) \/ OpenPage(b)
    BY <2>2 DEF SignOut, OpenPage
  <2>3. CASE AskAdd(b)
    BY <1>1, <2>3 DEF AskAdd, Ask
  <2>4. ASSUME NEW id \in drawn[b], AskRemove(b, id)
        PROVE  FALSE
    BY <1>1, <2>4 DEF AskRemove, Ask
  <2>5. ASSUME NEW id \in drawn[b], AskDefault(b, id)
        PROVE  /\ req'[b].at = "clearing" /\ UNCHANGED book
               /\ overlapped' = (overlapped \/ Defaulting(req'[b].user) # {})
    <3>1. req'[b] = [at |-> "clearing", user |-> session[b], id |-> id] /\ UNCHANGED book
      BY <2>5, AnswerOf DEF AskDefault, Ask, tables
    <3>2. req'[b].at = "clearing" /\ req'[b].user = session[b]
      BY <3>1
    <3> QED
      BY <2>5, <3>1, <3>2 DEF AskDefault
  <2>6. ASSUME NEW choice \in drawn[b] \cup {SomeText, TextToKeep}, Submit(b, choice)
        PROVE  FALSE
    BY <1>1, <2>6 DEF Submit, Ask
  <2> QED
    BY <1>2, <2>1, <2>2, <2>3, <2>4, <2>5, <2>6 DEF Visit
<1>3. CASE ClearDefault(b)
  <2>1. req[b] \in [at : {"clearing"}, user : DOMAIN account, id : 1 .. saved]
    BY <1>3 DEF Requests, IsRequest, Idle, ClearDefault, At
  <2>2. req'[b] = [req[b] EXCEPT !.at = "defaulting"] /\ UNCHANGED overlapped
    BY <1>3, AnswerOf DEF ClearDefault
  <2>3. req'[b].user = req[b].user /\ req'[b].id = req[b].id /\ req'[b].at = "defaulting"
    BY <2>1, <2>2
  <2> QED
    BY <1>3, <2>2, <2>3
<1>4. CASE Fault(b) \/ Expire(b)
  BY <1>1, <1>4 DEF Fault, Expire, Idle
<1>5. CASE AttachCart(b) \/ AddAddress(b) \/ RemoveAddress(b) \/ SetDefault(b) \/ MakeDefault(b) \/ TakeText(b) \/ PlaceOrder(b)
  BY <1>1, <1>5 DEF AttachCart, AddAddress, RemoveAddress, SetDefault, MakeDefault, TakeText, PlaceOrder, Idle
<1>6. CASE InsertUser(b)
  <2>1. PICK r : Answer(b, r) /\ r.at \notin {"clearing", "defaulting"}
    BY <1>6 DEF InsertUser, Idle
  <2> QED
    BY <1>1, <2>1
<1>7. CASE ReadAddress(b)
  <2>1. PICK r : Answer(b, r) /\ r.at \notin {"clearing", "defaulting"}
    BY <1>7 DEF ReadAddress, Idle
  <2> QED
    BY <1>1, <2>1
<1>8. CASE SelectId(b) \/ OpenSession(b) \/ CreateCart(b)
  <2>1. PICK stage : stage \notin {"clearing", "defaulting"} /\ Answer(b, [req[b] EXCEPT !.at = stage])
    BY <1>8 DEF SelectId, OpenSession, CreateCart
  <2>2. req[b] \in [at : {"selecting", "opening", "creating"}, user : DOMAIN account]
    BY <1>8 DEF SelectId, OpenSession, CreateCart, At, Requests, IsRequest, Idle
  <2>3. [req[b] EXCEPT !.at = stage].at = stage
    BY <2>2
  <2> QED
    BY <1>1, <2>1, <2>3
<1> QED
  BY <1>2, <1>3, <1>4, <1>5, <1>6, <1>7, <1>8 DEF Step, Progress

\* History is not forgotten.
LEMMA OverlapStays ==
  ASSUME TablesOK, Requests, NEW b \in Browser, Step(b)
  PROVE  host' = host /\ (~overlapped' => ~overlapped)
<1>1. CASE Visit(b)
  <2>1. ASSUME NEW id \in drawn[b], AskDefault(b, id)
        PROVE  host' = host /\ (~overlapped' => ~overlapped)
    BY <2>1 DEF AskDefault, Ask
  <2>2. ASSUME NEW c \in Tries[b], Register(b, c[1], c[2]) \/ SignIn(b, c[1], c[2])
        PROVE  UNCHANGED <<host, overlapped>>
    BY <2>2 DEF Register, SignIn
  <2>3. CASE SignOut(b) \/ OpenPage(b) \/ AskAdd(b)
    BY <2>3 DEF SignOut, OpenPage, AskAdd, Ask
  <2>4. ASSUME NEW id \in drawn[b], AskRemove(b, id)
        PROVE  UNCHANGED <<host, overlapped>>
    BY <2>4 DEF AskRemove, Ask
  <2>5. ASSUME NEW choice \in drawn[b] \cup {SomeText, TextToKeep}, Submit(b, choice)
        PROVE  UNCHANGED <<host, overlapped>>
    BY <2>5 DEF Submit, Ask
  <2> QED
    BY <1>1, <2>1, <2>2, <2>3, <2>4, <2>5 DEF Visit
<1>2. CASE Progress(b)
  BY <1>2 DEF Progress, InsertUser, SelectId, OpenSession, CreateCart, AttachCart, AddAddress, RemoveAddress,
              SetDefault, ClearDefault, MakeDefault, ReadAddress, TakeText, PlaceOrder
<1> QED
  BY <1>1, <1>2 DEF Step, Fault, Expire

\* A second change of one book raises the flag, so one is alone while the flag
\* is down.
LEMMA AloneStep ==
  ASSUME TablesOK, Requests, NEW b \in Browser, Step(b), Alone, ~overlapped'
  PROVE  Alone'
<1> SUFFICES ASSUME NEW x \in Browser, NEW y \in Browser, Between(x)', Between(y)',
                    req'[x].user = req'[y].user, x # y
             PROVE  FALSE
  BY DEF Alone
<1>1. \A z \in Browser \ {b} : req'[z] = req[z]
  BY OneAnswer
<1>2. ASSUME NEW z \in Browser, z # b, Between(b)', Between(z)', req'[b].user = req'[z].user
      PROVE  FALSE
  <2>1. Between(z) /\ req[z].user = req'[b].user
    BY <1>1, <1>2 DEF Between
  <2>2. z \in Defaulting(req'[b].user)
    BY <2>1 DEF Defaulting, Between
  <2>3. ~(overlapped' = (overlapped \/ Defaulting(req'[b].user) # {}))
    BY <2>2
  <2>4. Between(b) /\ req'[b].user = req[b].user
    BY <1>2, <2>3, BetweenStep DEF Between, ClearDefault, At
  <2> QED
    BY <1>2, <2>1, <2>4 DEF Alone
<1>3. CASE x = b
  BY <1>2, <1>3
<1>4. CASE y = b
  BY <1>2, <1>4
<1>5. CASE x # b /\ y # b
  BY <1>1, <1>5 DEF Alone, Between
<1> QED
  BY <1>3, <1>4, <1>5

\* The book of another user, and every book when none is changed.
LEMMA OtherBooks ==
  ASSUME TablesOK, Requests, NEW b \in Browser, Step(b),
         NEW u, UNCHANGED book \/ u # req[b].user
  PROVE  Addresses(u)' = Addresses(u) /\ Defaults(u)' = Defaults(u)
<1> DEFINE w == req[b].user
<1>1. CASE UNCHANGED book
  BY <1>1 DEF Addresses, Defaults
<1>2. CASE u # w
  <2>1. \A id \in Addresses(u) : id \in DOMAIN book' /\ book'[id] = book[id]
    BY <1>2, OthersStay DEF Addresses
  <2>2. \A id \in DOMAIN book' :
          \/ id \in DOMAIN book /\ book'[id].user = book[id].user
          \/ book'[id].user = w
    <3>1. CASE Insert(w)
      BY <3>1 DEF Insert
    <3>2. CASE RemoveAddress(b)
      BY <3>2 DEF RemoveAddress, Restrict
    <3>3. CASE SetDefault(b) \/ ClearDefault(b) \/ MakeDefault(b)
      BY <3>3 DEF SetDefault, ClearDefault, MakeDefault, Cleared, Marked
    <3> QED
      BY <3>1, <3>2, <3>3, BookEffect
  <2>3. Addresses(u)' = Addresses(u)
    BY <1>2, <2>1, <2>2 DEF Addresses
  <2> QED
    BY <2>1, <2>3 DEF Defaults
<1> QED
  BY <1>1, <1>2

\* The book of the user whose request changes it.
LEMMA OwnBook ==
  ASSUME TablesOK, Requests, NEW b \in Browser, Step(b), NEW u, u = req[b].user
  PROVE  \/ UNCHANGED book
         \/ /\ Addresses(u)' = Addresses(u) \cup {saved + 1}
            /\ Defaults(u)' = IF Addresses(u) = {} THEN {saved + 1} ELSE Defaults(u)
         \/ Addresses(u)' \subseteq Addresses(u) /\ Defaults(u)' \subseteq Defaults(u)
         \/ SetDefault(b) /\ Defaults(u)' \subseteq {req[b].id}
         \/ ClearDefault(b) /\ Defaults(u)' = {}
         \/ /\ MakeDefault(b) /\ Addresses(u)' = Addresses(u)
            /\ Defaults(u)' \subseteq Defaults(u) \cup ({req[b].id} \cap Addresses(u))
<1>1. CASE Insert(u)
  <2>1. saved' = saved + 1 /\ saved' \notin DOMAIN book
    BY <1>1, AccountAssumption DEF Insert, TablesOK
  <2>2. DOMAIN book' = DOMAIN book \cup {saved'} /\ \A id \in DOMAIN book : book'[id] = book[id]
    BY <1>1, <2>1 DEF Insert
  <2>3. book'[saved'] = [user |-> u, default |-> Addresses(u) = {}]
    BY <1>1 DEF Insert
  <2>4. Addresses(u)' = Addresses(u) \cup {saved + 1}
    BY <2>1, <2>2, <2>3 DEF Addresses
  <2>5. CASE Addresses(u) = {}
    <3>1. book'[saved'].default
      <4>1. book'[saved'].default = (Addresses(u) = {})
        BY <2>3
      <4> QED
        BY <4>1, <2>5, Zenon
    <3>2. Addresses(u)' = {saved + 1}
      BY <2>4, <2>5
    <3>3. Defaults(u)' = {saved + 1}
      BY <2>1, <3>1, <3>2 DEF Defaults
    <3> QED
      BY <2>4, <2>5, <3>3
  <2>6. CASE Addresses(u) # {}
    <3>1. ~book'[saved'].default
      <4>1. book'[saved'].default = (Addresses(u) = {})
        BY <2>3
      <4> QED
        BY <4>1, <2>6, Zenon
    <3>2. \A id \in Addresses(u) : id # saved' /\ book'[id] = book[id]
      BY <2>1, <2>2 DEF Addresses
    <3>3. Defaults(u)' = Defaults(u)
      BY <2>1, <2>4, <3>1, <3>2 DEF Defaults
    <3> QED
      BY <2>4, <2>6, <3>3
  <2> QED
    BY <2>5, <2>6
<1>2. CASE RemoveAddress(b)
  BY <1>2 DEF RemoveAddress, Restrict, Addresses, Defaults
<1>3. ASSUME NEW f, NEW id
      PROVE  /\ DOMAIN Marked(f, u, id) = DOMAIN f
             /\ \A i \in DOMAIN f : /\ Marked(f, u, id)[i].user = f[i].user
                                    /\ Marked(f, u, id)[i].default => f[i].default \/ (f[i].user = u /\ i = id)
  BY DEF Marked
<1>4. /\ DOMAIN Cleared(u) = DOMAIN book
      /\ \A i \in DOMAIN book : /\ Cleared(u)[i].user = book[i].user
                                /\ Cleared(u)[i].default => book[i].user # u
  BY DEF Cleared
<1>5. CASE SetDefault(b)
  <2>1. book' = Marked(Cleared(u), u, req[b].id)
    BY <1>5 DEF SetDefault
  <2>2. \A i \in DOMAIN book' : book'[i].default => book'[i].user # u \/ i = req[b].id
    BY <1>3, <1>4, <2>1
  <2>3. Defaults(u)' \subseteq {req[b].id}
    BY <2>2 DEF Defaults, Addresses
  <2> QED
    BY <1>5, <2>3
<1>6. CASE ClearDefault(b)
  <2>1. book' = Cleared(u)
    BY <1>6 DEF ClearDefault
  <2>2. Defaults(u)' = {}
    BY <1>4, <2>1 DEF Defaults, Addresses
  <2> QED
    BY <1>6, <2>2
<1>7. CASE MakeDefault(b)
  <2>1. book' = Marked(book, u, req[b].id)
    BY <1>7 DEF MakeDefault
  <2>2. Addresses(u)' = Addresses(u)
    BY <1>3, <2>1 DEF Addresses
  <2>3. Defaults(u)' \subseteq Defaults(u) \cup ({req[b].id} \cap Addresses(u))
    BY <1>3, <2>1, <2>2 DEF Defaults, Addresses
  <2> QED
    BY <1>7, <2>2, <2>3
<1> QED
  BY <1>1, <1>2, <1>5, <1>6, <1>7, BookEffect

\* No change of default is caught by another between its statements.
LEMMA VacantStep ==
  ASSUME TablesOK, Requests, NEW b \in Browser, Step(b), ~overlapped => Alone,
         NEW x \in Browser, Vacant(x)
  PROVE  Vacant(x)'
<1> SUFFICES ASSUME At(x, "defaulting")'
             PROVE  /\ host = "edge"
                    /\ ~overlapped' => \A u \in {req'[x].user} : Defaults(u)' = {} \/ req'[x].id \notin Addresses(u)'
  BY OverlapStays DEF Vacant
<1>1. CASE ClearDefault(b) /\ x = b
  <2>1. req'[b].user = req[b].user
    BY <1>1, BetweenStep DEF Between, At
  <2>2. ASSUME NEW u, u = req[b].user
        PROVE  Defaults(u)' = {}
    BY <1>1, <2>2 DEF ClearDefault, Cleared, Defaults, Addresses
  <2> QED
    BY <1>1, <2>1, <2>2 DEF ClearDefault
<1>2. CASE ~(ClearDefault(b) /\ x = b)
  <2>1. req'[x] = req[x] /\ (x = b => UNCHANGED book)
    <3>1. CASE x # b
      BY <3>1, OneAnswer
    <3>2. CASE x = b
      <4>1. UNCHANGED req
        BY <1>2, <3>2, BetweenStep DEF Between, At
      <4> QED
        BY <4>1, ChangerMoves
    <3> QED
      BY <3>1, <3>2
  <2>2. At(x, "defaulting")
    BY <2>1 DEF At
  <2>3. host = "edge"
    BY <2>2 DEF Vacant
  <2> DEFINE i == req[x].id
  <2> SUFFICES ASSUME ~overlapped', NEW u, u = req[x].user
               PROVE  Defaults(u)' = {} \/ i \notin Addresses(u)'
    BY <2>1, <2>3
  <2>4. u = req[x].user
    OBVIOUS
  <2>5. ~overlapped /\ Alone /\ (Defaults(u) = {} \/ i \notin Addresses(u))
    BY <2>2, <2>4, OverlapStays DEF Vacant
  <2>6. i \in 1 .. saved /\ saved \in Nat
    BY <2>2, RequestFields, AccountAssumption DEF At, TablesOK
  <2>7. CASE UNCHANGED book \/ u # req[b].user
    BY <2>5, <2>7, OtherBooks
  <2>8. CASE x # b /\ u = req[b].user
    <3>1. ~Between(b)
      BY <2>2, <2>4, <2>5, <2>8 DEF Alone, Between, At
    <3>2. ~SetDefault(b) /\ ~ClearDefault(b) /\ ~MakeDefault(b)
      BY <3>1 DEF SetDefault, ClearDefault, MakeDefault, Between, At
    <3>3. \/ UNCHANGED book
          \/ /\ Addresses(u)' = Addresses(u) \cup {saved + 1}
             /\ Defaults(u)' = IF Addresses(u) = {} THEN {saved + 1} ELSE Defaults(u)
          \/ Addresses(u)' \subseteq Addresses(u) /\ Defaults(u)' \subseteq Defaults(u)
      BY <2>8, <3>2, OwnBook
    <3>4. i # saved + 1
      BY <2>6
    <3> QED
      BY <2>5, <2>7, <3>3, <3>4
  <2> QED
    BY <2>1, <2>7, <2>8
<1> QED
  BY <1>1, <1>2

\* No step gives a book a second default.
LEMMA SingleStep ==
  ASSUME TablesOK, Requests, NEW b \in Browser, Step(b), Vacant(b),
         NEW u, Single(u), host = "native" \/ ~overlapped
  PROVE  Single(u)'
<1>1. CASE UNCHANGED book \/ u # req[b].user
  BY <1>1, OtherBooks DEF Single
<1>2. CASE u = req[b].user
  <2>1. CASE MakeDefault(b)
    <3>1. At(b, "defaulting") /\ host # "native"
      BY <2>1 DEF MakeDefault, Vacant
    <3>2. Defaults(u) = {} \/ req[b].id \notin Addresses(u)
      BY <1>2, <3>1 DEF Vacant
    <3>3. Defaults(u)' \subseteq Defaults(u) \cup ({req[b].id} \cap Addresses(u))
      BY <1>2, <2>1 DEF MakeDefault, Marked, Addresses, Defaults
    <3> QED
      BY <3>2, <3>3 DEF Single
  <2>2. CASE ~MakeDefault(b)
    BY <1>1, <1>2, <2>2, OwnBook DEF Single
  <2> QED
    BY <2>1, <2>2
<1> QED
  BY <1>1, <1>2

\* Every step keeps what is known of a book's defaults.
LEMMA DefaultedStep ==
  ASSUME TablesOK, Requests, Defaulted, [Next]_vars
  PROVE  Defaulted'
<1>1. CASE UNCHANGED vars
  BY <1>1 DEF Defaulted, Vacant, Alone, Between, Single, Defaults, Addresses, At, vars, tables
<1>2. ASSUME NEW b \in Browser, Step(b)
      PROVE  Defaulted'
  <2>1. host' = host /\ (~overlapped' => ~overlapped)
    BY <1>2, OverlapStays
  <2>2. \A x \in Browser : Vacant(x)'
    BY <1>2, VacantStep DEF Defaulted
  <2>3. ~overlapped' => Alone'
    BY <1>2, <2>1, AloneStep DEF Defaulted
  <2>4. ASSUME host' = "native" \/ ~overlapped', NEW u \in Email
        PROVE  Single(u)'
    BY <1>2, <2>1, <2>4, SingleStep DEF Defaulted
  <2> QED
    BY <2>2, <2>3, <2>4 DEF Defaulted
<1> QED
  BY <1>1, <1>2 DEF Next, Step

\* No book has two defaults: never on the native host, and at the edge, where
\* a Worker may die between the two statements, unless two changes of one
\* book's default were in flight at once.
THEOREM OneDefaultOnly == Spec => []OneDefault
<1>1. Init => Defaulted
  BY DEF Init, Defaulted, Vacant, Alone, Between, Single, Defaults, Addresses, At, Idle
<1>2. Defaulted => OneDefault
  <2>1. ASSUME NEW u, Single(u)
        PROVE  Cardinality(Defaults(u)) <= 1
    <3>1. CASE Defaults(u) = {}
      BY <3>1, FS_EmptySet
    <3>2. ASSUME NEW i \in Defaults(u)
          PROVE  Cardinality(Defaults(u)) <= 1
      <4>1. Defaults(u) = {i}
        BY <2>1, <3>2 DEF Single
      <4> QED
        BY <4>1, FS_Singleton
    <3> QED
      BY <3>1, <3>2
  <2> QED
    BY <2>1 DEF Defaulted, OneDefault
<1>3. (TablesOK /\ Requests) /\ Defaulted /\ [Next]_vars => Defaulted'
  BY DefaultedStep
<1>4. Spec => [](TablesOK /\ Requests)
  BY TypeCorrect, TypeParts, PTL
<1> QED
  BY <1>1, <1>2, <1>3, <1>4, PTL DEF Spec
=============================================================================

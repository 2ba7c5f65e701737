------------------------------ MODULE Account ------------------------------
(***************************************************************************)
(* Accounts, sessions and the address book: src/app/account.rs, the        *)
(* checkout's form in src/app/cart.rs, and the statements they send.  Both *)
(* hosts send the same ones; the edge needs two where the native host has  *)
(* one statement or one transaction: reading back the id of a new account, *)
(* attaching a cart, changing the default address.                         *)
(*                                                                         *)
(* A browser holds one session cookie and has one request in flight.  Its  *)
(* visitor knows some passwords, and two visitors may share one.  It may   *)
(* still show a page that was drawn for whoever was signed in then, and    *)
(* post what that page offers.  A user is an email, as the column is       *)
(* unique; the text of a saved address is whose book it is from.  Whether  *)
(* an order finds its units is the affair of the checkout modules; here it *)
(* may or may not.  Nothing reads carts.user_id: attaching a cart is a     *)
(* step that may fail, no more.                                            *)
(***************************************************************************)
EXTENDS Integers, FiniteSets, Functions

CONSTANTS Hosts,                     \* of "native" and "edge", those to check
          Browser,
          Password,
          Email,                     \* emails, trimmed and in lowercase
          Typed, Normal,             \* emails as they are typed, and what they mean
          Tries,                     \* the emails and passwords each visitor types
          Own,                       \* and the pair they want an account with
          MaxAddresses               \* bound

ASSUME AccountAssumption ==
  /\ Hosts \subseteq {"native", "edge"}
  /\ Normal \in [Typed -> Email]
  /\ \A b \in Browser : Tries[b] \subseteq Typed \X Password /\ Own[b] \in Tries[b]
  /\ MaxAddresses \in Nat

VARIABLES
  host,
  account,    \* users: the password that was hashed, by email
  session,    \* sessions: the user of the token each browser carries, if any
  book,       \* addresses: whose each is, and whether it is the default
  saved,      \* the last id the table gave out
  drawn,      \* the addresses each browser's pages have shown
  req,        \* the request each browser has in flight
  overlapped  \* history: two requests were changing one default at once

tables == <<account, session, book, saved>>
vars == <<host, tables, drawn, req, overlapped>>

Nobody == "nobody"
SomeText == 0            \* no saved address, but the text of the form,
TextToKeep == -1         \* and the box ticked to save it

Idle == [at |-> "idle"]

Answer(b, r) == req' = [req EXCEPT ![b] = r]

At(b, stage) == req[b].at = stage

Init ==
  /\ host \in Hosts
  /\ account = <<>> /\ book = <<>>
  /\ session = [b \in Browser |-> Nobody]
  /\ saved = 0 /\ overlapped = FALSE
  /\ drawn = [b \in Browser |-> {}]
  /\ req = [b \in Browser |-> Idle]

----------------------------------------------------------------------------
(* What the handlers look up.                                              *)

EmailTaken(typed) == Normal[typed] \in DOMAIN account

\* Mutation: the email is looked up as it was typed.
VerifyAsTyped(typed, password) == typed \in DOMAIN account /\ account[typed] = password

Verify(typed, password) ==
  EmailTaken(typed) /\ account[Normal[typed]] = password

\* current_user: an unknown or expired token is nobody.
SignedIn(b) == session[b] # Nobody

Addresses(u) == {id \in DOMAIN book : book[id].user = u}

Defaults(u) == {id \in Addresses(u) : book[id].default}

----------------------------------------------------------------------------
(* Registering, signing in and out.                                        *)

\* Mutation: the row keeps the email as it was typed.
RegisterAsTyped(b, typed, password) ==
  /\ req[b] = Idle
  /\ ~EmailTaken(typed)
  /\ Answer(b, [at |-> "registering", user |-> typed, password |-> password])
  /\ UNCHANGED <<host, tables, drawn, overlapped>>

\* A password that is too short or an email that is taken is refused in place;
\* the email may be taken after it was looked up.
Register(b, typed, password) ==
  /\ req[b] = Idle
  /\ ~EmailTaken(typed)
  /\ Answer(b, [at |-> "registering", user |-> Normal[typed], password |-> password])
  /\ UNCHANGED <<host, tables, drawn, overlapped>>

\* Mutation: an upsert in the place of the insert.
InsertOrReplaceUser(b) ==
  /\ At(b, "registering")
  /\ LET u == req[b].user
     IN  /\ account' = [e \in DOMAIN account \cup {u} |->
                          IF e = u THEN req[b].password ELSE account[e]]
         /\ Answer(b, [at |-> "opening", user |-> u])
  /\ UNCHANGED <<host, session, book, saved, drawn, overlapped>>

\* The unique column refuses a second row: the request ends in an error.  The
\* edge reads the id of the row in a second statement.
InsertUser(b) ==
  /\ At(b, "registering")
  /\ LET u == req[b].user
     IN  \/ /\ u \in DOMAIN account
            /\ Answer(b, Idle)
            /\ UNCHANGED account
         \/ /\ u \notin DOMAIN account
            /\ account' = [e \in DOMAIN account \cup {u} |->
                             IF e = u THEN req[b].password ELSE account[e]]
            /\ Answer(b, [at |-> IF host = "edge" THEN "selecting" ELSE "opening", user |-> u])
  /\ UNCHANGED <<host, session, book, saved, drawn, overlapped>>

SelectId(b) ==
  /\ At(b, "selecting")
  /\ Answer(b, [req[b] EXCEPT !.at = "opening"])
  /\ UNCHANGED <<host, tables, drawn, overlapped>>

SignIn(b, typed, password) ==
  /\ req[b] = Idle
  /\ Verify(typed, password)
  /\ Answer(b, [at |-> "opening", user |-> Normal[typed]])
  /\ UNCHANGED <<host, tables, drawn, overlapped>>

\* start_session: the row of a fresh token, which nobody carries yet, and then
\* the cart.
OpenSession(b) ==
  /\ At(b, "opening")
  /\ Answer(b, [req[b] EXCEPT !.at = IF host = "edge" THEN "creating" ELSE "attaching"])
  /\ UNCHANGED <<host, tables, drawn, overlapped>>

CreateCart(b) ==
  /\ At(b, "creating")
  /\ Answer(b, [req[b] EXCEPT !.at = "attaching"])
  /\ UNCHANGED <<host, tables, drawn, overlapped>>

\* The answer brings the cookie; the row of the token it replaces is left to
\* expire.
Carry(b) ==
  session' = [session EXCEPT ![b] = req[b].user]

\* attach_cart's update.
AttachCart(b) ==
  /\ At(b, "attaching")
  /\ Carry(b)
  /\ Answer(b, Idle)
  /\ UNCHANGED <<host, account, book, saved, drawn, overlapped>>

\* The visitor signs out, or the record passes its date, which is no session
\* either.
SignOut(b) ==
  /\ req[b] = Idle /\ SignedIn(b)
  /\ session' = [session EXCEPT ![b] = Nobody]
  /\ UNCHANGED <<host, account, book, saved, drawn, req, overlapped>>

Expire(b) ==
  /\ SignedIn(b)
  /\ session' = [session EXCEPT ![b] = Nobody]
  /\ UNCHANGED <<host, account, book, saved, drawn, req, overlapped>>

----------------------------------------------------------------------------
(* The address book.                                                       *)

\* The account page, with a button to remove each address and one to make it
\* the default; the checkout, with a choice among the addresses.  What a page
\* offered may be posted at any time, whoever is signed in by then.
OpenPage(b) ==
  /\ req[b] = Idle /\ SignedIn(b)
  /\ drawn' = [drawn EXCEPT ![b] = @ \cup Addresses(session[b])]
  /\ UNCHANGED <<host, tables, req, overlapped>>

Ask(b, r) ==
  /\ req[b] = Idle
  /\ SignedIn(b)
  /\ Answer(b, r)
  /\ UNCHANGED <<host, tables, drawn>>

AskAdd(b) == Ask(b, [at |-> "adding", user |-> session[b]]) /\ UNCHANGED overlapped

AskRemove(b, id) ==
  /\ id \in drawn[b]
  /\ Ask(b, [at |-> "removing", user |-> session[b], id |-> id])
  /\ UNCHANGED overlapped

\* Who is between the two statements of set_default_address, or before them.
Defaulting(u) == {b \in Browser : req[b].at \in {"clearing", "defaulting"} /\ req[b].user = u}

AskDefault(b, id) ==
  /\ id \in drawn[b]
  /\ Ask(b, [at |-> "clearing", user |-> session[b], id |-> id])
  /\ overlapped' = (overlapped \/ Defaulting(session[b]) # {})

\* The first address of a book is its default, decided in the insert.
Insert(u) ==
  /\ saved < MaxAddresses
  /\ saved' = saved + 1
  /\ book' = [id \in DOMAIN book \cup {saved'} |->
                IF id = saved' THEN [user |-> u, default |-> Addresses(u) = {}] ELSE book[id]]

AddAddress(b) ==
  /\ At(b, "adding")
  /\ Insert(req[b].user)
  /\ Answer(b, Idle)
  /\ UNCHANGED <<host, account, session, drawn, overlapped>>

\* Mutation: the id alone says which address goes.
RemoveById(b) ==
  /\ At(b, "removing")
  /\ book' = Restrict(book, DOMAIN book \ {req[b].id})
  /\ Answer(b, Idle)
  /\ UNCHANGED <<host, account, session, saved, drawn, overlapped>>

RemoveAddress(b) ==
  /\ At(b, "removing")
  /\ book' = Restrict(book, DOMAIN book \ ({req[b].id} \cap Addresses(req[b].user)))
  /\ Answer(b, Idle)
  /\ UNCHANGED <<host, account, session, saved, drawn, overlapped>>

\* Mutation: the default stays one.
NothingCleared(u) == book

Cleared(u) ==
  [id \in DOMAIN book |->
     [user |-> book[id].user, default |-> book[id].default /\ book[id].user # u]]

Marked(b, u, id) ==
  [i \in DOMAIN b |->
     [user |-> b[i].user, default |-> b[i].default \/ (b[i].user = u /\ i = id)]]

\* The native host in one transaction.
SetDefault(b) ==
  /\ At(b, "clearing") /\ host = "native"
  /\ book' = Marked(Cleared(req[b].user), req[b].user, req[b].id)
  /\ Answer(b, Idle)
  /\ UNCHANGED <<host, account, session, saved, drawn, overlapped>>

\* The edge in two statements.
ClearDefault(b) ==
  /\ At(b, "clearing") /\ host = "edge"
  /\ book' = Cleared(req[b].user)
  /\ Answer(b, [req[b] EXCEPT !.at = "defaulting"])
  /\ UNCHANGED <<host, account, session, saved, drawn, overlapped>>

MakeDefault(b) ==
  /\ At(b, "defaulting")
  /\ book' = Marked(book, req[b].user, req[b].id)
  /\ Answer(b, Idle)
  /\ UNCHANGED <<host, account, session, saved, drawn, overlapped>>

----------------------------------------------------------------------------
(* The checkout: which address an order goes to.                           *)

\* One of the addresses on the form, or the text below it, to be kept or not.
\* A form without a text is answered with the form again.
Submit(b, choice) ==
  /\ choice \in drawn[b] \cup {SomeText, TextToKeep}
  /\ Ask(b, [at |-> "addressing", user |-> session[b], choice |-> choice])
  /\ UNCHANGED overlapped

\* Mutation: the id alone says whose address it is.
FindById(u, id) == id \in DOMAIN book

FindAddress(u, id) == id \in Addresses(u)

\* The address chosen, if it is still in the book of who submits; else the
\* handler answers that there is nothing here.
ReadAddress(b) ==
  /\ At(b, "addressing") /\ req[b].choice > 0
  /\ Answer(b, IF FindAddress(req[b].user, req[b].choice)
               THEN [at |-> "placing", user |-> req[b].user, ship_to |-> book[req[b].choice].user]
               ELSE Idle)
  /\ UNCHANGED <<host, tables, drawn, overlapped>>

\* The text of the form, saved first when it is to be kept, whatever becomes
\* of the order.
TakeText(b) ==
  /\ At(b, "addressing") /\ req[b].choice <= 0
  /\ Answer(b, [at |-> "placing", user |-> req[b].user, ship_to |-> SomeText])
  /\ \/ req[b].choice = TextToKeep /\ Insert(req[b].user)
     \/ req[b].choice = SomeText /\ UNCHANGED <<book, saved>>
  /\ UNCHANGED <<host, account, session, drawn, overlapped>>

\* Placed or refused: what becomes of the cart is the checkout's affair.
PlaceOrder(b) ==
  /\ At(b, "placing")
  /\ Answer(b, Idle)
  /\ UNCHANGED <<host, tables, drawn, overlapped>>

----------------------------------------------------------------------------
\* A request dies after it has written something: the user, the session (whose
\* cookie may or may not have been sent), half of a change of default.  One that
\* dies earlier was as good as never sent.
Fault(b) ==
  /\ req[b].at \in {"opening", "attaching", "defaulting"}
  /\ UNCHANGED session \/ (At(b, "attaching") /\ Carry(b))
  /\ Answer(b, Idle)
  /\ UNCHANGED <<host, account, book, saved, drawn, overlapped>>

Progress(b) ==
  \/ InsertUser(b) \/ SelectId(b) \/ OpenSession(b) \/ CreateCart(b) \/ AttachCart(b)
  \/ AddAddress(b) \/ RemoveAddress(b) \/ SetDefault(b) \/ ClearDefault(b) \/ MakeDefault(b)
  \/ ReadAddress(b) \/ TakeText(b) \/ PlaceOrder(b)

\* Whoever is not signed in signs in, or registers first.
Knock(b) ==
  /\ ~SignedIn(b)
  /\ Register(b, Own[b][1], Own[b][2]) \/ SignIn(b, Own[b][1], Own[b][2])

Visit(b) ==
  \/ \E c \in Tries[b] : Register(b, c[1], c[2]) \/ SignIn(b, c[1], c[2])
  \/ SignOut(b) \/ OpenPage(b) \/ AskAdd(b)
  \/ \E id \in drawn[b] : AskRemove(b, id) \/ AskDefault(b, id)
  \/ \E choice \in drawn[b] \cup {SomeText, TextToKeep} : Submit(b, choice)

Next ==
  \E b \in Browser : Visit(b) \/ Progress(b) \/ Fault(b) \/ Expire(b)

Spec == Init /\ [][Next]_vars

\* The runtime polls every request that can go on, a visitor without a session
\* keeps knocking, and no statement of a sign-in fails every time it is tried.
Fairness ==
  \A b \in Browser :
    /\ WF_vars(Progress(b)) /\ WF_vars(Knock(b))
    /\ SF_vars(OpenSession(b)) /\ SF_vars(AttachCart(b))

FairSpec == Spec /\ Fairness

----------------------------------------------------------------------------
IsRequest(r) ==
  \/ r = Idle
  \/ r \in [at : {"registering"}, user : Email, password : Password]
  \/ r \in [at : {"selecting", "opening", "creating", "attaching", "adding"}, user : DOMAIN account]
  \/ r \in [at : {"removing", "clearing", "defaulting"}, user : DOMAIN account, id : 1 .. saved]
  \/ r \in [at : {"addressing"}, user : DOMAIN account, choice : TextToKeep .. saved]
  \/ r \in [at : {"placing"}, user : DOMAIN account, ship_to : DOMAIN account \cup {SomeText}]

\* Tables, cookies and requests keep their shape; sessions, addresses and what
\* is asked for them belong to users there are, as the foreign keys want.
TypeOK ==
  /\ host \in Hosts
  /\ DOMAIN account \subseteq Email /\ \A e \in DOMAIN account : account[e] \in Password
  /\ session \in [Browser -> DOMAIN account \cup {Nobody}]
  /\ saved \in 0 .. MaxAddresses /\ DOMAIN book \subseteq 1 .. saved
  /\ \A id \in DOMAIN book : book[id] \in [user : DOMAIN account, default : BOOLEAN]
  /\ req = [b \in Browser |-> req[b]] /\ \A b \in Browser : IsRequest(req[b])
  /\ drawn \in [Browser -> SUBSET (1 .. saved)]

\* A session is earned: whoever holds its token knows the password of the
\* account, however many visitors registered one email at once.
SessionsAreEarned ==
  \A b \in Browser : SignedIn(b) => \E c \in Tries[b] : account[session[b]] = c[2]

\* An order goes to an address of who pays, or to the text of the form; also
\* when the form was drawn for another session of the same browser.
OrdersFromOwnBook ==
  \A b \in Browser : At(b, "placing") => req[b].ship_to \in {req[b].user, SomeText}

\* A request changes and removes addresses of its own user only, whatever ids
\* a page drawn for somebody else makes it carry.
NobodyElsesBook ==
  [][\A id \in DOMAIN book :
       (id \in DOMAIN book' => book'[id] # book[id])
         => \E b \in Browser : req[b] # req'[b] /\ req[b].user = book[id].user]_vars

\* No book has two defaults: never on the native host, and at the edge, where
\* a Worker may die between the two statements, unless two changes of one
\* book's default were in flight at once.
OneDefault ==
  host = "native" \/ ~overlapped => \A e \in Email : Cardinality(Defaults(e)) <= 1

\* Everyone gets in: a visitor who keeps trying, by signing in when the email
\* is taken, has a session in the end, though a request died between any two
\* statements; unless somebody else took the email.
EveryVisitorGetsIn ==
  \A b \in Browser :
    <>(\/ SignedIn(b)
       \/ EmailTaken(Own[b][1]) /\ account[Normal[Own[b][1]]] # Own[b][2])
=============================================================================

------------------------------- MODULE Parcel -------------------------------
(***************************************************************************)
(* What the life of an order promises, whatever backend moves it: it       *)
(* starts paid, and every status it takes is reached from one it had: the  *)
(* next rung of the ladder, or cancelled from the workshop.                *)
(*                                                                         *)
(* Writers may be late, so an order may fall back to a rung it had; it     *)
(* never jumps over one.  reached remembers every status an order had.     *)
(* Orders may be there from the start or arrive, and never leave.          *)
(***************************************************************************)
EXTENDS Rules

VARIABLES status, reached   \* by order id

vars == <<status, reached>>

Order == DOMAIN status

Init ==
  /\ status = [o \in Order |-> "paid"]
  /\ reached = [o \in Order |-> {"paid"}]

Arrive(o) ==
  /\ o \notin Order
  /\ status' = [k \in Order \cup {o} |-> IF k = o THEN "paid" ELSE status[k]]
  /\ reached' = [k \in Order \cup {o} |-> IF k = o THEN {"paid"} ELSE reached[k]]

Move(o, to) ==
  /\ reached[o] \cap CameFrom(to) # {}
  /\ status' = [status EXCEPT ![o] = to]
  /\ reached' = [reached EXCEPT ![o] = @ \cup {to}]

Next ==
  \/ \E o \in DOMAIN status' : Arrive(o)
  \/ \E o \in Order, to \in Statuses : Move(o, to)

Spec == Init /\ [][Next]_vars
=============================================================================

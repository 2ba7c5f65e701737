----------------------------- MODULE Disconnect -----------------------------
(***************************************************************************)
(* How a Worker answers a request whose reader may leave: the end of fetch *)
(* and the module disconnect of src/lib.rs.  The page is a body that is    *)
(* rendered frame by frame as the runtime pulls it.  The runtime fires the *)
(* request's abort signal when the reader leaves, but it does not always   *)
(* let go of the response then: the body that is left has to be dropped by *)
(* the listener, and a pull that waits for it answered all the same.       *)
(*                                                                         *)
(* An isolate has one thread: a poll and the listener never overlap, and   *)
(* each is one step.  The runtime and the body behind the guard are not    *)
(* in src/: Leave, Pull, Render and LetGo are what the code relies on.     *)
(***************************************************************************)
EXTENDS Integers

CONSTANTS Request,
          MaxFrames                    \* bound: the frames of a page

ASSUME DisconnectAssumption == MaxFrames \in Nat

VARIABLES
  aborted,   \* the abort signal of each request: its reader has left
  stage,     \* handling, guarded, over (its end was told) or closed
  body,      \* the frames left in Pending.body, or Gone
  ready,     \* whether the body's next frame, or its end, is there
  waker,     \* whether Pending.waker is set
  pull       \* the runtime's pull: none, due for a poll, or parked

vars == <<aborted, stage, body, ready, waker, pull>>

Gone == -1

Init ==
  /\ aborted = [r \in Request |-> FALSE]
  /\ stage = [r \in Request |-> "handling"]
  /\ body = [r \in Request |-> Gone]
  /\ ready = [r \in Request |-> FALSE]
  /\ waker = [r \in Request |-> FALSE]
  /\ pull = [r \in Request |-> "none"]

----------------------------------------------------------------------------
(* The answer.                                                             *)

\* HEAD, a status that has no body, or a listener that cannot be added.
Empty(r) ==
  /\ stage' = [stage EXCEPT ![r] = "closed"]
  /\ UNCHANGED <<body, ready>>

\* The body behind the guard, the listener on the signal.
Guard(r, frames, atOnce) ==
  /\ stage' = [stage EXCEPT ![r] = "guarded"]
  /\ body' = [body EXCEPT ![r] = frames]
  /\ ready' = [ready EXCEPT ![r] = atOnce]

\* Mutation: the signal may have fired while the router was working.
UntilUnasked(r, frames, atOnce) ==
  IF frames = 0 THEN Empty(r) ELSE Guard(r, frames, atOnce)

\* A reader who has left already gets nothing; a body at its end needs no
\* guard, as nothing is held behind it.
Until(r, frames, atOnce) ==
  IF aborted[r] \/ frames = 0 THEN Empty(r) ELSE Guard(r, frames, atOnce)

\* The router has come back with a response.
Respond(r) ==
  /\ stage[r] = "handling"
  /\ \/ Empty(r)
     \/ \E frames \in 0 .. MaxFrames, atOnce \in BOOLEAN : Until(r, frames, atOnce)
  /\ UNCHANGED <<aborted, waker, pull>>

----------------------------------------------------------------------------
(* The stream.                                                             *)

\* The runtime asks for the next chunk: while it holds the stream, one at a
\* time, and whether or not somebody still reads.
Pull(r) ==
  /\ stage[r] = "guarded" /\ pull[r] = "none"
  /\ pull' = [pull EXCEPT ![r] = "due"]
  /\ UNCHANGED <<aborted, stage, body, ready, waker>>

\* The body has the next frame, or its end: it wakes who polled it last.
Render(r) ==
  /\ body[r] # Gone /\ ~ready[r]
  /\ ready' = [ready EXCEPT ![r] = TRUE]
  /\ pull' = [pull EXCEPT ![r] = IF @ = "parked" THEN "due" ELSE @]
  /\ UNCHANGED <<aborted, stage, body, waker>>

\* poll_frame where the body was taken away: the stream is over.
PollGone(r) ==
  /\ body[r] = Gone
  /\ stage' = [stage EXCEPT ![r] = "over"]
  /\ waker' = [waker EXCEPT ![r] = TRUE]
  /\ pull' = [pull EXCEPT ![r] = "none"]
  /\ UNCHANGED <<body, ready>>

PollPending(r) ==
  /\ body[r] # Gone /\ ~ready[r]
  /\ waker' = [waker EXCEPT ![r] = TRUE]
  /\ pull' = [pull EXCEPT ![r] = "parked"]
  /\ UNCHANGED <<stage, body, ready>>

\* A frame; the next one may be there already.
PollFrame(r) ==
  /\ body[r] > 0 /\ ready[r]
  /\ body' = [body EXCEPT ![r] = @ - 1]
  /\ \E atOnce \in BOOLEAN : ready' = [ready EXCEPT ![r] = atOnce]
  /\ waker' = [waker EXCEPT ![r] = TRUE]
  /\ pull' = [pull EXCEPT ![r] = "none"]
  /\ UNCHANGED stage

\* Mutation: the body that told its end is kept.
PollEndKept(r) ==
  /\ body[r] = 0 /\ ready[r]
  /\ stage' = [stage EXCEPT ![r] = "over"]
  /\ waker' = [waker EXCEPT ![r] = FALSE]
  /\ pull' = [pull EXCEPT ![r] = "none"]
  /\ UNCHANGED <<body, ready>>

\* The end: body and waker go.
PollEnd(r) ==
  /\ body[r] = 0 /\ ready[r]
  /\ stage' = [stage EXCEPT ![r] = "over"]
  /\ body' = [body EXCEPT ![r] = Gone]
  /\ ready' = [ready EXCEPT ![r] = FALSE]
  /\ waker' = [waker EXCEPT ![r] = FALSE]
  /\ pull' = [pull EXCEPT ![r] = "none"]

Poll(r) ==
  /\ stage[r] = "guarded" /\ pull[r] = "due"
  /\ PollGone(r) \/ PollPending(r) \/ PollFrame(r) \/ PollEnd(r)
  /\ UNCHANGED aborted

----------------------------------------------------------------------------
(* The reader leaves.                                                      *)

\* Mutation: the body goes and nobody hears of it.
NobodyWoken(r) == pull

\* A waker that was kept from an answered pull wakes nobody.
Woken(r) == [pull EXCEPT ![r] = IF waker[r] /\ @ = "parked" THEN "due" ELSE @]

\* on_abort: body and waker are taken, the body dropped, the waker called.
OnAbort(r) ==
  /\ body' = [body EXCEPT ![r] = Gone]
  /\ ready' = [ready EXCEPT ![r] = FALSE]
  /\ waker' = [waker EXCEPT ![r] = FALSE]
  /\ pull' = Woken(r)

\* The listener is on the signal from the guard's making to its drop.
Leave(r) ==
  /\ ~aborted[r]
  /\ aborted' = [aborted EXCEPT ![r] = TRUE]
  /\ IF stage[r] \in {"guarded", "over"} THEN OnAbort(r)
                                         ELSE UNCHANGED <<body, ready, waker, pull>>
  /\ UNCHANGED stage

\* The runtime drops the response: it is over, a frame was an error, or the
\* reader has left and the runtime noticed.  The guard's drop takes the body
\* along and the listener off the signal.
LetGo(r) ==
  /\ stage[r] \in {"guarded", "over"}
  /\ stage' = [stage EXCEPT ![r] = "closed"]
  /\ body' = [body EXCEPT ![r] = Gone]
  /\ ready' = [ready EXCEPT ![r] = FALSE]
  /\ waker' = [waker EXCEPT ![r] = FALSE]
  /\ pull' = [pull EXCEPT ![r] = "none"]
  /\ UNCHANGED aborted

Next ==
  \E r \in Request : Respond(r) \/ Pull(r) \/ Render(r) \/ Poll(r) \/ Leave(r) \/ LetGo(r)

Spec == Init /\ [][Next]_vars

\* The executor polls every task that was woken, and a page that is still
\* held goes on rendering.  Nothing makes the runtime pull, or let go.
Fairness == \A r \in Request : WF_vars(Poll(r)) /\ WF_vars(Render(r))

FairSpec == Spec /\ Fairness

----------------------------------------------------------------------------
\* What is held fits the stage: a body only behind a guard; a pull is parked
\* only while a body that has no frame yet is there to wake it, and its waker
\* is kept for the listener.
TypeOK ==
  /\ aborted \in [Request -> BOOLEAN]
  /\ stage \in [Request -> {"handling", "guarded", "over", "closed"}]
  /\ body \in [Request -> Gone .. MaxFrames]
  /\ ready \in [Request -> BOOLEAN]
  /\ waker \in [Request -> BOOLEAN]
  /\ pull \in [Request -> {"none", "due", "parked"}]
  /\ \A r \in Request :
       /\ body[r] # Gone => stage[r] = "guarded"
       /\ ready[r] => body[r] # Gone
       /\ pull[r] # "none" => stage[r] = "guarded"
       /\ pull[r] = "parked" => body[r] # Gone /\ ~ready[r] /\ waker[r]

\* A reader who leaves does not cost the rest of the page: from the abort on
\* no body is kept for them and no frame rendered, whether they left while
\* the router worked, between two frames or while one was waited for.
NothingForTheGone == \A r \in Request : aborted[r] => body[r] = Gone

\* Every pull is answered, by a frame or by the end, though the body it waits
\* for is taken away: nothing hangs on a reader who left.
EveryPullIsAnswered ==
  \A r \in Request : pull[r] # "none" ~> pull[r] = "none"
=============================================================================

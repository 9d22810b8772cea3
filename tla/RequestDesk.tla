----------------------------- MODULE RequestDesk -----------------------------
(***************************************************************************)
(* What the connection to an exchange promises for each request (TradeService*)
(* in broker/trade_service.h, RequestBook in core/requestbook.h).  A request *)
(* is refused, or fails, or goes out; what goes out is answered at most once,*)
(* on the connection it went out on.  A loss takes all requests that wait;   *)
(* a later connection brings no answer to them, and nobody sends them again. *)
(***************************************************************************)
CONSTANT Requests

VARIABLES
  up,     \* there is a connection
  desk    \* desk[r]: what became of the request

vars == <<up, desk>>

Init == up = FALSE /\ desk = [r \in Requests |-> "new"]

Decide(r, d) == desk[r] = "new" /\ desk' = [desk EXCEPT ![r] = d] /\ UNCHANGED up

\* Refused before, or failed in sending.
TurnAway(r) == Decide(r, "refused") \/ Decide(r, "failed")

\* A request may be handed to a connection that is gone already.
Send(r) == (up /\ Decide(r, "waiting")) \/ (~ up /\ Decide(r, "lost"))

\* The answer comes, and its request is found in the book or is not.
Answer(r) ==
  /\ up /\ desk[r] = "waiting"
  /\ \E d \in {"answered", "unmatched"} : desk' = [desk EXCEPT ![r] = d]
  /\ UNCHANGED up

Connect == ~ up /\ up' = TRUE /\ UNCHANGED desk

Lose ==
  /\ up /\ up' = FALSE
  /\ desk' = [r \in Requests |-> IF desk[r] = "waiting" THEN "lost" ELSE desk[r]]

Next ==
  \/ \E r \in Requests : TurnAway(r) \/ Send(r) \/ Answer(r)
  \/ Connect \/ Lose

Spec == Init /\ [][Next]_vars
=============================================================================

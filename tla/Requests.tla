------------------------------- MODULE Requests -------------------------------
(***************************************************************************)
(* What a connection of the server promises its client, seen from the      *)
(* outside: each request is answered once, in any order, at once or after  *)
(* some time; an answer is lost only when the connection is not open, and  *)
(* nothing is sent for a request after its answer.  The process may end.   *)
(***************************************************************************)
CONSTANT Request

VARIABLES
    phase,     \* Request -> "unasked", "asked" or "answered"
    delivered, \* Request -> positions of its answers among what was sent
    open,      \* what is sent reaches the client
    alive      \* the process has not ended

vars == <<phase, delivered, open, alive>>

Init ==
    /\ phase = [r \in Request |-> "unasked"]
    /\ delivered = [r \in Request |-> {}]
    /\ open = TRUE
    /\ alive = TRUE

\* One answer is delivered if the connection is open, none otherwise.  Where
\* it comes among the other messages is left open.
Deliver(r) ==
    /\ phase' = [phase EXCEPT ![r] = "answered"]
    /\ IF open THEN \E i \in delivered'[r] : delivered' = [delivered EXCEPT ![r] = {i}]
               ELSE delivered' = delivered
    /\ UNCHANGED <<open, alive>>

Ask(r) ==
    /\ alive /\ phase[r] = "unasked"
    /\ phase' = [phase EXCEPT ![r] = "asked"]
    /\ UNCHANGED <<delivered, open, alive>>

AskAndAnswer(r) == alive /\ phase[r] = "unasked" /\ Deliver(r)

Answer(r) == alive /\ phase[r] = "asked" /\ Deliver(r)

Disconnect ==
    /\ alive /\ open
    /\ open' = FALSE
    /\ UNCHANGED <<phase, delivered, alive>>

Die ==
    /\ alive
    /\ alive' = FALSE
    /\ UNCHANGED <<phase, delivered, open>>

Next ==
    \/ \E r \in Request : Ask(r) \/ AskAndAnswer(r) \/ Answer(r)
    \/ Disconnect
    \/ Die

Spec == Init /\ [][Next]_vars

=============================================================================

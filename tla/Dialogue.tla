------------------------------- MODULE Dialogue -------------------------------
(***************************************************************************)
(* What the driver and the clients may rely on when the driver asks the    *)
(* user something: one question is open at a time, it is answered once or  *)
(* withdrawn, and an answer never reaches another question than the one    *)
(* that is open.  Inclusion implements it with two slots, shared by all    *)
(* clients, and answers that do not say what they answer.                  *)
(***************************************************************************)
EXTENDS Naturals

VARIABLES
    asked,     \* number of questions so far; the n-th question is n
    open,      \* the question that can be answered, or 0
    waiting,   \* the question the driver waits for, or 0
    answered   \* the questions that have been

vars == <<asked, open, waiting, answered>>

Init == asked = 0 /\ open = 0 /\ waiting = 0 /\ answered = {}

\* The driver asks once its last question has been dealt with.
Ask ==
    /\ open = 0 /\ waiting = 0
    /\ asked' = asked + 1
    /\ open' = asked' /\ waiting' = asked'
    /\ UNCHANGED answered

\* A client answers: the driver goes on, unless it has given up by then.
Answer ==
    /\ open # 0
    /\ answered' = answered \cup {open}
    /\ open' = 0 /\ waiting' = 0
    /\ UNCHANGED asked

\* The driver waits no longer ...
GiveUp ==
    /\ waiting # 0
    /\ waiting' = 0
    /\ UNCHANGED <<asked, open, answered>>

\* ... and takes the question back.
Withdraw ==
    /\ open # 0 /\ waiting = 0
    /\ open' = 0
    /\ UNCHANGED <<asked, waiting, answered>>

Next == Ask \/ Answer \/ GiveUp \/ Withdraw

Spec == Init /\ [][Next]_vars

\* No question stays open for want of an answer.
FairSpec == Spec /\ WF_vars(GiveUp) /\ WF_vars(Withdraw)

=============================================================================

------------------------------ MODULE LogStream ------------------------------
(***************************************************************************)
(* What a client may rely on when it subscribes to the driver's logs: one  *)
(* stream, shared by all the subscribers, that is on whenever somebody     *)
(* listens.  ClientsController implements it with a transport attached to  *)
(* the driver (lib/server.ts, lib/logging.ts).                             *)
(***************************************************************************)
EXTENDS FiniteSets

CONSTANT Client

VARIABLES
    subscribers,  \* the connected clients that have asked for logs
    streaming     \* the server forwards the log entries the driver gives it

vars == <<subscribers, streaming>>

Init == subscribers = {} /\ streaming = FALSE

\* A client subscribes; the stream is on from the same moment.
Subscribe ==
    \E c \in Client :
        /\ subscribers' = subscribers \cup {c}
        /\ streaming' = TRUE

\* A subscription that arrives on a connection that is going away turns the
\* stream on all the same.
LateSubscribe == streaming' = TRUE /\ UNCHANGED subscribers

\* Some clients unsubscribe or go away.  Only when nobody is left may the
\* stream be switched off with it.
Leave ==
    \E gone \in SUBSET subscribers :
        /\ subscribers' = subscribers \ gone
        /\ \/ UNCHANGED streaming
           \/ subscribers' = {} /\ streaming' = FALSE

\* The stream is switched off, never under a subscriber.
SwitchOff ==
    /\ subscribers = {}
    /\ streaming' = FALSE
    /\ UNCHANGED subscribers

Next == Subscribe \/ LateSubscribe \/ Leave \/ SwitchOff

Spec == Init /\ [][Next]_vars

\* An idle stream does not stay on for ever (weak fairness of SwitchOff,
\* written without ENABLED).
FairSpec == Spec /\ []<>(~streaming \/ subscribers # {})

=============================================================================

-------------------------------- MODULE Service --------------------------------
(***************************************************************************)
(* What the process owes the controller and the clients: one driver on the *)
(* serial port, one server on the TCP port, clients only while the driver  *)
(* they talk to is there, and all of it handed over in order.              *)
(* ServerLifecycle implements it with shared variables and nothing that    *)
(* keeps two restarts apart (bin/server.ts).                               *)
(***************************************************************************)
CONSTANT Driver

VARIABLES
    holders,    \* the drivers on the serial port
    used,       \* the drivers that have ever been on it
    serving,    \* the drivers whose server accepts clients
    served,     \* the drivers that have ever had one
    listening,  \* the drivers whose server has the TCP port
    ended       \* the process has

vars == <<holders, used, serving, served, listening, ended>>

Init ==
    /\ \E d \in Driver : holders = {d} /\ used = {d}
    /\ serving = {} /\ served = {} /\ listening = {}
    /\ ended = FALSE

\* A new driver takes the serial port, from its predecessor or when it is free,
\* once the clients have been cut off and the TCP port is free.
Open(d) ==
    /\ d \notin used
    /\ serving = {} /\ listening = {}
    /\ holders' = {d}
    /\ used' = used \cup {d}
    /\ UNCHANGED <<serving, served, listening, ended>>

\* The serial port is released, never under a client.
Release ==
    /\ serving = {} /\ listening = {}
    /\ holders' = {}
    /\ UNCHANGED <<used, serving, served, listening, ended>>

\* The driver on the port gets its one server.
Serve(d) ==
    /\ holders = {d} /\ d \notin served
    /\ serving = {} /\ listening = {}
    /\ serving' = {d}
    /\ listening' = {d}
    /\ served' = served \cup {d}
    /\ UNCHANGED <<holders, used, ended>>

\* The server accepts clients no more ...
CutOff ==
    /\ serving' = {}
    /\ UNCHANGED <<holders, used, served, listening, ended>>

\* ... and, after that, gives the TCP port back.
FreePort ==
    /\ serving = {}
    /\ listening' = {}
    /\ UNCHANGED <<holders, used, serving, served, ended>>

\* The process ends; what it has not released by then, the system takes back.
End ==
    /\ ended' = TRUE
    /\ UNCHANGED holders \/ (serving = {} /\ listening = {} /\ holders' = {})
    /\ UNCHANGED <<used, serving, served, listening>>

Next ==
    /\ ~ended
    /\ \/ \E d \in Driver : Open(d) \/ Serve(d)
       \/ Release \/ CutOff \/ FreePort \/ End

Spec == Init /\ [][Next]_vars

=============================================================================

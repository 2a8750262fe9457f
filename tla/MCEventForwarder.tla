---------------------------- MODULE MCEventForwarder ----------------------------
(* Instance of EventForwarder for TLC.                                      *)
EXTENDS EventForwarder, TLC

\* Clients, values and log configurations are interchangeable.
Symmetries ==
    Permutations(Client) \cup Permutations(Value) \cup Permutations(LogConfig)

=============================================================================

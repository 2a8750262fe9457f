------------------------------- MODULE MCSession -------------------------------
(* Instance of Session for TLC.                                             *)
EXTENDS Session

\* The first version with "driver ready" (a client begins with 0, which has it
\* not), and one that is not supported.
SomeVersions == {40, 51}

=============================================================================

------------------------- MODULE MCClientsController -------------------------
(* Instances of ClientsController for TLC.                                  *)
EXTENDS ClientsController

=============================================================================

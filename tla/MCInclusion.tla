----------------------------- MODULE MCInclusion -----------------------------
(* Instances of Inclusion for TLC.                                          *)
EXTENDS Inclusion

=============================================================================

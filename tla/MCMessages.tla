------------------------------ MODULE MCMessages ------------------------------
(* Every version of the schema with every set of traits and every request.  *)
EXTENDS Messages
=============================================================================

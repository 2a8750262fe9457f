------------------------------ MODULE MCZniffer ------------------------------
(* Instances of Zniffer for TLC: two clients and one serial port.           *)
EXTENDS Zniffer
=============================================================================

------------------------------ MODULE MCVsock ------------------------------
(* Instances of Vsock for TLC. *)
EXTENDS Vsock
============================================================================

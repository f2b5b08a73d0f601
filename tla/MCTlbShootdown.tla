--------------------------- MODULE MCTlbShootdown ---------------------------
(* Instances of TlbShootdown for TLC. *)
EXTENDS TlbShootdown
============================================================================

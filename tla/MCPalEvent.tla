---------------------------- MODULE MCPalEvent ----------------------------
(* Instances of PalEvent for TLC. *)
EXTENDS PalEvent
===========================================================================

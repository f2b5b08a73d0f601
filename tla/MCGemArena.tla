---------------------------- MODULE MCGemArena ----------------------------
(* Instances of GemArena for TLC. *)
EXTENDS GemArena
===========================================================================

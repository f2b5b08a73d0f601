---------------------------- MODULE MCSgChannel ----------------------------
(* Instances of SgChannel for TLC. *)
EXTENDS SgChannel
============================================================================

----------------------------- MODULE MCSysvSem -----------------------------
(* Instances of SysvSem for TLC. *)
EXTENDS SysvSem, TLC

(* Set 0 is used as TF2 uses its thread semaphores, to post and wait for    *)
(* one unit; set 1 with larger decrements and waits for zero.               *)
MixedDeltas == (0 :> {-1, 1}) @@ (1 :> {-2, 0, 1})
============================================================================

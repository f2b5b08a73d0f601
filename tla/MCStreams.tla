----------------------------- MODULE MCStreams -----------------------------
(* Instances of Streams for TLC. *)
EXTENDS Streams

Fd(h, e) == [h |-> h, events |-> e]

(* One handle of each kind, and two handles at once.                        *)
PollArgs == {<<Fd("srv", {"r"})>>,
             <<Fd("efd", {"r"})>>,
             <<Fd("pipe", {"r"}), Fd("cli", {"w"})>>}
============================================================================

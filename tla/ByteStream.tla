----------------------------- MODULE ByteStream -----------------------------
(***************************************************************************)
(* What a pipe promises to its users: bytes come out in the order in which *)
(* they went in, none is lost, repeated or invented, the bytes of one      *)
(* write keep their order, and at most Cap bytes are held.                 *)
(***************************************************************************)
EXTENDS Naturals, Sequences

CONSTANTS
    Threads,
    Cap,     \* bytes the pipe holds
    Lens     \* lengths of writes

VARIABLES
    out,   \* bytes a thread's write has still to hand over
    q,     \* bytes in the pipe
    got    \* bytes a thread's last read returned

vars == <<out, q, got>>

Init ==
    /\ out = [t \in Threads |-> <<>>]
    /\ q = <<>>
    /\ got = [t \in Threads |-> <<>>]

(* A write begins: n new bytes of thread t.                                *)
Submit(t) ==
    /\ out[t] = <<>>
    /\ \E n \in Lens : out' = [out EXCEPT ![t] = [i \in 1 .. n |-> <<t, i>>]]
    /\ UNCHANGED <<q, got>>

(* The pipe takes the next bytes of a write, as many as there is room for. *)
Put(t) ==
    /\ \E x \in 1 .. Len(out[t]) :
          /\ Len(q) + x <= Cap
          /\ q' = q \o SubSeq(out[t], 1, x)
          /\ \/ out' = [out EXCEPT ![t] = SubSeq(@, x + 1, Len(@))]
             \/ out' = [out EXCEPT ![t] = <<>>]
    /\ UNCHANGED got

(* A write returns early: the pipe is closed, or full and non-blocking.    *)
Abandon(t) ==
    /\ out' = [out EXCEPT ![t] = <<>>]
    /\ UNCHANGED <<q, got>>

(* A read returns the oldest bytes, or nothing.                            *)
Get(t) ==
    /\ \E x \in 0 .. Len(q) :
          /\ got' = [got EXCEPT ![t] = SubSeq(q, 1, x)]
          /\ q' = SubSeq(q, x + 1, Len(q))
    /\ UNCHANGED out

Next == \E t \in Threads : Submit(t) \/ Put(t) \/ Abandon(t) \/ Get(t)

Spec == Init /\ [][Next]_vars
=============================================================================

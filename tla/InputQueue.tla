----------------------------- MODULE InputQueue -----------------------------
(***************************************************************************)
(* What the shared input ring promises for key and button events: a        *)
(* bounded first-in first-out queue that hands every accepted event to the *)
(* game exactly once, and that turns an event down only when it is full.   *)
(***************************************************************************)
EXTENDS Naturals, Sequences

CONSTANTS Cap,        \* events the queue can hold
          MaxEvents   \* bound: events offered in one behaviour

VARIABLES
    offered,   \* events offered so far; they are numbered from 1
    offer,     \* the event being offered, 0 if none
    q,         \* accepted and not yet delivered
    dropped,   \* events turned down
    out        \* the event delivered last, 0 if none

qvars == <<offered, offer, q, dropped, out>>

QInit == offered = 0 /\ offer = 0 /\ q = <<>> /\ dropped = 0 /\ out = 0

Offer ==
    /\ offer = 0 /\ offered < MaxEvents
    /\ offered' = offered + 1
    /\ offer' = offered'
    /\ UNCHANGED <<q, dropped, out>>

Accept ==
    /\ offer # 0 /\ Len(q) < Cap
    /\ q' = Append(q, offer)
    /\ offer' = 0
    /\ UNCHANGED <<offered, dropped, out>>

TurnDown ==
    /\ offer # 0 /\ Len(q) = Cap
    /\ dropped' = dropped + 1
    /\ offer' = 0
    /\ UNCHANGED <<offered, q, out>>

Deliver ==
    /\ q # <<>>
    /\ out' = Head(q)
    /\ q' = Tail(q)
    /\ UNCHANGED <<offered, offer, dropped>>

QNext == Offer \/ Accept \/ TurnDown \/ Deliver

QSpec == QInit /\ [][QNext]_qvars
=============================================================================

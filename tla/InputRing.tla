------------------------------ MODULE InputRing ------------------------------
(***************************************************************************)
(* The shared input transport: sg_input_ring_t in the communication page.  *)
(*                                                                         *)
(* On the host, QEMU's input thread receives X events for the game's       *)
(* window.  Key and button events go through a single-producer             *)
(* single-consumer ring with free-running unsigned indices; motion events  *)
(* overwrite one slot guarded by a sequence lock and bump motion_serial.   *)
(* The listener thread, serving UPDATE_INPUT_MASK, seeds the motion slot   *)
(* through the same sequence lock and switches the transport on or off.    *)
(* In the guest, the redirected Xlib calls of the game's event loop read   *)
(* both.  (egl-redirect/xcb.c, glx.c, input_ring.h)                        *)
(*                                                                         *)
(* Each access to a shared word is a step.  An event record is larger than *)
(* a word: it is modelled as two halves that are copied one after the      *)
(* other, and an event is whole when its halves agree.                     *)
(***************************************************************************)
EXTENDS Integers, Sequences

CONSTANTS
    Cap,         \* SG_INPUT_RING_CAPACITY
    Mod,         \* range of the ring's unsigned indices (2^32 in the code)
    Attempts,    \* tries of read_shared_motion (3 in the code)
    MaxEvents,   \* bound: key and button events
    MaxMotions,  \* bound: motion events
    MaxMasks,    \* bound: UPDATE_INPUT_MASK requests that switch input on
    Modes        \* Xlib calls the game makes: subset of {"next", "peek", "query"}

ASSUME RingAssumption ==
    /\ Cap \in Nat \ {0}
    /\ Mod \in Nat /\ Mod > Cap /\ Mod % Cap = 0
    /\ Attempts \in Nat \ {0}
    /\ MaxEvents \in Nat /\ MaxMotions \in Nat /\ MaxMasks \in Nat
    /\ Modes \subseteq {"next", "peek", "query"}

VARIABLES
    \* sg_input_ring_t
    enabled, head, tail, dropped, lo, hi, seq, serial, motionLo, motionHi,
    \* the two host threads
    hpc,         \* where each one is
    wseq,        \* update_shared_motion: its seq
    wval,        \* update_shared_motion: the motion it writes
    events,      \* input thread: key and button events received
    motions,     \* input thread: motion events received
    mask,        \* listener: requested_input_mask
    applied,     \* listener: applied_input_* equal requested_input_*
    masks,       \* listener: requests that switched input on
    \* the game's event loop
    gpc, mode, try, gserial, gseq, glo, ghi,
    consumed,    \* consumed_motion_serial
    out,         \* the key or button event delivered last
    motionOut    \* the motion delivered last, with the serial consumed for it

ring   == <<enabled, head, tail, dropped, lo, hi>>
motion == <<seq, serial, motionLo, motionHi>>
writer == <<hpc, wseq, wval, events, motions, mask, applied, masks>>
game   == <<gpc, mode, try, gserial, gseq, glo, ghi, consumed, out, motionOut>>
vars   == <<ring, motion, writer, game>>

Writers == {"input", "listener"}
Slots   == 0 .. Cap - 1
(* Motions are numbered from 1 by the input thread, seeds -1, -2, ... by    *)
(* the listener; 0 is the cleared slot.                                    *)
Motions == -MaxMasks .. MaxMotions

HostPc == {"idle", "event", "lo", "hi", "publish",
           "apply", "query", "enable",
           "m_load", "m_odd", "m_lo", "m_hi", "m_even", "m_serial"}
GamePc == {"loop", "check", "ring", "lo", "hi", "take", "serial", "r_serial",
           "r_seq", "r_lo", "r_hi", "r_seq2", "r_serial2", "motion", "blocked"}

Minus(a, b) == (a - b) % Mod                 \* unsigned subtraction
Plus1(a)    == (a + 1) % Mod

TypeOK ==
    /\ enabled \in BOOLEAN
    /\ head \in 0 .. Mod - 1 /\ tail \in 0 .. Mod - 1
    /\ dropped \in 0 .. MaxEvents
    /\ lo \in [Slots -> 0 .. MaxEvents] /\ hi \in [Slots -> 0 .. MaxEvents]
    /\ seq \in Nat /\ serial \in 0 .. MaxMotions
    /\ motionLo \in Motions /\ motionHi \in Motions
    /\ hpc \in [Writers -> HostPc]
    /\ wseq \in [Writers -> Nat] /\ wval \in [Writers -> Motions]
    /\ events \in 0 .. MaxEvents /\ motions \in 0 .. MaxMotions
    /\ mask \in {"none", "on", "off"} /\ applied \in BOOLEAN
    /\ masks \in 0 .. MaxMasks
    /\ gpc \in GamePc /\ mode \in {"next", "peek", "query"}
    /\ try \in 0 .. Attempts
    /\ gserial \in 0 .. MaxMotions /\ gseq \in Nat
    /\ glo \in Int /\ ghi \in Int
    /\ consumed \in 0 .. MaxMotions
    /\ out \in 0 .. MaxEvents
    /\ motionOut \in [lo : Motions, hi : Motions, serial : 0 .. MaxMotions]

(* create_and_setup_xcb_window clears the ring before it stores the magic. *)
Init ==
    /\ enabled = FALSE /\ head = 0 /\ tail = 0 /\ dropped = 0
    /\ lo = [s \in Slots |-> 0] /\ hi = [s \in Slots |-> 0]
    /\ seq = 0 /\ serial = 0 /\ motionLo = 0 /\ motionHi = 0
    /\ hpc = [w \in Writers |-> "idle"]
    /\ wseq = [w \in Writers |-> 0] /\ wval = [w \in Writers |-> 0]
    /\ events = 0 /\ motions = 0
    /\ mask = "none" /\ applied = TRUE /\ masks = 0
    /\ gpc = "loop" /\ mode = "next" /\ try = 0
    /\ gserial = 0 /\ gseq = 0 /\ glo = 0 /\ ghi = 0
    /\ consumed = 0 /\ out = 0
    /\ motionOut = [lo |-> 0, hi |-> 0, serial |-> 0]

------------------------------------------------------------------------------
HostStep(w, from, to) ==
    /\ hpc[w] = from
    /\ hpc' = [hpc EXCEPT ![w] = to]

GameStep(from, to) ==
    /\ gpc = from
    /\ gpc' = to

------------------------------------------------------------------------------
(* update_shared_motion, run by either host thread.                        *)

MotionLoad(w) ==
    /\ HostStep(w, "m_load", "m_odd")
    /\ wseq' = [wseq EXCEPT ![w] = seq]
    /\ UNCHANGED <<ring, motion, wval, events, motions, mask, applied, masks, game>>

MotionOdd(w) ==
    /\ HostStep(w, "m_odd", "m_lo")
    /\ seq' = wseq[w] + 1
    /\ UNCHANGED <<ring, serial, motionLo, motionHi, wseq, wval, events, motions,
                   mask, applied, masks, game>>

MotionLo(w) ==
    /\ HostStep(w, "m_lo", "m_hi")
    /\ motionLo' = wval[w]
    /\ UNCHANGED <<ring, seq, serial, motionHi, wseq, wval, events, motions,
                   mask, applied, masks, game>>

MotionHi(w) ==
    /\ HostStep(w, "m_hi", "m_even")
    /\ motionHi' = wval[w]
    /\ UNCHANGED <<ring, seq, serial, motionLo, wseq, wval, events, motions,
                   mask, applied, masks, game>>

MotionEven(w) ==
    /\ HostStep(w, "m_even", IF w = "input" THEN "m_serial" ELSE "enable")
    /\ seq' = wseq[w] + 2
    /\ UNCHANGED <<ring, serial, motionLo, motionHi, wseq, wval, events, motions,
                   mask, applied, masks, game>>

(* is_event: only the input thread's motions count as events.              *)
MotionSerial ==
    /\ HostStep("input", "m_serial", "idle")
    /\ serial' = serial + 1
    /\ UNCHANGED <<ring, seq, motionLo, motionHi, wseq, wval, events, motions,
                   mask, applied, masks, game>>

UpdateSharedMotion(w) ==
    MotionLoad(w) \/ MotionOdd(w) \/ MotionLo(w) \/ MotionHi(w) \/ MotionEven(w)

------------------------------------------------------------------------------
(* publish_shared_input_event: an event received while the transport is    *)
(* off is ignored.                                                         *)

ReceiveEvent ==
    /\ enabled /\ events < MaxEvents
    /\ HostStep("input", "idle", "event")
    /\ events' = events + 1
    /\ UNCHANGED <<ring, motion, wseq, wval, motions, mask, applied, masks, game>>

ReceiveMotion ==
    /\ enabled /\ motions < MaxMotions
    /\ HostStep("input", "idle", "m_load")
    /\ motions' = motions + 1
    /\ wval' = [wval EXCEPT !["input"] = motions']
    /\ UNCHANGED <<ring, motion, wseq, events, mask, applied, masks, game>>

(* Load of head; the event is dropped if the ring is full, at n events.     *)
CheckFullAt(n) ==
    /\ \/ /\ Minus(tail, head) >= n
          /\ HostStep("input", "event", "idle")
          /\ dropped' = dropped + 1
       \/ /\ Minus(tail, head) < n
          /\ HostStep("input", "event", "lo")
          /\ UNCHANGED dropped
    /\ UNCHANGED <<enabled, head, tail, lo, hi, motion, wseq, wval, events, motions,
                   mask, applied, masks, game>>

(* Slips: one event too many, one too few.                                  *)
CheckFull_over  == CheckFullAt(Cap + 1)
CheckFull_under == CheckFullAt(Cap - 1)

CheckFull == CheckFullAt(Cap)

StoreLo ==
    /\ HostStep("input", "lo", "hi")
    /\ lo' = [lo EXCEPT ![tail % Cap] = events]
    /\ UNCHANGED <<enabled, head, tail, dropped, hi, motion, wseq, wval, events,
                   motions, mask, applied, masks, game>>

StoreHi ==
    /\ HostStep("input", "hi", "publish")
    /\ hi' = [hi EXCEPT ![tail % Cap] = events]
    /\ UNCHANGED <<enabled, head, tail, dropped, lo, motion, wseq, wval, events,
                   motions, mask, applied, masks, game>>

PublishTail ==
    /\ HostStep("input", "publish", "idle")
    /\ tail' = Plus1(tail)
    /\ UNCHANGED <<enabled, head, dropped, lo, hi, motion, wseq, wval, events,
                   motions, mask, applied, masks, game>>

InputThread ==
    \/ ReceiveEvent \/ ReceiveMotion \/ CheckFull \/ StoreLo \/ StoreHi
    \/ PublishTail \/ UpdateSharedMotion("input") \/ MotionSerial

------------------------------------------------------------------------------
(* set_shared_input_mask and apply_shared_input_mask, on the listener.     *)
(* Bounds: MaxMasks, and no request for off when it is off.                *)

SetMask(m) ==
    /\ IF m = "on" THEN masks < MaxMasks ELSE mask = "on"
    /\ HostStep("listener", "idle", "apply")
    /\ mask' = m /\ applied' = FALSE
    /\ masks' = IF m = "on" THEN masks + 1 ELSE masks
    /\ UNCHANGED <<ring, motion, wseq, wval, events, motions, game>>

(* attach_presentation_window tries again after a failure.                 *)
RetryMask ==
    /\ ~applied
    /\ HostStep("listener", "idle", "apply")
    /\ UNCHANGED <<ring, motion, wseq, wval, events, motions, mask, applied, masks, game>>

(* The X request fails while the window does not exist yet.                *)
ApplyFails ==
    /\ HostStep("listener", "apply", "idle")
    /\ UNCHANGED <<ring, motion, wseq, wval, events, motions, mask, applied, masks, game>>

ApplyMask ==
    /\ HostStep("listener", "apply", IF mask = "on" THEN "query" ELSE "enable")
    /\ applied' = TRUE
    /\ UNCHANGED <<ring, motion, wseq, wval, events, motions, mask, masks, game>>

(* The pointer position, if the X server gives one, is written like a      *)
(* motion that is not an event.                                            *)
QueryPointer ==
    /\ \/ HostStep("listener", "query", "m_load")
       \/ HostStep("listener", "query", "enable")
    /\ wval' = [wval EXCEPT !["listener"] = -masks]
    /\ UNCHANGED <<ring, motion, wseq, events, motions, mask, applied, masks, game>>

StoreEnabled ==
    /\ HostStep("listener", "enable", "idle")
    /\ enabled' = (mask = "on")
    /\ UNCHANGED <<head, tail, dropped, lo, hi, motion, wseq, wval, events, motions,
                   mask, applied, masks, game>>

ListenerThread ==
    \/ \E m \in {"on", "off"} : SetMask(m)
    \/ RetryMask \/ ApplyFails \/ ApplyMask \/ QueryPointer
    \/ UpdateSharedMotion("listener") \/ StoreEnabled

------------------------------------------------------------------------------
(* The game's event loop: XNextEvent when XPending finds something, and    *)
(* XPeekEvent and XQueryPointer when it likes.                             *)

(* shared_input_pending; with no ordinary X event pending the game does    *)
(* not call XNextEvent.                                                    *)
CallNext ==
    /\ "next" \in Modes
    /\ enabled
    /\ Minus(tail, head) + (IF serial # consumed THEN 1 ELSE 0) > 0
    /\ GameStep("loop", "check")
    /\ mode' = "next"
    /\ UNCHANGED <<ring, motion, writer, try, gserial, gseq, glo, ghi, consumed, out,
                   motionOut>>

CallPeek ==
    /\ "peek" \in Modes
    /\ GameStep("loop", "check")
    /\ mode' = "peek"
    /\ UNCHANGED <<ring, motion, writer, try, gserial, gseq, glo, ghi, consumed, out,
                   motionOut>>

CallQuery ==
    /\ "query" \in Modes
    /\ GameStep("loop", "check")
    /\ mode' = "query"
    /\ UNCHANGED <<ring, motion, writer, try, gserial, gseq, glo, ghi, consumed, out,
                   motionOut>>

(* Without a shared event XNextEvent and XPeekEvent call the real ones,    *)
(* which block for an ordinary X event; XQueryPointer asks the server.     *)
FallBack == IF mode = "query" THEN "loop" ELSE "blocked"

CheckEnabled ==
    /\ \/ ~enabled /\ GameStep("check", FallBack)
       \/ enabled /\ GameStep("check", IF mode = "query" THEN "r_serial" ELSE "ring")
    /\ try' = 0
    /\ UNCHANGED <<ring, motion, writer, mode, gserial, gseq, glo, ghi, consumed, out,
                   motionOut>>

LoadTail ==
    /\ GameStep("ring", IF head # tail THEN "lo" ELSE "serial")
    /\ UNCHANGED <<ring, motion, writer, mode, try, gserial, gseq, glo, ghi, consumed,
                   out, motionOut>>

CopyLo ==
    /\ GameStep("lo", "hi")
    /\ glo' = lo[head % Cap]
    /\ UNCHANGED <<ring, motion, writer, mode, try, gserial, gseq, ghi, consumed, out,
                   motionOut>>

CopyHi ==
    /\ GameStep("hi", IF mode = "next" THEN "take" ELSE "loop")
    /\ ghi' = hi[head % Cap]
    /\ UNCHANGED <<ring, motion, writer, mode, try, gserial, gseq, glo, consumed, out,
                   motionOut>>

(* consume: the store of head hands the slot back to the input thread.     *)
StoreHead ==
    /\ GameStep("take", "loop")
    /\ head' = Plus1(head)
    /\ out' = glo
    /\ UNCHANGED <<enabled, tail, dropped, lo, hi, motion, writer, mode, try, gserial,
                   gseq, glo, ghi, consumed, motionOut>>

LoadSerial ==
    /\ GameStep("serial", IF serial = consumed THEN FallBack ELSE "r_serial")
    /\ UNCHANGED <<ring, motion, writer, mode, try, gserial, gseq, glo, ghi, consumed,
                   out, motionOut>>

(* read_shared_motion: after Attempts tries it gives up.                   *)
NextTry ==
    /\ try' = try + 1
    /\ gpc' = IF try' < Attempts THEN "r_serial" ELSE FallBack

ReadSerial ==
    /\ GameStep("r_serial", "r_seq")
    /\ gserial' = serial
    /\ UNCHANGED <<ring, motion, writer, mode, try, gseq, glo, ghi, consumed, out,
                   motionOut>>

ReadSeq ==
    /\ gpc = "r_seq"
    /\ gseq' = seq
    /\ \/ seq % 2 = 0 /\ seq # 0 /\ gpc' = "r_lo" /\ UNCHANGED try
       \/ (seq % 2 = 1 \/ seq = 0) /\ NextTry
    /\ UNCHANGED <<ring, motion, writer, mode, gserial, glo, ghi, consumed, out,
                   motionOut>>

ReadLo ==
    /\ GameStep("r_lo", "r_hi")
    /\ glo' = motionLo
    /\ UNCHANGED <<ring, motion, writer, mode, try, gserial, gseq, ghi, consumed, out,
                   motionOut>>

ReadHi ==
    /\ GameStep("r_hi", "r_seq2")
    /\ ghi' = motionHi
    /\ UNCHANGED <<ring, motion, writer, mode, try, gserial, gseq, glo, consumed, out,
                   motionOut>>

(* Slip: the sequence number is not looked at again.                        *)
ReadSeqAgain_blind ==
    /\ GameStep("r_seq2", "r_serial2")
    /\ UNCHANGED <<ring, motion, writer, mode, try, gserial, gseq, glo, ghi, consumed,
                   out, motionOut>>

ReadSeqAgain ==
    /\ gpc = "r_seq2"
    /\ \/ seq = gseq /\ gpc' = "r_serial2" /\ UNCHANGED try
       \/ seq # gseq /\ NextTry
    /\ UNCHANGED <<ring, motion, writer, mode, gserial, gseq, glo, ghi, consumed, out,
                   motionOut>>

(* Slip: the serial loaded last is taken without a comparison.              *)
ReadSerialAgain_last ==
    /\ GameStep("r_serial2", "motion")
    /\ gserial' = serial
    /\ UNCHANGED <<ring, motion, writer, mode, try, gseq, glo, ghi, consumed, out,
                   motionOut>>

ReadSerialAgain ==
    /\ gpc = "r_serial2"
    /\ \/ serial = gserial /\ gpc' = "motion" /\ UNCHANGED try
       \/ serial # gserial /\ NextTry
    /\ UNCHANGED <<ring, motion, writer, mode, gserial, gseq, glo, ghi, consumed, out,
                   motionOut>>

(* The copy is good: XQueryPointer answers from it, XPeekEvent returns it, *)
(* XNextEvent returns it and remembers its serial.                         *)
UseMotion ==
    /\ GameStep("motion", IF mode # "query" /\ gserial = consumed THEN FallBack ELSE "loop")
    /\ IF mode = "query" \/ gserial # consumed
       THEN motionOut' = [lo |-> glo, hi |-> ghi, serial |-> gserial]
       ELSE UNCHANGED motionOut
    /\ consumed' = IF mode = "next" THEN gserial ELSE consumed
    /\ UNCHANGED <<ring, motion, writer, mode, try, gserial, gseq, glo, ghi, out>>

(* An ordinary X event arrives on the game's own connection.               *)
OrdinaryEvent ==
    /\ GameStep("blocked", "loop")
    /\ UNCHANGED <<ring, motion, writer, mode, try, gserial, gseq, glo, ghi, consumed,
                   out, motionOut>>

PeekSharedInput ==
    \/ CheckEnabled \/ LoadTail \/ CopyLo \/ CopyHi \/ StoreHead \/ LoadSerial
    \/ ReadSerial \/ ReadSeq \/ ReadLo \/ ReadHi \/ ReadSeqAgain \/ ReadSerialAgain
    \/ UseMotion

Game == CallNext \/ CallPeek \/ CallQuery \/ PeekSharedInput \/ OrdinaryEvent

------------------------------------------------------------------------------
Next == InputThread \/ ListenerThread \/ Game

Spec == Init /\ [][Next]_vars

(* What a host thread has begun it finishes, and the game's loop asks for  *)
(* events again and again, whatever other calls it makes in between.  The  *)
(* X server owes the game no event: OrdinaryEvent is not fair.             *)
HostProgress ==
    /\ WF_vars(CheckFull \/ StoreLo \/ StoreHi \/ PublishTail
               \/ UpdateSharedMotion("input") \/ MotionSerial)
    /\ WF_vars(ApplyMask \/ QueryPointer \/ UpdateSharedMotion("listener") \/ StoreEnabled)

GameProgress == SF_vars(CallNext) /\ WF_vars(PeekSharedInput)

FairSpec == Spec /\ HostProgress /\ GameProgress

------------------------------------------------------------------------------
(* Properties.                                                             *)

Pending == [i \in 1 .. Minus(tail, head) |-> lo[(head + i - 1) % Cap]]

Queue == INSTANCE InputQueue WITH
             offered <- events,
             offer   <- IF hpc["input"] \in {"event", "lo", "hi", "publish"}
                        THEN events ELSE 0,
             q       <- Pending

(* The ring implements the bounded queue: each accepted key or button      *)
(* event reaches the game once and in order, across the wrap of the        *)
(* indices, and one is dropped only while the ring is full.                *)
RingImplementsQueue == Queue!QSpec

(* Neither side ever sees half of an event: the published slots and the    *)
(* record XNextEvent returns are whole.                                    *)
EventsWhole ==
    /\ \A i \in DOMAIN Pending : lo[(head + i - 1) % Cap] = hi[(head + i - 1) % Cap]
    /\ gpc = "take" => glo = ghi /\ glo = lo[head % Cap]

(* The sequence lock works: a motion the game accepts is one that a host   *)
(* thread stored, not a mixture of two.  A second request that switches    *)
(* input on can make both host threads write the slot at once, and then    *)
(* nothing is claimed.                                                     *)
MotionWhole == masks <= 1 => motionOut.lo = motionOut.hi

(* A motion accepted with serial s is the s-th one or its successor whose  *)
(* serial is still to come: the game never takes an outdated position for  *)
(* a new one, and forgets none by consuming a serial too early.            *)
MotionCurrent ==
    motionOut.lo > 0 => motionOut.lo \in {motionOut.serial, motionOut.serial + 1}

(* A key or button event that is in the ring is delivered, however fast    *)
(* the pointer moves: input_ring.h keeps the motion apart so that it       *)
(* cannot crowd out a key or button.                                       *)
EventDelivered ==
    \A e \in 1 .. MaxEvents :
        (e \in {Pending[i] : i \in DOMAIN Pending}) ~> (out = e \/ ~enabled)
==============================================================================

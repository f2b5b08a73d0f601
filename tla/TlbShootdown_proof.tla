------------------------- MODULE TlbShootdown_proof -------------------------
(***************************************************************************)
(* What TlbShootdown promises, for any number of vCPUs, changes and        *)
(* interrupts that nobody sent.                                            *)
(*                                                                         *)
(* That the count is exact, or that nothing stale is left on return, says  *)
(* nothing of the handlers that are still under way: one that comes late   *)
(* would count itself for the next request.  The inductive invariant       *)
(* therefore says, for each point of the requester's code, where the       *)
(* handlers of the others can be and whose flag is set: when the requester *)
(* leaves the wait, everybody else has set its flag and is out of the part *)
(* of the handler that flushes and counts.                                 *)
(***************************************************************************)
EXTENDS TlbShootdown, FiniteSetTheorems, TLAPS

Held == {"sanity", "reset", "begin", "addr", "count", "send", "wait", "clear", "end",
         "unlock", "denied"}

(* Where the vCPU is that holds the lock of the request.                   *)
Phase == IF rlock \in Cpus THEN pc[rlock] ELSE "free"

(* The spinlock excludes.                                                  *)
LockExact == \A c \in Cpus : rlock = c <=> pc[c] \in Held

(* The shared request, by where its owner is.                              *)
RequestByPhase ==
    ~own =>
        /\ (in_progress <=> Phase \in {"addr", "count", "send", "wait", "clear", "end"})
        /\ Phase \notin {"send", "wait", "clear"} => num_responses = 0
        /\ Phase \in {"send", "wait", "clear"} => num_responses # 0
        /\ Phase = "clear" => num_responses = Cardinality(Cpus)
        /\ Phase \in {"count", "send", "wait", "clear", "end"} => addr = page[rlock]
        /\ Phase \in {"begin", "addr", "count"} => received = {}
        /\ Phase \in {"clear", "end", "unlock"} => Cpus \ {rlock} \subseteq received
        /\ Phase # "denied"

(* Where handlers can be, by where the owner is.                           *)
HandlersByPhase ==
    ~own /\ ~panic => \A d \in Cpus :
        /\ isr[d] \in {"flush", "mark", "add"} =>
              Phase \in {"send", "wait"} \/ (Phase = "clear" /\ d = rlock)
        /\ isr[d] = "responses" =>
              Phase \in {"addr", "count", "send", "wait"} \/ (Phase \in {"clear", "end"} /\ d = rlock)

(* A vCPU sets its flag between flushing and counting itself.              *)
FlagExact ==
    ~own =>
        /\ \A d \in Cpus :
              /\ isr[d] \in {"progress", "responses", "flush", "mark"} => d \notin received
              /\ isr[d] = "add" => d \in received
        /\ Phase \in {"send", "wait"} /\ rlock \in received => isr[rlock] = "add"

CountExact ==
    Phase \in {"send", "wait"} /\ ~own
        => num_responses + Cardinality(Adding) = 1 + Cardinality(received)

(* Who is past the flush has seen the owner's change.                      *)
FlushedExact ==
    /\ \A c \in Cpus : c \notin stale[c]
    /\ ~own /\ Phase \in {"send", "wait"} =>
          \A d \in Cpus : d \in received \/ isr[d] = "mark" => rlock \notin stale[d]
    /\ ~own => \A c, d \in Cpus : pc[c] \in {"clear", "end", "unlock", "done"} => c \notin stale[d]

(* Interrupts and handlers, as long as every interrupt was sent.           *)
HonestExact ==
    extra = 0 =>
        /\ ~own /\ ~panic
        /\ Phase # "wait" => requested = {} /\ \A d \in Cpus : isr[d] = "none"
        /\ Phase = "send" => received = {}
        /\ Phase = "wait" =>
              /\ rlock \notin requested /\ isr[rlock] = "none"
              /\ requested \cap received = {}
              /\ \A d \in Cpus : isr[d] = "received" => d \notin received
              /\ \A d \in requested : isr[d] = "none"

IInv ==
    /\ TypeOK /\ LockExact /\ RequestByPhase /\ HandlersByPhase /\ FlagExact /\ CountExact
    /\ FlushedExact /\ HonestExact

------------------------------------------------------------------------------
(* Sets of vCPUs are finite, and counted by naturals.                      *)
LEMMA CpuSets ==
    ASSUME NEW S \in SUBSET Cpus
    PROVE  IsFiniteSet(S) /\ Cardinality(S) \in Nat /\ Cardinality(S) <= Cardinality(Cpus)
BY TlbAssumption, FS_Subset, FS_CardinalityType

(* At boot no request is under way.                                        *)
LEMMA InitInv == Init => IInv
<1> SUFFICES ASSUME Init PROVE IInv
  OBVIOUS
<1> USE TlbAssumption DEF Init
<1>1. Phase = "free"
  BY DEF Phase
<1>2. TypeOK
  <2>1. num_responses \in Nat /\ extra \in 0 .. MaxExtra /\ reqs \in 0 .. MaxReqs
    OBVIOUS
  <2>2. pc \in [Cpus -> ThreadPc] /\ isr \in [Cpus -> IsrPc]
    BY DEF ThreadPc, IsrPc
  <2>. QED  BY <2>1, <2>2 DEF TypeOK
<1>3. LockExact /\ RequestByPhase /\ HandlersByPhase
  BY <1>1 DEF LockExact, Held, RequestByPhase, HandlersByPhase
<1>4. FlagExact /\ CountExact /\ FlushedExact /\ HonestExact
  BY <1>1 DEF FlagExact, CountExact, FlushedExact, HonestExact
<1>. QED  BY <1>2, <1>3, <1>4 DEF IInv

(* A vCPU that changes entries is outside the lock, and its change is no   *)
(* earlier change that others have finished.                               *)
LEMMA MarkPagesInv ==
    ASSUME IInv, NEW c \in Cpus, NEW p \in Pages, MarkPages(c, p)
    PROVE  IInv'
<1> USE TlbAssumption DEF IInv, MarkPages, Step, request, lapic
<1>1. TypeOK'
  BY DEF TypeOK, ThreadPc
<1>2. rlock # c /\ LockExact'
  BY DEF TypeOK, LockExact, Held
<1>3. Phase' = Phase /\ (rlock \in Cpus => page'[rlock] = page[rlock])
  BY <1>2 DEF Phase, TypeOK
<1>4. RequestByPhase'
  BY <1>3 DEF RequestByPhase, Phase
<1>5. HandlersByPhase' /\ FlagExact'
  BY <1>3 DEF HandlersByPhase, FlagExact
<1>6. CountExact'
  BY <1>3 DEF CountExact, Adding
<1>7. FlushedExact'
  BY <1>2, <1>3 DEF FlushedExact, TypeOK, Phase
<1>8. HonestExact'
  BY <1>3 DEF HonestExact
<1>. QED  BY <1>1, <1>2, <1>4, <1>5, <1>6, <1>7, <1>8

(* The lock is taken by one vCPU at a time.                                *)
LEMMA LockRequestInv ==
    ASSUME IInv, NEW c \in Cpus, LockRequest(c)
    PROVE  IInv'
<1> USE TlbAssumption DEF IInv, Step, lapic, rest, LockRequest
<1>1. TypeOK'
  BY DEF TypeOK, ThreadPc
<1>2. LockExact'
  BY DEF TypeOK, LockExact, Held
<1>3. Phase = "free" /\ Phase' = "sanity" /\ rlock' = c
  BY DEF TypeOK, Phase
<1>4. RequestByPhase'
  BY <1>3 DEF RequestByPhase
<1>5. HandlersByPhase' /\ FlagExact'
  BY <1>3 DEF HandlersByPhase, FlagExact
<1>6. CountExact'
  BY <1>3 DEF CountExact
<1>7. FlushedExact'
  BY <1>3 DEF FlushedExact, TypeOK
<1>8. HonestExact'
  BY <1>3 DEF HonestExact
<1>. QED  BY <1>1, <1>2, <1>4, <1>5, <1>6, <1>7, <1>8

(* Up to the count no handler is past the look at the count, so the flags   *)
(* of the last request can go.                                             *)
LEMMA PrepareInv ==
    ASSUME IInv, NEW c \in Cpus, SanityCheck(c) \/ ResetReceived(c) \/ SetInProgress(c) \/ SetAddr(c)
    PROVE  IInv'
<1> USE TlbAssumption DEF IInv, Step, request, lapic, rest, SanityCheck, ResetReceived, SetInProgress, SetAddr
<1>1. TypeOK'
  BY ZenonT(60) DEF TypeOK, ThreadPc
<1>2. LockExact'
  BY DEF TypeOK, LockExact, Held
<1>3. Phase = pc[c] /\ rlock = c /\ Phase' = pc'[c] /\ rlock' = c
  BY DEF TypeOK, LockExact, Phase, Held
<1>4. RequestByPhase'
  BY <1>3 DEF RequestByPhase, TypeOK
<1>5. HandlersByPhase' /\ FlagExact'
  BY <1>3 DEF HandlersByPhase, FlagExact, RequestByPhase, TypeOK
<1>6. CountExact'
  BY <1>3 DEF CountExact, TypeOK
<1>7. FlushedExact'
  BY <1>3 DEF FlushedExact, TypeOK
<1>8. HonestExact'
  BY <1>3 DEF HonestExact, RequestByPhase, TypeOK
<1>. QED  BY <1>1, <1>2, <1>4, <1>5, <1>6, <1>7, <1>8

(* The count starts at one with every flag clear and nobody about to count. *)
LEMMA SetResponsesInv ==
    ASSUME IInv, NEW c \in Cpus, SetResponses(c)
    PROVE  IInv'
<1> USE TlbAssumption DEF IInv, Step, request, lapic, rest, SetResponses
<1>1. TypeOK'
  BY DEF TypeOK, ThreadPc
<1>2. LockExact'
  BY DEF TypeOK, LockExact, Held
<1>3. Phase = pc[c] /\ rlock = c /\ Phase' = pc'[c] /\ rlock' = c
  BY DEF TypeOK, LockExact, Phase, Held
<1>4. RequestByPhase'
  BY <1>3 DEF RequestByPhase, TypeOK
<1>5. HandlersByPhase' /\ FlagExact'
  BY <1>3 DEF HandlersByPhase, FlagExact, RequestByPhase, TypeOK
<1>6. CountExact'
  <2>1. ~own => received = {} /\ Adding' = {}
    BY <1>3 DEF Adding, HandlersByPhase, RequestByPhase, TypeOK
  <2>. QED  BY <1>3, <2>1, FS_EmptySet DEF CountExact
<1>7. FlushedExact'
  BY <1>3 DEF FlushedExact, HandlersByPhase, RequestByPhase, TypeOK
<1>8. HonestExact'
  BY <1>3 DEF HonestExact, RequestByPhase, TypeOK
<1>. QED  BY <1>1, <1>2, <1>4, <1>5, <1>6, <1>7, <1>8

(* The interrupt goes to everybody else; with no extra ones nobody had one. *)
LEMMA SendIpiInv ==
    ASSUME IInv, NEW c \in Cpus, SendIpi(c)
    PROVE  IInv'
<1> USE TlbAssumption DEF IInv, Step, request, lapic, rest, SendIpi
<1>1. TypeOK'
  BY DEF TypeOK, ThreadPc
<1>2. LockExact'
  BY DEF TypeOK, LockExact, Held
<1>3. Phase = pc[c] /\ rlock = c /\ Phase' = pc'[c] /\ rlock' = c
  BY DEF TypeOK, LockExact, Phase, Held
<1>4. RequestByPhase'
  BY <1>3 DEF RequestByPhase, TypeOK
<1>5. HandlersByPhase' /\ FlagExact'
  BY <1>3 DEF HandlersByPhase, FlagExact, RequestByPhase, TypeOK
<1>6. CountExact'
  BY <1>3 DEF CountExact, Adding, TypeOK
<1>7. FlushedExact'
  BY <1>3 DEF FlushedExact, TypeOK
<1>8. HonestExact'
  BY <1>3 DEF HonestExact, TypeOK
<1>. QED  BY <1>1, <1>2, <1>4, <1>5, <1>6, <1>7, <1>8

(* When the owner, not in the handler itself, sees a full count, everybody *)
(* else has set its flag and nobody is about to count: a vCPU counts only  *)
(* after setting its flag, so a full count leaves no vCPU for later.       *)
LEMMA AllHaveAnswered ==
    ASSUME IInv, ~own, ~panic, Phase = "wait", isr[rlock] = "none", AllAnswered
    PROVE  received = Cpus \ {rlock} /\ Adding = {}
<1> USE TlbAssumption DEF IInv
<1>1. rlock \in Cpus
  BY DEF Phase
<1>2. received \subseteq Cpus \ {rlock}
  BY DEF FlagExact, TypeOK
<1>3. /\ IsFiniteSet(Cpus \ {rlock})
      /\ Cardinality(Cpus \ {rlock}) = Cardinality(Cpus) - 1
  BY <1>1, FS_RemoveElement
<1>4. /\ Cardinality(received) <= Cardinality(Cpus \ {rlock})
      /\ (Cardinality(received) = Cardinality(Cpus \ {rlock}) => received = Cpus \ {rlock})
  BY <1>2, <1>3, FS_Subset
<1>5. Adding \in SUBSET Cpus
  BY DEF Adding
<1>6. IsFiniteSet(Adding) /\ Cardinality(Adding) \in Nat /\ Cardinality(received) \in Nat
  BY <1>5, CpuSets DEF TypeOK
<1>7. Cardinality(Cpus) + Cardinality(Adding) = 1 + Cardinality(received)
  BY DEF CountExact, AllAnswered
<1>8. Cardinality(Cpus) \in Nat
  BY CpuSets
<1>9. Cardinality(Adding) = 0 /\ Cardinality(received) = Cardinality(Cpus \ {rlock})
  BY <1>3, <1>4, <1>6, <1>7, <1>8
<1>. QED  BY <1>4, <1>6, <1>9, FS_EmptySet

(* Leaving the wait: the change is seen everywhere.                        *)
LEMMA WaitResponsesInv ==
    ASSUME IInv, NEW c \in Cpus, WaitResponses(c)
    PROVE  IInv'
<1> USE TlbAssumption DEF IInv, Step, request, lapic, rest, WaitResponses
<1>1. TypeOK'
  BY DEF TypeOK, ThreadPc
<1>2. LockExact'
  BY DEF TypeOK, LockExact, Held
<1>3. Phase = "wait" /\ rlock = c /\ Phase' = "clear" /\ rlock' = c /\ isr[c] = "none" /\ ~panic
  BY DEF TypeOK, LockExact, Phase, Held
<1>4. ~own => received = Cpus \ {rlock} /\ Adding = {}
  BY <1>3, AllHaveAnswered
<1>5. RequestByPhase'
  BY <1>3, <1>4 DEF RequestByPhase, AllAnswered, TypeOK
<1>6. HandlersByPhase' /\ FlagExact'
  BY <1>3, <1>4 DEF HandlersByPhase, FlagExact, TypeOK, Adding
<1>7. CountExact'
  BY <1>3 DEF CountExact
<1>8. FlushedExact'
  BY <1>3, <1>4 DEF FlushedExact, TypeOK
<1>9. HonestExact'
  <2>1. SUFFICES ASSUME extra = 0
                 PROVE  requested = {} /\ \A d \in Cpus : isr[d] = "none"
    BY <1>3 DEF HonestExact
  <2>2. ~own /\ received = Cpus \ {rlock} /\ Adding = {}
    BY <1>4, <2>1 DEF HonestExact
  <2>3. requested = {}
    BY <1>3, <2>1, <2>2 DEF HonestExact, TypeOK
  <2>4. ASSUME NEW d \in Cpus PROVE isr[d] = "none"
    BY <1>3, <2>1, <2>2 DEF HonestExact, FlagExact, Adding, TypeOK, IsrPc
  <2>. QED  BY <2>3, <2>4
<1>. QED  BY <1>1, <1>2, <1>5, <1>6, <1>7, <1>8, <1>9

(* The way out, still under the lock.                                      *)
LEMMA FinishInv ==
    ASSUME IInv, NEW c \in Cpus, ClearResponses(c) \/ ClearInProgress(c)
    PROVE  IInv'
<1> USE TlbAssumption DEF IInv, Step, request, lapic, rest, ClearResponses, ClearInProgress
<1>1. TypeOK'
  <2>1. pc' \in [Cpus -> ThreadPc]
    BY DEF TypeOK, ThreadPc
  <2>2. num_responses' \in Nat
    BY DEF TypeOK
  <2>3. in_progress' \in BOOLEAN
    BY DEF TypeOK
  <2>. QED  BY <2>1, <2>2, <2>3 DEF TypeOK
<1>2. LockExact'
  BY DEF TypeOK, LockExact, Held
<1>3. Phase = pc[c] /\ rlock = c /\ Phase' = pc'[c] /\ rlock' = c
  BY DEF TypeOK, LockExact, Phase, Held
<1>4. RequestByPhase'
  BY <1>3 DEF RequestByPhase, TypeOK
<1>5. HandlersByPhase' /\ FlagExact'
  BY <1>3 DEF HandlersByPhase, FlagExact, RequestByPhase, TypeOK
<1>6. CountExact'
  BY <1>3 DEF CountExact, TypeOK
<1>7. FlushedExact'
  BY <1>3 DEF FlushedExact, TypeOK
<1>8. HonestExact'
  BY <1>3 DEF HonestExact, RequestByPhase, TypeOK
<1>. QED  BY <1>1, <1>2, <1>4, <1>5, <1>6, <1>7, <1>8

(* The lock is dropped when no handler looks at the request any more.      *)
LEMMA UnlockRequestInv ==
    ASSUME IInv, NEW c \in Cpus, UnlockRequest(c)
    PROVE  IInv'
<1> USE TlbAssumption DEF IInv, Step, lapic, rest, UnlockRequest
<1>1. TypeOK'
  BY DEF TypeOK, ThreadPc
<1>2. LockExact'
  BY DEF TypeOK, LockExact, Held
<1>3. Phase = pc[c] /\ rlock = c /\ Phase' = "free" /\ rlock' = NoOne
  BY DEF TypeOK, LockExact, Phase, Held
<1>4. RequestByPhase'
  BY <1>3 DEF RequestByPhase, TypeOK
<1>5. HandlersByPhase' /\ FlagExact'
  BY <1>3 DEF HandlersByPhase, FlagExact, RequestByPhase, TypeOK
<1>6. CountExact'
  BY <1>3 DEF CountExact, TypeOK
<1>7. FlushedExact'
  BY <1>3 DEF FlushedExact, TypeOK
<1>8. HonestExact'
  BY <1>3 DEF HonestExact, RequestByPhase, TypeOK
<1>. QED  BY <1>1, <1>2, <1>4, <1>5, <1>6, <1>7, <1>8

(* Back in the caller, outside the lock.                                   *)
LEMMA ReturnInv ==
    ASSUME IInv, NEW c \in Cpus, Return(c)
    PROVE  IInv'
<1> USE TlbAssumption DEF IInv, Step, request, lapic, rest, Return
<1>1. TypeOK'
  BY DEF TypeOK, ThreadPc
<1>2. rlock # c /\ LockExact'
  BY DEF TypeOK, LockExact, Held
<1>3. Phase' = Phase
  BY <1>2 DEF TypeOK, Phase
<1>4. RequestByPhase' /\ HandlersByPhase' /\ FlagExact' /\ HonestExact'
  BY <1>3 DEF RequestByPhase, HandlersByPhase, FlagExact, HonestExact
<1>5. CountExact'
  BY <1>3 DEF CountExact, Adding
<1>6. FlushedExact'
  BY <1>3 DEF FlushedExact, TypeOK
<1>. QED  BY <1>1, <1>2, <1>4, <1>5, <1>6

(* An interrupt arrives, sent or not.                                      *)
LEMMA InterruptInv ==
    ASSUME IInv, NEW c \in Cpus, Deliver(c) \/ ExtraIpi(c)
    PROVE  IInv'
<1> USE TlbAssumption DEF IInv, Handle, request, lapic, Deliver, ExtraIpi
<1>1. TypeOK'
  BY DEF TypeOK, IsrPc
<1>2. Phase' = Phase /\ LockExact'
  BY DEF Phase, LockExact
<1>3. RequestByPhase'
  BY <1>2 DEF RequestByPhase
<1>4. HandlersByPhase' /\ FlagExact'
  BY <1>2 DEF HandlersByPhase, FlagExact, TypeOK
<1>5. Adding' = Adding
  BY DEF Adding, TypeOK
<1>6. CountExact'
  BY <1>2, <1>5 DEF CountExact
<1>7. FlushedExact'
  BY <1>2 DEF FlushedExact, TypeOK
<1>8. HonestExact'
  <2>1. CASE ExtraIpi(c)
    BY <2>1 DEF HonestExact, TypeOK
  <2>2. CASE Deliver(c) /\ extra = 0
    <3>1. Phase = "wait" /\ c # rlock /\ c \notin received
      BY <2>2 DEF HonestExact
    <3>. QED  BY <1>2, <2>2, <3>1 DEF HonestExact, TypeOK
  <2>. QED  BY <2>1, <2>2 DEF HonestExact
<1>. QED  BY <1>1, <1>2, <1>3, <1>4, <1>6, <1>7, <1>8

(* The handler's three looks: at its flag, at in_progress, at the count.   *)
LEMMA LooksInv ==
    ASSUME IInv, NEW c \in Cpus, CheckReceived(c) \/ CheckProgress(c) \/ CheckResponses(c)
    PROVE  IInv'
<1> USE TlbAssumption DEF IInv, Handle, request, handled, CheckReceived, CheckProgress,
                          CheckResponses
<1>1. TypeOK'
  <2>1. isr' \in [Cpus -> IsrPc]
    BY DEF TypeOK, IsrPc
  <2>2. panic' \in BOOLEAN
    BY DEF TypeOK
  <2>. QED  BY <2>1, <2>2 DEF TypeOK
<1>2. Phase' = Phase /\ LockExact'
  BY DEF Phase, LockExact
<1>3. RequestByPhase'
  BY <1>2 DEF RequestByPhase
<1>4. HandlersByPhase' /\ FlagExact'
  BY <1>2 DEF HandlersByPhase, FlagExact, RequestByPhase, TypeOK, Phase
<1>5. Adding' = Adding
  BY DEF Adding, TypeOK
<1>6. CountExact'
  BY <1>2, <1>5 DEF CountExact
<1>7. FlushedExact'
  BY <1>2 DEF FlushedExact, TypeOK
<1>8. HonestExact'
  <2>1. SUFFICES ASSUME extra = 0 PROVE HonestExact'
    BY DEF HonestExact
  <2>2. ~own /\ ~panic /\ Phase = "wait" /\ c # rlock /\ num_responses # 0
    BY <2>1 DEF HonestExact, RequestByPhase
  <2>3. ~panic' /\ \A d \in Cpus : d # c => isr'[d] = isr[d]
    BY <2>2 DEF TypeOK
  <2>4. isr'[c] # "received" /\ c \notin requested
    BY <2>1, <2>2 DEF HonestExact, TypeOK
  <2>5. rlock \in Cpus
    BY <2>2 DEF Phase
  <2>. QED  BY <1>2, <2>1, <2>2, <2>3, <2>4, <2>5 DEF HonestExact, TypeOK
<1>. QED  BY <1>1, <1>2, <1>3, <1>4, <1>6, <1>7, <1>8

(* The address flushed is that of the owner's change.                      *)
LEMMA HandlerFlushInv ==
    ASSUME IInv, NEW c \in Cpus, HandlerFlush(c)
    PROVE  IInv'
<1> USE TlbAssumption DEF IInv, Handle, request, handled, HandlerFlush, Flush
<1>1. TypeOK'
  BY DEF TypeOK, IsrPc
<1>2. Phase' = Phase /\ LockExact'
  BY DEF Phase, LockExact
<1>3. RequestByPhase'
  BY <1>2 DEF RequestByPhase
<1>4. HandlersByPhase' /\ FlagExact'
  BY <1>2 DEF HandlersByPhase, FlagExact, TypeOK, Phase
<1>5. Adding' = Adding
  BY DEF Adding, TypeOK
<1>6. CountExact'
  BY <1>2, <1>5 DEF CountExact
<1>7. FlushedExact'
  <2>1. \A d \in Cpus : stale'[d] \subseteq stale[d]
    BY DEF TypeOK
  <2>2. ~own /\ Phase \in {"send", "wait"} => rlock \in Cpus /\ rlock \notin stale'[c]
    BY DEF RequestByPhase, TypeOK, Phase
  <2>3. \A d \in Cpus : d # c => isr'[d] = isr[d]
    BY DEF TypeOK
  <2>. QED  BY <1>2, <2>1, <2>2, <2>3 DEF FlushedExact
<1>8. HonestExact'
  BY <1>2 DEF HonestExact, TypeOK
<1>. QED  BY <1>1, <1>2, <1>3, <1>4, <1>6, <1>7, <1>8

(* Flag and place in the handler change together.                          *)
LEMMA MarkReceivedInv ==
    ASSUME IInv, NEW c \in Cpus, MarkReceived(c)
    PROVE  IInv'
<1> USE TlbAssumption DEF IInv, Handle, request, handled, MarkReceived
<1>1. TypeOK'
  BY DEF TypeOK, IsrPc
<1>2. Phase' = Phase /\ LockExact'
  BY DEF Phase, LockExact
<1>3. RequestByPhase'
  BY <1>2 DEF RequestByPhase, HandlersByPhase
<1>4. HandlersByPhase' /\ FlagExact'
  BY <1>2 DEF HandlersByPhase, FlagExact, TypeOK, Phase
<1>5. CountExact'
  <2>1. SUFFICES ASSUME ~own, Phase \in {"send", "wait"}
                 PROVE  num_responses + Cardinality(Adding') = 1 + Cardinality(received')
    BY <1>2 DEF CountExact
  <2>2. c \notin received /\ received' = received \cup {c}
    BY <2>1 DEF FlagExact
  <2>3. c \notin Adding /\ Adding' = Adding \cup {c}
    BY DEF Adding, TypeOK
  <2>4. Adding \in SUBSET Cpus /\ received \in SUBSET Cpus
    BY DEF Adding, TypeOK
  <2>5. /\ Cardinality(Adding') = Cardinality(Adding) + 1
        /\ Cardinality(received') = Cardinality(received) + 1
    BY <2>2, <2>3, <2>4, CpuSets, FS_AddElement
  <2>6. /\ Cardinality(Adding) \in Nat /\ Cardinality(received) \in Nat
        /\ num_responses \in Nat
    BY <2>4, CpuSets DEF TypeOK
  <2>. QED  BY <2>1, <2>5, <2>6 DEF CountExact
<1>6. FlushedExact'
  BY <1>2 DEF FlushedExact, TypeOK
<1>7. HonestExact'
  BY <1>2 DEF HonestExact, TypeOK
<1>. QED  BY <1>1, <1>2, <1>3, <1>4, <1>5, <1>6, <1>7

(* A vCPU other than the owner is counted while the owner waits.           *)
LEMMA AddResponseInv ==
    ASSUME IInv, NEW c \in Cpus, AddResponse(c)
    PROVE  IInv'
<1> USE TlbAssumption DEF IInv, Handle, AddResponse
<1>1. TypeOK'
  <2>1. isr' \in [Cpus -> IsrPc] /\ num_responses' \in Nat
    BY DEF TypeOK, IsrPc
  <2>2. own' \in BOOLEAN
    BY DEF TypeOK
  <2>. QED  BY <2>1, <2>2 DEF TypeOK
<1>2. Phase' = Phase /\ LockExact'
  BY DEF Phase, LockExact
<1>3. ~own' => ~own /\ rlock # c
  OBVIOUS
<1>4. ~own' => Phase \in {"send", "wait"}
  BY <1>3 DEF HandlersByPhase
<1>5. RequestByPhase'
  BY <1>2, <1>3, <1>4 DEF RequestByPhase, TypeOK
<1>6. HandlersByPhase' /\ FlagExact'
  BY <1>2, <1>3 DEF HandlersByPhase, FlagExact, TypeOK, Phase
<1>7. CountExact'
  <2>1. SUFFICES ASSUME ~own'
                 PROVE  num_responses + 1 + Cardinality(Adding') = 1 + Cardinality(received)
    BY <1>2 DEF CountExact
  <2>2. c \in Adding /\ Adding' = Adding \ {c}
    BY DEF Adding, TypeOK
  <2>3. Adding \in SUBSET Cpus /\ received \in SUBSET Cpus
    BY DEF Adding, TypeOK
  <2>4. Cardinality(Adding') = Cardinality(Adding) - 1
    BY <2>2, <2>3, CpuSets, FS_RemoveElement
  <2>5. /\ Cardinality(Adding) \in Nat /\ Cardinality(received) \in Nat
        /\ num_responses \in Nat
    BY <2>3, CpuSets DEF TypeOK
  <2>. QED  BY <1>3, <1>4, <2>1, <2>4, <2>5 DEF CountExact
<1>8. FlushedExact'
  BY <1>2, <1>3 DEF FlushedExact, TypeOK
<1>9. HonestExact'
  BY <1>2 DEF HonestExact, TypeOK
<1>. QED  BY <1>1, <1>2, <1>5, <1>6, <1>7, <1>8, <1>9

(* Every step keeps the invariant.                                         *)
LEMMA NextInv == IInv /\ [Next]_vars => IInv'
<1> SUFFICES ASSUME IInv, [Next]_vars PROVE IInv'
  OBVIOUS
<1>1. CASE UNCHANGED vars
  BY <1>1 DEF vars, request, lapic, IInv, TypeOK, LockExact, RequestByPhase, HandlersByPhase,
              FlagExact, CountExact, FlushedExact, HonestExact, Phase, Adding
<1>2. CASE Next
  <2>1. PICK c \in Cpus : \/ \E p \in Pages : MarkPages(c, p)
                          \/ Thread(c) \/ Deliver(c) \/ Handler(c) \/ ExtraIpi(c)
    BY <1>2 DEF Next
  <2>2. CASE \E p \in Pages : MarkPages(c, p)
    BY <2>2, MarkPagesInv
  <2>3. CASE Thread(c)
    BY <2>3, LockRequestInv, PrepareInv, SetResponsesInv, SendIpiInv, WaitResponsesInv,
       FinishInv, UnlockRequestInv, ReturnInv DEF Thread
  <2>4. CASE Deliver(c) \/ ExtraIpi(c)
    BY <2>4, InterruptInv
  <2>5. CASE Handler(c)
    BY <2>5, LooksInv, HandlerFlushInv, MarkReceivedInv, AddResponseInv DEF Handler
  <2>. QED  BY <2>1, <2>2, <2>3, <2>4, <2>5
<1>. QED  BY <1>1, <1>2

(* The invariant holds of every run of the protocol.                       *)
THEOREM Invariance == Spec => []IInv
BY InitInv, NextInv, PTL DEF Spec

------------------------------------------------------------------------------
(* While the lock's owner collects answers the count is exact.             *)
LEMMA CountImpliesAnswers == IInv => AnswersExact
<1> SUFFICES ASSUME IInv, Asked # {}, ~own
             PROVE  num_responses + Cardinality(Adding) = 1 + Cardinality(received)
  BY DEF AnswersExact
<1>1. PICK c \in Cpus : pc[c] \in {"send", "wait"}
  BY DEF Asked
<1>2. Phase \in {"send", "wait"}
  BY <1>1, TlbAssumption DEF IInv, LockExact, Held, Phase
<1>. QED  BY <1>2 DEF IInv, CountExact

(* Nobody counts twice for a request and no answer is counted for the next *)
(* one, until a vCPU answers its own request, however many vCPUs there are *)
(* and interrupts come that nobody sent.                                   *)
THEOREM AnswersAlwaysExact == Spec => []AnswersExact
BY CountImpliesAnswers, Invariance, PTL

(* memory_mark_pages_* returns only after every vCPU has dropped the       *)
(* translations from before the change, again until a vCPU answers itself. *)
THEOREM AlwaysFlushedBeforeReturn == Spec => []FlushedBeforeReturn
<1>1. IInv => FlushedBeforeReturn
  BY DEF IInv, FlushedExact, FlushedBeforeReturn
<1>. QED  BY <1>1, Invariance, PTL

(* As long as only vCPUs send the interrupt, no request is denied and the  *)
(* handler's check of the count never stops the VM.                        *)
THEOREM HonestNeverFailsAlways == Spec => []HonestNeverFails
<1>1. IInv => HonestNeverFails
  <2>1. SUFFICES ASSUME IInv, extra = 0, NEW c \in Cpus, pc[c] = "denied"
                 PROVE  FALSE
    BY DEF IInv, HonestExact, HonestNeverFails
  <2>2. Phase = "denied"
    BY <2>1 DEF IInv, LockExact, Held, Phase
  <2>. QED  BY <2>1, <2>2 DEF IInv, HonestExact, RequestByPhase
<1>. QED  BY <1>1, Invariance, PTL

(* The variables keep their types.                                         *)
THEOREM TypeCorrect == Spec => []TypeOK
<1>1. IInv => TypeOK
  BY DEF IInv
<1>. QED  BY <1>1, Invariance, PTL

(* No more answers are counted than there are vCPUs.                       *)
CountBounded == ~own => num_responses <= Cardinality(Cpus)

(* The owner waits until the count equals the number of vCPUs: it cannot   *)
(* be overrun, and the wait be missed, unless a vCPU answers itself.       *)
THEOREM CountNeverOverrun == Spec => []CountBounded
<1>1. IInv => CountBounded
  <2>1. SUFFICES ASSUME IInv, ~own PROVE num_responses <= Cardinality(Cpus)
    BY DEF CountBounded
  <2>2. Cardinality(Cpus) \in Nat
    BY CpuSets
  <2>3. CASE Phase \notin {"send", "wait"}
    BY <2>1, <2>2, <2>3 DEF IInv, RequestByPhase
  <2>4. CASE Phase \in {"send", "wait"}
    <3>1. /\ rlock \in Cpus /\ received \in SUBSET Cpus /\ Adding \in SUBSET Cpus
          /\ num_responses \in Nat
      BY <2>1, <2>4 DEF IInv, Phase, TypeOK, Adding
    <3>2. /\ Cardinality(received) \in Nat /\ Cardinality(received) <= Cardinality(Cpus)
          /\ Cardinality(Adding) \in Nat /\ IsFiniteSet(Adding)
      BY <3>1, CpuSets
    <3>3. num_responses + Cardinality(Adding) = 1 + Cardinality(received)
      BY <2>1, <2>4 DEF IInv, CountExact
    <3>4. CASE rlock \in received
      <4>1. Adding # {}
        BY <2>1, <2>4, <3>1, <3>4 DEF IInv, FlagExact, Adding
      <4>2. Cardinality(Adding) # 0
        BY <3>2, <4>1, FS_EmptySet
      <4>. QED  BY <2>2, <3>1, <3>2, <3>3, <4>2
    <3>5. CASE rlock \notin received
      <4>1. received \subseteq Cpus \ {rlock}
        BY <3>1, <3>5
      <4>2. IsFiniteSet(Cpus \ {rlock}) /\ Cardinality(Cpus \ {rlock}) = Cardinality(Cpus) - 1
        BY <3>1, TlbAssumption, FS_RemoveElement
      <4>3. Cardinality(received) <= Cardinality(Cpus) - 1
        BY <4>1, <4>2, FS_Subset
      <4>. QED  BY <2>2, <3>1, <3>2, <3>3, <4>3
    <3>. QED  BY <3>4, <3>5
  <2>. QED  BY <2>3, <2>4
<1>. QED  BY <1>1, Invariance, PTL
==============================================================================

---------------------------- MODULE TlbShootdown ----------------------------
(***************************************************************************)
(* Changing page table entries on several vCPUs.                           *)
(*                                                                         *)
(* A vCPU that changed entries flushes its own TLB, publishes the region   *)
(* in one shared request, interrupts all the others and spins until each   *)
(* has flushed and counted itself.  Requests are serialized by a spinlock, *)
(* whose waiters answer interrupts while they spin.  An interrupt may come *)
(* that nobody sent: a flag per vCPU lets each answer once per request.    *)
(*                                                                         *)
(*   vm-common/kernel_interrupts.c (send_invalidate_tlb_ipi_and_wait,      *)
(*   vector 33), kernel_memory.c (memory_mark_pages_...)                   *)
(*                                                                         *)
(* Of the TLBs only what matters is kept: which vCPUs may still use a      *)
(* translation from before a change (every vCPU is taken to have cached    *)
(* the old one).  Stores are seen in program order, as on x86.  Boot,      *)
(* where g_interrupts_enabled is false and one vCPU runs, is left out.     *)
(***************************************************************************)
EXTENDS Naturals, FiniteSets

CONSTANTS
    Cpus,       \* g_num_cpus vCPUs
    Pages,      \* regions whose entries are changed
    MaxReqs,    \* bound: changes
    MaxExtra,   \* bound: interrupts nobody sent
    NoOne,      \* no owner
    NoPage      \* no region

ASSUME TlbAssumption ==
    /\ IsFiniteSet(Cpus) /\ NoOne \notin Cpus /\ NoPage \notin Pages
    /\ MaxReqs \in Nat /\ MaxExtra \in Nat

VARIABLES
    \* struct invalidate_tlb_request_t, and its lock
    addr, num_responses, in_progress, rlock,
    received,    \* vCPUs with invalidate_tlb_ipi_received set
    \* LAPIC: vector 33
    requested,   \* vCPUs with the interrupt pending
    in_service,  \* vCPUs that have accepted it and not signalled completion
    extra,       \* interrupts nobody sent, so far
    \* vCPUs
    pc,          \* where the thread is
    isr,         \* where the interrupt handler is
    page,        \* the region of a vCPU's change
    stale,       \* changes a vCPU's TLB may not reflect, by who made them
    reqs,        \* changes begun
    own,         \* some vCPU has answered its own request (history)
    panic        \* triple_fault

request == <<addr, num_responses, in_progress, rlock>>
lapic   == <<requested, in_service, extra>>
vars    == <<request, received, lapic, pc, isr, page, stale, reqs, own, panic>>

ThreadPc == {"idle", "lock", "sanity", "reset", "begin", "addr", "count", "send", "wait",
             "clear", "end", "unlock", "denied", "done"}
IsrPc    == {"none", "received", "progress", "responses", "flush", "mark", "add"}

TypeOK ==
    /\ addr \in Pages \cup {NoPage}
    /\ num_responses \in Nat
    /\ in_progress \in BOOLEAN /\ rlock \in Cpus \cup {NoOne}
    /\ received \subseteq Cpus /\ requested \subseteq Cpus /\ in_service \subseteq Cpus
    /\ extra \in 0 .. MaxExtra
    /\ pc \in [Cpus -> ThreadPc] /\ isr \in [Cpus -> IsrPc]
    /\ page \in [Cpus -> Pages \cup {NoPage}]
    /\ stale \in [Cpus -> SUBSET Cpus]
    /\ reqs \in 0 .. MaxReqs
    /\ own \in BOOLEAN /\ panic \in BOOLEAN

Init ==
    /\ addr = NoPage /\ num_responses = 0 /\ in_progress = FALSE /\ rlock = NoOne
    /\ received = {} /\ requested = {} /\ in_service = {} /\ extra = 0
    /\ pc = [c \in Cpus |-> "idle"] /\ isr = [c \in Cpus |-> "none"]
    /\ page = [c \in Cpus |-> NoPage]
    /\ stale = [c \in Cpus |-> {}]
    /\ reqs = 0
    /\ own = FALSE /\ panic = FALSE

(* The thread runs while its vCPU is not in the handler.                   *)
Step(c, from, to) ==
    /\ ~panic /\ isr[c] = "none"
    /\ pc[c] = from
    /\ pc' = [pc EXCEPT ![c] = to]

Handle(c, from, to) ==
    /\ ~panic
    /\ isr[c] = from
    /\ isr' = [isr EXCEPT ![c] = to]

(* invlpg of a region: the changes made to it so far are seen.             *)
Flush(c, p) == stale' = [stale EXCEPT ![c] = {i \in @ : page[i] # p}]

------------------------------------------------------------------------------
(* memory_mark_pages_*, then invlpg on this vCPU.                          *)
MarkPages(c, p) ==
    /\ reqs < MaxReqs
    /\ Step(c, "idle", "lock")
    /\ reqs' = reqs + 1
    /\ page' = [page EXCEPT ![c] = p]
    /\ stale' = [d \in Cpus |->
                   IF d = c THEN {i \in stale[d] : page[i] # p /\ i # c} ELSE stale[d] \cup {c}]
    /\ UNCHANGED <<request, received, lapic, isr, own, panic>>

rest == <<lapic, isr, page, stale, reqs, own, panic>>

LockRequest(c) ==
    /\ Step(c, "lock", "sanity")
    /\ rlock = NoOne
    /\ rlock' = c
    /\ UNCHANGED <<addr, num_responses, in_progress, received, rest>>

(* An earlier request that is not over denies this one.                    *)
SanityCheck(c) ==
    /\ Step(c, "sanity", IF in_progress \/ num_responses # 0 THEN "denied" ELSE "reset")
    /\ UNCHANGED <<request, received, rest>>

(* Slip: the flags of the last request stay set.                            *)
ResetReceived_none(c) ==
    /\ Step(c, "reset", "begin")
    /\ UNCHANGED <<request, received, rest>>

ResetReceived(c) ==
    /\ Step(c, "reset", "begin")
    /\ received' = {}
    /\ UNCHANGED <<request, rest>>

SetInProgress(c) ==
    /\ Step(c, "begin", "addr")
    /\ in_progress' = TRUE
    /\ UNCHANGED <<addr, num_responses, rlock, received, rest>>

SetAddr(c) ==
    /\ Step(c, "addr", "count")
    /\ addr' = page[c]
    /\ UNCHANGED <<num_responses, in_progress, rlock, received, rest>>

SetResponses(c) ==
    /\ Step(c, "count", "send")
    /\ num_responses' = 1
    /\ UNCHANGED <<addr, in_progress, rlock, received, rest>>

(* All excluding self, in one store to the ICR.                            *)
SendIpi(c) ==
    /\ Step(c, "send", "wait")
    /\ requested' = requested \cup (Cpus \ {c})
    /\ UNCHANGED <<request, received, in_service, extra, isr, page, stale, reqs, own, panic>>

(* Slip: one answer is not waited for.                                      *)
AllAnswered_less == num_responses + 1 >= Cardinality(Cpus)

AllAnswered == num_responses = Cardinality(Cpus)

WaitResponses(c) ==
    /\ Step(c, "wait", "clear")
    /\ AllAnswered
    /\ UNCHANGED <<request, received, rest>>

(* Slip: the count is left for the next request.                            *)
ClearResponses_kept(c) ==
    /\ Step(c, "clear", "end")
    /\ UNCHANGED <<request, received, rest>>

ClearResponses(c) ==
    /\ Step(c, "clear", "end")
    /\ num_responses' = 0
    /\ UNCHANGED <<addr, in_progress, rlock, received, rest>>

ClearInProgress(c) ==
    /\ Step(c, "end", "unlock")
    /\ in_progress' = FALSE
    /\ UNCHANGED <<addr, num_responses, rlock, received, rest>>

UnlockRequest(c) ==
    /\ Step(c, "unlock", "done") \/ Step(c, "denied", "idle")
    /\ rlock' = NoOne
    /\ UNCHANGED <<addr, num_responses, in_progress, received, rest>>

Return(c) ==
    /\ Step(c, "done", "idle")
    /\ UNCHANGED <<request, received, rest>>

Thread(c) ==
    \/ LockRequest(c) \/ SanityCheck(c) \/ ResetReceived(c) \/ SetInProgress(c) \/ SetAddr(c)
    \/ SetResponses(c) \/ SendIpi(c) \/ WaitResponses(c) \/ ClearResponses(c)
    \/ ClearInProgress(c) \/ UnlockRequest(c) \/ Return(c)

------------------------------------------------------------------------------
(* Vector 33, with interrupts off.                                         *)

(* The LAPIC delivers it when no earlier one is in service.                *)
Deliver(c) ==
    /\ c \in requested \ in_service
    /\ Handle(c, "none", "received")
    /\ requested' = requested \ {c} /\ in_service' = in_service \cup {c}
    /\ UNCHANGED <<request, received, extra, pc, page, stale, reqs, own, panic>>

handled == <<request, requested, extra, pc, page, reqs>>

(* Slip: every interrupt of a request is answered.                          *)
CheckReceived_skip(c) ==
    /\ Handle(c, "received", "progress")
    /\ UNCHANGED <<handled, received, in_service, stale, own, panic>>

(* An ignored interrupt is not completed at the LAPIC.                     *)
CheckReceived(c) ==
    /\ Handle(c, "received", IF c \in received THEN "none" ELSE "progress")
    /\ UNCHANGED <<handled, received, in_service, stale, own, panic>>

CheckProgress(c) ==
    /\ Handle(c, "progress", IF in_progress THEN "responses" ELSE "none")
    /\ UNCHANGED <<handled, received, in_service, stale, own, panic>>

CheckResponses(c) ==
    /\ Handle(c, "responses", "flush")
    /\ panic' = (num_responses = 0)
    /\ UNCHANGED <<handled, received, in_service, stale, own>>

HandlerFlush(c) ==
    /\ Handle(c, "flush", "mark")
    /\ Flush(c, addr)
    /\ UNCHANGED <<handled, received, in_service, own, panic>>

MarkReceived(c) ==
    /\ Handle(c, "mark", "add")
    /\ received' = received \cup {c}
    /\ UNCHANGED <<handled, in_service, stale, own, panic>>

AddResponse(c) ==
    /\ Handle(c, "add", "none")
    /\ num_responses' = num_responses + 1
    /\ in_service' = in_service \ {c}
    /\ own' = (own \/ rlock = c)
    /\ UNCHANGED <<addr, in_progress, rlock, requested, extra, pc, page, reqs, received,
                   stale, panic>>

Handler(c) ==
    \/ CheckReceived(c) \/ CheckProgress(c) \/ CheckResponses(c) \/ HandlerFlush(c)
    \/ MarkReceived(c) \/ AddResponse(c)

(* An interrupt that no vCPU sent.                                         *)
ExtraIpi(c) ==
    /\ ~panic /\ extra < MaxExtra
    /\ extra' = extra + 1
    /\ requested' = requested \cup {c}
    /\ UNCHANGED <<request, received, in_service, pc, isr, page, stale, reqs, own, panic>>

------------------------------------------------------------------------------
Next ==
    \E c \in Cpus :
        \/ \E p \in Pages : MarkPages(c, p)
        \/ Thread(c) \/ Deliver(c) \/ Handler(c) \/ ExtraIpi(c)

Spec == Init /\ [][Next]_vars

(* vCPUs run, and an interrupt that was sent arrives.                      *)
Fairness == \A c \in Cpus : WF_vars(Thread(c)) /\ WF_vars(Deliver(c)) /\ WF_vars(Handler(c))

FairSpec == Spec /\ Fairness

------------------------------------------------------------------------------
(* Properties.                                                             *)

(* The vCPUs that have set their flag and are about to count themselves.   *)
Adding == {c \in Cpus : isr[c] = "add"}

Asked == {c \in Cpus : pc[c] \in {"send", "wait"}}

(* While answers are collected, the count is one more than the vCPUs that  *)
(* have answered: nobody counts twice for a request, although interrupts   *)
(* come that nobody sent, and no answer is counted for the next request.   *)
(* (Until a vCPU that waits for answers is interrupted itself, answers its *)
(* own request and is counted a second time.)                              *)
AnswersExact ==
    Asked # {} /\ ~own => num_responses + Cardinality(Adding) = 1 + Cardinality(received)

(* When memory_mark_pages_* returns, no vCPU uses a translation from       *)
(* before the change, again unless a vCPU has answered its own request.    *)
FlushedBeforeReturn ==
    \A c \in Cpus : pc[c] = "done" /\ ~own => \A d \in Cpus : c \notin stale[d]

(* Without extra interrupts no request is denied and no vCPU panics.       *)
HonestNeverFails ==
    extra = 0 => ~panic /\ \A c \in Cpus : pc[c] # "denied"

(* Every change of the page tables comes to an end, also when several      *)
(* vCPUs make one at once and wait for each other's answers.               *)
ShootdownCompletes ==
    \A c \in Cpus : pc[c] # "idle" ~> (pc[c] = "idle" \/ extra > 0)
==============================================================================

------------------------------- MODULE SysvSem -------------------------------
(***************************************************************************)
(* System V semaphores of the LibOS (libos/src/sys/libos_sem.c, the path   *)
(* that does not forward to the host).                                     *)
(*                                                                         *)
(* A fixed table of one-element sets under one lock.  A semop that cannot  *)
(* be applied registers itself as a waiter of its kind, drops the lock and *)
(* waits for the set's only event, an auto-clearing PAL event; whoever     *)
(* changes the value sets the event, and one woken waiter passes it on.    *)
(*                                                                         *)
(* A critical section of g_sysv_sem_lock is one step.  The PAL event is    *)
(* used at the level of what module PalEvent establishes of it: a set      *)
(* leaves it signaled, and one wait takes the signal.                      *)
(***************************************************************************)
EXTENDS Integers, FiniteSets

CONSTANTS
    Threads,    \* guest threads
    Slots,      \* indices of g_sysv_sem_sets
    Keys,       \* keys other than IPC_PRIVATE
    Deltas,     \* the sem_op values used on each set
    MaxValue,   \* SEMVMX, 32767 in the code
    MaxOps,     \* bound: system calls in all
    Private     \* IPC_PRIVATE

ASSUME SemAssumption ==
    /\ IsFiniteSet(Threads)
    /\ Slots \subseteq Nat
    /\ Private \notin Keys
    /\ Deltas \in [Slots -> SUBSET Int]
    /\ MaxValue \in Nat
    /\ MaxOps \in Nat

VARIABLES
    \* struct sysv_sem_set
    used, removed, key, value, decrement_waiters, zero_waiters,
    signaled,     \* the set's changed_event
    \* do_semop
    pc,           \* where each thread is
    call,         \* the arguments of a thread's semop or semtimedop
    registered,   \* registered_waiter
    ops           \* system calls begun

sets == <<used, removed, key, value, decrement_waiters, zero_waiters, signaled>>
vars == <<sets, pc, call, registered, ops>>

(* how: plain semop, IPC_NOWAIT, or semtimedop with a timeout.             *)
Calls  == UNION {[semid : {s}, sem_op : Deltas[s], how : {"block", "nowait", "timed"}] : s \in Slots}
NoCall == [how |-> "none"]

TypeOK ==
    /\ used \in [Slots -> BOOLEAN] /\ removed \in [Slots -> BOOLEAN]
    /\ key \in [Slots -> Keys \cup {Private}]
    /\ value \in [Slots -> 0 .. MaxValue]
    /\ decrement_waiters \in [Slots -> Nat] /\ zero_waiters \in [Slots -> Nat]
    /\ signaled \in [Slots -> BOOLEAN]
    /\ pc \in [Threads -> {"idle", "try", "wait", "expired"}]
    /\ call \in [Threads -> Calls \cup {NoCall}]
    /\ registered \in [Threads -> BOOLEAN]
    /\ ops \in 0 .. MaxOps

Init ==
    /\ used = [s \in Slots |-> FALSE] /\ removed = [s \in Slots |-> FALSE]
    /\ key = [s \in Slots |-> Private] /\ value = [s \in Slots |-> 0]
    /\ decrement_waiters = [s \in Slots |-> 0] /\ zero_waiters = [s \in Slots |-> 0]
    /\ signaled = [s \in Slots |-> FALSE]
    /\ pc = [t \in Threads |-> "idle"]
    /\ call = [t \in Threads |-> NoCall]
    /\ registered = [t \in Threads |-> FALSE]
    /\ ops = 0

Begin(t) ==
    /\ pc[t] = "idle" /\ ops < MaxOps
    /\ ops' = ops + 1

Live(s) == used[s] /\ ~removed[s]

PalEventSet(s) == signaled' = [signaled EXCEPT ![s] = TRUE]

------------------------------------------------------------------------------
(* libos_syscall_semget with nsems = 1.                                    *)

Matching(k) == {s \in Slots : k # Private /\ used[s] /\ key[s] = k}
Free        == {s \in Slots : ~used[s]}

CreateSet(k, s) ==
    /\ used' = [used EXCEPT ![s] = TRUE] /\ removed' = [removed EXCEPT ![s] = FALSE]
    /\ key' = [key EXCEPT ![s] = k] /\ value' = [value EXCEPT ![s] = 0]
    /\ decrement_waiters' = [decrement_waiters EXCEPT ![s] = 0]
    /\ zero_waiters' = [zero_waiters EXCEPT ![s] = 0]
    /\ signaled' = [signaled EXCEPT ![s] = FALSE]

(* A known key gives its slot or EEXIST; an unknown one ENOENT, ENOSPC,    *)
(* the first free slot or, when no event can be created for it, ENOMEM.    *)
semget(t, k, create) ==
    /\ Begin(t)
    /\ \/ UNCHANGED sets
       \/ /\ Matching(k) = {} /\ create
          /\ \E s \in Free : (\A f \in Free : s <= f) /\ CreateSet(k, s)
    /\ UNCHANGED <<pc, call, registered>>

------------------------------------------------------------------------------
(* libos_syscall_semctl; the GET commands change nothing.                  *)

IPC_RMID(s) ==
    /\ removed' = [removed EXCEPT ![s] = TRUE]
    /\ PalEventSet(s)
    /\ UNCHANGED value

SETVAL(s, v) ==
    /\ value' = [value EXCEPT ![s] = v]
    /\ PalEventSet(s)
    /\ UNCHANGED removed

semctl(t, s) ==
    /\ Begin(t)
    /\ Live(s)
    /\ IPC_RMID(s) \/ \E v \in 0 .. MaxValue : SETVAL(s, v)
    /\ UNCHANGED <<used, key, decrement_waiters, zero_waiters, pc, call, registered>>

------------------------------------------------------------------------------
(* do_semop.                                                               *)

semop(t, c) ==
    /\ Begin(t)
    /\ pc' = [pc EXCEPT ![t] = "try"]
    /\ call' = [call EXCEPT ![t] = c]
    /\ UNCHANGED <<sets, registered>>

(* Slip: the value is compared before the addition.                         *)
CanApply_range(v, d) ==
    \/ d < 0 /\ v >= -d
    \/ d = 0 /\ v = 0
    \/ d > 0 /\ v <= MaxValue

CanApply(v, d) ==
    \/ d < 0 /\ v >= -d
    \/ d = 0 /\ v = 0
    \/ d > 0 /\ v <= MaxValue - d

(* The waiter counts after n more (or, negative, fewer) waiters of t's kind. *)
CountWaiters(t, n) ==
    LET s == call[t].semid IN
    IF call[t].sem_op < 0
    THEN /\ decrement_waiters' = [decrement_waiters EXCEPT ![s] = @ + n]
         /\ UNCHANGED zero_waiters
    ELSE /\ zero_waiters' = [zero_waiters EXCEPT ![s] = @ + n]
         /\ UNCHANGED decrement_waiters

Unregister(t) ==
    /\ CountWaiters(t, IF registered[t] THEN -1 ELSE 0)
    /\ registered' = [registered EXCEPT ![t] = FALSE]

Finish(t) ==
    /\ pc' = [pc EXCEPT ![t] = "idle"]
    /\ call' = [call EXCEPT ![t] = NoCall]

(* Slip: a waiter of a removed set leaves without waking the next one.      *)
SemopRemoved_alone(t) ==
    /\ ~Live(call[t].semid)
    /\ Finish(t)
    /\ Unregister(t)
    /\ UNCHANGED <<value, signaled>>

(* The set is gone: pass the event on to the waiters that are left.        *)
SemopRemoved(t) ==
    LET s == call[t].semid IN
    /\ ~Live(s)
    /\ Finish(t)
    /\ Unregister(t)
    /\ IF registered[t] /\ (decrement_waiters'[s] > 0 \/ zero_waiters'[s] > 0)
       THEN PalEventSet(s) ELSE UNCHANGED signaled
    /\ UNCHANGED value

(* Slip: only a post sets the event.                                        *)
SemopApply_postonly(t) ==
    LET s == call[t].semid IN
    /\ Live(s) /\ CanApply(value[s], call[t].sem_op)
    /\ Finish(t)
    /\ Unregister(t)
    /\ value' = [value EXCEPT ![s] = @ + call[t].sem_op]
    /\ IF call[t].sem_op > 0 /\ decrement_waiters'[s] > 0
       THEN PalEventSet(s) ELSE UNCHANGED signaled

SemopApply(t) ==
    LET s == call[t].semid IN
    /\ Live(s) /\ CanApply(value[s], call[t].sem_op)
    /\ Finish(t)
    /\ Unregister(t)
    /\ value' = [value EXCEPT ![s] = @ + call[t].sem_op]
    /\ IF (value'[s] > 0 /\ decrement_waiters'[s] > 0) \/ (value'[s] = 0 /\ zero_waiters'[s] > 0)
       THEN PalEventSet(s) ELSE UNCHANGED signaled

SemopFails(t) ==
    LET s == call[t].semid IN
    /\ Live(s) /\ ~CanApply(value[s], call[t].sem_op)
    /\ call[t].sem_op > 0 \/ call[t].how = "nowait"          \* ERANGE, EAGAIN
    /\ Finish(t)
    /\ UNCHANGED <<registered, value, decrement_waiters, zero_waiters, signaled>>

SemopSleeps(t) ==
    LET s == call[t].semid IN
    /\ Live(s) /\ ~CanApply(value[s], call[t].sem_op)
    /\ call[t].sem_op <= 0 /\ call[t].how # "nowait"
    /\ pc' = [pc EXCEPT ![t] = "wait"]
    /\ CountWaiters(t, IF registered[t] THEN 0 ELSE 1)
    /\ registered' = [registered EXCEPT ![t] = TRUE]
    /\ UNCHANGED <<value, signaled, call>>

SemopTry(t) ==
    /\ pc[t] = "try"
    /\ SemopRemoved(t) \/ SemopApply(t) \/ SemopFails(t) \/ SemopSleeps(t)
    /\ UNCHANGED <<used, removed, key, ops>>

(* PalEventWait took the signal.                                           *)
Woken(t) ==
    /\ pc[t] = "wait" /\ signaled[call[t].semid]
    /\ signaled' = [signaled EXCEPT ![call[t].semid] = FALSE]
    /\ pc' = [pc EXCEPT ![t] = "try"]
    /\ UNCHANGED <<used, removed, key, value, decrement_waiters, zero_waiters, call,
                   registered, ops>>

(* PalEventWait timed out or, signaled or not, had no memory to register   *)
(* the timeout; the waiter count is corrected a while later.               *)
WaitFails(t) ==
    /\ pc[t] = "wait" /\ call[t].how = "timed"
    /\ pc' = [pc EXCEPT ![t] = "expired"]
    /\ UNCHANGED <<sets, call, registered, ops>>

(* Slip: a timed-out waiter stays counted.                                  *)
SemopExpired_counted(t) ==
    /\ pc[t] = "expired"
    /\ Finish(t)
    /\ registered' = [registered EXCEPT ![t] = FALSE]
    /\ UNCHANGED <<sets, ops>>

SemopExpired(t) ==
    /\ pc[t] = "expired"
    /\ Finish(t)
    /\ Unregister(t)
    /\ UNCHANGED <<used, removed, key, value, signaled, ops>>

------------------------------------------------------------------------------
Call(t) ==
    \/ \E k \in Keys \cup {Private}, create \in BOOLEAN : semget(t, k, create)
    \/ \E s \in Slots : semctl(t, s)
    \/ \E c \in Calls : semop(t, c)

Progress(t) == SemopTry(t) \/ Woken(t) \/ SemopExpired(t)

Next == \E t \in Threads : Call(t) \/ Progress(t) \/ WaitFails(t)

Spec == Init /\ [][Next]_vars

(* A thread inside semop runs, and the event releases a waiter when it is  *)
(* signaled (SignalReleasesWaiter of PalEvent); timeouts are not relied on.*)
FairSpec == Spec /\ \A t \in Threads : WF_vars(SemopTry(t)) /\ WF_vars(Woken(t))
                                       /\ WF_vars(SemopExpired(t))

------------------------------------------------------------------------------
(* Properties.                                                             *)

Waiting(s) == {t \in Threads : pc[t] = "wait" /\ call[t].semid = s}

(* A woken waiter that is about to look at the set.                        *)
Carrier(s) == \E t \in Threads : pc[t] = "try" /\ registered[t] /\ call[t].semid = s

(* The waiter counts, which decide whether a change sets the event at all, *)
(* are exact through wakeups, timeouts and removal, and never underflow.   *)
WaitersExact ==
    \A s \in Slots :
        /\ decrement_waiters[s] =
              Cardinality({t \in Threads : registered[t] /\ call[t].semid = s /\ call[t].sem_op < 0})
        /\ zero_waiters[s] =
              Cardinality({t \in Threads : registered[t] /\ call[t].semid = s /\ call[t].sem_op = 0})

(* Sleepers whose operation could be applied now.                          *)
Ready(s) == {t \in Waiting(s) : Live(s) /\ CanApply(value[s], call[t].sem_op)}

(* The sets used the way do_semop is written for: post and wait for one    *)
(* unit.                                                                   *)
Counting == {s \in Slots : Deltas[s] \subseteq {-1, 1}}

(* The one event of a set wakes one waiter at a time, and strands nobody:  *)
(* while a thread sleeps on a removed set, or although its operation could *)
(* be applied, the event is signaled or a woken waiter is on its way to    *)
(* pass it on.                                                             *)
NobodyStranded ==
    \A s \in Slots :
        (removed[s] /\ Waiting(s) # {}) \/ (s \in Counting /\ Ready(s) # {})
            => signaled[s] \/ Carrier(s)

(* Every waiter of a removed set returns, and units do not stay while      *)
(* threads wait for them.                                                  *)
WaitersReleased ==
    /\ \A t \in Threads : (pc[t] = "wait" /\ removed[call[t].semid]) ~> pc[t] = "idle"
    /\ \A s \in Counting : Ready(s) # {} ~> Ready(s) = {}
==============================================================================

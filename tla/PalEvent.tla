------------------------------ MODULE PalEvent ------------------------------
(***************************************************************************)
(* A PAL event of the VM hosts, over the kernel's scheduler and timeouts.  *)
(*                                                                         *)
(* An event is a signaled word, a count of waiters and a spinlock.  A      *)
(* waiter that finds the word clear goes to sleep on it: it takes the      *)
(* scheduler's thread-list lock, drops the event's lock, marks itself      *)
(* blocked and lets the context switch drop the thread-list lock.  A       *)
(* setter wakes every thread blocked on the word.  A wait with a timeout   *)
(* registers the deadline in a list that CPU0's timer interrupt walks: an  *)
(* expired entry wakes the threads blocked on its word and is removed.     *)
(*                                                                         *)
(*   vm-common/pal_common_events.c, kernel_sched.c, kernel_time.c,         *)
(*   kernel_interrupts.c (vector 32)                                       *)
(*                                                                         *)
(* LibOS locks, semaphores and thread wakeups are all built on this event. *)
(* Which runnable thread a CPU picks is left out: a thread that is not     *)
(* blocked runs.  Time is abstracted to the set of waits whose deadline    *)
(* has passed.                                                             *)
(***************************************************************************)
EXTENDS Naturals, FiniteSets

CONSTANTS
    Threads,        \* threads that use the event
    AutoClear,      \* event.auto_clear
    InitSignaled,   \* init_signaled of pal_common_event_create
    Timeouts,       \* timeout_us arguments used: subset of {"none", "zero", "timed"}
    MaxOps,         \* bound: operations per thread
    NoOne,          \* no owner
    Isr             \* the timer interrupt handler on CPU0, as a lock owner

ASSUME EventAssumption ==
    /\ IsFiniteSet(Threads)
    /\ NoOne \notin Threads /\ Isr \notin Threads /\ NoOne # Isr
    /\ AutoClear \in BOOLEAN /\ InitSignaled \in BOOLEAN
    /\ Timeouts \subseteq {"none", "zero", "timed"}
    /\ MaxOps \in Nat

VARIABLES
    signaled,      \* event.signaled
    waiters_cnt,   \* event.waiters_cnt
    elock,         \* event.lock
    llock,         \* g_thread_list_lock
    tlock,         \* g_pending_timeouts_list_lock
    blocked,       \* threads with state THREAD_BLOCKED, blocked_on = &signaled
    pending,       \* waits in g_pending_timeouts_list
    expired,       \* timed waits whose deadline has passed
    now,           \* what the interrupt handler's get_time_in_us saw expired
    pc,            \* where each thread is
    timeout,       \* timeout_us of a thread's wait
    res,           \* what a thread's last wait returned
    ops            \* operations a thread has begun

vars == <<signaled, waiters_cnt, elock, llock, tlock, blocked, pending, expired,
          now, pc, timeout, res, ops>>

locks == <<elock, llock, tlock>>
timer == <<tlock, pending, expired, now>>

SetPc  == {"s_lock", "s_store", "s_wake", "s_unlock"}
WaitPc == {"w_lock", "w_register", "w_enter", "w_check", "w_list", "w_release",
           "w_block", "w_asleep", "w_out", "w_dereg"}
Counted == {"w_check", "w_list", "w_release", "w_block", "w_asleep", "w_out"}

TypeOK ==
    /\ signaled \in BOOLEAN
    /\ waiters_cnt \in 0 .. Cardinality(Threads)
    /\ elock \in Threads \cup {NoOne}
    /\ llock \in Threads \cup {NoOne}
    /\ tlock \in {NoOne, Isr}
    /\ blocked \subseteq Threads
    /\ pending \subseteq Threads
    /\ expired \subseteq Threads
    /\ now \subseteq Threads
    /\ pc \in [Threads -> {"idle", "c_lock"} \cup SetPc \cup WaitPc]
    /\ timeout \in [Threads -> {"none", "zero", "timed"}]
    /\ res \in [Threads -> {"none", "ok", "again", "nomem"}]
    /\ ops \in [Threads -> 0 .. MaxOps]

(* pal_common_event_create.                                                *)
Init ==
    /\ signaled = InitSignaled /\ waiters_cnt = 0
    /\ elock = NoOne /\ llock = NoOne /\ tlock = NoOne
    /\ blocked = {} /\ pending = {} /\ expired = {} /\ now = {}
    /\ pc = [t \in Threads |-> "idle"]
    /\ timeout = [t \in Threads |-> "none"]
    /\ res = [t \in Threads |-> "none"]
    /\ ops = [t \in Threads |-> 0]

Step(t, from, to) ==
    /\ pc[t] = from
    /\ pc' = [pc EXCEPT ![t] = to]

Begin(t, to) ==
    /\ ops[t] < MaxOps
    /\ Step(t, "idle", to)
    /\ ops' = [ops EXCEPT ![t] = @ + 1]

------------------------------------------------------------------------------
(* pal_common_event_set.                                                   *)

CallSet(t) ==
    /\ Begin(t, "s_lock")
    /\ UNCHANGED <<signaled, waiters_cnt, locks, blocked, pending, expired, now,
                   timeout, res>>

SetLock(t) ==
    /\ Step(t, "s_lock", "s_store")
    /\ elock = NoOne
    /\ elock' = t
    /\ UNCHANGED <<signaled, waiters_cnt, llock, timer, blocked, timeout, res, ops>>

(* Slip: one waiter is taken to be nobody.                                  *)
SetStore_offbyone(t) ==
    /\ Step(t, "s_store", IF waiters_cnt > 1 THEN "s_wake" ELSE "s_unlock")
    /\ signaled' = TRUE
    /\ UNCHANGED <<waiters_cnt, locks, blocked, pending, expired, now, timeout, res, ops>>

SetStore(t) ==
    /\ Step(t, "s_store", IF waiters_cnt > 0 THEN "s_wake" ELSE "s_unlock")
    /\ signaled' = TRUE
    /\ UNCHANGED <<waiters_cnt, locks, blocked, pending, expired, now, timeout, res, ops>>

(* sched_thread_wakeup: one critical section of the thread-list lock.      *)
sched_thread_wakeup ==
    /\ llock = NoOne
    /\ blocked' = {}

SetWake(t) ==
    /\ Step(t, "s_wake", "s_unlock")
    /\ sched_thread_wakeup
    /\ UNCHANGED <<signaled, waiters_cnt, locks, pending, expired, now, timeout, res, ops>>

(* Slip: the lock is kept when nobody was woken.                            *)
SetUnlock_kept(t) ==
    /\ Step(t, "s_unlock", "idle")
    /\ elock' = IF waiters_cnt > 0 THEN NoOne ELSE elock
    /\ UNCHANGED <<signaled, waiters_cnt, llock, timer, blocked, timeout, res, ops>>

SetUnlock(t) ==
    /\ Step(t, "s_unlock", "idle")
    /\ elock' = NoOne
    /\ UNCHANGED <<signaled, waiters_cnt, llock, timer, blocked, timeout, res, ops>>

Set(t) == SetLock(t) \/ SetStore(t) \/ SetWake(t) \/ SetUnlock(t)

------------------------------------------------------------------------------
(* pal_common_event_clear: a critical section with a single store.         *)

CallClear(t) ==
    /\ Begin(t, "c_lock")
    /\ UNCHANGED <<signaled, waiters_cnt, locks, blocked, pending, expired, now,
                   timeout, res>>

Clear(t) ==
    /\ Step(t, "c_lock", "idle")
    /\ elock = NoOne
    /\ signaled' = FALSE
    /\ UNCHANGED <<waiters_cnt, locks, blocked, pending, expired, now, timeout, res, ops>>

------------------------------------------------------------------------------
(* pal_common_event_wait.                                                  *)

CallWait(t, k) ==
    /\ Begin(t, "w_lock")
    /\ timeout' = [timeout EXCEPT ![t] = k]
    /\ expired' = expired \ {t}
    /\ UNCHANGED <<signaled, waiters_cnt, locks, blocked, pending, now, res>>

WaitLock(t) ==
    /\ Step(t, "w_lock", IF timeout[t] = "timed" THEN "w_register" ELSE "w_enter")
    /\ elock = NoOne
    /\ elock' = t
    /\ UNCHANGED <<signaled, waiters_cnt, llock, timer, blocked, timeout, res, ops>>

(* register_timeout, with interrupts off.                                  *)
RegisterTimeout(t) ==
    /\ Step(t, "w_register", "w_enter")
    /\ tlock = NoOne
    /\ pending' = pending \cup {t}
    /\ UNCHANGED <<signaled, waiters_cnt, locks, blocked, expired, now, timeout, res, ops>>

RegisterFails(t) ==
    /\ Step(t, "w_register", "idle")
    /\ elock' = NoOne
    /\ res' = [res EXCEPT ![t] = "nomem"]
    /\ UNCHANGED <<signaled, waiters_cnt, llock, timer, blocked, timeout, ops>>

WaitEnter(t) ==
    /\ Step(t, "w_enter", "w_check")
    /\ waiters_cnt' = waiters_cnt + 1
    /\ UNCHANGED <<signaled, locks, blocked, pending, expired, now, timeout, res, ops>>

(* One turn of the loop: exchange or load of the word, then the deadline.  *)
WaitCheck(t) ==
    /\ \/ /\ signaled
          /\ Step(t, "w_check", "w_out")
          /\ signaled' = ~AutoClear
          /\ res' = [res EXCEPT ![t] = "ok"]
       \/ /\ ~signaled
          /\ timeout[t] = "zero" \/ (timeout[t] = "timed" /\ t \in expired)
          /\ Step(t, "w_check", "w_out")
          /\ res' = [res EXCEPT ![t] = "again"]
          /\ UNCHANGED signaled
       \/ /\ ~signaled
          /\ timeout[t] # "zero" /\ ~(timeout[t] = "timed" /\ t \in expired)
          /\ Step(t, "w_check", "w_list")
          /\ UNCHANGED <<signaled, res>>
    /\ UNCHANGED <<waiters_cnt, locks, blocked, pending, expired, now, timeout, ops>>

(* Slip: the event's lock is dropped before the thread-list lock is taken.  *)
SleepLock_late(t) ==
    /\ Step(t, "w_list", "w_block")
    /\ llock = NoOne
    /\ elock' = NoOne
    /\ UNCHANGED <<signaled, waiters_cnt, llock, timer, blocked, timeout, res, ops>>

(* sched_thread_wait: thread-list lock, then release of the event's lock,  *)
SleepLock(t) ==
    /\ Step(t, "w_list", "w_release")
    /\ llock = NoOne
    /\ llock' = t
    /\ UNCHANGED <<signaled, waiters_cnt, elock, timer, blocked, timeout, res, ops>>

SleepRelease(t) ==
    /\ Step(t, "w_release", "w_block")
    /\ elock' = NoOne
    /\ UNCHANGED <<signaled, waiters_cnt, llock, timer, blocked, timeout, res, ops>>

(* then THREAD_BLOCKED; the context switch drops the thread-list lock.     *)
SleepBlock(t) ==
    /\ Step(t, "w_block", "w_asleep")
    /\ blocked' = blocked \cup {t}
    /\ llock' = NoOne
    /\ UNCHANGED <<signaled, waiters_cnt, elock, timer, timeout, res, ops>>

(* Scheduled again: the thread takes the event's lock back.                *)
Wake(t) ==
    /\ Step(t, "w_asleep", "w_check")
    /\ t \notin blocked
    /\ elock = NoOne
    /\ elock' = t
    /\ UNCHANGED <<signaled, waiters_cnt, llock, timer, blocked, timeout, res, ops>>

(* Slip: only a wait that was satisfied leaves the count.                   *)
WaitOut_counted(t) ==
    /\ Step(t, "w_out", IF timeout[t] = "timed" THEN "w_dereg" ELSE "idle")
    /\ waiters_cnt' = IF res[t] = "ok" THEN waiters_cnt - 1 ELSE waiters_cnt
    /\ elock' = NoOne
    /\ UNCHANGED <<signaled, llock, timer, blocked, timeout, res, ops>>

WaitOut(t) ==
    /\ Step(t, "w_out", IF timeout[t] = "timed" THEN "w_dereg" ELSE "idle")
    /\ waiters_cnt' = waiters_cnt - 1
    /\ elock' = NoOne
    /\ UNCHANGED <<signaled, llock, timer, blocked, timeout, res, ops>>

DeregisterTimeout(t) ==
    /\ Step(t, "w_dereg", "idle")
    /\ tlock = NoOne
    /\ pending' = pending \ {t}
    /\ UNCHANGED <<signaled, waiters_cnt, locks, blocked, expired, now, timeout, res, ops>>

Wait(t) ==
    \/ WaitLock(t) \/ RegisterTimeout(t) \/ WaitEnter(t) \/ WaitCheck(t)
    \/ SleepLock(t) \/ SleepRelease(t) \/ SleepBlock(t) \/ Wake(t)
    \/ WaitOut(t) \/ DeregisterTimeout(t)

------------------------------------------------------------------------------
(* Time, and the timer interrupt on CPU0.                                  *)

Expire(t) ==
    /\ pc[t] \in WaitPc \ {"w_lock"} /\ timeout[t] = "timed" /\ t \notin expired
    /\ expired' = expired \cup {t}
    /\ UNCHANGED <<signaled, waiters_cnt, locks, blocked, pending, now, pc, timeout,
                   res, ops>>

(* notify_about_timeouts_uninterruptable reads the clock, takes the lock,  *)
(* wakes and removes what has expired, and drops the lock.                 *)
TimerInterrupt ==
    /\ tlock = NoOne
    /\ tlock' = Isr
    /\ now' = expired
    /\ UNCHANGED <<signaled, waiters_cnt, elock, llock, blocked, pending, expired, pc,
                   timeout, res, ops>>

(* Slip: the interrupt does not wait for the thread-list lock.              *)
TimerNotify_trylock(t) ==
    /\ tlock = Isr /\ t \in pending \cap now
    /\ sched_thread_wakeup \/ (llock # NoOne /\ UNCHANGED blocked)
    /\ pending' = pending \ {t}
    /\ UNCHANGED <<signaled, waiters_cnt, locks, expired, now, pc, timeout, res, ops>>

TimerNotify(t) ==
    /\ tlock = Isr /\ t \in pending \cap now
    /\ sched_thread_wakeup
    /\ pending' = pending \ {t}
    /\ UNCHANGED <<signaled, waiters_cnt, locks, expired, now, pc, timeout, res, ops>>

TimerReturn ==
    /\ tlock = Isr /\ pending \cap now = {}
    /\ tlock' = NoOne
    /\ now' = {}
    /\ UNCHANGED <<signaled, waiters_cnt, elock, llock, blocked, pending, expired, pc,
                   timeout, res, ops>>

Timer == TimerInterrupt \/ (\E t \in Threads : TimerNotify(t)) \/ TimerReturn

------------------------------------------------------------------------------
Next ==
    \/ \E t \in Threads :
          \/ CallSet(t) \/ CallClear(t) \/ (\E k \in Timeouts : CallWait(t, k))
          \/ Set(t) \/ Clear(t) \/ Wait(t) \/ RegisterFails(t) \/ Expire(t)
    \/ Timer

Spec == Init /\ [][Next]_vars

(* Threads run inside the kernel until they block, the timer ticks         *)
(* forever, deadlines pass.  Only the timer's lock is taken for ever by    *)
(* somebody else; a thread spinning on it gets it between two ticks.       *)
Fairness ==
    /\ WF_vars(Timer)
    /\ \A t \in Threads :
          /\ WF_vars(Set(t)) /\ WF_vars(Clear(t)) /\ WF_vars(Wait(t)) /\ WF_vars(Expire(t))
          /\ SF_vars(RegisterTimeout(t)) /\ SF_vars(DeregisterTimeout(t))

FairSpec == Spec /\ Fairness

------------------------------------------------------------------------------
(* Properties.                                                             *)

Waiters == {t \in Threads : pc[t] \in Counted}

(* No set is missed: once the setter has dropped the event's lock, nobody  *)
(* is blocked on a signaled event, nor about to be.  This is what the      *)
(* order of the two locks in sched_thread_wait is for.                     *)
NoLostWakeup ==
    signaled /\ elock = NoOne =>
        blocked = {} /\ \A t \in Threads : pc[t] # "w_block"

(* pal_common_event_set skips the wakeup when waiters_cnt is zero: the     *)
(* count covers every thread that sleeps or is on its way to sleep.        *)
SleepersCounted ==
    /\ waiters_cnt = Cardinality(Waiters)
    /\ \A t \in blocked : pc[t] = "w_asleep"

(* The spinlocks exclude: one thread at a time is inside the event's       *)
(* critical section, and one inside the scheduler's.                       *)
LocksExclude ==
    \A t \in Threads :
        /\ pc[t] \in {"s_store", "s_wake", "s_unlock", "w_register", "w_enter",
                      "w_check", "w_list", "w_release", "w_out"} => elock = t
        /\ pc[t] \in {"w_release", "w_block"} => llock = t

(* A signaled event with a waiter releases one: the word is taken, or      *)
(* nobody waits any more.                                                  *)
SignalReleasesWaiter ==
    (signaled /\ Waiters # {}) ~> (~signaled \/ Waiters = {})

(* The three locks never wait for each other in a circle: set always       *)
(* returns, whatever waiters and the timer interrupt are doing.            *)
SetReturns == \A t \in Threads : pc[t] \in SetPc ~> pc[t] = "idle"

(* A deadline wakes the sleeper it was registered for: a thread asleep     *)
(* while its entry is in the list of timeouts is made runnable.            *)
TimeoutWakes ==
    \A t \in Threads : (t \in blocked /\ t \in pending) ~> t \notin blocked

(* A wait with a timeout returns, set or not.                              *)
TimeoutHonoured ==
    \A t \in Threads :
        (pc[t] \in WaitPc /\ timeout[t] = "timed") ~> pc[t] = "idle"
==============================================================================

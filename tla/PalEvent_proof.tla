--------------------------- MODULE PalEvent_proof ---------------------------
(***************************************************************************)
(* Proofs about PalEvent, for any finite set of threads, auto-clearing     *)
(* events or not, with and without timeouts.                               *)
(*                                                                         *)
(* NoLostWakeup is not inductive.  A setter may skip the wakeup, which is  *)
(* right only because the count covers every sleeper (SleepersCounted);    *)
(* and between its store and its wakeup a signaled event does have         *)
(* sleepers.  SleepInv says what holds then: somebody is at the wakeup,    *)
(* and a waiter that has seen the word clear finds it clear until it has   *)
(* dropped the event's lock.  That in turn needs both locks to exclude.    *)
(***************************************************************************)
EXTENDS PalEvent, FiniteSetTheorems, TLAPS

SleepInv ==
    /\ \A t \in Threads : pc[t] \in {"w_list", "w_release"} => ~signaled
    /\ signaled => \/ blocked = {} /\ \A t \in Threads : pc[t] # "w_block"
                   \/ \E t \in Threads : pc[t] = "s_wake"

IInv == TypeOK /\ LocksExclude /\ SleepersCounted /\ SleepInv

(* A set of threads has at most as many members as there are threads.      *)
LEMMA WaitersFinite ==
    /\ IsFiniteSet(Waiters)
    /\ Cardinality(Waiters) \in 0 .. Cardinality(Threads)
<1>1. Waiters \in SUBSET Threads
  BY DEF Waiters
<1>2. IsFiniteSet(Waiters) /\ Cardinality(Waiters) <= Cardinality(Threads)
  BY <1>1, EventAssumption, FS_Subset
<1>3. Cardinality(Waiters) \in Nat /\ Cardinality(Threads) \in Nat
  BY <1>2, EventAssumption, FS_CardinalityType
<1>. QED  BY <1>2, <1>3

(* Nobody waits before the event is used.                                  *)
LEMMA InitInv == Init => IInv
<1> SUFFICES ASSUME Init PROVE IInv
  OBVIOUS
<1>1. Waiters = {}
  BY DEF Init, Waiters, Counted
<1>2. SleepersCounted
  BY <1>1, FS_EmptySet DEF Init, SleepersCounted
<1>3. TypeOK
  BY EventAssumption, FS_CardinalityType DEF Init, TypeOK
<1>4. LocksExclude /\ SleepInv
  BY DEF Init, LocksExclude, SleepInv
<1>. QED  BY <1>2, <1>3, <1>4 DEF IInv

(* Starting an operation.                                                  *)
LEMMA CallInv ==
    ASSUME IInv, NEW t \in Threads,
           CallSet(t) \/ CallClear(t) \/ (\E k \in Timeouts : CallWait(t, k))
    PROVE  IInv'
<1> USE EventAssumption DEF IInv, Step, Begin, locks, timer, CallSet, CallClear, CallWait
<1>1. Waiters' = Waiters
  BY DEF Waiters, Counted, TypeOK, SetPc, WaitPc
<1>2. SleepersCounted'
  BY <1>1 DEF SleepersCounted, TypeOK, SetPc, WaitPc
<1>3. LocksExclude'
  BY DEF LocksExclude, TypeOK, SetPc, WaitPc
<1>4. SleepInv'
  BY DEF SleepInv, LocksExclude, TypeOK, SetPc, WaitPc
<1>5. TypeOK'
  BY DEF TypeOK, SetPc, WaitPc
<1>. QED  BY <1>2, <1>3, <1>4, <1>5

(* With the thread-list lock free nobody is between dropping the event's   *)
(* lock and being blocked: the wakeup reaches every sleeper.               *)
LEMMA SetWakeInv ==
    ASSUME IInv, NEW t \in Threads, SetWake(t)
    PROVE  IInv'
<1> USE EventAssumption DEF IInv, Step, Begin, locks, timer, SetWake, sched_thread_wakeup
<1>1. Waiters' = Waiters
  BY DEF Waiters, Counted, TypeOK, SetPc, WaitPc
<1>2. SleepersCounted'
  BY <1>1 DEF SleepersCounted, TypeOK, SetPc, WaitPc
<1>3. LocksExclude'
  BY DEF LocksExclude, TypeOK, SetPc, WaitPc
<1>4. SleepInv'
  BY DEF SleepInv, LocksExclude, TypeOK, SetPc, WaitPc
<1>5. TypeOK'
  BY DEF TypeOK, SetPc, WaitPc
<1>. QED  BY <1>2, <1>3, <1>4, <1>5

(* The rest of set and clear.                                              *)
LEMMA SetLockInv ==
    ASSUME IInv, NEW t \in Threads,
           SetLock(t) \/ SetUnlock(t) \/ Clear(t)
    PROVE  IInv'
<1> USE EventAssumption DEF IInv, Step, Begin, locks, timer, SetLock, SetUnlock, Clear
<1>1. Waiters' = Waiters
  BY DEF Waiters, Counted, TypeOK, SetPc, WaitPc
<1>2. SleepersCounted'
  BY <1>1 DEF SleepersCounted, TypeOK, SetPc, WaitPc
<1>3. LocksExclude'
  BY DEF LocksExclude, TypeOK, SetPc, WaitPc
<1>4. SleepInv'
  BY DEF SleepInv, LocksExclude, TypeOK, SetPc, WaitPc
<1>5. TypeOK'
  BY DEF TypeOK, SetPc, WaitPc
<1>. QED  BY <1>2, <1>3, <1>4, <1>5

(* The way into wait and out of it.                                        *)
LEMMA WaitLockInv ==
    ASSUME IInv, NEW t \in Threads,
           WaitLock(t) \/ RegisterTimeout(t) \/ RegisterFails(t) \/ DeregisterTimeout(t)
    PROVE  IInv'
<1> USE EventAssumption DEF IInv, Step, Begin, locks, timer, WaitLock, RegisterTimeout, RegisterFails, DeregisterTimeout
<1>1. Waiters' = Waiters
  BY DEF Waiters, Counted, TypeOK, SetPc, WaitPc
<1>2. SleepersCounted'
  BY <1>1 DEF SleepersCounted, TypeOK, SetPc, WaitPc
<1>3. LocksExclude'
  BY DEF LocksExclude, TypeOK, SetPc, WaitPc
<1>4. SleepInv'
  BY DEF SleepInv, LocksExclude, TypeOK, SetPc, WaitPc
<1>5. TypeOK'
  BY DEF TypeOK, SetPc, WaitPc
<1>. QED  BY <1>2, <1>3, <1>4, <1>5

(* Only a clear word sends a waiter to sleep.                              *)
LEMMA WaitCheckInv ==
    ASSUME IInv, NEW t \in Threads, WaitCheck(t)
    PROVE  IInv'
<1> USE EventAssumption DEF IInv, Step, Begin, locks, timer, WaitCheck
<1>1. Waiters' = Waiters
  BY DEF Waiters, Counted, TypeOK, SetPc, WaitPc
<1>2. SleepersCounted'
  BY <1>1 DEF SleepersCounted, TypeOK, SetPc, WaitPc
<1>3. LocksExclude'
  BY DEF LocksExclude, TypeOK, SetPc, WaitPc
<1>4. SleepInv'
  BY DEF SleepInv, LocksExclude, TypeOK, SetPc, WaitPc
<1>5. TypeOK'
  BY DEF TypeOK, SetPc, WaitPc
<1>. QED  BY <1>2, <1>3, <1>4, <1>5

(* Going to sleep: the event's lock is dropped under the thread-list lock. *)
LEMMA SleepInvStep ==
    ASSUME IInv, NEW t \in Threads,
           SleepLock(t) \/ SleepRelease(t) \/ SleepBlock(t) \/ Wake(t)
    PROVE  IInv'
<1> USE EventAssumption DEF IInv, Step, Begin, locks, timer, SleepLock, SleepRelease, SleepBlock, Wake
<1>1. Waiters' = Waiters
  BY DEF Waiters, Counted, TypeOK, SetPc, WaitPc
<1>2. SleepersCounted'
  BY <1>1 DEF SleepersCounted, TypeOK, SetPc, WaitPc
<1>3. LocksExclude'
  BY DEF LocksExclude, TypeOK, SetPc, WaitPc
<1>4. SleepInv'
  BY DEF SleepInv, LocksExclude, TypeOK, SetPc, WaitPc
<1>5. TypeOK'
  BY DEF TypeOK, SetPc, WaitPc
<1>. QED  BY <1>2, <1>3, <1>4, <1>5

(* Time and the timer interrupt.                                           *)
LEMMA TimerInv ==
    ASSUME IInv, 
           \/ \E t \in Threads : Expire(t)
           \/ Timer
    PROVE  IInv'
<1> USE EventAssumption DEF IInv, Step, Begin, locks, timer, Expire, Timer, TimerInterrupt, TimerNotify, TimerReturn, sched_thread_wakeup
<1>1. Waiters' = Waiters
  BY DEF Waiters, Counted, TypeOK, SetPc, WaitPc
<1>2. SleepersCounted'
  BY <1>1 DEF SleepersCounted, TypeOK, SetPc, WaitPc
<1>3. LocksExclude'
  BY DEF LocksExclude, TypeOK, SetPc, WaitPc
<1>4. SleepInv'
  BY DEF SleepInv, LocksExclude, TypeOK, SetPc, WaitPc
<1>5. TypeOK'
  BY DEF TypeOK, SetPc, WaitPc
<1>. QED  BY <1>2, <1>3, <1>4, <1>5

(* A setter skips the wakeup only when nobody waits.                       *)
LEMMA SetStoreInv ==
    ASSUME IInv, NEW t \in Threads, SetStore(t)
    PROVE  IInv'
<1> USE EventAssumption DEF IInv, Step, locks, SetStore
<1>1. Waiters' = Waiters
  BY DEF Waiters, Counted, TypeOK, SetPc, WaitPc
<1>2. SleepersCounted'
  BY <1>1 DEF SleepersCounted, TypeOK, SetPc, WaitPc
<1>3. LocksExclude'
  BY DEF LocksExclude, TypeOK, SetPc, WaitPc
<1>4. TypeOK'
  BY DEF TypeOK, SetPc, WaitPc
<1>5. CASE waiters_cnt > 0
  <2>1. pc'[t] = "s_wake"
    BY <1>5 DEF TypeOK
  <2>2. \A u \in Threads : pc'[u] \notin {"w_list", "w_release"}
    BY DEF LocksExclude, TypeOK
  <2>. QED  BY <1>2, <1>3, <1>4, <2>1, <2>2 DEF SleepInv
<1>6. CASE waiters_cnt = 0
  <2>1. Waiters = {}
    BY <1>6, WaitersFinite, FS_EmptySet DEF SleepersCounted
  <2>2. \A u \in Threads : pc[u] \notin Counted
    BY <2>1 DEF Waiters
  <2>3. blocked = {}
    BY <2>2 DEF SleepersCounted, Counted, TypeOK
  <2>4. \A u \in Threads : pc'[u] \notin {"w_block", "w_list", "w_release"}
    BY <2>2 DEF Counted, TypeOK
  <2>. QED  BY <1>2, <1>3, <1>4, <2>3, <2>4 DEF SleepInv
<1>7. waiters_cnt > 0 \/ waiters_cnt = 0
  BY DEF TypeOK
<1>. QED  BY <1>5, <1>6, <1>7

(* A thread enters wait and is counted.                                    *)
LEMMA WaitEnterInv ==
    ASSUME IInv, NEW t \in Threads, WaitEnter(t)
    PROVE  IInv'
<1> USE EventAssumption DEF IInv, Step, locks, WaitEnter
<1>1. Waiters' = Waiters \cup {t} /\ t \notin Waiters
  BY DEF Waiters, Counted, TypeOK, SetPc, WaitPc
<1>2. Cardinality(Waiters') = Cardinality(Waiters) + 1
  BY <1>1, WaitersFinite, FS_AddElement
<1>3. SleepersCounted'
  BY <1>2 DEF SleepersCounted, TypeOK, SetPc, WaitPc
<1>4. Waiters' \in SUBSET Threads
  BY DEF Waiters
<1>5. waiters_cnt' \in 0 .. Cardinality(Threads)
  BY <1>3, <1>4, FS_Subset, FS_CardinalityType DEF SleepersCounted
<1>6. TypeOK'
  BY <1>5 DEF TypeOK, SetPc, WaitPc
<1>7. LocksExclude'
  BY DEF LocksExclude, TypeOK, SetPc, WaitPc
<1>8. SleepInv'
  BY DEF SleepInv, LocksExclude, TypeOK, SetPc, WaitPc
<1>. QED  BY <1>3, <1>6, <1>7, <1>8

(* It leaves and is counted no more.                                       *)
LEMMA WaitOutInv ==
    ASSUME IInv, NEW t \in Threads, WaitOut(t)
    PROVE  IInv'
<1> USE EventAssumption DEF IInv, Step, timer, WaitOut
<1>1. Waiters' = Waiters \ {t} /\ t \in Waiters
  BY DEF Waiters, Counted, TypeOK, SetPc, WaitPc
<1>2. Cardinality(Waiters') = Cardinality(Waiters) - 1
  BY <1>1, WaitersFinite, FS_RemoveElement
<1>3. SleepersCounted'
  BY <1>2 DEF SleepersCounted, TypeOK, SetPc, WaitPc
<1>4. Waiters' \in SUBSET Threads
  BY DEF Waiters
<1>5. waiters_cnt' \in 0 .. Cardinality(Threads)
  BY <1>3, <1>4, FS_Subset, FS_CardinalityType DEF SleepersCounted
<1>6. TypeOK'
  BY <1>5 DEF TypeOK, SetPc, WaitPc
<1>7. LocksExclude'
  BY DEF LocksExclude, TypeOK, SetPc, WaitPc
<1>8. SleepInv'
  BY DEF SleepInv, LocksExclude, TypeOK, SetPc, WaitPc
<1>. QED  BY <1>3, <1>6, <1>7, <1>8

(* Every step keeps the invariant.                                         *)
LEMMA NextInv == IInv /\ [Next]_vars => IInv'
<1> SUFFICES ASSUME IInv, [Next]_vars PROVE IInv'
  OBVIOUS
<1>1. ASSUME NEW t \in Threads,
             CallSet(t) \/ CallClear(t) \/ (\E k \in Timeouts : CallWait(t, k))
      PROVE  IInv'
  BY <1>1, CallInv
<1>2. ASSUME NEW t \in Threads, Set(t) PROVE IInv'
  BY <1>2, SetLockInv, SetStoreInv, SetWakeInv DEF Set
<1>3. ASSUME NEW t \in Threads, Clear(t) PROVE IInv'
  BY <1>3, SetLockInv
<1>4. ASSUME NEW t \in Threads, Wait(t) PROVE IInv'
  BY <1>4, WaitLockInv, WaitEnterInv, WaitCheckInv, SleepInvStep, WaitOutInv DEF Wait
<1>5. ASSUME NEW t \in Threads, RegisterFails(t) PROVE IInv'
  BY <1>5, WaitLockInv
<1>6. ASSUME NEW t \in Threads, Expire(t) PROVE IInv'
  BY <1>6, TimerInv
<1>7. CASE Timer
  BY <1>7, TimerInv
<1>8. CASE UNCHANGED vars
  <2>1. Waiters' = Waiters
    BY <1>8 DEF vars, Waiters
  <2>. QED  BY <1>8, <2>1 DEF vars, IInv, TypeOK, LocksExclude, SleepersCounted, SleepInv
<1>. QED  BY <1>1, <1>2, <1>3, <1>4, <1>5, <1>6, <1>7, <1>8 DEF Next

(* The invariant holds throughout.                                         *)
THEOREM Invariance == Spec => []IInv
BY InitInv, NextInv, PTL DEF Spec

(* The event's state keeps its type; waiters_cnt neither underflows nor    *)
(* exceeds the number of threads (pal_common_event_wait).                  *)
THEOREM TypeCorrect == Spec => []TypeOK
<1>1. IInv => TypeOK
  BY DEF IInv
<1>. QED  BY <1>1, Invariance, PTL

(* The event's spinlock and the scheduler's exclude, although the first is *)
(* dropped and taken back inside sched_thread_wait.                        *)
THEOREM MutualExclusion == Spec => []LocksExclude
<1>1. IInv => LocksExclude
  BY DEF IInv
<1>. QED  BY <1>1, Invariance, PTL

(* waiters_cnt is the number of threads that wait, so the test in          *)
(* pal_common_event_set never skips a wakeup that is needed.               *)
THEOREM CountExact == Spec => []SleepersCounted
<1>1. IInv => SleepersCounted
  BY DEF IInv
<1>. QED  BY <1>1, Invariance, PTL

(* Nobody sleeps on a signaled event once the setter has dropped the lock: *)
(* the order of locks in sched_thread_wait loses no set, for any number of *)
(* threads.                                                                *)
THEOREM SetsAreSeen == Spec => []NoLostWakeup
<1>1. IInv => NoLostWakeup
  BY EventAssumption DEF IInv, SleepInv, LocksExclude, NoLostWakeup
<1>. QED  BY <1>1, Invariance, PTL
==============================================================================

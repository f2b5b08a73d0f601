---------------------------- MODULE SysvSem_proof ----------------------------
(***************************************************************************)
(* What SysvSem promises, for any finite set of threads and any table of   *)
(* sets.                                                                   *)
(*                                                                         *)
(* Whether a change of a set wakes anybody is decided by the waiter counts,*)
(* so NobodyStranded rests on WaitersExact; and a count may be lowered,    *)
(* or set to zero when a slot is taken, only because of what CallsExact    *)
(* says: who is registered waits for a decrement or for zero, on a set     *)
(* that exists, and whoever returns has undone its registration.           *)
(***************************************************************************)
EXTENDS SysvSem, FiniteSetTheorems, TLAPS

CallsExact ==
    \A t \in Threads :
        /\ pc[t] # "idle" => call[t] \in Calls
        /\ pc[t] = "idle" => ~registered[t]
        /\ pc[t] \in {"wait", "expired"} => registered[t]
        /\ registered[t] => used[call[t].semid] /\ call[t].sem_op <= 0 /\ call[t].how # "nowait"

IInv == TypeOK /\ CallsExact /\ WaitersExact /\ NobodyStranded

(* The waiters a set counts, by kind.                                      *)
DecWaiters(s)  == {t \in Threads : registered[t] /\ call[t].semid = s /\ call[t].sem_op < 0}
ZeroWaiters(s) == {t \in Threads : registered[t] /\ call[t].semid = s /\ call[t].sem_op = 0}

(* The fields of a call.                                                   *)
LEMMA CallFields ==
    ASSUME NEW c \in Calls
    PROVE  /\ c.semid \in Slots /\ c.sem_op \in Deltas[c.semid] /\ c.sem_op \in Int
           /\ c.how \in {"block", "nowait", "timed"}
BY SemAssumption DEF Calls

(* Waiters are threads, and finitely many.                                 *)
LEMMA WaitersFinite ==
    ASSUME NEW S \in SUBSET Threads
    PROVE  IsFiniteSet(S) /\ Cardinality(S) \in Nat /\ (S # {} => Cardinality(S) > 0)
<1>1. IsFiniteSet(S) /\ Cardinality(S) \in Nat
  BY SemAssumption, FS_Subset, FS_CardinalityType
<1>. QED  BY <1>1, FS_EmptySet

(* Adding nothing to a count.                                              *)
LEMMA AddNothing ==
    ASSUME NEW S, NEW f \in [S -> Nat], NEW s \in S
    PROVE  [f EXCEPT ![s] = @ + 0] = f
<1>1. f[s] + 0 = f[s]
  OBVIOUS
<1>2. \A r \in S : [f EXCEPT ![s] = f[s] + 0][r] = f[r]
  BY <1>1
<1>. QED  BY <1>2

(* Nobody waits before the first set is made.                              *)
LEMMA InitInv == Init => IInv
<1> SUFFICES ASSUME Init PROVE IInv
  OBVIOUS
<1> USE SemAssumption DEF Init
<1>1. TypeOK
  BY DEF TypeOK
<1>2. CallsExact
  BY DEF CallsExact
<1>3. WaitersExact
  BY FS_EmptySet DEF WaitersExact
<1>4. NobodyStranded
  BY DEF NobodyStranded, Waiting, Ready
<1>. QED  BY <1>1, <1>2, <1>3, <1>4 DEF IInv

(* What every way out of do_semop does to the counts: the registration is  *)
(* undone, and the counts stay exact.                                      *)
LEMMA UnregisterExact ==
    ASSUME TypeOK, CallsExact, WaitersExact, NEW t \in Threads, pc[t] # "idle",
           Unregister(t), Finish(t), used' = used
    PROVE  /\ decrement_waiters' \in [Slots -> Nat] /\ zero_waiters' \in [Slots -> Nat]
           /\ pc' \in [Threads -> {"idle", "try", "wait", "expired"}]
           /\ call' \in [Threads -> Calls \cup {NoCall}]
           /\ registered' \in [Threads -> BOOLEAN]
           /\ CallsExact' /\ WaitersExact'
<1> USE SemAssumption
<1>0. call[t] \in Calls
  BY DEF CallsExact
<1>1. PICK s \in Slots : s = call[t].semid /\ call[t].sem_op \in Int
  BY <1>0, CallFields
<1>2. /\ pc' \in [Threads -> {"idle", "try", "wait", "expired"}]
      /\ call' \in [Threads -> Calls \cup {NoCall}]
      /\ registered' \in [Threads -> BOOLEAN]
  BY DEF TypeOK, Unregister, Finish
<1>3. CallsExact'
  BY DEF TypeOK, CallsExact, Unregister, Finish
<1>4. CASE ~registered[t]
  <2>1. decrement_waiters' = decrement_waiters /\ zero_waiters' = zero_waiters
    <3>1. \/ decrement_waiters' = [decrement_waiters EXCEPT ![s] = @ + 0] /\ zero_waiters' = zero_waiters
          \/ zero_waiters' = [zero_waiters EXCEPT ![s] = @ + 0] /\ decrement_waiters' = decrement_waiters
      BY <1>1, <1>4 DEF Unregister, CountWaiters
    <3>. QED  BY <3>1, AddNothing DEF TypeOK
  <2>2. \A r \in Slots : DecWaiters(r)' = DecWaiters(r) /\ ZeroWaiters(r)' = ZeroWaiters(r)
    BY <1>4 DEF TypeOK, Unregister, Finish, DecWaiters, ZeroWaiters
  <2>3. WaitersExact'
    BY <2>1, <2>2 DEF WaitersExact, DecWaiters, ZeroWaiters
  <2>. QED  BY <1>2, <1>3, <2>1, <2>3 DEF TypeOK
<1>5. CASE registered[t] /\ call[t].sem_op < 0
  <2>1. t \in DecWaiters(s) /\ DecWaiters(s)' = DecWaiters(s) \ {t}
    BY <1>1, <1>5 DEF TypeOK, Unregister, Finish, DecWaiters
  <2>2. \A r \in Slots : (r # s => DecWaiters(r)' = DecWaiters(r)) /\ ZeroWaiters(r)' = ZeroWaiters(r)
    BY <1>1, <1>5 DEF TypeOK, Unregister, Finish, DecWaiters, ZeroWaiters
  <2>3. IsFiniteSet(DecWaiters(s)) /\ Cardinality(DecWaiters(s)) \in Nat
    BY WaitersFinite DEF DecWaiters
  <2>4. /\ Cardinality(DecWaiters(s)') = Cardinality(DecWaiters(s)) - 1
        /\ Cardinality(DecWaiters(s)) > 0
    BY <2>1, <2>3, FS_RemoveElement, FS_EmptySet
  <2>5. /\ decrement_waiters' = [decrement_waiters EXCEPT ![s] = @ + (-1)]
        /\ zero_waiters' = zero_waiters
    BY <1>1, <1>5 DEF Unregister, CountWaiters
  <2>6. decrement_waiters[s] = Cardinality(DecWaiters(s))
    BY <1>1 DEF WaitersExact, DecWaiters
  <2>7. decrement_waiters' \in [Slots -> Nat] /\ decrement_waiters'[s] = Cardinality(DecWaiters(s)')
    BY <1>1, <2>3, <2>4, <2>5, <2>6 DEF TypeOK
  <2>8. WaitersExact'
    <3>1. ASSUME NEW r \in Slots
          PROVE  /\ decrement_waiters'[r] = Cardinality(DecWaiters(r)')
                 /\ zero_waiters'[r] = Cardinality(ZeroWaiters(r)')
      <4>1. /\ decrement_waiters[r] = Cardinality(DecWaiters(r))
            /\ zero_waiters[r] = Cardinality(ZeroWaiters(r))
        BY DEF WaitersExact, DecWaiters, ZeroWaiters
      <4>. QED  BY <1>1, <2>2, <2>5, <2>7, <4>1 DEF TypeOK
    <3>. QED  BY <3>1 DEF WaitersExact, DecWaiters, ZeroWaiters
  <2>. QED  BY <1>2, <1>3, <2>5, <2>7, <2>8 DEF TypeOK
<1>6. CASE registered[t] /\ call[t].sem_op = 0
  <2>1. t \in ZeroWaiters(s) /\ ZeroWaiters(s)' = ZeroWaiters(s) \ {t}
    BY <1>1, <1>6 DEF TypeOK, Unregister, Finish, ZeroWaiters
  <2>2. \A r \in Slots : (r # s => ZeroWaiters(r)' = ZeroWaiters(r)) /\ DecWaiters(r)' = DecWaiters(r)
    BY <1>1, <1>6 DEF TypeOK, Unregister, Finish, DecWaiters, ZeroWaiters
  <2>3. IsFiniteSet(ZeroWaiters(s)) /\ Cardinality(ZeroWaiters(s)) \in Nat
    BY WaitersFinite DEF ZeroWaiters
  <2>4. /\ Cardinality(ZeroWaiters(s)') = Cardinality(ZeroWaiters(s)) - 1
        /\ Cardinality(ZeroWaiters(s)) > 0
    BY <2>1, <2>3, FS_RemoveElement, FS_EmptySet
  <2>5. /\ zero_waiters' = [zero_waiters EXCEPT ![s] = @ + (-1)]
        /\ decrement_waiters' = decrement_waiters
    BY <1>1, <1>6 DEF Unregister, CountWaiters
  <2>6. zero_waiters[s] = Cardinality(ZeroWaiters(s))
    BY <1>1 DEF WaitersExact, ZeroWaiters
  <2>7. zero_waiters' \in [Slots -> Nat] /\ zero_waiters'[s] = Cardinality(ZeroWaiters(s)')
    BY <1>1, <2>3, <2>4, <2>5, <2>6 DEF TypeOK
  <2>8. WaitersExact'
    <3>1. ASSUME NEW r \in Slots
          PROVE  /\ decrement_waiters'[r] = Cardinality(DecWaiters(r)')
                 /\ zero_waiters'[r] = Cardinality(ZeroWaiters(r)')
      <4>1. /\ decrement_waiters[r] = Cardinality(DecWaiters(r))
            /\ zero_waiters[r] = Cardinality(ZeroWaiters(r))
        BY DEF WaitersExact, DecWaiters, ZeroWaiters
      <4>. QED  BY <1>1, <2>2, <2>5, <2>7, <4>1 DEF TypeOK
    <3>. QED  BY <3>1 DEF WaitersExact, DecWaiters, ZeroWaiters
  <2>. QED  BY <1>2, <1>3, <2>5, <2>7, <2>8 DEF TypeOK
<1>. QED  BY <1>1, <1>4, <1>5, <1>6 DEF CallsExact

(* A slot is given out anew only when nobody is registered on it.          *)
LEMMA SemgetInv ==
    ASSUME IInv, NEW t \in Threads, NEW k \in Keys \cup {Private}, NEW create \in BOOLEAN,
           semget(t, k, create)
    PROVE  IInv'
<1> USE SemAssumption DEF IInv
<1>1. ops' \in 0 .. MaxOps /\ UNCHANGED <<pc, call, registered>>
  BY DEF semget, Begin, TypeOK
<1>2. CASE UNCHANGED sets
  <2>1. TypeOK'
    BY <1>1, <1>2 DEF sets, TypeOK
  <2>2. CallsExact' /\ WaitersExact'
    BY <1>1, <1>2 DEF sets, CallsExact, WaitersExact
  <2>3. NobodyStranded'
    BY <1>1, <1>2 DEF sets, NobodyStranded, Waiting, Ready, Carrier, Live
  <2>. QED  BY <2>1, <2>2, <2>3
<1>3. CASE \E s \in Free : CreateSet(k, s)
  <2>1. PICK s \in Slots : ~used[s] /\ CreateSet(k, s)
    BY <1>3 DEF Free
  <2>2. \A u \in Threads : registered[u] => call[u].semid # s
    BY <2>1 DEF CallsExact
  <2>3. TypeOK'
    BY <1>1, <2>1 DEF CreateSet, TypeOK
  <2>4. CallsExact'
    <3>1. ASSUME NEW u \in Threads, registered[u] PROVE used'[call[u].semid]
      <4>1. call[u].semid \in Slots /\ used[call[u].semid]
        BY <3>1, CallFields DEF CallsExact
      <4>. QED  BY <2>1, <2>2, <3>1, <4>1 DEF CreateSet, TypeOK
    <3>. QED  BY <1>1, <3>1 DEF CallsExact
  <2>5. WaitersExact'
    <3>1. ASSUME NEW r \in Slots
          PROVE  /\ decrement_waiters'[r] = Cardinality(DecWaiters(r)')
                 /\ zero_waiters'[r] = Cardinality(ZeroWaiters(r)')
      <4>1. DecWaiters(r)' = DecWaiters(r) /\ ZeroWaiters(r)' = ZeroWaiters(r)
        BY <1>1 DEF DecWaiters, ZeroWaiters
      <4>2. CASE r = s
        <5>1. DecWaiters(r) = {} /\ ZeroWaiters(r) = {}
          BY <2>2, <4>2 DEF DecWaiters, ZeroWaiters
        <5>2. decrement_waiters'[r] = 0 /\ zero_waiters'[r] = 0
          BY <2>1, <4>2 DEF CreateSet, TypeOK
        <5>. QED  BY <4>1, <5>1, <5>2, FS_EmptySet
      <4>3. CASE r # s
        <5>1. /\ decrement_waiters[r] = Cardinality(DecWaiters(r))
              /\ zero_waiters[r] = Cardinality(ZeroWaiters(r))
          BY DEF WaitersExact, DecWaiters, ZeroWaiters
        <5>2. decrement_waiters'[r] = decrement_waiters[r] /\ zero_waiters'[r] = zero_waiters[r]
          BY <2>1, <4>3 DEF CreateSet, TypeOK
        <5>. QED  BY <4>1, <5>1, <5>2
      <4>. QED  BY <4>2, <4>3
    <3>. QED  BY <3>1 DEF WaitersExact, DecWaiters, ZeroWaiters
  <2>6. NobodyStranded'
    <3>1. \A r \in Slots : r = s => Waiting(r)' = {}
      BY <1>1, <2>2 DEF Waiting, CallsExact
    <3>2. \A r \in Slots : r # s => /\ removed'[r] = removed[r] /\ used'[r] = used[r]
                                   /\ value'[r] = value[r] /\ signaled'[r] = signaled[r]
      BY <2>1 DEF CreateSet, TypeOK
    <3>. QED  BY <1>1, <3>1, <3>2 DEF NobodyStranded, Waiting, Ready, Carrier, Live
  <2>. QED  BY <2>3, <2>4, <2>5, <2>6
<1>. QED  BY <1>2, <1>3 DEF semget

(* SETVAL and IPC_RMID set the event of the set they change.               *)
LEMMA SemctlInv ==
    ASSUME IInv, NEW t \in Threads, NEW s \in Slots, semctl(t, s)
    PROVE  IInv'
<1> USE SemAssumption DEF IInv
<1>1. /\ ops' \in 0 .. MaxOps
      /\ UNCHANGED <<used, key, decrement_waiters, zero_waiters, pc, call, registered>>
      /\ IPC_RMID(s) \/ \E v \in 0 .. MaxValue : SETVAL(s, v)
  BY DEF semctl, Begin, TypeOK
<1>2. signaled' = [signaled EXCEPT ![s] = TRUE]
  BY <1>1 DEF IPC_RMID, SETVAL, PalEventSet
<1>3. removed' \in [Slots -> BOOLEAN] /\ value' \in [Slots -> 0 .. MaxValue]
  BY <1>1 DEF IPC_RMID, SETVAL, TypeOK
<1>4. TypeOK'
  BY <1>1, <1>2, <1>3 DEF TypeOK
<1>5. CallsExact' /\ WaitersExact'
  BY <1>1, SMTT(30) DEF CallsExact, WaitersExact
<1>6. NobodyStranded'
  <2>1. \A r \in Slots : r # s => /\ removed'[r] = removed[r] /\ value'[r] = value[r]
                                 /\ signaled'[r] = signaled[r]
    BY <1>1, <1>2 DEF IPC_RMID, SETVAL, TypeOK
  <2>2. signaled'[s]
    BY <1>2 DEF TypeOK
  <2>. QED  BY <1>1, <2>1, <2>2 DEF NobodyStranded, Waiting, Ready, Carrier, Live
<1>. QED  BY <1>4, <1>5, <1>6

(* A semop starts without a registration.                                  *)
LEMMA SemopInv ==
    ASSUME IInv, NEW t \in Threads, NEW c \in Calls, semop(t, c)
    PROVE  IInv'
<1> USE SemAssumption DEF IInv, semop, Begin, sets
<1>1. TypeOK'
  BY DEF TypeOK
<1>2. ~registered[t] /\ pc[t] = "idle"
  BY DEF CallsExact
<1>3. CallsExact'
  BY <1>2 DEF CallsExact, TypeOK
<1>4. WaitersExact'
  <2>1. ASSUME NEW r \in Slots
        PROVE  DecWaiters(r)' = DecWaiters(r) /\ ZeroWaiters(r)' = ZeroWaiters(r)
    BY <1>2 DEF DecWaiters, ZeroWaiters, TypeOK
  <2>. QED  BY <2>1 DEF WaitersExact, DecWaiters, ZeroWaiters
<1>5. NobodyStranded'
  BY <1>2 DEF NobodyStranded, Waiting, Ready, Carrier, Live, TypeOK
<1>. QED  BY <1>1, <1>3, <1>4, <1>5

(* A wait that fails leaves its registration for SemopExpired.             *)
LEMMA WaitFailsInv ==
    ASSUME IInv, NEW t \in Threads, WaitFails(t)
    PROVE  IInv'
<1> USE SemAssumption DEF IInv, WaitFails, sets
<1>1. TypeOK'
  BY DEF TypeOK
<1>2. CallsExact'
  BY DEF CallsExact, TypeOK
<1>3. WaitersExact'
  BY DEF WaitersExact
<1>4. NobodyStranded'
  BY DEF NobodyStranded, Waiting, Ready, Carrier, Live, TypeOK
<1>. QED  BY <1>1, <1>2, <1>3, <1>4

(* The woken waiter carries the event it took.                             *)
LEMMA WokenInv ==
    ASSUME IInv, NEW t \in Threads, Woken(t)
    PROVE  IInv'
<1> USE SemAssumption DEF IInv, Woken
<1>1. PICK s \in Slots : s = call[t].semid
  BY CallFields DEF CallsExact
<1>2. TypeOK'
  BY <1>1 DEF TypeOK
<1>3. CallsExact'
  BY DEF CallsExact, TypeOK
<1>4. WaitersExact'
  BY DEF WaitersExact
<1>5. NobodyStranded'
  <2>1. registered[t] /\ Carrier(s)'
    BY <1>1 DEF Carrier, CallsExact, TypeOK
  <2>2. ASSUME NEW r \in Slots, r # s
        PROVE  /\ signaled'[r] = signaled[r] /\ Waiting(r)' = Waiting(r)
               /\ Ready(r)' = Ready(r) /\ (Carrier(r) => Carrier(r)')
    BY <1>1, <2>2 DEF Waiting, Ready, Carrier, Live, TypeOK
  <2>. QED  BY <2>1, <2>2 DEF NobodyStranded
<1>. QED  BY <1>2, <1>3, <1>4, <1>5

(* A waiter that gave up is out of every count.                            *)
LEMMA SemopExpiredInv ==
    ASSUME IInv, NEW t \in Threads, SemopExpired(t)
    PROVE  IInv'
<1> USE SemAssumption DEF IInv, SemopExpired
<1>1. CallsExact' /\ WaitersExact' /\ TypeOK'
  BY UnregisterExact DEF TypeOK
<1>2. NobodyStranded'
  <2>1. ASSUME NEW r \in Slots
        PROVE  Waiting(r)' = Waiting(r) /\ Ready(r)' = Ready(r) /\ (Carrier(r) => Carrier(r)')
    BY DEF Waiting, Ready, Carrier, Live, TypeOK, Finish, Unregister
  <2>. QED  BY <2>1 DEF NobodyStranded
<1>. QED  BY <1>1, <1>2

(* A sleeper is counted by its kind.                                       *)
SleepersCounted ==
    \A r \in Slots : \A w \in Waiting(r) :
        /\ decrement_waiters[r] > 0 \/ zero_waiters[r] > 0
        /\ call[w].sem_op < 0 => decrement_waiters[r] > 0
        /\ call[w].sem_op \in Deltas[r] /\ call[w].sem_op \in Int /\ call[w].sem_op <= 0

(* A sleeper that a counting set could serve finds units in it.            *)
ReadyMeansUnits ==
    \A r \in Counting :
        Ready(r) # {} => value[r] > 0 /\ decrement_waiters[r] > 0 /\ Live(r)

(* The counts that decide on a wakeup see every sleeper.                   *)
LEMMA CountsSeeSleepers == TypeOK /\ CallsExact /\ WaitersExact => SleepersCounted
<1> SUFFICES ASSUME TypeOK, CallsExact, WaitersExact, NEW r \in Slots, NEW w \in Waiting(r)
             PROVE  /\ decrement_waiters[r] > 0 \/ zero_waiters[r] > 0
                    /\ call[w].sem_op < 0 => decrement_waiters[r] > 0
                    /\ call[w].sem_op \in Deltas[r] /\ call[w].sem_op \in Int
                    /\ call[w].sem_op <= 0
  BY DEF SleepersCounted
<1>1. /\ w \in Threads /\ registered[w] /\ call[w].semid = r /\ call[w] \in Calls
      /\ call[w].sem_op <= 0
  BY DEF Waiting, CallsExact
<1>2. call[w].sem_op \in Deltas[r] /\ call[w].sem_op \in Int
  BY <1>1, CallFields
<1>3. /\ call[w].sem_op < 0 => DecWaiters(r) # {}
      /\ call[w].sem_op = 0 => ZeroWaiters(r) # {}
  BY <1>1 DEF DecWaiters, ZeroWaiters
<1>4. /\ decrement_waiters[r] = Cardinality(DecWaiters(r))
      /\ zero_waiters[r] = Cardinality(ZeroWaiters(r))
  BY DEF WaitersExact, DecWaiters, ZeroWaiters
<1>5. /\ DecWaiters(r) # {} => Cardinality(DecWaiters(r)) > 0
      /\ ZeroWaiters(r) # {} => Cardinality(ZeroWaiters(r)) > 0
  BY WaitersFinite DEF DecWaiters, ZeroWaiters
<1>. QED  BY <1>1, <1>2, <1>3, <1>4, <1>5

(* On a counting set only a unit makes a sleeper ready, and it is counted. *)
LEMMA UnitsForReady == TypeOK /\ CallsExact /\ WaitersExact => ReadyMeansUnits
<1> SUFFICES ASSUME TypeOK, CallsExact, WaitersExact, NEW r \in Counting, Ready(r) # {}
             PROVE  value[r] > 0 /\ decrement_waiters[r] > 0 /\ Live(r)
  BY DEF ReadyMeansUnits
<1>1. r \in Slots /\ Deltas[r] \subseteq {-1, 1}
  BY DEF Counting
<1>2. PICK w \in Waiting(r) : Live(r) /\ CanApply(value[r], call[w].sem_op)
  BY DEF Ready
<1>3. call[w].sem_op = -1 /\ decrement_waiters[r] > 0
  BY <1>1, CountsSeeSleepers DEF SleepersCounted
<1>4. value[r] \in 0 .. MaxValue
  BY <1>1 DEF TypeOK
<1>. QED  BY <1>2, <1>3, <1>4, SemAssumption DEF CanApply

(* A waiter of a removed set passes the event on if a waiter is left.      *)
LEMMA SemopRemovedInv ==
    ASSUME IInv, NEW t \in Threads, pc[t] = "try", SemopRemoved(t),
           UNCHANGED <<used, removed, key, ops>>
    PROVE  IInv'
<1> USE SemAssumption DEF IInv
<1>1. PICK s \in Slots : s = call[t].semid
  BY CallFields DEF CallsExact
<1>2. CallsExact' /\ WaitersExact' /\ signaled' \in [Slots -> BOOLEAN] /\ TypeOK'
  BY <1>1, UnregisterExact DEF TypeOK, SemopRemoved, PalEventSet
<1>3. NobodyStranded'
  <2>1. ASSUME NEW r \in Slots, r # s
        PROVE  /\ signaled'[r] = signaled[r] /\ Waiting(r)' = Waiting(r)
               /\ Ready(r)' = Ready(r) /\ (Carrier(r) => Carrier(r)')
    BY <1>1, <2>1 DEF SemopRemoved, Finish, Unregister, PalEventSet, Waiting, Ready, Carrier,
                      Live, TypeOK
  <2>2. Ready(s)' = {} /\ Waiting(s)' = Waiting(s)
    BY <1>1 DEF Ready, Waiting, SemopRemoved, Live, Finish, TypeOK
  <2>3. CASE registered[t] /\ Waiting(s)' # {}
    <3>1. decrement_waiters'[s] > 0 \/ zero_waiters'[s] > 0
      <4>1. (TypeOK /\ CallsExact /\ WaitersExact => SleepersCounted)'
        BY CountsSeeSleepers, PTL
      <4>. QED  BY <1>2, <2>3, <4>1 DEF SleepersCounted
    <3>2. signaled'[s]
      BY <1>1, <2>3, <3>1 DEF SemopRemoved, PalEventSet, TypeOK
    <3>. QED  BY <2>1, <3>2 DEF NobodyStranded
  <2>4. CASE ~registered[t]
    <3>1. signaled' = signaled /\ (Carrier(s) => Carrier(s)')
      BY <1>1, <2>4 DEF SemopRemoved, Finish, Unregister, Carrier, TypeOK
    <3>. QED  BY <2>1, <2>2, <3>1 DEF NobodyStranded
  <2>5. CASE Waiting(s)' = {}
    BY <2>1, <2>2, <2>5 DEF NobodyStranded
  <2>. QED  BY <2>3, <2>4, <2>5
<1>. QED  BY <1>2, <1>3

(* An operation that leaves something for others sets the event.           *)
LEMMA SemopApplyInv ==
    ASSUME IInv, NEW t \in Threads, pc[t] = "try", SemopApply(t),
           UNCHANGED <<used, removed, key, ops>>
    PROVE  IInv'
<1> USE SemAssumption DEF IInv
<1>0. call[t] \in Calls
  BY DEF CallsExact
<1>1. PICK s \in Slots : s = call[t].semid /\ call[t].sem_op \in Int
  BY <1>0, CallFields
<1>2. value' \in [Slots -> 0 .. MaxValue]
  <2>1. value[s] + call[t].sem_op \in 0 .. MaxValue
    BY <1>1 DEF SemopApply, CanApply, TypeOK
  <2>. QED  BY <1>1, <2>1 DEF SemopApply, TypeOK
<1>3. CallsExact' /\ WaitersExact' /\ signaled' \in [Slots -> BOOLEAN] /\ TypeOK'
  BY <1>1, <1>2, UnregisterExact DEF TypeOK, SemopApply, PalEventSet
<1>4. NobodyStranded'
  <2>1. ASSUME NEW r \in Slots, r # s
        PROVE  /\ signaled'[r] = signaled[r] /\ Waiting(r)' = Waiting(r)
               /\ Ready(r)' = Ready(r) /\ (Carrier(r) => Carrier(r)')
    BY <1>1, <2>1 DEF SemopApply, Finish, Unregister, PalEventSet, Waiting, Ready, Carrier,
                      Live, TypeOK
  <2>2. ~removed'[s]
    BY <1>1 DEF SemopApply, Live
  <2>3. ASSUME s \in Counting, Ready(s)' # {} PROVE signaled'[s]
    <3>1. (TypeOK /\ CallsExact /\ WaitersExact => ReadyMeansUnits)'
      BY UnitsForReady, PTL
    <3>2. value'[s] > 0 /\ decrement_waiters'[s] > 0
      BY <1>3, <2>3, <3>1 DEF ReadyMeansUnits
    <3>. QED  BY <1>1, <3>2 DEF SemopApply, PalEventSet, TypeOK
  <2>. QED  BY <2>1, <2>2, <2>3 DEF NobodyStranded
<1>. QED  BY <1>3, <1>4

(* A call that fails at once was never registered.                         *)
LEMMA SemopFailsInv ==
    ASSUME IInv, NEW t \in Threads, pc[t] = "try", SemopFails(t),
           UNCHANGED <<used, removed, key, ops>>
    PROVE  IInv'
<1> USE SemAssumption DEF IInv, SemopFails, Finish
<1>0. call[t] \in Calls
  BY DEF CallsExact
<1>1. call[t].sem_op \in Int
  BY <1>0, CallFields
<1>2. ~registered[t]
  BY <1>1 DEF CallsExact
<1>3. TypeOK'
  BY DEF TypeOK
<1>4. CallsExact'
  BY <1>2 DEF CallsExact, TypeOK
<1>5. WaitersExact'
  <2>1. ASSUME NEW r \in Slots
        PROVE  DecWaiters(r)' = DecWaiters(r) /\ ZeroWaiters(r)' = ZeroWaiters(r)
    BY <1>2 DEF DecWaiters, ZeroWaiters, TypeOK
  <2>. QED  BY <2>1 DEF WaitersExact, DecWaiters, ZeroWaiters
<1>6. NobodyStranded'
  <2>1. ASSUME NEW r \in Slots
        PROVE  Waiting(r)' = Waiting(r) /\ Ready(r)' = Ready(r) /\ (Carrier(r) => Carrier(r)')
    BY <1>2 DEF Waiting, Ready, Carrier, Live, TypeOK
  <2>. QED  BY <2>1 DEF NobodyStranded
<1>. QED  BY <1>3, <1>4, <1>5, <1>6

(* What going to sleep does to the counts: a caller is counted once,       *)
(* however often it is woken in vain.                                      *)
LEMMA RegisterExact ==
    ASSUME TypeOK, CallsExact, WaitersExact, NEW t \in Threads, pc[t] = "try", SemopSleeps(t)
    PROVE  /\ decrement_waiters' \in [Slots -> Nat] /\ zero_waiters' \in [Slots -> Nat]
           /\ WaitersExact'
<1> USE SemAssumption
<1>0. call[t] \in Calls
  BY DEF CallsExact
<1>1. PICK s \in Slots : s = call[t].semid /\ call[t].sem_op \in Int
  BY <1>0, CallFields
<1>2. CASE registered[t]
  <2>1. decrement_waiters' = decrement_waiters /\ zero_waiters' = zero_waiters
    <3>1. \/ decrement_waiters' = [decrement_waiters EXCEPT ![s] = @ + 0] /\ zero_waiters' = zero_waiters
          \/ zero_waiters' = [zero_waiters EXCEPT ![s] = @ + 0] /\ decrement_waiters' = decrement_waiters
      BY <1>1, <1>2 DEF SemopSleeps, CountWaiters
    <3>. QED  BY <3>1, AddNothing DEF TypeOK
  <2>2. registered' = registered /\ call' = call
    BY <1>2 DEF TypeOK, SemopSleeps
  <2>3. WaitersExact'
    BY <2>1, <2>2 DEF WaitersExact
  <2>. QED  BY <2>1, <2>3 DEF TypeOK
<1>3. CASE ~registered[t] /\ call[t].sem_op < 0
  <2>1. t \notin DecWaiters(s) /\ DecWaiters(s)' = DecWaiters(s) \cup {t}
    BY <1>1, <1>3 DEF TypeOK, SemopSleeps, DecWaiters
  <2>2. ASSUME NEW r \in Slots
        PROVE  (r # s => DecWaiters(r)' = DecWaiters(r)) /\ ZeroWaiters(r)' = ZeroWaiters(r)
    BY <1>1, <1>3 DEF TypeOK, SemopSleeps, DecWaiters, ZeroWaiters
  <2>3. IsFiniteSet(DecWaiters(s)) /\ Cardinality(DecWaiters(s)) \in Nat
    BY WaitersFinite DEF DecWaiters
  <2>4. Cardinality(DecWaiters(s)') = Cardinality(DecWaiters(s)) + 1
    BY <2>1, <2>3, FS_AddElement
  <2>5. /\ decrement_waiters' = [decrement_waiters EXCEPT ![s] = @ + 1]
        /\ zero_waiters' = zero_waiters
    BY <1>1, <1>3 DEF SemopSleeps, CountWaiters
  <2>6. decrement_waiters[s] = Cardinality(DecWaiters(s))
    BY <1>1 DEF WaitersExact, DecWaiters
  <2>7. decrement_waiters' \in [Slots -> Nat] /\ decrement_waiters'[s] = Cardinality(DecWaiters(s)')
    BY <1>1, <2>3, <2>4, <2>5, <2>6 DEF TypeOK
  <2>8. WaitersExact'
    <3>1. ASSUME NEW r \in Slots
          PROVE  /\ decrement_waiters'[r] = Cardinality(DecWaiters(r)')
                 /\ zero_waiters'[r] = Cardinality(ZeroWaiters(r)')
      <4>1. /\ decrement_waiters[r] = Cardinality(DecWaiters(r))
            /\ zero_waiters[r] = Cardinality(ZeroWaiters(r))
        BY DEF WaitersExact, DecWaiters, ZeroWaiters
      <4>. QED  BY <1>1, <2>2, <2>5, <2>7, <4>1 DEF TypeOK
    <3>. QED  BY <3>1 DEF WaitersExact, DecWaiters, ZeroWaiters
  <2>. QED  BY <2>5, <2>7, <2>8 DEF TypeOK
<1>4. CASE ~registered[t] /\ call[t].sem_op = 0
  <2>1. t \notin ZeroWaiters(s) /\ ZeroWaiters(s)' = ZeroWaiters(s) \cup {t}
    BY <1>1, <1>4 DEF TypeOK, SemopSleeps, ZeroWaiters
  <2>2. ASSUME NEW r \in Slots
        PROVE  (r # s => ZeroWaiters(r)' = ZeroWaiters(r)) /\ DecWaiters(r)' = DecWaiters(r)
    BY <1>1, <1>4 DEF TypeOK, SemopSleeps, DecWaiters, ZeroWaiters
  <2>3. IsFiniteSet(ZeroWaiters(s)) /\ Cardinality(ZeroWaiters(s)) \in Nat
    BY WaitersFinite DEF ZeroWaiters
  <2>4. Cardinality(ZeroWaiters(s)') = Cardinality(ZeroWaiters(s)) + 1
    BY <2>1, <2>3, FS_AddElement
  <2>5. /\ zero_waiters' = [zero_waiters EXCEPT ![s] = @ + 1]
        /\ decrement_waiters' = decrement_waiters
    BY <1>1, <1>4 DEF SemopSleeps, CountWaiters
  <2>6. zero_waiters[s] = Cardinality(ZeroWaiters(s))
    BY <1>1 DEF WaitersExact, ZeroWaiters
  <2>7. zero_waiters' \in [Slots -> Nat] /\ zero_waiters'[s] = Cardinality(ZeroWaiters(s)')
    BY <1>1, <2>3, <2>4, <2>5, <2>6 DEF TypeOK
  <2>8. WaitersExact'
    <3>1. ASSUME NEW r \in Slots
          PROVE  /\ decrement_waiters'[r] = Cardinality(DecWaiters(r)')
                 /\ zero_waiters'[r] = Cardinality(ZeroWaiters(r)')
      <4>1. /\ decrement_waiters[r] = Cardinality(DecWaiters(r))
            /\ zero_waiters[r] = Cardinality(ZeroWaiters(r))
        BY DEF WaitersExact, DecWaiters, ZeroWaiters
      <4>. QED  BY <1>1, <2>2, <2>5, <2>7, <4>1 DEF TypeOK
    <3>. QED  BY <3>1 DEF WaitersExact, DecWaiters, ZeroWaiters
  <2>. QED  BY <2>5, <2>7, <2>8 DEF TypeOK
<1>. QED  BY <1>1, <1>2, <1>3, <1>4 DEF SemopSleeps

(* A woken waiter goes back to sleep only when there is nothing for it, so *)
(* on a counting set there is nothing for any other.                       *)
LEMMA SemopSleepsInv ==
    ASSUME IInv, NEW t \in Threads, pc[t] = "try", SemopSleeps(t),
           UNCHANGED <<used, removed, key, ops>>
    PROVE  IInv'
<1> USE SemAssumption DEF IInv
<1>0. call[t] \in Calls
  BY DEF CallsExact
<1>1. PICK s \in Slots : /\ s = call[t].semid /\ call[t].sem_op \in Int
                          /\ call[t].sem_op \in Deltas[s]
  BY <1>0, CallFields
<1>2. /\ decrement_waiters' \in [Slots -> Nat] /\ zero_waiters' \in [Slots -> Nat]
      /\ WaitersExact'
  BY RegisterExact
<1>3. TypeOK'
  BY <1>2 DEF TypeOK, SemopSleeps
<1>4. CallsExact'
  BY <1>1 DEF CallsExact, TypeOK, SemopSleeps, Live
<1>5. NobodyStranded'
  <2>1. ASSUME NEW r \in Slots, r # s
        PROVE  /\ signaled'[r] = signaled[r] /\ Waiting(r)' = Waiting(r)
               /\ Ready(r)' = Ready(r) /\ (Carrier(r) => Carrier(r)')
    BY <1>1, <2>1 DEF SemopSleeps, Waiting, Ready, Carrier, Live, TypeOK
  <2>2. ~removed'[s]
    BY <1>1 DEF SemopSleeps, Live
  <2>3. ASSUME s \in Counting, Ready(s)' # {} PROVE FALSE
    <3>1. (TypeOK /\ CallsExact /\ WaitersExact => ReadyMeansUnits)'
      BY UnitsForReady, PTL
    <3>2. value'[s] > 0
      BY <1>2, <1>3, <1>4, <2>3, <3>1 DEF ReadyMeansUnits
    <3>3. call[t].sem_op = -1
      BY <1>1, <2>3 DEF SemopSleeps, Counting
    <3>. QED  BY <1>1, <3>2, <3>3 DEF SemopSleeps, CanApply, TypeOK
  <2>. QED  BY <2>1, <2>2, <2>3 DEF NobodyStranded
<1>. QED  BY <1>2, <1>3, <1>4, <1>5

(* Every step keeps the invariant.                                         *)
LEMMA NextInv == IInv /\ [Next]_vars => IInv'
<1> SUFFICES ASSUME IInv, [Next]_vars PROVE IInv'
  OBVIOUS
<1>1. CASE UNCHANGED vars
  <2>1. TypeOK'
    BY <1>1 DEF IInv, vars, sets, TypeOK
  <2>2. CallsExact' /\ WaitersExact'
    BY <1>1 DEF IInv, vars, sets, CallsExact, WaitersExact
  <2>3. NobodyStranded'
    BY <1>1 DEF IInv, vars, sets, NobodyStranded, Waiting, Ready, Carrier, Live
  <2>. QED  BY <2>1, <2>2, <2>3 DEF IInv
<1>2. CASE Next
  <2>1. PICK t \in Threads : Call(t) \/ Progress(t) \/ WaitFails(t)
    BY <1>2 DEF Next
  <2>2. CASE Call(t)
    BY <2>2, SemgetInv, SemctlInv, SemopInv DEF Call
  <2>3. CASE SemopTry(t)
    BY <2>3, SemopRemovedInv, SemopApplyInv, SemopFailsInv, SemopSleepsInv DEF SemopTry
  <2>4. CASE Woken(t) \/ SemopExpired(t) \/ WaitFails(t)
    BY <2>4, WokenInv, SemopExpiredInv, WaitFailsInv
  <2>. QED  BY <2>1, <2>2, <2>3, <2>4 DEF Progress
<1>. QED  BY <1>1, <1>2

(* The invariant holds of every run.                                       *)
THEOREM Invariance == Spec => []IInv
BY InitInv, NextInv, PTL DEF Spec

------------------------------------------------------------------------------
(* The variables keep their types: in particular a value stays between 0   *)
(* and SEMVMX and no waiter count underflows.                              *)
THEOREM TypeCorrect == Spec => []TypeOK
<1>1. IInv => TypeOK
  BY DEF IInv
<1>. QED  BY <1>1, Invariance, PTL

(* The waiter counts of do_semop are exact through wakeups, timeouts and   *)
(* removal.                                                                *)
THEOREM WaitersAlwaysExact == Spec => []WaitersExact
<1>1. IInv => WaitersExact
  BY DEF IInv
<1>. QED  BY <1>1, Invariance, PTL

(* The set's one event strands nobody: neither on a removed set, nor on a  *)
(* counting set with units left.                                           *)
THEOREM NobodyEverStranded == Spec => []NobodyStranded
<1>1. IInv => NobodyStranded
  BY DEF IInv
<1>. QED  BY <1>1, Invariance, PTL
==============================================================================

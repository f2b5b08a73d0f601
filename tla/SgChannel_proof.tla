-------------------------- MODULE SgChannel_proof --------------------------
(***************************************************************************)
(* Proofs about SgChannel, for any set of threads, any set of requests and *)
(* any number of calls.                                                    *)
(*                                                                         *)
(* Neither TypeOK nor the safety properties are inductive: that a reply is *)
(* one's own depends on who owns the page while the listener works, and    *)
(* that depends on the handshake having ended.  The inductive invariant    *)
(* IInv adds                                                               *)
(*   LockInv       who may hold the page and what the event then says;     *)
(*   HandshakeInv  the state before the constructor clears the page, then  *)
(*                 the reachable pairs of setup positions, with the magic  *)
(*                 words and p1 in each;                                   *)
(*   RequestInv    where the listener can be for each position of the      *)
(*                 owner, and what req_bit, p1 and ret hold then.          *)
(***************************************************************************)
EXTENDS SgChannel, TLAPS

LockInv ==
    /\ \A t \in Threads : Owns(t) => ~signaled
    /\ \A t, u \in Threads : Owns(t) /\ Owns(u) => t = u
    /\ \A t \in Threads : t # Main => pc[t] \notin SetupPc

HandshakeInv ==
    /\ ~Cleared =>
          /\ hpc = "h_comm" /\ data = "zero" /\ huge = "zero"
          /\ pc[Main] \notin SetupPc \ {"s_magic"}
    /\ pc[Main] = "s_magic" => ~Cleared
    /\ pc[Main] \in SetupPc /\ Cleared => req = NoReq
    /\ pc[Main] = "s_comm" =>
          /\ data = "zero" /\ huge = "zero" /\ p1 = Zero
          /\ \/ hpc \in {"h_comm", "h_ack"} /\ magic = "comm"
             \/ hpc = "h_data" /\ magic = "two"
    /\ pc[Main] = "s_data" =>
          hpc = "h_data" /\ magic = "comm" /\ data = "zero" /\ huge = "zero" /\ p1 = Zero
    /\ pc[Main] = "s_p1" =>
          /\ magic = "comm" /\ huge = "zero" /\ p1 = Zero
          /\ \/ hpc \in {"h_data", "h_dataack"} /\ data = "set"
             \/ hpc = "h_p1" /\ data = "two"
    /\ pc[Main] = "s_huge" =>
          /\ magic = "comm" /\ huge = "zero"
          /\ \/ hpc \in {"h_p1", "h_clear"} /\ p1 = Huge
             \/ hpc = "h_huge" /\ p1 = Zero
    /\ pc[Main] = "s_hugeack" =>
          \/ hpc \in {"h_p1", "h_clear"} /\ p1 = Huge /\ huge = "set" /\ magic = "comm"
          \/ hpc = "h_huge" /\ huge = "set" /\ magic = "comm"
          \/ hpc \in {"h_window", "h_ready"} /\ huge = "two" /\ magic = "comm"
          \/ hpc = "poll" /\ huge = "two" /\ magic = "three"
    /\ pc[Main] = "s_ready" =>
          \/ hpc \in {"h_window", "h_ready"} /\ magic = "comm"
          \/ hpc = "poll" /\ magic = "three"
    /\ pc[Main] = "s_unlock" => hpc = "poll" /\ magic = "comm"
    /\ pc[Main] \notin SetupPc /\ Cleared => hpc \notin HostSetupPc /\ magic = "comm"
    /\ hpc \notin {"h_comm", "h_ack", "h_data", "h_dataack", "h_p1"} => hugeAddr = Huge

RequestInv ==
    /\ Cleared /\ req # NoReq => \E t \in Threads : pc[t] = "spin"
    /\ hpc \in {"serve", "complete"} => req # NoReq /\ hreq = req
    /\ \A t \in Threads :
          /\ pc[t] \in OwnerPc \cup {"lock", "nap"} => op[t] \in Ops
          /\ pc[t] \in {"post", "spin"} => p1 = Par(t)
          /\ Cleared =>
                /\ pc[t] \in {"fill", "post", "unlock"} => req = NoReq
                /\ pc[t] = "spin" => req \in {NoReq, op[t]}
                /\ pc[t] = "spin" /\ (req = NoReq \/ hpc = "complete")
                      /\ op[t] \in ReturnOps => ret.to = Par(t)
                /\ pc[t] = "unlock" /\ op[t] \in ReturnOps => got[t].to = Par(t)
          /\ ~Cleared /\ pc[t] = "unlock" => got[t] = NoAnswer

IInv == TypeOK /\ LockInv /\ HandshakeInv /\ RequestInv

(* The initial state satisfies the invariant.                              *)
LEMMA InitInv == Init => IInv
  BY ChannelAssumption
  DEF Init, IInv, TypeOK, LockInv, HandshakeInv, RequestInv, Owns, Params, Answers,
      NoAnswer, Values, Zero, Huge, AllOps, NoReq, Cleared, ThreadPc, SetupPc, OwnerPc, HostPc, HostSetupPc

(* The constructor's half of the handshake: it becomes the page's only     *)
(* owner, then each side moves only on the other's last word.              *)
LEMMA SetupInv ==
  ASSUME IInv, Setup
  PROVE  IInv'
<1> USE ChannelAssumption DEF IInv, Cleared, page, guest, host, GuestStep, Setup, SetupLock,
      SetupMagic, SetupComm, SetupData, SetupP1, SetupHuge, SetupHugeAck, SetupReady,
      SetupUnlock
<1>1. TypeOK'
  <2>1. Zero \in Params /\ Huge \in Params /\ NoAnswer \in Answers
    BY DEF Params, Answers, Values, NoAnswer
  <2>2. pc' \in [Threads -> ThreadPc]
    BY DEF TypeOK, ThreadPc, SetupPc
  <2>3. signaled' \in BOOLEAN
    BY DEF TypeOK
  <2>4. req' \in AllOps \cup {NoReq} /\ p1' \in Params /\ ret' \in Answers
    BY <2>1 DEF TypeOK
  <2>. QED
    BY <2>2, <2>3, <2>4 DEF TypeOK
<1>2. LockInv'
  BY DEF TypeOK, LockInv, HandshakeInv, Owns, ThreadPc, OwnerPc, SetupPc
<1>3. HandshakeInv'
  BY DEF TypeOK, LockInv, HandshakeInv, RequestInv, Owns, OwnerPc, SetupPc,
         HostPc, HostSetupPc, NoReq
<1>4. RequestInv'
  BY DEF TypeOK, LockInv, HandshakeInv, RequestInv, Owns, OwnerPc, SetupPc,
         HostSetupPc, NoReq, Par, ReturnOps
<1>. QED
  BY <1>1, <1>2, <1>3, <1>4

(* A thread takes the comm lock: nobody else owns the page. *)
LEMMA AcquireInv ==
  ASSUME IInv, NEW t \in Threads, Acquire(t)
  PROVE  IInv'
<1> USE ChannelAssumption DEF IInv, Cleared, page, guest, host, GuestStep, HostStep, Acquire
<1>1. TypeOK'
  BY DEF TypeOK, ThreadPc, OwnerPc
<1>2. LockInv'
  BY DEF TypeOK, LockInv, HandshakeInv, Owns, ThreadPc, OwnerPc, SetupPc
<1>3. HandshakeInv'
  BY DEF TypeOK, LockInv, HandshakeInv, RequestInv, Owns, ThreadPc, OwnerPc,
         SetupPc, HostPc, HostSetupPc, NoReq
<1>4. RequestInv'
  BY DEF TypeOK, LockInv, HandshakeInv, RequestInv, Owns, ThreadPc, OwnerPc,
         SetupPc, HostSetupPc, NoReq, Par, ReturnOps
<1>. QED
  BY <1>1, <1>2, <1>3, <1>4

(* The owner stores its parameters while no request is posted. *)
LEMMA FillInv ==
  ASSUME IInv, NEW t \in Threads, Fill(t)
  PROVE  IInv'
<1> USE ChannelAssumption DEF IInv, Cleared, page, guest, host, GuestStep, HostStep, Fill
<1>1. TypeOK'
  BY DEF TypeOK, LockInv, HandshakeInv, RequestInv, ThreadPc, OwnerPc, SetupPc,
         HostPc, HostSetupPc, NoReq, Par, Params, Answers, Values
<1>2. LockInv'
  BY DEF TypeOK, LockInv, HandshakeInv, Owns, ThreadPc, OwnerPc, SetupPc
<1>3. HandshakeInv'
  BY DEF TypeOK, LockInv, HandshakeInv, RequestInv, Owns, ThreadPc, OwnerPc,
         SetupPc, HostPc, HostSetupPc, NoReq
<1>4. RequestInv'
  BY DEF TypeOK, LockInv, HandshakeInv, RequestInv, Owns, ThreadPc, OwnerPc,
         SetupPc, HostSetupPc, NoReq, Par, ReturnOps
<1>. QED
  BY <1>1, <1>2, <1>3, <1>4

(* The owner posts its request beside its own parameters. *)
LEMMA PostInv ==
  ASSUME IInv, NEW t \in Threads, Post(t)
  PROVE  IInv'
<1> USE ChannelAssumption DEF IInv, Cleared, page, guest, host, GuestStep, HostStep, Post
<1>1. TypeOK'
  BY DEF TypeOK, LockInv, HandshakeInv, RequestInv, ThreadPc, OwnerPc, SetupPc,
         HostPc, HostSetupPc, NoReq, Par, Params, Answers, Values
<1>2. LockInv'
  BY DEF TypeOK, LockInv, HandshakeInv, Owns, ThreadPc, OwnerPc, SetupPc
<1>3. HandshakeInv'
  BY DEF TypeOK, LockInv, HandshakeInv, RequestInv, Owns, ThreadPc, OwnerPc,
         SetupPc, HostPc, HostSetupPc, NoReq
<1>4. RequestInv'
  BY DEF TypeOK, LockInv, HandshakeInv, RequestInv, Owns, ThreadPc, OwnerPc,
         SetupPc, HostSetupPc, NoReq, Par, ReturnOps, AllOps
<1>. QED
  BY <1>1, <1>2, <1>3, <1>4

(* The owner leaves its loop with the answer the listener left for it. *)
LEMMA NotifyInv ==
  ASSUME IInv, NEW t \in Threads, Notify(t)
  PROVE  IInv'
<1> USE ChannelAssumption DEF IInv, Cleared, page, guest, host, GuestStep, HostStep, Notify,
      NoAnswer, Zero
<1>1. TypeOK'
  BY DEF TypeOK, LockInv, HandshakeInv, RequestInv, ThreadPc, OwnerPc, SetupPc,
         HostPc, HostSetupPc, NoReq, Par, Params, Answers, Values
<1>2. LockInv'
  BY DEF TypeOK, LockInv, HandshakeInv, Owns, ThreadPc, OwnerPc, SetupPc
<1>3. HandshakeInv'
  BY DEF TypeOK, LockInv, HandshakeInv, RequestInv, Owns, ThreadPc, OwnerPc,
         SetupPc, HostPc, HostSetupPc, NoReq
<1>4. RequestInv'
  BY DEF TypeOK, LockInv, HandshakeInv, RequestInv, Owns, ThreadPc, OwnerPc,
         SetupPc, HostSetupPc, NoReq, Par, ReturnOps
<1>. QED
  BY <1>1, <1>2, <1>3, <1>4

(* The owner releases the comm lock, after set-up with no request left.     *)
LEMMA RelinquishInv ==
  ASSUME IInv, NEW t \in Threads, Relinquish(t)
  PROVE  IInv'
<1> USE ChannelAssumption DEF IInv, Cleared, page, guest, host, GuestStep, HostStep,
      Relinquish
<1>1. TypeOK'
  BY DEF TypeOK, LockInv, HandshakeInv, RequestInv, ThreadPc, OwnerPc, SetupPc,
         HostPc, HostSetupPc, NoReq, Par, Params, Answers, Values
<1>2. LockInv'
  BY DEF TypeOK, LockInv, HandshakeInv, Owns, ThreadPc, OwnerPc, SetupPc
<1>3. HandshakeInv'
  BY DEF TypeOK, LockInv, HandshakeInv, RequestInv, Owns, ThreadPc, OwnerPc,
         SetupPc, HostPc, HostSetupPc, NoReq
<1>4. RequestInv'
  BY DEF TypeOK, LockInv, HandshakeInv, RequestInv, Owns, ThreadPc, OwnerPc,
         SetupPc, HostSetupPc, NoReq, Par, ReturnOps
<1>. QED
  BY <1>1, <1>2, <1>3, <1>4

(* A sleeping semop goes back to the lock. *)
LEMMA RetryInv ==
  ASSUME IInv, NEW t \in Threads, Retry(t)
  PROVE  IInv'
<1> USE ChannelAssumption DEF IInv, Cleared, page, guest, host, GuestStep, HostStep, Retry
<1>1. TypeOK'
  BY DEF TypeOK, LockInv, HandshakeInv, RequestInv, ThreadPc, OwnerPc, SetupPc,
         HostPc, HostSetupPc, NoReq, Par, Params, Answers, Values
<1>2. LockInv'
  BY DEF TypeOK, LockInv, HandshakeInv, Owns, ThreadPc, OwnerPc, SetupPc
<1>3. HandshakeInv'
  BY DEF TypeOK, LockInv, HandshakeInv, RequestInv, Owns, ThreadPc, OwnerPc,
         SetupPc, HostPc, HostSetupPc, NoReq
<1>4. RequestInv'
  BY DEF TypeOK, LockInv, HandshakeInv, RequestInv, Owns, ThreadPc, OwnerPc,
         SetupPc, HostSetupPc, NoReq, Par, ReturnOps
<1>. QED
  BY <1>1, <1>2, <1>3, <1>4

(* A sleeping semop returns. *)
LEMMA GiveUpInv ==
  ASSUME IInv, NEW t \in Threads, GiveUp(t)
  PROVE  IInv'
<1> USE ChannelAssumption DEF IInv, Cleared, page, guest, host, GuestStep, HostStep, GiveUp
<1>1. TypeOK'
  BY DEF TypeOK, LockInv, HandshakeInv, RequestInv, ThreadPc, OwnerPc, SetupPc,
         HostPc, HostSetupPc, NoReq, Par, Params, Answers, Values
<1>2. LockInv'
  BY DEF TypeOK, LockInv, HandshakeInv, Owns, ThreadPc, OwnerPc, SetupPc
<1>3. HandshakeInv'
  BY DEF TypeOK, LockInv, HandshakeInv, RequestInv, Owns, ThreadPc, OwnerPc,
         SetupPc, HostPc, HostSetupPc, NoReq
<1>4. RequestInv'
  BY DEF TypeOK, LockInv, HandshakeInv, RequestInv, Owns, ThreadPc, OwnerPc,
         SetupPc, HostSetupPc, NoReq, Par, ReturnOps
<1>. QED
  BY <1>1, <1>2, <1>3, <1>4

(* The listener's half of the handshake. *)
LEMMA HostSetupInv ==
  ASSUME IInv, HostSetup
  PROVE  IInv'
<1> USE ChannelAssumption DEF IInv, Cleared, page, guest, host, GuestStep, HostStep,
      HostSetup, NoAnswer, Zero
<1>1. TypeOK'
  BY DEF TypeOK, LockInv, HandshakeInv, RequestInv, ThreadPc, OwnerPc, SetupPc,
         HostPc, HostSetupPc, NoReq, Par, Params, Answers, Values
<1>2. LockInv'
  BY DEF TypeOK, LockInv, HandshakeInv, Owns, ThreadPc, OwnerPc, SetupPc
<1>3. HandshakeInv'
  BY DEF TypeOK, LockInv, HandshakeInv, RequestInv, Owns, ThreadPc, OwnerPc,
         SetupPc, HostPc, HostSetupPc, NoReq
<1>4. RequestInv'
  BY DEF TypeOK, LockInv, HandshakeInv, RequestInv, Owns, ThreadPc, OwnerPc,
         SetupPc, HostSetupPc, NoReq, Par, ReturnOps
<1>. QED
  BY <1>1, <1>2, <1>3, <1>4

(* The listener reads req_bit. *)
LEMMA PollInv ==
  ASSUME IInv, Poll
  PROVE  IInv'
<1> USE ChannelAssumption DEF IInv, Cleared, page, guest, host, GuestStep, HostStep, Poll
<1>1. TypeOK'
  BY DEF TypeOK, LockInv, HandshakeInv, RequestInv, ThreadPc, OwnerPc, SetupPc,
         HostPc, HostSetupPc, NoReq, Par, Params, Answers, Values
<1>2. LockInv'
  BY DEF TypeOK, LockInv, HandshakeInv, Owns, ThreadPc, OwnerPc, SetupPc
<1>3. HandshakeInv'
  BY DEF TypeOK, LockInv, HandshakeInv, RequestInv, Owns, ThreadPc, OwnerPc,
         SetupPc, HostPc, HostSetupPc, NoReq
<1>4. RequestInv'
  BY DEF TypeOK, LockInv, HandshakeInv, RequestInv, Owns, ThreadPc, OwnerPc,
         SetupPc, HostSetupPc, NoReq, Par, ReturnOps
<1>. QED
  BY <1>1, <1>2, <1>3, <1>4

(* The listener serves a request whose owner is spinning. *)
LEMMA ServeInv ==
  ASSUME IInv, Serve
  PROVE  IInv'
<1> USE ChannelAssumption DEF IInv, Cleared, page, guest, host, GuestStep, HostStep, Serve,
      ServeSem, ServeFlock, ServePlain, Reply
<1>1. TypeOK'
  <2>1. PICK t \in Threads : p1 = Par(t)
    BY DEF RequestInv, HandshakeInv
  <2>2. p1.thread \in Threads
    BY <2>1 DEF Par
  <2>3. flock' \in Threads \cup {NoOne} /\ sem' \in Nat
    BY <2>2 DEF TypeOK
  <2>4. ret' \in Answers
    BY DEF TypeOK, Answers, Values
  <2>. QED
    BY <2>3, <2>4 DEF TypeOK, HostPc
<1>2. LockInv'
  BY DEF TypeOK, LockInv, HandshakeInv, Owns, ThreadPc, OwnerPc, SetupPc
<1>3. HandshakeInv'
  BY DEF TypeOK, LockInv, HandshakeInv, RequestInv, Owns, ThreadPc, OwnerPc,
         SetupPc, HostPc, HostSetupPc, NoReq
<1>4. RequestInv'
  BY DEF TypeOK, LockInv, HandshakeInv, RequestInv, Owns, ThreadPc, OwnerPc,
         SetupPc, HostSetupPc, NoReq, Par, ReturnOps
<1>. QED
  BY <1>1, <1>2, <1>3, <1>4

(* The listener clears req_bit and thereby hands the page back. *)
LEMMA complete_requestInv ==
  ASSUME IInv, complete_request
  PROVE  IInv'
<1> USE ChannelAssumption DEF IInv, Cleared, page, guest, host, GuestStep, HostStep,
      complete_request
<1>1. TypeOK'
  BY DEF TypeOK, LockInv, HandshakeInv, RequestInv, ThreadPc, OwnerPc, SetupPc,
         HostPc, HostSetupPc, NoReq, Par, Params, Answers, Values
<1>2. LockInv'
  BY DEF TypeOK, LockInv, HandshakeInv, Owns, ThreadPc, OwnerPc, SetupPc
<1>3. HandshakeInv'
  BY DEF TypeOK, LockInv, HandshakeInv, RequestInv, Owns, ThreadPc, OwnerPc,
         SetupPc, HostPc, HostSetupPc, NoReq
<1>4. RequestInv'
  BY DEF TypeOK, LockInv, HandshakeInv, RequestInv, Owns, ThreadPc, OwnerPc,
         SetupPc, HostSetupPc, NoReq, Par, ReturnOps
<1>. QED
  BY <1>1, <1>2, <1>3, <1>4

(* A thread starts a redirected system call. *)
LEMMA CallInv ==
  ASSUME IInv, NEW t \in Threads, NEW o \in Ops, Call(t, o)
  PROVE  IInv'
<1> USE ChannelAssumption DEF IInv, Cleared, page, guest, host, GuestStep, HostStep, Call
<1>1. TypeOK'
  BY DEF TypeOK, LockInv, HandshakeInv, RequestInv, ThreadPc, OwnerPc, SetupPc,
         HostPc, HostSetupPc, NoReq, Par, Params, Answers, Values
<1>2. LockInv'
  BY DEF TypeOK, LockInv, HandshakeInv, Owns, ThreadPc, OwnerPc, SetupPc
<1>3. HandshakeInv'
  BY DEF TypeOK, LockInv, HandshakeInv, RequestInv, Owns, ThreadPc, OwnerPc,
         SetupPc, HostPc, HostSetupPc, NoReq
<1>4. RequestInv'
  BY DEF TypeOK, LockInv, HandshakeInv, RequestInv, Owns, ThreadPc, OwnerPc,
         SetupPc, HostSetupPc, NoReq, Par, ReturnOps
<1>. QED
  BY <1>1, <1>2, <1>3, <1>4

(* Every step preserves the invariant.                                     *)
LEMMA NextInv == IInv /\ [Next]_vars => IInv'
<1> SUFFICES ASSUME IInv, [Next]_vars PROVE IInv'
  OBVIOUS
<1>1. CASE Setup
  BY <1>1, SetupInv
<1>2. CASE \E t \in Threads : \E o \in Ops : Call(t, o)
  BY <1>2, CallInv
<1>3. CASE \E t \in Threads : Acquire(t) \/ Request(t) \/ Retry(t) \/ GiveUp(t)
  BY <1>3, AcquireInv, FillInv, PostInv, NotifyInv, RelinquishInv, RetryInv, GiveUpInv
  DEF Request
<1>4. CASE Listener
  BY <1>4, HostSetupInv, PollInv, ServeInv, complete_requestInv DEF Listener
<1>5. CASE UNCHANGED vars
  BY <1>5 DEF vars, page, guest, host, IInv, TypeOK, LockInv, HandshakeInv, RequestInv,
             Owns, Par, Cleared
<1>. QED
  BY <1>1, <1>2, <1>3, <1>4, <1>5 DEF Next

(* The inductive invariant holds in every reachable state.                 *)
THEOREM Invariance == Spec => []IInv
  BY InitInv, NextInv, PTL DEF Spec

(* Every word of the page and every position stays in its range; that the  *)
(* flock holder is a thread needs RequestInv.                              *)
THEOREM TypeCorrect == Spec => []TypeOK
<1>1. IInv => TypeOK
  BY DEF IInv
<1>. QED
  BY <1>1, Invariance, PTL

(* comm_sync_notify's caller is alone on the page and its request stands   *)
(* beside its own parameters, for any number of threads.                   *)
THEOREM DoorbellIsSingleProducer == Spec => []SingleProducer
<1>1. IInv => SingleProducer
  BY DEF IInv, SingleProducer, LockInv, RequestInv, Cleared
<1>. QED
  BY <1>1, Invariance, PTL

(* A redirected system call whose handler stores a result returns the      *)
(* listener's answer to that call, and 0 before set-up.                    *)
THEOREM RepliesMatchRequests == Spec => []ReplyIsOwn
<1>1. IInv => ReplyIsOwn
  BY DEF IInv, ReplyIsOwn, RequestInv, Cleared
<1>. QED
  BY <1>1, Invariance, PTL

(* setup_comm_data_regions and the event loop never overlap with requests  *)
(* and setup_syscall_comms in the wrong way.                               *)
THEOREM SetupEndsFirst == Spec => []SetupIsolated
<1>1. IInv => SetupIsolated
  BY DEF IInv, SetupIsolated, TypeOK, LockInv, HandshakeInv, RequestInv, Owns,
         SetupPc, OwnerPc, HostSetupPc, NoReq, Cleared
<1>. QED
  BY <1>1, Invariance, PTL
============================================================================

------------------------------ MODULE SgChannel ------------------------------
(***************************************************************************)
(* The "secure gaming" request channel between the guest VM and QEMU.      *)
(*                                                                         *)
(* Guest and host share one communication page.  A guest thread takes the  *)
(* comm lock (a LibOS lock, that is an auto-clearing PAL event), stores    *)
(* the parameters, stores the request code in req_bit and spins until the  *)
(* host's listener thread clears req_bit; it then reads ret and releases   *)
(* the lock.  Before that, the constructor of egl-redirect and the         *)
(* listener run a handshake over the page's magic word, the magic words of *)
(* the two GEM arenas and p1.                                              *)
(*                                                                         *)
(*   guest   egl-redirect/gramine.c, gramine-tdx/libos (libos_sg.h,        *)
(*           libos_sg_lock.c, libos_lock.h, libos_sem.c, libos_fcntl.c)    *)
(*   host    qemu/util/sg-listener.c                                       *)
(*                                                                         *)
(* Every access to a word of the page is a step of its own.  Which host    *)
(* system call a request stands for is abstracted to what the channel can  *)
(* tell apart: does the listener write ret, and can the call wait for      *)
(* another guest thread?  A READ, WRITE, IOCTL or FCNTL that returns by    *)
(* itself is a SYSCALL; one that waits for what another guest thread must  *)
(* do first is, to the channel, a FLOCK_EX.                                *)
(***************************************************************************)
EXTENDS Integers, FiniteSets

CONSTANTS
    Threads,   \* guest threads that issue requests
    Main,      \* the thread that runs egl-redirect's constructor
    Ops,       \* the requests the threads of this instance make
    MaxCalls,  \* bound: requests made by one thread
    SemInit,   \* initial value of the host's semaphore
    SemMax,    \* bound: the largest value of that semaphore
    NoOne      \* not a thread

AllOps == {"SYSCALL", "NORET", "SEMWAIT", "SEMPOST",
           "FLOCK_EX", "FLOCK_NB", "FLOCK_UN"}

ASSUME ChannelAssumption ==
    /\ Main \in Threads
    /\ NoOne \notin Threads
    /\ Ops \subseteq AllOps
    /\ MaxCalls \in Nat
    /\ SemInit \in Nat
    /\ SemMax \in Nat

VARIABLES
    magic,     \* comm_page_t.magic
    req,       \* comm_page_t.req_bit: NoReq, or the request being made
    p1,        \* comm_page_t.p1..p5, as one value
    ret,       \* comm_page_t.ret: the request it answers, and the value
    data,      \* magic word of the regular GEM arena
    huge,      \* magic word of the hugepage GEM arena
    signaled,  \* the comm lock: the PAL event's signaled word
    pc,        \* where each guest thread is
    op,        \* the request a thread is making
    calls,     \* requests a thread has made so far
    got,       \* what comm_sync_notify returned to a thread
    hpc,       \* where the listener is
    hreq,      \* the listener's copy of req_bit
    hugeAddr,  \* the listener's HUGEPAGE_DATA_REGION
    sem,       \* value of the host's semaphore
    flock      \* holder of the host's file lock

page  == <<magic, req, p1, ret, data, huge>>
guest == <<signaled, pc, op, calls, got>>
host  == <<hpc, hreq, hugeAddr, sem, flock>>
vars  == <<page, guest, host>>

NoReq == "none"

Zero == [kind |-> "zero"]
Huge == [kind |-> "huge"]                                \* address of the arena
Par(t) == [kind |-> "par", thread |-> t, call |-> calls[t]]

Params ==
    {Zero, Huge} \cup [kind : {"par"}, thread : Threads, call : 0..MaxCalls]

Values == {"none", "ok", "again", "err"}     \* again: EAGAIN
Answers == [to : Params, value : Values]
NoAnswer == [to |-> Zero, value |-> "none"]

SetupPc  == {"s_magic", "s_comm", "s_data", "s_p1", "s_huge",
             "s_hugeack", "s_ready", "s_unlock"}
OwnerPc  == {"fill", "post", "spin", "unlock"}
ThreadPc == {"idle", "lock", "nap"} \cup OwnerPc \cup SetupPc

HostSetupPc == {"h_comm", "h_ack", "h_data", "h_dataack", "h_p1", "h_clear",
                "h_huge", "h_window", "h_ready"}
HostPc == {"poll", "serve", "complete"} \cup HostSetupPc

(* Ops whose handler stores ret; CLOSE, X11_SETUP, X11_PRESENT and the     *)
(* window and logging requests ("NORET") leave it alone.                   *)
ReturnOps == AllOps \ {"NORET"}

TypeOK ==
    /\ magic \in {"zero", "comm", "two", "three"}
    /\ req \in AllOps \cup {NoReq}
    /\ p1 \in Params
    /\ ret \in Answers
    /\ data \in {"zero", "set", "two"}
    /\ huge \in {"zero", "set", "two"}
    /\ signaled \in BOOLEAN
    /\ pc \in [Threads -> ThreadPc]
    /\ op \in [Threads -> AllOps \cup {NoReq}]
    /\ calls \in [Threads -> 0..MaxCalls]
    /\ got \in [Threads -> Answers]
    /\ hpc \in HostPc
    /\ hreq \in AllOps \cup {NoReq}
    /\ hugeAddr \in Params
    /\ sem \in Nat
    /\ flock \in Threads \cup {NoOne}

Init ==
    /\ magic = "zero" /\ req = NoReq /\ p1 = Zero /\ ret = NoAnswer
    /\ data = "zero" /\ huge = "zero"
    /\ signaled = TRUE                \* create_lock: init_signaled = true
    /\ pc = [t \in Threads |-> "idle"]
    /\ op = [t \in Threads |-> NoReq]
    /\ calls = [t \in Threads |-> 0]
    /\ got = [t \in Threads |-> NoAnswer]
    /\ hpc = "h_comm" /\ hreq = NoReq /\ hugeAddr = Zero
    /\ sem = SemInit /\ flock = NoOne

------------------------------------------------------------------------------
(* The constructor: setup_syscall_comms.                                   *)

GuestStep(t, from, to) ==
    /\ pc[t] = from
    /\ pc' = [pc EXCEPT ![t] = to]

(* The constructor runs once; the page is all zero until it does.          *)
SetupLock ==
    /\ GuestStep(Main, "idle", "s_magic")
    /\ magic = "zero"
    /\ signaled
    /\ signaled' = FALSE
    /\ UNCHANGED <<page, op, calls, got, host>>

(* mmap of the comm page, memset, first store of the magic word.           *)
SetupMagic ==
    /\ GuestStep(Main, "s_magic", "s_comm")
    /\ magic' = "comm" /\ req' = NoReq /\ p1' = Zero /\ ret' = NoAnswer
    /\ UNCHANGED <<data, huge, signaled, op, calls, got, host>>

SetupComm ==
    /\ GuestStep(Main, "s_comm", "s_data")
    /\ magic = "two"
    /\ magic' = "comm"
    /\ UNCHANGED <<req, p1, ret, data, huge, signaled, op, calls, got, host>>

SetupData ==
    /\ GuestStep(Main, "s_data", "s_p1")
    /\ data' = "set"
    /\ UNCHANGED <<magic, req, p1, ret, huge, signaled, op, calls, got, host>>

SetupP1 ==
    /\ GuestStep(Main, "s_p1", "s_huge")
    /\ data = "two"
    /\ p1' = Huge
    /\ UNCHANGED <<magic, req, ret, data, huge, signaled, op, calls, got, host>>

SetupHuge ==
    /\ GuestStep(Main, "s_huge", "s_hugeack")
    /\ huge' = "set"
    /\ UNCHANGED <<magic, req, p1, ret, data, signaled, op, calls, got, host>>

SetupHugeAck ==
    /\ GuestStep(Main, "s_hugeack", "s_ready")
    /\ huge = "two"
    /\ UNCHANGED <<page, signaled, op, calls, got, host>>

(* Slip: the constructor does not wait for the listener's last word.        *)
SetupReady_nowait ==
    /\ GuestStep(Main, "s_ready", "s_unlock")
    /\ magic' = "comm"
    /\ UNCHANGED <<req, p1, ret, data, huge, signaled, op, calls, got, host>>

SetupReady ==
    /\ GuestStep(Main, "s_ready", "s_unlock")
    /\ magic = "three"
    /\ magic' = "comm"
    /\ UNCHANGED <<req, p1, ret, data, huge, signaled, op, calls, got, host>>

SetupUnlock ==
    /\ GuestStep(Main, "s_unlock", "idle")
    /\ signaled' = TRUE
    /\ UNCHANGED <<page, op, calls, got, host>>

Setup ==
    \/ SetupLock \/ SetupMagic \/ SetupComm \/ SetupData \/ SetupP1
    \/ SetupHuge \/ SetupHugeAck \/ SetupReady \/ SetupUnlock

------------------------------------------------------------------------------
(* A redirected system call.  Nothing keeps a thread from making one       *)
(* before the constructor has run: another library's constructor may open  *)
(* a device.                                                               *)

Call(t, o) ==
    /\ calls[t] < MaxCalls
    /\ GuestStep(t, "idle", "lock")
    /\ op' = [op EXCEPT ![t] = o]
    /\ calls' = [calls EXCEPT ![t] = @ + 1]
    /\ UNCHANGED <<page, signaled, got, host>>

(* Slip: the request is made without the comm lock.                         *)
Acquire_unlocked(t) ==
    /\ GuestStep(t, "lock", "fill")
    /\ UNCHANGED <<page, signaled, op, calls, got, host>>

(* lock(): PalEventWait on an auto-clearing event.                         *)
Acquire(t) ==
    /\ GuestStep(t, "lock", "fill")
    /\ signaled
    /\ signaled' = FALSE
    /\ UNCHANGED <<page, op, calls, got, host>>

Fill(t) ==
    /\ GuestStep(t, "fill", "post")
    /\ p1' = Par(t)
    /\ UNCHANGED <<magic, req, ret, data, huge, signaled, op, calls, got, host>>

Post(t) ==
    /\ GuestStep(t, "post", "spin")
    /\ req' = op[t]
    /\ UNCHANGED <<magic, p1, ret, data, huge, signaled, op, calls, got, host>>

(* comm_sync_notify: returns 0 at once when the page was not set up; the   *)
(* request stays in req_bit until the constructor clears the page.         *)
Notify(t) ==
    /\ GuestStep(t, "spin", "unlock")
    /\ magic # "comm" \/ req = NoReq
    /\ got' = [got EXCEPT ![t] = IF magic = "comm" THEN ret ELSE NoAnswer]
    /\ UNCHANGED <<page, signaled, op, calls, host>>

(* unlock(): PalEventSet.  do_semop then goes round again after a sleep    *)
(* when the host answered EAGAIN to a blocking operation.                  *)
Relinquish(t) ==
    /\ GuestStep(t, "unlock",
                 IF op[t] = "SEMWAIT" /\ got[t].value = "again" THEN "nap" ELSE "idle")
    /\ signaled' = TRUE
    /\ UNCHANGED <<page, op, calls, got, host>>

(* Slip: the loop takes the lock but looks at the old answer again.         *)
Retry_stale(t) ==
    /\ GuestStep(t, "nap", "unlock")
    /\ signaled
    /\ signaled' = FALSE
    /\ UNCHANGED <<page, op, calls, got, host>>

(* do_nanosleep returns and do_semop asks again, ...                       *)
Retry(t) ==
    /\ GuestStep(t, "nap", "lock")
    /\ UNCHANGED <<page, signaled, op, calls, got, host>>

(* ... or it was interrupted, or semtimedop's timeout has run out.         *)
GiveUp(t) ==
    /\ GuestStep(t, "nap", "idle")
    /\ UNCHANGED <<page, signaled, op, calls, got, host>>

------------------------------------------------------------------------------
(* The listener: setup_comm_data_regions, then the event loop.             *)

HostStep(from, to) ==
    /\ hpc = from
    /\ hpc' = to

HostSetup ==
    /\ \/ /\ HostStep("h_comm", "h_ack")
          /\ magic = "comm"
          /\ UNCHANGED <<magic, p1, ret, data, huge, hugeAddr>>
       \/ /\ HostStep("h_ack", "h_data")
          /\ magic' = "two"
          /\ UNCHANGED <<p1, ret, data, huge, hugeAddr>>
       \/ /\ HostStep("h_data", "h_dataack")
          /\ data = "set"
          /\ UNCHANGED <<magic, p1, ret, data, huge, hugeAddr>>
       \/ /\ HostStep("h_dataack", "h_p1")
          /\ data' = "two"
          /\ UNCHANGED <<magic, p1, ret, huge, hugeAddr>>
       \/ /\ HostStep("h_p1", "h_clear")
          /\ p1 # Zero
          /\ hugeAddr' = p1
          /\ UNCHANGED <<magic, p1, ret, data, huge>>
       \/ /\ HostStep("h_clear", "h_huge")
          /\ p1' = Zero
          /\ UNCHANGED <<magic, ret, data, huge, hugeAddr>>
       \/ /\ HostStep("h_huge", "h_window")
          /\ huge = "set"
          /\ huge' = "two"
          /\ UNCHANGED <<magic, p1, ret, data, hugeAddr>>
       \/ /\ HostStep("h_window", "h_ready")         \* create_and_setup_xcb_window
          /\ ret' = NoAnswer
          /\ UNCHANGED <<magic, p1, data, huge, hugeAddr>>
       \/ /\ HostStep("h_ready", "poll")
          /\ magic' = "three"
          /\ UNCHANGED <<p1, ret, data, huge, hugeAddr>>
    /\ UNCHANGED <<req, guest, hreq, sem, flock>>

(* Slip: the request is acknowledged when it is picked up.                  *)
Poll_early ==
    /\ \/ req = NoReq /\ HostStep("poll", "poll")
       \/ req # NoReq /\ HostStep("poll", "serve")
    /\ hreq' = req
    /\ req' = NoReq
    /\ UNCHANGED <<magic, p1, ret, data, huge, guest, hugeAddr, sem, flock>>

(* One load of req_bit per turn of the polling loop.                       *)
Poll ==
    /\ \/ req = NoReq /\ HostStep("poll", "poll")
       \/ req # NoReq /\ HostStep("poll", "serve")
    /\ hreq' = req
    /\ UNCHANGED <<page, guest, hugeAddr, sem, flock>>

Reply(v) == ret' = [to |-> p1, value |-> v]

(* Slip: the host's semaphore is decremented without looking at it.         *)
ServeSem_unchecked ==
    /\ \/ hreq = "SEMPOST" /\ sem' = sem + 1
       \/ hreq = "SEMWAIT" /\ sem' = sem - 1
    /\ Reply("ok")
    /\ UNCHANGED flock

(* The host's semaphore: semop is always made with IPC_NOWAIT.             *)
ServeSem ==
    /\ \/ /\ hreq = "SEMPOST"
          /\ sem < SemMax
          /\ sem' = sem + 1
          /\ Reply("ok")
       \/ /\ hreq = "SEMPOST"
          /\ sem >= SemMax                                     \* ERANGE
          /\ UNCHANGED sem
          /\ Reply("err")
       \/ /\ hreq = "SEMWAIT"
          /\ sem > 0
          /\ sem' = sem - 1
          /\ Reply("ok")
       \/ /\ hreq = "SEMWAIT"
          /\ sem = 0
          /\ UNCHANGED sem
          /\ Reply("again")
    /\ UNCHANGED flock

(* flock(2) on a descriptor of the calling thread: the handler passes the  *)
(* guest's command on as it is, so LOCK_EX without LOCK_NB blocks.         *)
ServeFlock ==
    /\ \/ /\ hreq \in {"FLOCK_EX", "FLOCK_NB"}
          /\ flock \in {NoOne, p1.thread}
          /\ flock' = p1.thread
          /\ Reply("ok")
       \/ /\ hreq = "FLOCK_NB"
          /\ flock \notin {NoOne, p1.thread}
          /\ UNCHANGED flock
          /\ Reply("err")                     \* ret is unsigned: -1, not EWOULDBLOCK
       \/ /\ hreq = "FLOCK_UN"
          /\ flock' = IF flock = p1.thread THEN NoOne ELSE flock
          /\ Reply("ok")
    /\ UNCHANGED sem

ServePlain ==
    /\ \/ hreq = "SYSCALL" /\ Reply("ok")
       \/ hreq = "NORET" /\ UNCHANGED ret
    /\ UNCHANGED <<sem, flock>>

(* Slip: a handler without a result forgets complete_request.               *)
Serve_incomplete ==
    /\ HostStep("serve", IF hreq = "NORET" THEN "poll" ELSE "complete")
    /\ ServeSem \/ ServeFlock \/ ServePlain
    /\ UNCHANGED <<magic, req, p1, data, huge, guest, hreq, hugeAddr>>

Serve ==
    /\ HostStep("serve", "complete")
    /\ ServeSem \/ ServeFlock \/ ServePlain
    /\ UNCHANGED <<magic, req, p1, data, huge, guest, hreq, hugeAddr>>

complete_request ==
    /\ HostStep("complete", "poll")
    /\ req' = NoReq
    /\ UNCHANGED <<magic, p1, ret, data, huge, guest, hreq, hugeAddr, sem, flock>>

Listener == HostSetup \/ Poll \/ Serve \/ complete_request

------------------------------------------------------------------------------
Request(t) ==
    \/ Fill(t) \/ Post(t) \/ Notify(t) \/ Relinquish(t)

Next ==
    \/ Setup
    \/ \E t \in Threads :
          \/ \E o \in Ops : Call(t, o)
          \/ Acquire(t) \/ Request(t) \/ Retry(t) \/ GiveUp(t)
    \/ Listener

(* The listener and the vCPUs run forever; the event behind the comm lock  *)
(* wakes every waiter on each release and do_semop sleeps a millisecond    *)
(* between two tries, so a thread that waits for the lock gets it.         *)
Fairness ==
    /\ WF_vars(Setup)
    /\ WF_vars(Listener)
    /\ \A t \in Threads :
          WF_vars(Request(t)) /\ WF_vars(Retry(t)) /\ SF_vars(Acquire(t))

Spec == Init /\ [][Next]_vars
FairSpec == Spec /\ Fairness

------------------------------------------------------------------------------
(* Properties.                                                             *)

Owns(t) == pc[t] \in OwnerPc \cup SetupPc

(* The constructor has cleared the page.                                   *)
Cleared == magic # "zero"

(* The doorbell is single-producer: at most one guest thread is between    *)
(* acquire_libos_lock and relinquish_libos_lock, and once the page has     *)
(* been cleared a request in req_bit is that thread's, with that thread's  *)
(* parameters beside it.                                                   *)
SingleProducer ==
    /\ \A t, u \in Threads : Owns(t) /\ Owns(u) => t = u
    /\ Cleared /\ req # NoReq =>
          \E t \in Threads : pc[t] = "spin" /\ req = op[t] /\ p1 = Par(t)

(* When the handler of a request stores a result, comm_sync_notify returns *)
(* the one the listener computed for this very call, not the answer to     *)
(* another thread's or an earlier request; before the constructor has run  *)
(* it returns 0 for every request.  It says nothing of the requests whose  *)
(* handler stores no result: to those, CLOSE among them, comm_sync_notify  *)
(* does return what the request before them left in ret, and               *)
(* libos_syscall_close hands that to the application.                      *)
ReplyIsOwn ==
    \A t \in Threads : pc[t] = "unlock" =>
        IF Cleared THEN op[t] \in ReturnOps => got[t].to = Par(t)
                   ELSE got[t] = NoAnswer

(* Once the constructor has cleared the page there is no request until the *)
(* handshake is over: setup never sees a request or its parameters, also   *)
(* not those of a call made too early, and the arena address the listener  *)
(* recorded is the one the guest sent.                                     *)
SetupIsolated ==
    /\ Cleared /\ req # NoReq => hpc \notin HostSetupPc /\ magic = "comm"
    /\ hpc \in {"h_clear", "h_huge", "h_window", "h_ready", "poll", "serve", "complete"}
          => hugeAddr = Huge

(* Every request is answered: the thread spinning in comm_sync_notify      *)
(* leaves its loop.                                                        *)
RequestCompletes ==
    \A t \in Threads : pc[t] = "spin" ~> pc[t] = "unlock"

(* A blocking semop whose post has been made gets through, although the    *)
(* single listener serves every thread: the LibOS keeps asking.            *)
SemopServed ==
    \A t \in Threads :
        (pc[t] \in {"lock", "nap"} /\ op[t] = "SEMWAIT") ~>
            (pc[t] = "idle" \/ sem = 0)
==============================================================================

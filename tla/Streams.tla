------------------------------- MODULE Streams -------------------------------
(***************************************************************************)
(* Pipes and eventfds of the VM PAL, and waiting for events on them.       *)
(*                                                                         *)
(* A server handle is connected to by name; accepting the connection       *)
(* allocates the one ring buffer both ends share.  Readers and writers     *)
(* sleep on a futex word of the buffer, under the buffer's lock.  A poller *)
(* holds a lock of its own while it looks at one handle after the other,   *)
(* marks those that are not ready (poll_waiting) and sleeps on one futex   *)
(* word shared by all pollers; who changes a marked handle wakes that      *)
(* word, without the pollers' lock, and so does every timer interrupt.     *)
(*                                                                         *)
(*   vm-common/pal_common_pipes.c, pal_common_eventfd.c,                   *)
(*   pal_common_object.c, kernel_time.c                                    *)
(*                                                                         *)
(* A critical section of a handle's lock is one step.  It may end in       *)
(* sched_thread_wait, which blocks the thread and drops the lock as one    *)
(* step for everybody who wakes under the same lock (PalEvent).            *)
(* One server, one connection or one eventfd; sockets, the other kind of  *)
(* handle poll takes, are in module Vsock.                                 *)
(***************************************************************************)
EXTENDS Naturals, Sequences, FiniteSets

CONSTANTS
    Threads,      \* guest threads
    Size,         \* PIPE_BUF_SIZE
    Mod,          \* 2^64, the modulus of write_pos and read_pos
    Lens,         \* lengths of reads and writes
    EMax,         \* UINT64_MAX - 1, the largest value of an eventfd
    EVals,        \* values written to the eventfd
    Polls,        \* arguments of poll: sequences of [h, events]
    MaxOps,       \* bound: operations begun
    NoOne         \* no owner

Ends    == {"pipe", "cli"}             \* the connecting and the accepted end
Handles == Ends \cup {"srv", "efd"}
Futexes == {"reader", "writer", "connect", "ereader", "ewriter", "poll"}

ASSUME StreamsAssumption ==
    /\ IsFiniteSet(Threads) /\ NoOne \notin Threads \cup Futexes
    /\ Size \in Nat \ {0} /\ Mod \in Nat /\ Mod > Size /\ Mod % Size = 0
    /\ Lens \subseteq Nat \ {0}
    /\ EMax \in Nat \ {0} /\ EVals \subseteq 0 .. EMax
    /\ Polls \subseteq Seq([h : Handles, events : SUBSET {"r", "w"}]) \ {<<>>}
    /\ MaxOps \in Nat

VARIABLES
    open,          \* handles that exist
    flags,         \* PAL_HANDLE_FD_READABLE, _WRITABLE of the two ends
    nonblocking,   \* handles with the option set
    connecting,    \* "pipe" is in g_connecting_pipes_list
    connected,     \* pipe_buf is set in both ends
    \* struct pal_handle_inner_pipe_buf
    refcount, freed, readable, writable, write_pos, read_pos, buf,
    val,           \* eventfd.val
    semaphore,     \* eventfd.semaphore
    poll_waiting,  \* of the buffer and the eventfd; connect_poll_waiting of the server
    \* waiting
    blocked,       \* the futex word a thread is blocked on
    plock,         \* g_streams_waiting_events_lock
    pending,       \* poll timeouts in g_pending_timeouts_list
    expired,       \* polls whose deadline has passed
    \* threads
    pc, call, got, ops

handles == <<open, flags, nonblocking, connecting, connected>>
pipebuf == <<refcount, freed, readable, writable, write_pos, read_pos, buf>>
eventfd == <<val, semaphore>>
waits   == <<plock, pending, expired>>
vars    == <<handles, pipebuf, eventfd, poll_waiting, blocked, waits, pc, call, got, ops>>

PollPc  == {"poll_lock", "poll_check", "poll_time", "poll_sleep", "poll_relock", "poll_out"}
NoCall  == [kind |-> "none"]
NoByte  == <<>>
Bytes   == {NoByte} \cup (Threads \X (Nat \ {0}))

TypeOK ==
    /\ open \subseteq Handles /\ nonblocking \subseteq Handles
    /\ flags \in [Ends -> SUBSET {"r", "w"}]
    /\ connecting \in BOOLEAN /\ connected \in BOOLEAN
    /\ refcount \in 0 .. 2 /\ freed \in BOOLEAN
    /\ readable \in BOOLEAN /\ writable \in BOOLEAN
    /\ write_pos \in 0 .. Mod - 1 /\ read_pos \in 0 .. Mod - 1
    /\ buf \in [0 .. Size - 1 -> Bytes]
    /\ val \in 0 .. EMax /\ semaphore \in BOOLEAN
    /\ poll_waiting \subseteq {"srv", "buf", "efd"}
    /\ blocked \in [Threads -> Futexes \cup {NoOne}]
    /\ plock \in Threads \cup {NoOne}
    /\ pending \subseteq Threads /\ expired \subseteq Threads
    /\ pc \in [Threads -> {"idle", "accept", "read", "write", "eread", "ewrite",
                           "destroy"} \cup PollPc]
    /\ ops \in 0 .. MaxOps

(* A program that has a server, or a connected pipe that has carried one   *)
(* byte less than the modulus, or an eventfd.                              *)
Init ==
    /\ open \in {{"srv"}, Ends, {"efd"}}
    /\ connected = (open = Ends)
    /\ flags = [h \in Ends |-> {"r", "w"}] /\ nonblocking = {} /\ connecting = FALSE
    /\ refcount = (IF connected THEN 2 ELSE 0) /\ freed = FALSE
    /\ readable = TRUE /\ writable = TRUE
    /\ write_pos = (IF connected THEN Mod - 1 ELSE 0) /\ read_pos = write_pos
    /\ buf = [i \in 0 .. Size - 1 |-> NoByte]
    /\ val = 0 /\ semaphore \in (IF open = {"efd"} THEN BOOLEAN ELSE {FALSE})
    /\ poll_waiting = {} /\ plock = NoOne /\ pending = {} /\ expired = {}
    /\ blocked = [t \in Threads |-> NoOne]
    /\ pc = [t \in Threads |-> "idle"]
    /\ call = [t \in Threads |-> NoCall]
    /\ got = [t \in Threads |-> <<>>]
    /\ ops = 0

------------------------------------------------------------------------------
(* Calls and futexes.                                                      *)

Runs(t, at) == pc[t] = at /\ blocked[t] = NoOne

Begin(t, at, c) ==
    /\ ops < MaxOps /\ pc[t] = "idle"
    /\ ops' = ops + 1
    /\ pc' = [pc EXCEPT ![t] = at]
    /\ call' = [call EXCEPT ![t] = c]

Return(t) ==
    /\ pc' = [pc EXCEPT ![t] = "idle"]
    /\ call' = [call EXCEPT ![t] = NoCall]

(* sched_thread_wakeup of some futex words; the last one may go to sleep.  *)
Woken(futexes) == [t \in Threads |-> IF blocked[t] \in futexes THEN NoOne ELSE blocked[t]]

Wakeup(futexes) == blocked' = Woken(futexes)

WakeupAndWait(futexes, t, futex) == blocked' = [Woken(futexes) EXCEPT ![t] = futex]

(* Pollers are woken only through a handle that is marked.                 *)
PollFutex(o) == IF o \in poll_waiting THEN {"poll"} ELSE {}

------------------------------------------------------------------------------
(* Connections.                                                            *)

pipe_connect(t) ==
    /\ ops < MaxOps /\ pc[t] = "idle" /\ "pipe" \notin open /\ ~connecting /\ ~connected
    /\ ops' = ops + 1
    /\ "srv" \in open                                \* otherwise CONNFAILED
    /\ open' = open \cup {"pipe"}
    /\ connecting' = TRUE
    /\ Wakeup(PollFutex("srv") \cup {"connect"})
    /\ UNCHANGED <<flags, nonblocking, connected, pipebuf, eventfd, poll_waiting, waits,
                   pc, call, got>>

CallAccept(t) ==
    /\ "srv" \in open
    /\ Begin(t, "accept", [kind |-> "accept", h |-> "srv"])
    /\ UNCHANGED <<handles, pipebuf, eventfd, poll_waiting, blocked, waits, got>>

(* pal_common_pipe_waitforclient; the buffer comes from calloc.            *)
Attach ==
    /\ connecting' = FALSE /\ connected' = TRUE
    /\ open' = open \cup {"cli"}
    /\ refcount' = 2

Accept(t) ==
    /\ Runs(t, "accept")
    /\ \/ /\ connecting
          /\ Attach
          /\ Return(t)
          /\ UNCHANGED blocked
       \/ /\ ~connecting /\ "srv" \in nonblocking
          /\ Return(t)
          /\ UNCHANGED <<open, connecting, connected, refcount, blocked>>
       \/ /\ ~connecting /\ "srv" \notin nonblocking
          /\ WakeupAndWait({}, t, "connect")
          /\ UNCHANGED <<open, connecting, connected, refcount, pc, call>>
    /\ UNCHANGED <<flags, nonblocking, freed, readable, writable, write_pos, read_pos, buf,
                   eventfd, poll_waiting, waits, got, ops>>

------------------------------------------------------------------------------
(* The ring buffer: free-running positions, the slot is the remainder.     *)

Used(w, r) == (w + Mod - r) % Mod

Full  == Used(write_pos, read_pos) = Size
Empty == write_pos = read_pos

Smaller(a, b) == IF a <= b THEN a ELSE b

(* The x bytes from the read position.                                     *)
Oldest(x) == [i \in 1 .. x |-> buf[(read_pos + i - 1) % Size]]

(* Bytes done+1 .. done+x of t's write, from the write position.           *)
Fill(t, x) ==
    [s \in 0 .. Size - 1 |->
        IF \E i \in 1 .. x : s = (write_pos + i - 1) % Size
        THEN <<t, call[t].done + (CHOOSE i \in 1 .. x : s = (write_pos + i - 1) % Size)>>
        ELSE buf[s]]

CallRead(t, h, n) ==
    /\ h \in open /\ connected /\ "r" \in flags[h]        \* otherwise an error
    /\ Begin(t, "read", [kind |-> "read", h |-> h, n |-> n])
    /\ UNCHANGED <<handles, pipebuf, eventfd, poll_waiting, blocked, waits, got>>

ReadBytes(t) ==
    /\ ~Empty
    /\ LET x == Smaller(call[t].n, Used(write_pos, read_pos)) IN
         /\ got' = [got EXCEPT ![t] = Oldest(x)]
         /\ read_pos' = (read_pos + x) % Mod
    /\ Wakeup(PollFutex("buf") \cup {"writer"})
    /\ Return(t)

(* End of file, or TRYAGAIN: the exit path wakes as well.                  *)
ReadNothing(t) ==
    /\ Empty /\ (~writable \/ call[t].h \in nonblocking)
    /\ got' = [got EXCEPT ![t] = <<>>]
    /\ Wakeup(PollFutex("buf") \cup {"writer"})
    /\ Return(t)
    /\ UNCHANGED read_pos

ReadSleeps(t) ==
    /\ Empty /\ writable /\ call[t].h \notin nonblocking
    /\ WakeupAndWait({}, t, "reader")
    /\ UNCHANGED <<read_pos, got, pc, call>>

pal_common_pipe_read(t) ==
    /\ Runs(t, "read")
    /\ ReadBytes(t) \/ ReadNothing(t) \/ ReadSleeps(t)
    /\ UNCHANGED <<handles, refcount, freed, readable, writable, write_pos, buf, eventfd,
                   poll_waiting, waits, ops>>

CallWrite(t, h, n) ==
    /\ h \in open /\ connected /\ "w" \in flags[h]        \* otherwise an error
    /\ Begin(t, "write", [kind |-> "write", h |-> h, n |-> n, done |-> 0])
    /\ UNCHANGED <<handles, pipebuf, eventfd, poll_waiting, blocked, waits, got>>

Room(t) == Smaller(call[t].n - call[t].done, Size - Used(write_pos, read_pos))

(* Slip: the copy starts again from the beginning of the caller's buffer.   *)
WriteBytes_restart(t) ==
    /\ buf' = [s \in 0 .. Size - 1 |->
                 IF \E i \in 1 .. Room(t) : s = (write_pos + i - 1) % Size
                 THEN <<t, CHOOSE i \in 1 .. Room(t) : s = (write_pos + i - 1) % Size>>
                 ELSE buf[s]]
    /\ write_pos' = (write_pos + Room(t)) % Mod

WriteBytes(t) ==
    /\ buf' = Fill(t, Room(t))
    /\ write_pos' = (write_pos + Room(t)) % Mod

(* Everything is in; or the buffer is full and nobody reads (an error,     *)
(* whatever was copied), or the handle does not block (a short count).     *)
WriteReturns(t) ==
    /\ \/ call[t].done + Room(t) = call[t].n
       \/ ~readable
       \/ call[t].h \in nonblocking
    /\ Wakeup(PollFutex("buf") \cup {"reader"})
    /\ Return(t)

(* Slip: a writer that fills the buffer wakes nobody before it sleeps.      *)
WriteSleeps_silent(t) ==
    /\ call[t].done + Room(t) < call[t].n /\ readable /\ call[t].h \notin nonblocking
    /\ WakeupAndWait({}, t, "writer")
    /\ call' = [call EXCEPT ![t].done = @ + Room(t)]
    /\ UNCHANGED pc

WriteSleeps(t) ==
    /\ call[t].done + Room(t) < call[t].n /\ readable /\ call[t].h \notin nonblocking
    /\ WakeupAndWait(PollFutex("buf") \cup {"reader"}, t, "writer")
    /\ call' = [call EXCEPT ![t].done = @ + Room(t)]
    /\ UNCHANGED pc

pal_common_pipe_write(t) ==
    /\ Runs(t, "write")
    /\ WriteBytes(t)
    /\ WriteReturns(t) \/ WriteSleeps(t)
    /\ UNCHANGED <<handles, refcount, freed, readable, writable, read_pos, eventfd,
                   poll_waiting, waits, got, ops>>

------------------------------------------------------------------------------
(* Closing.                                                                *)

(* The LibOS destroys a handle when its last reference goes: no call is    *)
(* using it (external).                                                    *)
Unused(h) ==
    \A t \in Threads :
        /\ call[t].kind \in {"accept", "read", "write"} => call[t].h # h
        /\ call[t].kind = "poll" => \A i \in DOMAIN call[t].fds : call[t].fds[i].h # h

(* pal_common_pipe_destroy: leave the lists and drop the reference, ...    *)
Destroy(t, h) ==
    /\ h \in open \ {"efd"} /\ Unused(h)
    /\ open' = open \ {h}
    /\ connecting' = (connecting /\ h # "pipe")
    /\ IF h \in Ends /\ connected
       THEN /\ Begin(t, "destroy", [kind |-> "destroy", last |-> refcount = 1])
            /\ refcount' = refcount - 1
       ELSE /\ ops < MaxOps /\ pc[t] = "idle"
            /\ ops' = ops + 1
            /\ UNCHANGED <<refcount, pc, call>>
    /\ UNCHANGED <<flags, nonblocking, connected, freed, readable, writable, write_pos,
                   read_pos, buf, eventfd, poll_waiting, blocked, waits, got>>

(* Slip: writers are not woken.                                             *)
Hangup_readers(t) ==
    /\ Runs(t, "destroy") /\ ~call[t].last
    /\ readable' = FALSE /\ writable' = FALSE
    /\ Wakeup(PollFutex("buf") \cup {"reader"})
    /\ Return(t)
    /\ UNCHANGED <<handles, refcount, freed, write_pos, read_pos, buf, eventfd,
                   poll_waiting, waits, got, ops>>

(* ... then close both directions for the end that is left,                *)
Hangup(t) ==
    /\ Runs(t, "destroy") /\ ~call[t].last
    /\ readable' = FALSE /\ writable' = FALSE
    /\ Wakeup(PollFutex("buf") \cup {"reader", "writer"})
    /\ Return(t)
    /\ UNCHANGED <<handles, refcount, freed, write_pos, read_pos, buf, eventfd,
                   poll_waiting, waits, got, ops>>

(* Slip: the count is read again, not taken from the decrement.             *)
Free_reread(t) ==
    /\ Runs(t, "destroy") /\ refcount = 0
    /\ freed' = TRUE
    /\ Return(t)
    /\ UNCHANGED <<handles, refcount, readable, writable, write_pos, read_pos, buf, eventfd,
                   poll_waiting, blocked, waits, got, ops>>

(* or free the buffer.                                                     *)
Free(t) ==
    /\ Runs(t, "destroy") /\ call[t].last
    /\ freed' = TRUE
    /\ Return(t)
    /\ UNCHANGED <<handles, refcount, readable, writable, write_pos, read_pos, buf, eventfd,
                   poll_waiting, blocked, waits, got, ops>>

(* Shutdown: sleepers on the buffer's own words are not woken.             *)
pal_common_pipe_delete(t, h, mode) ==
    LET buffer == h \in Ends /\ connected IN
    /\ ops < MaxOps /\ pc[t] = "idle" /\ h \in open \ {"efd"}
    /\ ops' = ops + 1
    /\ flags' = [e \in Ends |-> IF e = h THEN flags[e] \ mode ELSE flags[e]]
    /\ readable' = (readable /\ ~(buffer /\ "r" \in mode))
    /\ writable' = (writable /\ ~(buffer /\ "w" \in mode))
    /\ Wakeup(PollFutex(IF buffer THEN "buf" ELSE h))
    /\ UNCHANGED <<open, nonblocking, connecting, connected, refcount, freed, write_pos,
                   read_pos, buf, eventfd, poll_waiting, waits, pc, call, got>>

(* pal_common_pipe_attrsetbyhdl, and the same for the eventfd.             *)
SetNonblocking(t, h) ==
    /\ ops < MaxOps /\ pc[t] = "idle" /\ h \in open \ nonblocking
    /\ ops' = ops + 1
    /\ nonblocking' = nonblocking \cup {h}
    /\ UNCHANGED <<open, flags, connecting, connected, pipebuf, eventfd, poll_waiting,
                   blocked, waits, pc, call, got>>

------------------------------------------------------------------------------
(* The eventfd.                                                            *)

CallEventfd(t, at, n) ==
    /\ "efd" \in open
    /\ Begin(t, at, [kind |-> at, n |-> n])
    /\ UNCHANGED <<handles, pipebuf, eventfd, poll_waiting, blocked, waits, got>>

pal_common_eventfd_read(t) ==
    /\ Runs(t, "eread")
    /\ \/ /\ val > 0
          /\ val' = IF semaphore THEN val - 1 ELSE 0
          /\ Wakeup(PollFutex("efd") \cup {"ewriter"})
          /\ Return(t)
       \/ /\ val = 0 /\ "efd" \in nonblocking
          /\ Return(t)
          /\ UNCHANGED <<val, blocked>>
       \/ /\ val = 0 /\ "efd" \notin nonblocking
          /\ WakeupAndWait({}, t, "ereader")
          /\ UNCHANGED <<val, pc, call>>
    /\ UNCHANGED <<handles, pipebuf, semaphore, poll_waiting, waits, got, ops>>

(* Slip: the sum may reach UINT64_MAX.                                      *)
Fits_max(n) == val + n <= EMax + 1

Fits(n) == val + n <= EMax

pal_common_eventfd_write(t) ==
    /\ Runs(t, "ewrite")
    /\ \/ /\ Fits(call[t].n)
          /\ val' = val + call[t].n
          /\ Wakeup(PollFutex("efd") \cup {"ereader"})
          /\ Return(t)
       \/ /\ ~Fits(call[t].n) /\ "efd" \in nonblocking
          /\ Return(t)
          /\ UNCHANGED <<val, blocked>>
       \/ /\ ~Fits(call[t].n) /\ "efd" \notin nonblocking
          /\ WakeupAndWait({}, t, "ewriter")
          /\ UNCHANGED <<val, pc, call>>
    /\ UNCHANGED <<handles, pipebuf, semaphore, poll_waiting, waits, got, ops>>

------------------------------------------------------------------------------
(* pal_common_streams_wait_events.                                         *)

CallPoll(t, fds, timeout) ==
    /\ \A i \in DOMAIN fds : fds[i].h \in open
    /\ Begin(t, "poll_lock", [kind |-> "poll", fds |-> fds, i |-> 1, found |-> FALSE,
                              timeout |-> timeout])
    /\ UNCHANGED <<handles, pipebuf, eventfd, poll_waiting, blocked, waits, got>>

polled == <<handles, pipebuf, eventfd, got, ops>>

(* The lock, and the deadline registered on the shared futex word; that    *)
(* fails without memory.                                                   *)
PollLock(t) ==
    /\ Runs(t, "poll_lock") /\ plock = NoOne
    /\ \/ /\ plock' = t
          /\ pending' = IF call[t].timeout = "timed" THEN pending \cup {t} ELSE pending
          /\ pc' = [pc EXCEPT ![t] = "poll_check"]
          /\ UNCHANGED call
       \/ /\ call[t].timeout = "timed"
          /\ Return(t)
          /\ UNCHANGED <<plock, pending>>
    /\ UNCHANGED <<polled, poll_waiting, blocked, expired>>

(* check_pipesrv_handle, check_pipe_handle, check_eventfd_handle: what is  *)
(* ready, and the mark for those who change it.                            *)
Ready(h, events) ==
    \/ h = "srv" /\ "r" \in events /\ connecting
    \/ h = "efd" /\ (("r" \in events /\ val > 0) \/ ("w" \in events /\ val < EMax))
    \/ /\ h \in Ends /\ connected
       /\ \/ ~readable /\ ~writable
          \/ "r" \in events /\ readable /\ ~Empty
          \/ "w" \in events /\ writable /\ ~Full

Objects(h) == CASE h \in Ends -> IF connected THEN {"buf"} ELSE {}
                [] OTHER      -> {h}

CheckHandle(t) ==
    LET fd    == call[t].fds[call[t].i]
        ready == Ready(fd.h, fd.events)
    IN /\ Runs(t, "poll_check")
       /\ poll_waiting' = IF ready THEN poll_waiting \ Objects(fd.h)
                                   ELSE poll_waiting \cup Objects(fd.h)
       /\ IF call[t].i < Len(call[t].fds)
          THEN /\ call' = [call EXCEPT ![t].i = @ + 1, ![t].found = @ \/ ready]
               /\ UNCHANGED pc
          ELSE /\ call' = [call EXCEPT ![t].i = 1, ![t].found = FALSE]
               /\ pc' = [pc EXCEPT ![t] = IF call[t].found \/ ready THEN "poll_out"
                                                                   ELSE "poll_time"]
       /\ UNCHANGED <<polled, blocked, waits>>

PollTime(t) ==
    /\ Runs(t, "poll_time")
    /\ pc' = [pc EXCEPT ![t] =
                IF call[t].timeout = "zero" \/ (call[t].timeout = "timed" /\ t \in expired)
                THEN "poll_out" ELSE "poll_sleep"]
    /\ UNCHANGED <<polled, poll_waiting, blocked, waits, call>>

(* sched_thread_wait drops the pollers' lock.                              *)
PollSleep(t) ==
    /\ Runs(t, "poll_sleep")
    /\ WakeupAndWait({}, t, "poll")
    /\ plock' = NoOne
    /\ pc' = [pc EXCEPT ![t] = "poll_relock"]
    /\ UNCHANGED <<polled, poll_waiting, pending, expired, call>>

PollRelock(t) ==
    /\ Runs(t, "poll_relock") /\ plock = NoOne
    /\ plock' = t
    /\ pc' = [pc EXCEPT ![t] = "poll_check"]
    /\ UNCHANGED <<polled, poll_waiting, blocked, pending, expired, call>>

PollOut(t) ==
    /\ Runs(t, "poll_out")
    /\ plock' = NoOne
    /\ pending' = pending \ {t} /\ expired' = expired \ {t}
    /\ Return(t)
    /\ UNCHANGED <<polled, poll_waiting, blocked>>

Expire(t) ==
    /\ t \in pending \ expired
    /\ expired' = expired \cup {t}
    /\ UNCHANGED <<polled, poll_waiting, blocked, plock, pending, pc, call>>

(* Slip: the timer wakes for expired deadlines only.                        *)
Tick_expired ==
    /\ IF pending \cap expired # {} THEN Wakeup({"poll"}) ELSE UNCHANGED blocked
    /\ pending' = pending \ expired
    /\ UNCHANGED <<polled, poll_waiting, plock, expired, pc, call>>

(* notify_about_timeouts_uninterruptable: expired deadlines, and a kick    *)
(* for the pollers' word whatever has expired.                             *)
Tick ==
    /\ Wakeup({"poll"})
    /\ pending' = pending \ expired
    /\ UNCHANGED <<polled, poll_waiting, plock, expired, pc, call>>

------------------------------------------------------------------------------
Call(t) ==
    \/ pipe_connect(t) \/ CallAccept(t)
    \/ \E h \in Ends, n \in Lens : CallRead(t, h, n) \/ CallWrite(t, h, n)
    \/ \E h \in Handles : Destroy(t, h) \/ SetNonblocking(t, h)
    \/ \E h \in Handles, mode \in {{"r"}, {"w"}, {"r", "w"}} : pal_common_pipe_delete(t, h, mode)
    \/ CallEventfd(t, "eread", 0) \/ (\E n \in EVals : CallEventfd(t, "ewrite", n))
    \/ \E fds \in Polls, timeout \in {"none", "zero", "timed"} : CallPoll(t, fds, timeout)

Transfer(t) ==
    \/ Accept(t) \/ pal_common_pipe_read(t) \/ pal_common_pipe_write(t)
    \/ pal_common_eventfd_read(t) \/ pal_common_eventfd_write(t)
    \/ Hangup(t) \/ Free(t)

Poll(t) ==
    PollLock(t) \/ CheckHandle(t) \/ PollTime(t) \/ PollSleep(t) \/ PollRelock(t) \/ PollOut(t)

Next ==
    \/ \E t \in Threads : Call(t) \/ Transfer(t) \/ Poll(t) \/ Expire(t)
    \/ Tick

Spec == Init /\ [][Next]_vars

(* Threads in the kernel run, deadlines pass, the timer ticks.  A poller   *)
(* that spins for the pollers' lock gets it while the others sleep.        *)
Fairness ==
    /\ WF_vars(Tick)
    /\ \A t \in Threads :
          /\ WF_vars(Transfer(t)) /\ WF_vars(Poll(t)) /\ WF_vars(Expire(t))
          /\ SF_vars(PollLock(t)) /\ SF_vars(PollRelock(t))

FairSpec == Spec /\ Fairness

------------------------------------------------------------------------------
(* Properties.                                                             *)

(* Bytes come out of the ring as they went in, whole, in order and once,   *)
(* over the wrap of the positions and through writes done in pieces.       *)
Unsent(t) == IF pc[t] = "write"
             THEN [i \in 1 .. call[t].n - call[t].done |-> <<t, call[t].done + i>>]
             ELSE <<>>

Stream == INSTANCE ByteStream WITH
              Cap <- Size,
              out <- [t \in Threads |-> Unsent(t)],
              q   <- Oldest(Used(write_pos, read_pos))

PipeImplementsStream == Stream!Spec

(* Nobody sleeps on what is there: a reader is blocked only while the pipe *)
(* is empty, a writer only while it is full, and likewise for accept and   *)
(* the eventfd.  Who changes a handle wakes the right words, also the      *)
(* writer that has to sleep in the middle of its write.                    *)
SleepersHaveCause ==
    \A t \in Threads :
        /\ blocked[t] = "reader" => Empty
        /\ blocked[t] = "writer" => Full
        /\ blocked[t] = "connect" => ~connecting
        /\ blocked[t] = "ereader" => val = 0
        /\ blocked[t] = "ewriter" => ~Fits(call[t].n)

(* A destroy that has dropped the last reference and is to free the buffer. *)
Freeing(t) == pc[t] = "destroy" /\ call[t].last

(* The buffer is freed once, by the destroy of its last end, however the    *)
(* destroys of the two ends cross: not while an end is open or a read or a  *)
(* write uses it, not twice, and it is not left behind.  The destroy that   *)
(* was not the last has still to lock the buffer and close its directions   *)
(* (Hangup); that this may come after the buffer is freed is left out.      *)
BufferFreedOnce ==
    /\ freed => \A t \in Threads : ~Freeing(t) /\ pc[t] \notin {"read", "write"}
    /\ open \cap Ends # {} => ~freed /\ \A t \in Threads : ~Freeing(t)
    /\ connected /\ open \cap Ends = {} => freed \/ \E t \in Threads : Freeing(t)
    /\ \A t, u \in Threads : Freeing(t) /\ Freeing(u) => t = u

(* When one end is destroyed, whoever is blocked on the other returns.     *)
HangupReleases ==
    \A t \in Threads : (pc[t] \in {"read", "write"} /\ refcount < 2) ~> pc[t] = "idle"

(* A poll with a timeout returns, and none sleeps for ever on a handle     *)
(* that is ready, although a wakeup can pass while the poller is between   *)
(* two handles, or be held back because another poller took the mark off.  *)
PollReturns ==
    \A t \in Threads :
        /\ []<>~(pc[t] \in PollPc /\ \E i \in DOMAIN call[t].fds :
                                         Ready(call[t].fds[i].h, call[t].fds[i].events))
        /\ (pc[t] \in PollPc /\ call[t].timeout # "none") ~> pc[t] = "idle"
==============================================================================

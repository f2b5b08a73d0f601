---------------------------- MODULE Streams_proof ----------------------------
(***************************************************************************)
(* What Streams promises, for any finite set of threads, every size of the *)
(* ring buffer that divides the range of its positions, and every set of   *)
(* lengths, values and polls.                                              *)
(*                                                                         *)
(* Nobody sleeps on what is there because a call that sleeps leaves the    *)
(* buffer as it must be for that (a writer sleeps only when what it copied *)
(* has filled it) and whoever changes it wakes the word; the sleeper's     *)
(* word tells in which call it is.  The buffer is freed once because its   *)
(* count is the number of ends that are open: exactly one destroy sees the *)
(* last.  That the ring is a byte stream is arithmetic on positions: bytes *)
(* that are in it together are in different slots, also after a wrap.      *)
(***************************************************************************)
EXTENDS Streams, SequenceTheorems, TLAPS

------------------------------------------------------------------------------
(* Positions and slots.                                                    *)

(* Division with remainder.                                                *)
LEMMA Division ==
    ASSUME NEW m \in Nat \ {0}, NEW a \in Int
    PROVE  \E q \in Int : \E x \in Int : x = m * q /\ a = x + (a % m) /\ a % m \in 0 .. m - 1
<1>1. a % m \in 0 .. m - 1 /\ a \div m \in Int /\ a = m * (a \div m) + (a % m)
  OBVIOUS
<1>2. m * (a \div m) \in Int
  BY <1>1
<1>. QED  BY <1>1, <1>2

(* Numbers that are a multiple of the divisor apart, less than it, are the *)
(* same: bytes that are in the buffer together are in different slots.     *)
LEMMA DistinctSlots ==
    ASSUME NEW m \in Nat \ {0}, NEW a \in Int, NEW b \in Int, a < b, b < a + m
    PROVE  a % m # b % m
<1> SUFFICES ASSUME a % m = b % m PROVE FALSE
  OBVIOUS
<1>1. PICK p \in Int, x \in Int : x = m * p /\ a = x + (a % m) /\ a % m \in 0 .. m - 1
  BY Division
<1>2. PICK q \in Int, y \in Int : y = m * q /\ b = y + (b % m)
  BY Division
<1>3. y - x = b - a
  BY <1>1, <1>2
<1>4. m * (q - p) = y - x
  BY <1>1, <1>2
<1>5. q - p >= 1 => m * (q - p) >= m
  OBVIOUS
<1>6. q - p <= 0 => m * (q - p) <= 0
  OBVIOUS
<1>. QED  BY <1>3, <1>4, <1>5, <1>6

(* A multiple of the divisor does not change the remainder.                *)
LEMMA SameSlot ==
    ASSUME NEW m \in Nat \ {0}, NEW a \in Int, NEW b \in Int, NEW k \in Int, b = a + m * k
    PROVE  b % m = a % m
<1>1. PICK p \in Int, x \in Int, s \in 0 .. m - 1 : x = m * p /\ a = x + s /\ s = a % m
  BY Division
<1>2. PICK q \in Int, y \in Int, t \in 0 .. m - 1 : y = m * q /\ b = y + t /\ t = b % m
  BY Division, ZenonT(60)
<1>3. PICK z \in Int : z = m * k /\ b = a + z
  OBVIOUS
<1>4. m * (q - p - k) = y - x - z /\ q - p - k \in Int
  BY <1>1, <1>2, <1>3
<1>5. a = x + s /\ b = y + t /\ b = a + z
  BY <1>1, <1>2, <1>3
<1>6. y - x - z = s - t
  BY <1>5
<1>7. q - p - k >= 1 => m * (q - p - k) >= m
  OBVIOUS
<1>8. q - p - k <= -1 => m * (q - p - k) <= -m
  OBVIOUS
<1>9. q - p - k = 0
  BY <1>4, <1>6, <1>7, <1>8
<1>10. m * (q - p - k) = 0
  BY <1>9
<1>. QED  BY <1>1, <1>2, <1>4, <1>6, <1>10, SMTT(30)

(* A position that has moved by less than the range wraps at most once.    *)
LEMMA Wrap ==
    ASSUME NEW a \in 0 .. 2 * Mod - 1
    PROVE  a % Mod = (IF a < Mod THEN a ELSE a - Mod)
<1>0. Mod \in Nat \ {0}
  BY StreamsAssumption
<1>1. CASE a < Mod
  BY <1>0, <1>1
<1>2. CASE a >= Mod
  <2>1. a - Mod \in 0 .. Mod - 1
    BY <1>0, <1>2
  <2>2. (a - Mod) % Mod = a - Mod
    BY <1>0, <2>1
  <2>3. a = (a - Mod) + Mod * 1 /\ a \in Int /\ a - Mod \in Int
    BY <1>0
  <2>4. a % Mod = (a - Mod) % Mod
    <3>1. 1 \in Int
      OBVIOUS
    <3>. QED  BY <1>0, <2>3, <3>1, SameSlot
  <2>. QED  BY <1>0, <1>2, <2>2, <2>4
<1>. QED  BY <1>0, <1>1, <1>2

(* The slot of a position does not notice the wrap, since the size of the  *)
(* buffer divides the range of the positions.                              *)
LEMMA WrapKeepsSlot ==
    ASSUME NEW a \in 0 .. 2 * Mod - 1, NEW i \in Int
    PROVE  ((a % Mod) + i) % Size = (a + i) % Size
<1>0. Mod \in Nat \ {0} /\ Size \in Nat \ {0}
  BY StreamsAssumption
<1>1. CASE a < Mod
  BY <1>0, <1>1, Wrap
<1>2. CASE a >= Mod
  <2>1. a % Mod = a - Mod
    BY <1>0, <1>2, Wrap
  <2>2. PICK q \in Int : Mod = Size * q
    <3>1. Mod \in Int
      BY <1>0
    <3>2. PICK q \in Int, x \in Int : x = Size * q /\ Mod = x + (Mod % Size)
      BY <1>0, <3>1, Division
    <3>. QED  BY <1>0, <3>2, StreamsAssumption
  <2>3. a + i = ((a % Mod) + i) + Size * q /\ a + i \in Int /\ (a % Mod) + i \in Int
    BY <1>0, <2>1, <2>2
  <2>. QED  BY <1>0, <2>3, SameSlot
<1>. QED  BY <1>0, <1>1, <1>2

(* The number of bytes between two positions.                              *)
LEMMA UsedIs ==
    ASSUME NEW w \in 0 .. Mod - 1, NEW r \in 0 .. Mod - 1
    PROVE  /\ Used(w, r) = (IF w >= r THEN w - r ELSE w + Mod - r)
           /\ Used(w, r) \in 0 .. Mod - 1
           /\ Used(w, r) = 0 <=> w = r
<1>0. Mod \in Nat \ {0}
  BY StreamsAssumption
<1>1. w + Mod - r \in 0 .. 2 * Mod - 1
  BY <1>0
<1>. QED  BY <1>0, <1>1, Wrap DEF Used

(* Writing x bytes for which there is room.                                *)
LEMMA UsedGrows ==
    ASSUME NEW w \in 0 .. Mod - 1, NEW r \in 0 .. Mod - 1, NEW x \in Nat,
           Used(w, r) + x <= Size
    PROVE  /\ (w + x) % Mod \in 0 .. Mod - 1
           /\ Used((w + x) % Mod, r) = Used(w, r) + x
<1>0. Mod \in Nat \ {0} /\ Size \in Nat /\ Size < Mod
  BY StreamsAssumption
<1>1. w + x \in 0 .. 2 * Mod - 1
  BY <1>0, UsedIs
<1>2. PICK a \in 0 .. 2 * Mod - 1 : a = w + x
  BY <1>1
<1>3. a % Mod = (IF a < Mod THEN a ELSE a - Mod)
  BY Wrap
<1>4. PICK v \in 0 .. Mod - 1 : v = a % Mod /\ v = (IF a < Mod THEN a ELSE a - Mod)
  BY <1>0, <1>3
<1>5. /\ Used(w, r) = (IF w >= r THEN w - r ELSE w + Mod - r)
      /\ Used(v, r) = (IF v >= r THEN v - r ELSE v + Mod - r)
  BY UsedIs
<1>6. Used(v, r) = Used(w, r) + x
  BY <1>0, <1>2, <1>4, <1>5
<1>. QED  BY <1>2, <1>4, <1>6

(* Reading x of the bytes.                                                 *)
LEMMA UsedShrinks ==
    ASSUME NEW w \in 0 .. Mod - 1, NEW r \in 0 .. Mod - 1, NEW x \in Nat,
           x <= Used(w, r)
    PROVE  /\ (r + x) % Mod \in 0 .. Mod - 1
           /\ Used(w, (r + x) % Mod) = Used(w, r) - x
<1>0. Mod \in Nat \ {0}
  BY StreamsAssumption
<1>1. r + x \in 0 .. 2 * Mod - 1
  BY <1>0, UsedIs
<1>2. PICK a \in 0 .. 2 * Mod - 1 : a = r + x
  BY <1>1
<1>3. a % Mod = (IF a < Mod THEN a ELSE a - Mod)
  BY Wrap
<1>4. PICK v \in 0 .. Mod - 1 : v = a % Mod /\ v = (IF a < Mod THEN a ELSE a - Mod)
  BY <1>0, <1>3
<1>5. /\ Used(w, r) = (IF w >= r THEN w - r ELSE w + Mod - r)
      /\ Used(w, v) = (IF w >= v THEN w - v ELSE w + Mod - v)
  BY UsedIs
<1>6. Used(w, v) = Used(w, r) - x
  BY <1>0, <1>2, <1>4, <1>5
<1>. QED  BY <1>2, <1>4, <1>6

------------------------------------------------------------------------------
ReadCalls    == [kind : {"read"}, h : Ends, n : Lens]
WriteCalls   == [kind : {"write"}, h : Ends, n : Lens, done : Nat]
EventCalls   == [kind : {"eread", "ewrite"}, n : EVals \cup {0}]
DestroyCalls == [kind : {"destroy"}, last : BOOLEAN]
PollCalls    == [kind : {"poll"}, fds : Polls, i : Nat, found : BOOLEAN,
                 timeout : {"none", "zero", "timed"}]

(* What a thread at `at` has in its call, when these handles are open.     *)
CallFor(at, c, hs, con) ==
    /\ at = "idle" => c = NoCall
    /\ at = "accept" => c = [kind |-> "accept", h |-> "srv"]
    /\ at = "read" => c \in ReadCalls /\ c.h \in hs /\ con
    /\ at = "write" => c \in WriteCalls /\ c.done < c.n /\ c.h \in hs /\ con
    /\ at \in {"eread", "ewrite"} => c \in EventCalls
    /\ at = "destroy" => c \in DestroyCalls /\ con /\ (c.last => hs \cap Ends = {})
    /\ at \in PollPc => c \in PollCalls /\ c.i \in DOMAIN c.fds

CallsExact ==
    /\ call = [t \in Threads |-> call[t]]
    /\ \A t \in Threads : CallFor(pc[t], call[t], open, connected)

(* The futex word a call sleeps on.                                        *)
SleepPc(futex) ==
    CASE futex = "reader"  -> "read"
      [] futex = "writer"  -> "write"
      [] futex = "connect" -> "accept"
      [] futex = "ereader" -> "eread"
      [] futex = "ewriter" -> "ewrite"
      [] futex = "poll"    -> "poll_relock"

BlockedExact == \A t \in Threads : blocked[t] # NoOne => pc[t] = SleepPc(blocked[t])

(* The buffer counts the ends that are open.                               *)
Counts(h, hs) == IF h \in hs THEN 1 ELSE 0

BufferExact ==
    /\ connected => ~connecting /\ refcount = Counts("pipe", open) + Counts("cli", open)
    /\ ~connected => refcount = 0 /\ "cli" \notin open /\ ~freed
    /\ connecting => "pipe" \in open
    /\ freed => open \cap Ends = {}
    /\ Used(write_pos, read_pos) <= Size

IInv == TypeOK /\ CallsExact /\ BlockedExact /\ BufferExact /\ SleepersHaveCause

(* The fields of a handle's argument in a poll.                            *)
LEMMA PolledHandle ==
    ASSUME NEW c \in PollCalls, c.i \in DOMAIN c.fds
    PROVE  /\ c.fds[c.i].h \in Handles /\ c.i \in 1 .. Len(c.fds) /\ Len(c.fds) \in Nat
           /\ DOMAIN c.fds = 1 .. Len(c.fds)
<1>1. c.fds \in Polls
  BY DEF PollCalls
<1>2. c.fds \in Seq([h : Handles, events : SUBSET {"r", "w"}])
  BY <1>1, StreamsAssumption
<1>3. DOMAIN c.fds = 1 .. Len(c.fds) /\ Len(c.fds) \in Nat
  BY <1>2
<1>4. c.fds[c.i] \in [h : Handles, events : SUBSET {"r", "w"}]
  BY <1>2, <1>3, ElementOfSeq
<1>. QED  BY <1>3, <1>4

(* No thread is in a call at the start.                                    *)
LEMMA InitInv == Init => IInv
<1> SUFFICES ASSUME Init PROVE IInv
  OBVIOUS
<1> USE StreamsAssumption DEF Init
<1>1. write_pos \in 0 .. Mod - 1 /\ read_pos = write_pos
  OBVIOUS
<1>2. open \subseteq Handles /\ connected \in BOOLEAN /\ refcount \in 0 .. 2
  BY DEF Handles, Ends
<1>3. TypeOK
  <2>1. buf \in [0 .. Size - 1 -> Bytes] /\ val \in 0 .. EMax /\ ops \in 0 .. MaxOps
    BY DEF Bytes
  <2>2. flags \in [Ends -> SUBSET {"r", "w"}]
    OBVIOUS
  <2>3. /\ connecting \in BOOLEAN /\ freed \in BOOLEAN /\ readable \in BOOLEAN
        /\ writable \in BOOLEAN /\ semaphore \in BOOLEAN
    OBVIOUS
  <2>4. /\ blocked \in [Threads -> Futexes \cup {NoOne}] /\ plock \in Threads \cup {NoOne}
        /\ pc \in [Threads -> {"idle", "accept", "read", "write", "eread", "ewrite",
                               "destroy"} \cup PollPc]
    OBVIOUS
  <2>. QED  BY <1>1, <1>2, <2>1, <2>2, <2>3, <2>4 DEF TypeOK
<1>4. CallsExact
  BY DEF CallsExact, CallFor, PollPc
<1>5. BlockedExact
  BY DEF BlockedExact
<1>6. BufferExact
  <2>1. Used(write_pos, read_pos) <= Size
    <3>1. \A w \in 0 .. Mod - 1 : Used(w, w) = 0
      BY UsedIs
    <3>. QED  BY <1>1, <3>1
  <2>. QED  BY <2>1 DEF BufferExact, Counts, Ends
<1>7. SleepersHaveCause
  BY DEF SleepersHaveCause, Futexes
<1>. QED  BY <1>3, <1>4, <1>5, <1>6, <1>7 DEF IInv

(* A wakeup leaves a thread blocked as it was, on another word, or not at  *)
(* all.                                                                    *)
LEMMA WokenIs ==
    ASSUME TypeOK, NEW F
    PROVE  /\ Woken(F) \in [Threads -> Futexes \cup {NoOne}]
           /\ \A u \in Threads :
                 /\ Woken(F)[u] # NoOne => Woken(F)[u] = blocked[u] /\ blocked[u] \notin F
                 /\ blocked[u] = NoOne => Woken(F)[u] = NoOne
           /\ Woken({}) = blocked
BY DEF TypeOK, Woken

(* One thread moves, and the handles stay as they are.                     *)
LEMMA MoveCalls ==
    ASSUME TypeOK, CallsExact, NEW t \in Threads, NEW at, NEW c,
           pc' = [pc EXCEPT ![t] = at], call' = [call EXCEPT ![t] = c],
           CallFor(at, c, open, connected), UNCHANGED <<open, connected>>
    PROVE  CallsExact'
<1>1. call' = [u \in Threads |-> call'[u]]
  BY DEF CallsExact
<1>2. ASSUME NEW u \in Threads
      PROVE  CallFor(pc'[u], call'[u], open', connected')
  <2>1. CASE u = t
    BY <2>1 DEF TypeOK, CallsExact
  <2>2. CASE u # t
    BY <2>2 DEF TypeOK, CallsExact
  <2>. QED  BY <2>1, <2>2
<1>. QED  BY <1>1, <1>2 DEF CallsExact

(* Nobody is asleep at a place where the code does not sleep.              *)
LEMMA MoveBlocked ==
    ASSUME TypeOK, BlockedExact, NEW t \in Threads, blocked[t] = NoOne, NEW at, NEW F,
           pc' = [pc EXCEPT ![t] = at], blocked' = Woken(F)
    PROVE  BlockedExact' /\ blocked' \in [Threads -> Futexes \cup {NoOne}]
<1>1. blocked' \in [Threads -> Futexes \cup {NoOne}]
  BY WokenIs
<1>2. ASSUME NEW u \in Threads, blocked'[u] # NoOne
      PROVE  pc'[u] = SleepPc(blocked'[u])
  <2>1. blocked'[u] = blocked[u] /\ u # t
    BY <1>2, WokenIs
  <2>. QED  BY <1>2, <2>1 DEF TypeOK, BlockedExact
<1>. QED  BY <1>1, <1>2 DEF BlockedExact

(* A thread goes to sleep where it is.                                     *)
LEMMA SleepBlocked ==
    ASSUME TypeOK, BlockedExact, NEW t \in Threads, NEW F, NEW f \in Futexes,
           pc'[t] = SleepPc(f), blocked' = [Woken(F) EXCEPT ![t] = f],
           \A u \in Threads \ {t} : pc'[u] = pc[u]
    PROVE  BlockedExact' /\ blocked' \in [Threads -> Futexes \cup {NoOne}]
<1>1. blocked' \in [Threads -> Futexes \cup {NoOne}]
  BY WokenIs
<1>2. ASSUME NEW u \in Threads, blocked'[u] # NoOne
      PROVE  pc'[u] = SleepPc(blocked'[u])
  <2>1. CASE u = t
    BY <2>1, WokenIs
  <2>2. CASE u # t
    <3>1. blocked'[u] = blocked[u]
      BY <1>2, <2>2, WokenIs
    <3>. QED  BY <1>2, <2>2, <3>1 DEF BlockedExact
  <2>. QED  BY <2>1, <2>2
<1>. QED  BY <1>1, <1>2 DEF BlockedExact

(* Where a thread may be.                                                  *)
Places == {"idle", "accept", "read", "write", "eread", "ewrite", "destroy"} \cup PollPc

(* A call begins; of what the others look at nothing changes.              *)
LEMMA BeginInv ==
    ASSUME IInv, NEW t \in Threads, NEW at \in Places, NEW c, Begin(t, at, c),
           CallFor(at, c, open, connected),
           UNCHANGED <<handles, pipebuf, eventfd, poll_waiting, blocked, waits, got>>
    PROVE  IInv'
<1> USE StreamsAssumption DEF IInv, handles, pipebuf, eventfd, waits
<1>1. blocked[t] = NoOne
  <2>1. pc[t] = "idle"
    BY DEF Begin
  <2>. QED  BY <2>1 DEF TypeOK, BlockedExact, SleepPc, Futexes
<1>2. pc' \in [Threads -> Places] /\ ops' \in 0 .. MaxOps
  BY DEF Begin, TypeOK, Places
<1>3. TypeOK'
  BY <1>2 DEF TypeOK, Places
<1>4. CallsExact'
  BY MoveCalls DEF Begin
<1>5. BlockedExact'
  BY <1>1, WokenIs, MoveBlocked DEF Begin
<1>6. BufferExact'
  BY DEF BufferExact
<1>7. SleepersHaveCause'
  <2>1. \A u \in Threads : blocked'[u] # NoOne => call'[u] = call[u]
    BY <1>1 DEF Begin, CallsExact
  <2>. QED  BY <2>1 DEF SleepersHaveCause, Empty, Full, Fits, Futexes
<1>. QED  BY <1>3, <1>4, <1>5, <1>6, <1>7

------------------------------------------------------------------------------
(* Calls.                                                                  *)

(* accept, read, write, the eventfd's calls and poll begin.                *)
LEMMA BeginsInv ==
    ASSUME IInv, NEW t \in Threads,
           \/ CallAccept(t)
           \/ \E h \in Ends, n \in Lens : CallRead(t, h, n) \/ CallWrite(t, h, n)
           \/ CallEventfd(t, "eread", 0) \/ (\E n \in EVals : CallEventfd(t, "ewrite", n))
           \/ \E fds \in Polls, timeout \in {"none", "zero", "timed"} : CallPoll(t, fds, timeout)
    PROVE  IInv'
<1>1. ASSUME CallAccept(t) PROVE IInv'
  <2>1. CallFor("accept", [kind |-> "accept", h |-> "srv"], open, connected)
    BY DEF CallFor, PollPc
  <2>2. "accept" \in Places
    BY DEF Places
  <2>. QED  BY <1>1, <2>1, <2>2, BeginInv DEF CallAccept
<1>2. ASSUME NEW h \in Ends, NEW n \in Lens, CallRead(t, h, n) PROVE IInv'
  <2>1. CallFor("read", [kind |-> "read", h |-> h, n |-> n], open, connected)
    BY <1>2 DEF CallFor, PollPc, CallRead, ReadCalls
  <2>2. "read" \in Places
    BY DEF Places
  <2>. QED  BY <1>2, <2>1, <2>2, BeginInv DEF CallRead
<1>3. ASSUME NEW h \in Ends, NEW n \in Lens, CallWrite(t, h, n) PROVE IInv'
  <2>1. CallFor("write", [kind |-> "write", h |-> h, n |-> n, done |-> 0], open, connected)
    BY <1>3, StreamsAssumption DEF CallFor, PollPc, CallWrite, WriteCalls
  <2>2. "write" \in Places
    BY DEF Places
  <2>. QED  BY <1>3, <2>1, <2>2, BeginInv DEF CallWrite
<1>4. ASSUME NEW at \in {"eread", "ewrite"}, NEW n \in EVals \cup {0}, CallEventfd(t, at, n) PROVE IInv'
  <2>1. CallFor(at, [kind |-> at, n |-> n], open, connected)
    BY DEF CallFor, PollPc, EventCalls
  <2>2. at \in Places
    BY DEF Places
  <2>. QED  BY <1>4, <2>1, <2>2, BeginInv DEF CallEventfd
<1>5. ASSUME NEW fds \in Polls, NEW timeout \in {"none", "zero", "timed"}, CallPoll(t, fds, timeout)
      PROVE  IInv'
  <2> DEFINE c == [kind |-> "poll", fds |-> fds, i |-> 1, found |-> FALSE, timeout |-> timeout]
  <2>1. 1 \in DOMAIN fds
    <3>1. fds \in Seq([h : Handles, events : SUBSET {"r", "w"}]) /\ fds # <<>>
      BY StreamsAssumption
    <3>. QED  BY <3>1, EmptySeq, LenProperties
  <2>2. CallFor("poll_lock", c, open, connected)
    BY <2>1 DEF CallFor, PollPc, PollCalls
  <2>3. "poll_lock" \in Places
    BY DEF Places, PollPc
  <2>. QED  BY <1>5, <2>2, <2>3, BeginInv DEF CallPoll
<1>. QED  BY <1>1, <1>2, <1>3, <1>4, <1>5

(* Connecting opens an end of no buffer and wakes who accepts.             *)
LEMMA ConnectInv ==
    ASSUME IInv, NEW t \in Threads, pipe_connect(t)
    PROVE  IInv'
<1> USE StreamsAssumption DEF IInv, pipe_connect, Wakeup, pipebuf, eventfd, waits
<1>1. blocked' \in [Threads -> Futexes \cup {NoOne}]
  BY WokenIs
<1>2. \A u \in Threads : blocked'[u] # NoOne => blocked'[u] = blocked[u] /\ blocked[u] # "connect"
  BY WokenIs
<1>3. open' \subseteq Handles /\ connecting' \in BOOLEAN /\ ops' \in 0 .. MaxOps
  BY DEF TypeOK, Handles, Ends
<1>4. TypeOK'
  BY <1>1, <1>3 DEF TypeOK
<1>5. CallsExact'
  <2>1. ASSUME NEW u \in Threads PROVE CallFor(pc'[u], call'[u], open', connected')
    BY DEF CallsExact, CallFor
  <2>. QED  BY <2>1 DEF CallsExact
<1>6. BlockedExact'
  BY <1>2 DEF BlockedExact
<1>7. BufferExact'
  BY DEF BufferExact, Ends
<1>8. SleepersHaveCause'
  BY <1>2 DEF SleepersHaveCause, Empty, Full, Fits, Futexes
<1>. QED  BY <1>4, <1>5, <1>6, <1>7, <1>8

(* Accepting attaches the buffer to both ends, or sleeps while nobody      *)
(* connects.                                                               *)
LEMMA AcceptInv ==
    ASSUME IInv, NEW t \in Threads, Accept(t)
    PROVE  IInv'
<1> USE StreamsAssumption DEF IInv, Runs
<1>0. pc[t] = "accept" /\ blocked[t] = NoOne
  BY DEF Accept
<1>1. ASSUME connecting, Attach, Return(t), UNCHANGED blocked PROVE IInv'
  <2> USE <1>0, <1>1 DEF Accept, Attach, Return, eventfd, waits
  <2>1. open' \subseteq Handles /\ pc' \in [Threads -> Places]
    BY DEF TypeOK, Handles, Ends, Places
  <2>2. TypeOK'
    BY <2>1 DEF TypeOK, Places
  <2>3. CallsExact'
    <3>1. call' = [u \in Threads |-> call'[u]]
      BY DEF CallsExact
    <3>2. ASSUME NEW u \in Threads PROVE CallFor(pc'[u], call'[u], open', connected')
      <4>1. CASE u = t
        BY <4>1 DEF TypeOK, CallsExact, CallFor, PollPc
      <4>2. CASE u # t
        <5>1. ~connected
          BY DEF BufferExact
        <5>. QED  BY <4>2, <5>1 DEF TypeOK, CallsExact, CallFor
      <4>. QED  BY <4>1, <4>2
    <3>. QED  BY <3>1, <3>2 DEF CallsExact
  <2>4. BlockedExact'
    BY WokenIs, MoveBlocked
  <2>5. BufferExact'
    BY DEF TypeOK, BufferExact, Counts, Ends
  <2>6. SleepersHaveCause'
    BY DEF CallsExact, SleepersHaveCause, Empty, Full, Fits, Futexes
  <2>. QED  BY <2>2, <2>3, <2>4, <2>5, <2>6
<1>2. ASSUME Return(t), UNCHANGED <<open, connecting, connected, refcount, blocked>> PROVE IInv'
  <2> USE <1>0, <1>2 DEF Accept, Return, eventfd, waits
  <2>1. pc' \in [Threads -> Places]
    BY DEF TypeOK, Places
  <2>2. TypeOK'
    BY <2>1 DEF TypeOK, Places
  <2>3. CallsExact'
    <3>1. CallFor("idle", NoCall, open, connected)
      BY DEF CallFor, PollPc
    <3>. QED  BY <3>1, MoveCalls
  <2>4. BlockedExact'
    BY WokenIs, MoveBlocked
  <2>5. BufferExact'
    BY DEF BufferExact
  <2>6. SleepersHaveCause'
    BY DEF CallsExact, SleepersHaveCause, Empty, Full, Fits, Futexes
  <2>. QED  BY <2>2, <2>3, <2>4, <2>5, <2>6
<1>3. ASSUME ~connecting, WakeupAndWait({}, t, "connect"),
             UNCHANGED <<open, connecting, connected, refcount, pc, call>>
      PROVE IInv'
  <2> USE <1>0, <1>3 DEF Accept, WakeupAndWait, eventfd, waits
  <2>1. BlockedExact' /\ blocked' \in [Threads -> Futexes \cup {NoOne}]
    BY SleepBlocked DEF SleepPc, Futexes
  <2>2. TypeOK'
    BY <2>1 DEF TypeOK
  <2>3. CallsExact' /\ BufferExact'
    BY DEF CallsExact, BufferExact
  <2>4. \A u \in Threads : u # t /\ blocked'[u] # NoOne => blocked'[u] = blocked[u]
    BY WokenIs
  <2>5. blocked'[t] = "connect"
    BY WokenIs
  <2>6. SleepersHaveCause'
    BY <2>4, <2>5 DEF SleepersHaveCause, Empty, Full, Fits, Futexes
  <2>. QED  BY <2>1, <2>2, <2>3, <2>6
<1>. QED  BY <1>1, <1>2, <1>3 DEF Accept

(* A call returns, and wakes some words.                                   *)
LEMMA ReturnFrame ==
    ASSUME IInv, NEW t \in Threads, blocked[t] = NoOne, NEW F, Return(t), blocked' = Woken(F),
           UNCHANGED <<open, connected>>
    PROVE  /\ CallsExact' /\ BlockedExact'
           /\ blocked' \in [Threads -> Futexes \cup {NoOne}] /\ pc' \in [Threads -> Places]
           /\ \A u \in Threads : blocked'[u] # NoOne =>
                 blocked'[u] = blocked[u] /\ blocked[u] \notin F /\ call'[u] = call[u]
<1> USE DEF IInv, Return
<1>1. CallsExact'
  <2>1. CallFor("idle", NoCall, open, connected)
    BY DEF CallFor, PollPc
  <2>. QED  BY <2>1, MoveCalls
<1>2. BlockedExact' /\ blocked' \in [Threads -> Futexes \cup {NoOne}]
  BY MoveBlocked
<1>3. pc' \in [Threads -> Places]
  BY DEF TypeOK, Places
<1>4. ASSUME NEW u \in Threads, blocked'[u] # NoOne
      PROVE  blocked'[u] = blocked[u] /\ blocked[u] \notin F /\ call'[u] = call[u]
  <2>1. blocked'[u] = blocked[u] /\ blocked[u] \notin F /\ u # t
    BY <1>4, WokenIs
  <2>. QED  BY <2>1 DEF CallsExact
<1>. QED  BY <1>1, <1>2, <1>3, <1>4

(* A call goes to sleep where it is, and wakes some words.                 *)
LEMMA SleepFrame ==
    ASSUME IInv, NEW t \in Threads, NEW F, NEW f \in Futexes, pc[t] = SleepPc(f), UNCHANGED pc,
           WakeupAndWait(F, t, f)
    PROVE  /\ BlockedExact' /\ blocked' \in [Threads -> Futexes \cup {NoOne}]
           /\ blocked'[t] = f
           /\ \A u \in Threads \ {t} : blocked'[u] # NoOne =>
                 blocked'[u] = blocked[u] /\ blocked[u] \notin F
<1> USE DEF IInv, WakeupAndWait
<1>1. BlockedExact' /\ blocked' \in [Threads -> Futexes \cup {NoOne}]
  BY SleepBlocked
<1>. QED  BY <1>1, WokenIs

------------------------------------------------------------------------------
(* The pipe.                                                               *)

(* Whoever reads makes room, and wakes the writers.                        *)
LEMMA ReadInv ==
    ASSUME IInv, NEW t \in Threads, pal_common_pipe_read(t)
    PROVE  IInv'
<1> USE StreamsAssumption DEF IInv, pal_common_pipe_read, handles, eventfd, waits
<1>0. pc[t] = "read" /\ blocked[t] = NoOne
  BY DEF Runs
<1>1. call[t] \in ReadCalls /\ call[t].n \in Nat \ {0}
  BY <1>0 DEF CallsExact, CallFor, ReadCalls
<1>2. Used(write_pos, read_pos) \in 0 .. Mod - 1 /\ (Used(write_pos, read_pos) = 0 <=> Empty)
  <2>1. write_pos \in 0 .. Mod - 1 /\ read_pos \in 0 .. Mod - 1
    BY DEF TypeOK
  <2>. QED  BY <2>1, UsedIs DEF Empty
<1>3. ASSUME ReadBytes(t) PROVE IInv'
  <2> DEFINE x == Smaller(call[t].n, Used(write_pos, read_pos))
  <2>1. x \in Nat /\ x <= Used(write_pos, read_pos)
    BY <1>1, <1>2 DEF Smaller
  <2> HIDE DEF x
  <2>2. read_pos' = (read_pos + x) % Mod /\ blocked' = Woken(PollFutex("buf") \cup {"writer"})
    BY <1>3 DEF ReadBytes, Wakeup, x
  <2>3. /\ read_pos' \in 0 .. Mod - 1
        /\ Used(write_pos', read_pos') = Used(write_pos, read_pos) - x
    BY <2>1, <2>2, UsedShrinks DEF TypeOK
  <2>4. /\ CallsExact' /\ BlockedExact'
        /\ blocked' \in [Threads -> Futexes \cup {NoOne}] /\ pc' \in [Threads -> Places]
        /\ \A u \in Threads : blocked'[u] # NoOne =>
              blocked'[u] = blocked[u] /\ blocked[u] # "writer" /\ call'[u] = call[u]
    <3>1. PICK F : F = PollFutex("buf") \cup {"writer"}
      OBVIOUS
    <3>2. blocked' = Woken(F) /\ "writer" \in F /\ Return(t) /\ UNCHANGED <<open, connected>>
      BY <1>3, <2>2, <3>1 DEF ReadBytes
    <3>. QED  BY <1>0, <3>2, ReturnFrame
  <2>5. TypeOK'
    BY <2>3, <2>4 DEF TypeOK, Places
  <2>6. BufferExact'
    BY <1>2, <2>1, <2>3 DEF BufferExact
  <2>7. SleepersHaveCause'
    <3>1. ~Empty
      BY <1>3 DEF ReadBytes
    <3>. QED  BY <2>4, <3>1 DEF SleepersHaveCause, Fits, Futexes
  <2>. QED  BY <2>4, <2>5, <2>6, <2>7
<1>4. ASSUME ReadNothing(t) PROVE IInv'
  <2>1. blocked' = Woken(PollFutex("buf") \cup {"writer"}) /\ UNCHANGED read_pos
    BY <1>4 DEF ReadNothing, Wakeup
  <2>2. /\ CallsExact' /\ BlockedExact'
        /\ blocked' \in [Threads -> Futexes \cup {NoOne}] /\ pc' \in [Threads -> Places]
        /\ \A u \in Threads : blocked'[u] # NoOne => blocked'[u] = blocked[u] /\ call'[u] = call[u]
    BY <1>0, <1>4, <2>1, ReturnFrame DEF ReadNothing
  <2>3. TypeOK'
    BY <2>1, <2>2 DEF TypeOK, Places
  <2>4. BufferExact'
    BY <2>1 DEF BufferExact
  <2>5. SleepersHaveCause'
    BY <2>1, <2>2 DEF SleepersHaveCause, Empty, Full, Fits, Futexes
  <2>. QED  BY <2>2, <2>3, <2>4, <2>5
<1>5. ASSUME ReadSleeps(t) PROVE IInv'
  <2>1. Empty /\ UNCHANGED <<read_pos, pc, call>>
    BY <1>5 DEF ReadSleeps
  <2>2. /\ BlockedExact' /\ blocked' \in [Threads -> Futexes \cup {NoOne}]
        /\ blocked'[t] = "reader"
        /\ \A u \in Threads \ {t} : blocked'[u] # NoOne => blocked'[u] = blocked[u]
    <3>1. "reader" \in Futexes /\ SleepPc("reader") = "read"
      BY DEF Futexes, SleepPc
    <3>2. WakeupAndWait({}, t, "reader")
      BY <1>5 DEF ReadSleeps
    <3>. QED  BY <1>0, <2>1, <3>1, <3>2, SleepFrame
  <2>3. TypeOK'
    BY <2>1, <2>2 DEF TypeOK
  <2>4. CallsExact' /\ BufferExact'
    BY <2>1 DEF CallsExact, BufferExact
  <2>5. SleepersHaveCause'
    BY <2>1, <2>2 DEF SleepersHaveCause, Empty, Full, Fits, Futexes
  <2>. QED  BY <2>2, <2>3, <2>4, <2>5
<1>. QED  BY <1>3, <1>4, <1>5

(* The smaller of what is left to write and the free space.                *)
LEMMA SmallerOfBoth ==
    ASSUME NEW n \in Nat, NEW d \in Nat, NEW s \in Nat, NEW u \in 0 .. s, d < n,
           NEW r, r = Smaller(n - d, s - u)
    PROVE  r \in Nat /\ r <= n - d /\ u + r <= s /\ (d + r < n => u + r = s)
BY DEF Smaller

(* How much a write copies: all, or what fills the buffer.                 *)
LEMMA RoomIs ==
    ASSUME IInv, NEW t \in Threads, pc[t] = "write"
    PROVE  /\ call[t] \in WriteCalls /\ call[t].n \in Nat /\ call[t].done \in Nat
           /\ Used(write_pos, read_pos) \in 0 .. Size
           /\ Room(t) \in Nat /\ Room(t) <= call[t].n - call[t].done
           /\ Used(write_pos, read_pos) + Room(t) <= Size
           /\ call[t].done + Room(t) < call[t].n => Used(write_pos, read_pos) + Room(t) = Size
<1> USE StreamsAssumption DEF IInv
<1>1. call[t] \in WriteCalls /\ call[t].done < call[t].n
  BY DEF CallsExact, CallFor
<1>2. call[t].n \in Nat /\ call[t].done \in Nat
  BY <1>1 DEF WriteCalls
<1>3. Used(write_pos, read_pos) \in 0 .. Size
  <2>1. Used(write_pos, read_pos) \in 0 .. Mod - 1
    BY UsedIs DEF TypeOK
  <2>. QED  BY <2>1 DEF BufferExact
<1>4. /\ Room(t) \in Nat /\ Room(t) <= call[t].n - call[t].done
      /\ Used(write_pos, read_pos) + Room(t) <= Size
      /\ call[t].done + Room(t) < call[t].n => Used(write_pos, read_pos) + Room(t) = Size
  <2> HIDE DEF IInv
  <2>1. Size \in Nat
    OBVIOUS
  <2> HIDE StreamsAssumption
  <2>2. Room(t) = Smaller(call[t].n - call[t].done, Size - Used(write_pos, read_pos))
    BY Zenon DEF Room
  <2>. QED  BY <1>1, <1>2, <1>3, <2>1, <2>2, SmallerOfBoth
<1>. QED  BY <1>1, <1>2, <1>3, <1>4, Zenon

(* Copying x bytes leaves bytes in the slots.                              *)
LEMMA FillTyped ==
    ASSUME TypeOK, NEW t \in Threads, NEW x \in Nat, call[t].done \in Nat
    PROVE  Fill(t, x) \in [0 .. Size - 1 -> Bytes]
<1> SUFFICES ASSUME NEW s \in 0 .. Size - 1
             PROVE  (IF \E i \in 1 .. x : s = (write_pos + i - 1) % Size
                     THEN <<t, call[t].done + (CHOOSE i \in 1 .. x : s = (write_pos + i - 1) % Size)>>
                     ELSE buf[s]) \in Bytes
  BY DEF Fill
<1>1. CASE \E i \in 1 .. x : s = (write_pos + i - 1) % Size
  <2>1. PICK j : j = (CHOOSE i \in 1 .. x : s = (write_pos + i - 1) % Size)
    OBVIOUS
  <2>2. j \in 1 .. x
    BY <1>1, <2>1
  <2>3. call[t].done + j \in Nat \ {0}
    BY <2>2
  <2>. QED  BY <1>1, <2>1, <2>3 DEF Bytes
<1>2. CASE ~\E i \in 1 .. x : s = (write_pos + i - 1) % Size
  BY <1>2 DEF TypeOK
<1>. QED  BY <1>1, <1>2

(* Whoever writes wakes the readers, also before it sleeps; it sleeps when *)
(* it has filled the buffer.                                               *)
LEMMA WriteInv ==
    ASSUME IInv, NEW t \in Threads, pal_common_pipe_write(t)
    PROVE  IInv'
<1> USE StreamsAssumption DEF IInv, pal_common_pipe_write, handles, eventfd, waits
<1>0. pc[t] = "write" /\ blocked[t] = NoOne
  BY DEF Runs
<1>1. /\ call[t] \in WriteCalls /\ call[t].n \in Nat /\ call[t].done \in Nat
      /\ Used(write_pos, read_pos) \in 0 .. Size
      /\ Room(t) \in Nat /\ Room(t) <= call[t].n - call[t].done
      /\ Used(write_pos, read_pos) + Room(t) <= Size
      /\ call[t].done + Room(t) < call[t].n => Used(write_pos, read_pos) + Room(t) = Size
  BY <1>0, RoomIs
<1>2. /\ write_pos' \in 0 .. Mod - 1
      /\ Used(write_pos', read_pos') = Used(write_pos, read_pos) + Room(t)
  BY <1>1, UsedGrows, SMTT(30) DEF TypeOK, WriteBytes
<1>3. buf' \in [0 .. Size - 1 -> Bytes]
  BY <1>1, FillTyped DEF WriteBytes
<1>4. Full => Full'
  BY <1>1, <1>2 DEF Full
<1>5. ASSUME WriteReturns(t) PROVE IInv'
  <2>1. blocked' = Woken(PollFutex("buf") \cup {"reader"})
    BY <1>5 DEF WriteReturns, Wakeup
  <2>2. /\ CallsExact' /\ BlockedExact'
        /\ blocked' \in [Threads -> Futexes \cup {NoOne}] /\ pc' \in [Threads -> Places]
        /\ \A u \in Threads : blocked'[u] # NoOne =>
              blocked'[u] = blocked[u] /\ blocked[u] # "reader" /\ call'[u] = call[u]
    <3>1. PICK F : F = PollFutex("buf") \cup {"reader"}
      OBVIOUS
    <3>2. blocked' = Woken(F) /\ "reader" \in F /\ Return(t) /\ UNCHANGED <<open, connected>>
      BY <1>5, <2>1, <3>1 DEF WriteReturns
    <3>. QED  BY <1>0, <3>2, ReturnFrame
  <2>3. TypeOK'
    BY <1>2, <1>3, <2>2 DEF TypeOK, Places
  <2>4. BufferExact'
    BY <1>1, <1>2 DEF BufferExact
  <2>5. SleepersHaveCause'
    BY <1>4, <2>2 DEF SleepersHaveCause, Fits, Futexes
  <2>. QED  BY <2>2, <2>3, <2>4, <2>5
<1>6. ASSUME WriteSleeps(t) PROVE IInv'
  <2>1. /\ call[t].done + Room(t) < call[t].n
        /\ call' = [call EXCEPT ![t].done = call[t].done + Room(t)] /\ UNCHANGED pc
        /\ WakeupAndWait(PollFutex("buf") \cup {"reader"}, t, "writer")
    BY <1>6 DEF WriteSleeps
  <2>2. /\ BlockedExact' /\ blocked' \in [Threads -> Futexes \cup {NoOne}]
        /\ blocked'[t] = "writer"
        /\ \A u \in Threads \ {t} : blocked'[u] # NoOne =>
              blocked'[u] = blocked[u] /\ blocked[u] # "reader"
    <3>1. "writer" \in Futexes /\ SleepPc("writer") = "write"
      BY DEF Futexes, SleepPc
    <3>2. PICK F : F = PollFutex("buf") \cup {"reader"}
      OBVIOUS
    <3>3. WakeupAndWait(F, t, "writer") /\ "reader" \in F /\ UNCHANGED pc
      BY <2>1, <3>2
    <3>. QED  BY <1>0, <3>1, <3>3, SleepFrame
  <2>3. TypeOK'
    BY <1>2, <1>3, <2>1, <2>2 DEF TypeOK
  <2>4. CallsExact'
    <3>1. CallFor("write", [call[t] EXCEPT !.done = call[t].done + Room(t)], open, connected)
      BY <1>0, <1>1, <2>1, SMTT(30) DEF CallsExact, CallFor, PollPc, WriteCalls
    <3>2. pc' = [pc EXCEPT ![t] = "write"]
      BY <1>0, <2>1 DEF TypeOK
    <3>3. call' = [call EXCEPT ![t] = [call[t] EXCEPT !.done = call[t].done + Room(t)]]
      BY <2>1
    <3>. QED  BY <3>1, <3>2, <3>3, MoveCalls
  <2>5. BufferExact'
    BY <1>1, <1>2 DEF BufferExact
  <2>6. SleepersHaveCause'
    <3>1. Full'
      BY <1>1, <1>2, <2>1 DEF Full
    <3>2. \A u \in Threads \ {t} : call'[u] = call[u]
      BY <2>1 DEF CallsExact
    <3>. QED  BY <2>2, <3>1, <3>2 DEF SleepersHaveCause, Fits, Futexes
  <2>. QED  BY <2>2, <2>3, <2>4, <2>5, <2>6
<1>. QED  BY <1>5, <1>6

------------------------------------------------------------------------------
(* Closing.                                                                *)

(* An end is destroyed while no call uses it, and the count follows.       *)
LEMMA DestroyInv ==
    ASSUME IInv, NEW t \in Threads, NEW h \in Handles, Destroy(t, h)
    PROVE  IInv'
<1> USE StreamsAssumption DEF IInv, Destroy, eventfd, waits
<1>1. pc[t] = "idle" /\ ops' \in 0 .. MaxOps
  BY DEF Begin, TypeOK
<1>2. blocked[t] = NoOne
  BY <1>1 DEF TypeOK, BlockedExact, SleepPc, Futexes
<1>3. open' = open \ {h} /\ open' \subseteq Handles /\ connecting' \in BOOLEAN
  BY DEF TypeOK
<1>4. \A u \in Threads : pc[u] \in {"read", "write"} => call[u].h # h
  BY DEF Unused, CallsExact, CallFor, ReadCalls, WriteCalls
<1>5. \A u \in Threads : CallFor(pc[u], call[u], open', connected')
  <2> SUFFICES ASSUME NEW u \in Threads PROVE CallFor(pc[u], call[u], open', connected')
    OBVIOUS
  <2>1. CallFor(pc[u], call[u], open, connected)
    BY DEF CallsExact
  <2>. QED  BY <1>3, <1>4, <2>1 DEF CallFor
<1>6. CASE h \in Ends /\ connected
  <2>1. /\ Begin(t, "destroy", [kind |-> "destroy", last |-> refcount = 1])
        /\ refcount' = refcount - 1
    BY <1>6
  <2>2. refcount = Counts("pipe", open) + Counts("cli", open) /\ ~connecting
    BY <1>6 DEF BufferExact
  <2>3. refcount' = Counts("pipe", open') + Counts("cli", open')
    BY <1>3, <1>6, <2>1, <2>2 DEF Counts, Ends
  <2>4. refcount = 1 => open' \cap Ends = {}
    BY <1>3, <1>6, <2>1, <2>2 DEF Counts, Ends
  <2>5. refcount' \in 0 .. 2
    BY <2>3 DEF Counts
  <2>6. pc' \in [Threads -> Places]
    BY <2>1 DEF Begin, TypeOK, Places
  <2>7. TypeOK'
    BY <1>1, <1>3, <2>5, <2>6 DEF TypeOK, Places
  <2>8. CallsExact'
    <3>1. CallFor("destroy", [kind |-> "destroy", last |-> refcount = 1], open', connected')
      BY <1>6, <2>4 DEF CallFor, PollPc, DestroyCalls
    <3>2. ASSUME NEW u \in Threads PROVE CallFor(pc'[u], call'[u], open', connected')
      <4>1. CASE u = t
        <5>1. pc'[u] = "destroy" /\ call'[u] = [kind |-> "destroy", last |-> refcount = 1]
          BY <2>1, <4>1 DEF Begin, TypeOK, CallsExact
        <5>. QED  BY <3>1, <5>1
      <4>2. CASE u # t
        <5>1. pc'[u] = pc[u] /\ call'[u] = call[u]
          BY <2>1, <4>2 DEF Begin, TypeOK, CallsExact
        <5>. QED  BY <1>5, <5>1
      <4>. QED  BY <4>1, <4>2
    <3>3. call' = [u \in Threads |-> call'[u]]
      BY <2>1 DEF Begin, CallsExact
    <3>. QED  BY <3>2, <3>3 DEF CallsExact
  <2>9. BlockedExact'
    BY <1>2, <2>1, WokenIs, MoveBlocked DEF Begin
  <2>10. BufferExact'
    BY <1>3, <1>6, <2>2, <2>3 DEF BufferExact
  <2>11. SleepersHaveCause'
    <3>1. \A u \in Threads : blocked'[u] # NoOne => call'[u] = call[u]
      BY <1>2, <2>1 DEF Begin, CallsExact
    <3>. QED  BY <3>1 DEF SleepersHaveCause, Empty, Full, Fits, Futexes
  <2>. QED  BY <2>7, <2>8, <2>9, <2>10, <2>11
<1>7. CASE ~(h \in Ends /\ connected)
  <2>1. UNCHANGED <<refcount, pc, call>>
    BY <1>7
  <2>2. TypeOK'
    BY <1>1, <1>3, <2>1 DEF TypeOK
  <2>3. CallsExact'
    BY <1>5, <2>1 DEF CallsExact
  <2>4. BlockedExact'
    BY <2>1 DEF BlockedExact
  <2>5. BufferExact'
    BY <1>3, <1>7, <2>1 DEF BufferExact, Counts, Ends
  <2>6. SleepersHaveCause'
    BY <2>1 DEF SleepersHaveCause, Empty, Full, Fits, Futexes
  <2>. QED  BY <2>2, <2>3, <2>4, <2>5, <2>6
<1>. QED  BY <1>6, <1>7

(* Both directions are closed, and all sleepers are woken.                 *)
LEMMA HangupInv ==
    ASSUME IInv, NEW t \in Threads, Hangup(t)
    PROVE  IInv'
<1> USE DEF IInv, Hangup, Wakeup, handles, eventfd, waits
<1>1. /\ CallsExact' /\ BlockedExact'
      /\ blocked' \in [Threads -> Futexes \cup {NoOne}] /\ pc' \in [Threads -> Places]
      /\ \A u \in Threads : blocked'[u] # NoOne => blocked'[u] = blocked[u] /\ call'[u] = call[u]
  BY ReturnFrame DEF Runs
<1>2. TypeOK'
  BY <1>1 DEF TypeOK, Places
<1>3. BufferExact'
  BY DEF BufferExact
<1>4. SleepersHaveCause'
  BY <1>1, StreamsAssumption DEF SleepersHaveCause, Empty, Full, Fits, Futexes
<1>. QED  BY <1>1, <1>2, <1>3, <1>4

(* The last end's destroyer frees the buffer: no end is open any more.     *)
LEMMA FreeInv ==
    ASSUME IInv, NEW t \in Threads, Free(t)
    PROVE  IInv'
<1> USE DEF IInv, Free, handles, eventfd, waits
<1>1. /\ CallsExact' /\ BlockedExact'
      /\ blocked' \in [Threads -> Futexes \cup {NoOne}] /\ pc' \in [Threads -> Places]
      /\ \A u \in Threads : blocked'[u] # NoOne => blocked'[u] = blocked[u] /\ call'[u] = call[u]
  <2>1. blocked' = Woken({})
    BY WokenIs
  <2>. QED  BY <2>1, ReturnFrame DEF Runs
<1>2. TypeOK'
  BY <1>1 DEF TypeOK, Places
<1>3. BufferExact'
  <2>1. open \cap Ends = {} /\ connected
    BY DEF Runs, CallsExact, CallFor
  <2>. QED  BY <2>1 DEF BufferExact
<1>4. SleepersHaveCause'
  BY <1>1, StreamsAssumption DEF SleepersHaveCause, Empty, Full, Fits, Futexes
<1>. QED  BY <1>1, <1>2, <1>3, <1>4

(* Shutdown and the non-blocking option touch neither positions nor calls. *)
LEMMA OptionsInv ==
    ASSUME IInv, NEW t \in Threads, NEW h \in Handles, NEW mode \in SUBSET {"r", "w"},
           pal_common_pipe_delete(t, h, mode) \/ SetNonblocking(t, h)
    PROVE  IInv'
<1> USE DEF IInv, eventfd, waits
<1>1. ASSUME pal_common_pipe_delete(t, h, mode) PROVE IInv'
  <2> USE <1>1 DEF pal_common_pipe_delete, Wakeup
  <2>1. PICK F : blocked' = Woken(F)
    OBVIOUS
  <2>2. /\ blocked' \in [Threads -> Futexes \cup {NoOne}]
        /\ \A u \in Threads : blocked'[u] # NoOne => blocked'[u] = blocked[u]
    BY <2>1, WokenIs
  <2>3. flags' \in [Ends -> SUBSET {"r", "w"}]
    BY DEF TypeOK
  <2>4. readable' \in BOOLEAN /\ writable' \in BOOLEAN
    OBVIOUS
  <2>5. ops' \in 0 .. MaxOps
    BY StreamsAssumption DEF TypeOK
  <2>6. TypeOK'
    BY <2>2, <2>3, <2>4, <2>5 DEF TypeOK
  <2>7. CallsExact' /\ BufferExact'
    BY DEF CallsExact, BufferExact
  <2>8. BlockedExact'
    BY <2>2 DEF BlockedExact
  <2>9. SleepersHaveCause'
    BY <2>2, StreamsAssumption DEF SleepersHaveCause, Empty, Full, Fits, Futexes
  <2>. QED  BY <2>6, <2>7, <2>8, <2>9
<1>2. ASSUME SetNonblocking(t, h) PROVE IInv'
  <2> USE <1>2 DEF SetNonblocking, pipebuf
  <2>1. ops' \in 0 .. MaxOps /\ nonblocking' \subseteq Handles
    BY StreamsAssumption DEF TypeOK
  <2>2. TypeOK'
    BY <2>1 DEF TypeOK
  <2>3. CallsExact' /\ BufferExact' /\ BlockedExact'
    BY DEF CallsExact, BufferExact, BlockedExact
  <2>4. SleepersHaveCause'
    BY DEF SleepersHaveCause, Empty, Full, Fits
  <2>. QED  BY <2>2, <2>3, <2>4
<1>. QED  BY <1>1, <1>2

------------------------------------------------------------------------------
(* The eventfd.                                                            *)

(* A read lowers the value and wakes the writers.                          *)
LEMMA EventReadInv ==
    ASSUME IInv, NEW t \in Threads, pal_common_eventfd_read(t)
    PROVE  IInv'
<1> USE StreamsAssumption DEF IInv, handles, pipebuf, waits
<1>0. pc[t] = "eread" /\ blocked[t] = NoOne
  BY DEF Runs, pal_common_eventfd_read
<1>1. ASSUME NEW F, val' \in 0 .. EMax, blocked' = Woken(F), Return(t),
             val' = val \/ (val > 0 /\ val' <= val /\ "ewriter" \in F),
             UNCHANGED <<handles, pipebuf, semaphore, poll_waiting, waits, got, ops>>
      PROVE  IInv'
  <2>1. /\ CallsExact' /\ BlockedExact'
        /\ blocked' \in [Threads -> Futexes \cup {NoOne}] /\ pc' \in [Threads -> Places]
        /\ \A u \in Threads : blocked'[u] # NoOne =>
              blocked'[u] = blocked[u] /\ blocked[u] \notin F /\ call'[u] = call[u]
    BY <1>0, <1>1, ReturnFrame
  <2>2. TypeOK'
    BY <1>1, <2>1 DEF TypeOK, Places
  <2>3. BufferExact'
    BY <1>1 DEF BufferExact
  <2>4. SleepersHaveCause'
    BY <1>1, <2>1 DEF SleepersHaveCause, Empty, Full, Fits, Futexes
  <2>. QED  BY <2>1, <2>2, <2>3, <2>4
<1>2. ASSUME val = 0, WakeupAndWait({}, t, "ereader"),
             UNCHANGED <<handles, pipebuf, eventfd, poll_waiting, waits, pc, call, got, ops>>
      PROVE  IInv'
  <2>1. /\ BlockedExact' /\ blocked' \in [Threads -> Futexes \cup {NoOne}]
        /\ blocked'[t] = "ereader"
        /\ \A u \in Threads \ {t} : blocked'[u] # NoOne => blocked'[u] = blocked[u]
    <3>1. "ereader" \in Futexes /\ SleepPc("ereader") = "eread"
      BY DEF Futexes, SleepPc
    <3>. QED  BY <1>0, <1>2, <3>1, SleepFrame
  <2>2. TypeOK'
    BY <1>2, <2>1 DEF TypeOK, eventfd
  <2>3. CallsExact' /\ BufferExact'
    BY <1>2 DEF CallsExact, BufferExact
  <2>4. SleepersHaveCause'
    BY <1>2, <2>1 DEF SleepersHaveCause, Empty, Full, Fits, Futexes, eventfd
  <2>. QED  BY <2>1, <2>2, <2>3, <2>4
<1>3. UNCHANGED <<handles, pipebuf, semaphore, poll_waiting, waits, got, ops>>
  BY DEF pal_common_eventfd_read
<1>4. CASE val > 0
  <2>1. PICK F : F = PollFutex("efd") \cup {"ewriter"}
    OBVIOUS
  <2>2. /\ val' = (IF semaphore THEN val - 1 ELSE 0) /\ blocked' = Woken(F) /\ Return(t)
        /\ "ewriter" \in F
    BY <1>4, <2>1 DEF pal_common_eventfd_read, Wakeup, TypeOK
  <2>3. val' \in 0 .. EMax /\ val' <= val
    BY <1>4, <2>2 DEF TypeOK
  <2>. QED  BY <1>1, <1>3, <1>4, <2>2, <2>3
<1>5. CASE val = 0 /\ "efd" \in nonblocking
  <2>1. Return(t) /\ UNCHANGED <<val, blocked>>
    BY <1>5 DEF pal_common_eventfd_read
  <2>2. val' \in 0 .. EMax /\ blocked' = Woken({}) /\ val' = val
    BY <2>1, WokenIs DEF TypeOK
  <2>. QED  BY <1>1, <1>3, <2>1, <2>2
<1>6. CASE val = 0 /\ "efd" \notin nonblocking
  <2>1. WakeupAndWait({}, t, "ereader") /\ UNCHANGED <<val, pc, call>>
    BY <1>6 DEF pal_common_eventfd_read
  <2>. QED  BY <1>2, <1>3, <1>6, <2>1 DEF eventfd
<1>7. val > 0 \/ val = 0
  BY DEF TypeOK
<1>. QED  BY <1>4, <1>5, <1>6, <1>7

(* A write raises the value and wakes the readers.                         *)
LEMMA EventWriteInv ==
    ASSUME IInv, NEW t \in Threads, pal_common_eventfd_write(t)
    PROVE  IInv'
<1> USE StreamsAssumption DEF IInv, handles, pipebuf, waits
<1>0. pc[t] = "ewrite" /\ blocked[t] = NoOne
  BY DEF Runs, pal_common_eventfd_write
<1>1. call[t].n \in Nat
  <2>1. call[t] \in EventCalls
    BY <1>0 DEF CallsExact, CallFor
  <2>2. EVals \cup {0} \subseteq Nat
    OBVIOUS
  <2>. QED  BY <2>1, <2>2 DEF EventCalls
<1>2. \A u \in Threads : blocked[u] = "ewriter" => call[u].n \in Nat
  <2>1. \A u \in Threads : blocked[u] = "ewriter" => pc[u] = "ewrite"
    BY DEF BlockedExact, SleepPc, Futexes
  <2>2. \A u \in Threads : blocked[u] = "ewriter" => call[u] \in EventCalls
    BY <2>1 DEF CallsExact, CallFor
  <2>3. EVals \cup {0} \subseteq Nat
    OBVIOUS
  <2>. QED  BY <2>2, <2>3 DEF EventCalls
<1>3. UNCHANGED <<handles, pipebuf, semaphore, poll_waiting, waits, got, ops>>
  BY DEF pal_common_eventfd_write
<1>4. ASSUME NEW F, val' \in 0 .. EMax, blocked' = Woken(F), Return(t),
             val' = val \/ (val' >= val /\ "ereader" \in F)
      PROVE  IInv'
  <2>1. /\ CallsExact' /\ BlockedExact'
        /\ blocked' \in [Threads -> Futexes \cup {NoOne}] /\ pc' \in [Threads -> Places]
        /\ \A u \in Threads : blocked'[u] # NoOne =>
              blocked'[u] = blocked[u] /\ blocked[u] \notin F /\ call'[u] = call[u]
    BY <1>0, <1>3, <1>4, ReturnFrame
  <2>2. TypeOK'
    BY <1>3, <1>4, <2>1 DEF TypeOK, Places
  <2>3. BufferExact'
    BY <1>3 DEF BufferExact
  <2>4. SleepersHaveCause'
    <3>1. val \in Nat /\ val' \in Nat /\ EMax \in Nat
      BY <1>4 DEF TypeOK
    <3>2. ASSUME NEW u \in Threads, blocked'[u] = "ewriter" PROVE val' + call'[u].n > EMax
      <4>1. blocked[u] = "ewriter" /\ call'[u] = call[u]
        BY <2>1, <3>2 DEF Futexes
      <4>2. val + call[u].n > EMax /\ val' >= val
        BY <1>2, <1>4, <3>1, <4>1 DEF SleepersHaveCause, Fits
      <4>. QED  BY <1>2, <3>1, <4>1, <4>2
    <3>3. \A u \in Threads : blocked'[u] = "ewriter" => ~Fits(call[u].n)'
      <4>1. ASSUME NEW u \in Threads, blocked'[u] = "ewriter" PROVE ~Fits(call[u].n)'
        <5>1. call'[u].n \in Nat
          BY <1>2, <2>1, <4>1 DEF Futexes
        <5>. QED  BY <3>1, <3>2, <4>1, <5>1 DEF Fits
      <4>. QED  BY <4>1
    <3>. QED  BY <1>3, <1>4, <2>1, <3>1, <3>3 DEF SleepersHaveCause, Empty, Full, Futexes
  <2>. QED  BY <2>1, <2>2, <2>3, <2>4
<1>5. ASSUME ~Fits(call[t].n), WakeupAndWait({}, t, "ewriter"), UNCHANGED <<val, pc, call>>
      PROVE  IInv'
  <2>1. /\ BlockedExact' /\ blocked' \in [Threads -> Futexes \cup {NoOne}]
        /\ blocked'[t] = "ewriter"
        /\ \A u \in Threads \ {t} : blocked'[u] # NoOne => blocked'[u] = blocked[u]
    <3>1. "ewriter" \in Futexes /\ SleepPc("ewriter") = "ewrite"
      BY DEF Futexes, SleepPc
    <3>. QED  BY <1>0, <1>5, <3>1, SleepFrame
  <2>2. TypeOK'
    BY <1>3, <1>5, <2>1 DEF TypeOK
  <2>3. CallsExact' /\ BufferExact'
    BY <1>3, <1>5 DEF CallsExact, BufferExact
  <2>4. SleepersHaveCause'
    BY <1>3, <1>5, <2>1 DEF SleepersHaveCause, Empty, Full, Fits, Futexes
  <2>. QED  BY <2>1, <2>2, <2>3, <2>4
<1>6. CASE Fits(call[t].n) /\ val' = val + call[t].n /\ Return(t)
           /\ Wakeup(PollFutex("efd") \cup {"ereader"})
  <2>1. PICK F : F = PollFutex("efd") \cup {"ereader"}
    OBVIOUS
  <2>2. blocked' = Woken(F) /\ "ereader" \in F
    BY <1>6, <2>1 DEF Wakeup
  <2>3. val' \in 0 .. EMax /\ val' >= val
    BY <1>1, <1>6 DEF TypeOK, Fits
  <2>. QED  BY <1>4, <1>6, <2>2, <2>3
<1>7. CASE Return(t) /\ UNCHANGED <<val, blocked>>
  <2>1. val' \in 0 .. EMax /\ blocked' = Woken({}) /\ val' = val
    BY <1>7, WokenIs DEF TypeOK
  <2>. QED  BY <1>4, <1>7, <2>1
<1>. QED  BY <1>5, <1>6, <1>7 DEF pal_common_eventfd_write

------------------------------------------------------------------------------
(* Polling.                                                                *)

(* A poller touches no handle: what is left is that its own state is typed *)
(* and that it sleeps where it says.                                       *)
LEMMA PollFrame ==
    ASSUME IInv, UNCHANGED polled, CallsExact', BlockedExact',
           poll_waiting' \subseteq {"srv", "buf", "efd"}, plock' \in Threads \cup {NoOne},
           pending' \subseteq Threads, expired' \subseteq Threads, pc' \in [Threads -> Places],
           blocked' \in [Threads -> Futexes \cup {NoOne}],
           \A u \in Threads : blocked'[u] \notin {NoOne, "poll"} =>
                 blocked'[u] = blocked[u] /\ call'[u] = call[u]
    PROVE  IInv'
<1> USE DEF IInv, polled, handles, pipebuf, eventfd
<1>1. TypeOK'
  BY DEF TypeOK, Places
<1>2. BufferExact'
  BY DEF BufferExact
<1>3. SleepersHaveCause'
  BY StreamsAssumption DEF SleepersHaveCause, Empty, Full, Fits, Futexes
<1>. QED  BY <1>1, <1>2, <1>3

(* A poller that is not asleep moves on.                                   *)
LEMMA PollMoves ==
    ASSUME IInv, UNCHANGED <<polled, blocked>>, NEW t \in Threads, blocked[t] = NoOne,
           NEW at \in Places, NEW c, pc' = [pc EXCEPT ![t] = at], call' = [call EXCEPT ![t] = c],
           CallFor(at, c, open, connected),
           poll_waiting' \subseteq {"srv", "buf", "efd"}, plock' \in Threads \cup {NoOne},
           pending' \subseteq Threads, expired' \subseteq Threads
    PROVE  IInv'
<1>1. UNCHANGED <<open, connected>>
  BY DEF polled, handles
<1>2. CallsExact'
  BY <1>1, MoveCalls DEF IInv
<1>3. BlockedExact' /\ blocked' \in [Threads -> Futexes \cup {NoOne}]
  BY WokenIs, MoveBlocked DEF IInv
<1>4. pc' \in [Threads -> Places]
  BY DEF IInv, TypeOK, Places
<1>5. \A u \in Threads : blocked'[u] # NoOne => blocked'[u] = blocked[u] /\ call'[u] = call[u]
  BY DEF IInv, CallsExact
<1>. QED  BY <1>2, <1>3, <1>4, <1>5, PollFrame

(* The call of a poller.                                                   *)
LEMMA PollerCall ==
    ASSUME IInv, NEW t \in Threads, pc[t] \in PollPc, NEW at \in PollPc
    PROVE  /\ CallFor(at, call[t], open, connected) /\ CallFor("idle", NoCall, open, connected)
           /\ call[t] \in PollCalls /\ call[t].i \in DOMAIN call[t].fds
           /\ call = [call EXCEPT ![t] = call[t]]
           /\ at \in Places /\ "idle" \in Places
           /\ poll_waiting \subseteq {"srv", "buf", "efd"} /\ plock \in Threads \cup {NoOne}
           /\ pending \subseteq Threads /\ expired \subseteq Threads
<1>1. call[t] \in PollCalls /\ call[t].i \in DOMAIN call[t].fds
  BY DEF IInv, CallsExact, CallFor
<1>2. CallFor(at, call[t], open, connected) /\ CallFor("idle", NoCall, open, connected)
  BY <1>1 DEF CallFor, PollPc
<1>3. call = [call EXCEPT ![t] = call[t]]
  BY DEF IInv, CallsExact
<1>. QED  BY <1>1, <1>2, <1>3 DEF Places, IInv, TypeOK

(* The pollers' lock, or no memory for the deadline.                       *)
LEMMA PollLockInv ==
    ASSUME IInv, NEW t \in Threads, PollLock(t)
    PROVE  IInv'
<1>1. pc[t] \in PollPc /\ "poll_check" \in PollPc /\ blocked[t] = NoOne
  BY DEF PollLock, Runs, PollPc
<1>2. UNCHANGED <<polled, blocked>> /\ UNCHANGED <<poll_waiting, expired>>
  BY DEF PollLock
<1>3. ASSUME plock' = t, pc' = [pc EXCEPT ![t] = "poll_check"], UNCHANGED call,
             pending' = (IF call[t].timeout = "timed" THEN pending \cup {t} ELSE pending)
      PROVE  IInv'
  <2>1. pending' \subseteq Threads
    BY <1>1, <1>3, PollerCall
  <2>. QED  BY <1>1, <1>2, <1>3, <2>1, PollerCall, PollMoves
<1>4. ASSUME Return(t), UNCHANGED <<plock, pending>> PROVE IInv'
  BY <1>1, <1>2, <1>4, PollerCall, PollMoves DEF Return
<1>. QED  BY <1>3, <1>4 DEF PollLock

(* One handle is looked at, and marked.                                    *)
LEMMA CheckHandleInv ==
    ASSUME IInv, NEW t \in Threads, CheckHandle(t)
    PROVE  IInv'
<1>1. pc[t] = "poll_check" /\ blocked[t] = NoOne
  BY DEF CheckHandle, Runs
<1>2. UNCHANGED <<polled, blocked>> /\ UNCHANGED <<plock, pending, expired>>
  BY DEF CheckHandle, waits
<1>3. "poll_check" \in PollPc /\ "poll_out" \in PollPc /\ "poll_time" \in PollPc
  BY DEF PollPc
<1>4. /\ call[t] \in PollCalls /\ call[t].i \in DOMAIN call[t].fds
      /\ plock \in Threads \cup {NoOne} /\ pending \subseteq Threads /\ expired \subseteq Threads
      /\ poll_waiting \subseteq {"srv", "buf", "efd"}
  BY <1>1, <1>3, PollerCall
<1>5. PICK fd : fd = call[t].fds[call[t].i] /\ fd.h \in Handles
  BY <1>4, PolledHandle
<1>6. /\ call[t].i \in 1 .. Len(call[t].fds) /\ Len(call[t].fds) \in Nat
      /\ DOMAIN call[t].fds = 1 .. Len(call[t].fds)
  BY <1>4, PolledHandle
<1>7. poll_waiting' \subseteq {"srv", "buf", "efd"}
  <2>1. Objects(fd.h) \subseteq {"srv", "buf", "efd"}
    BY <1>5 DEF Objects, Handles, Ends
  <2>2. \/ poll_waiting' = poll_waiting \ Objects(fd.h)
        \/ poll_waiting' = poll_waiting \cup Objects(fd.h)
    BY <1>5 DEF CheckHandle
  <2>. QED  BY <1>4, <2>1, <2>2
<1>8. PICK b \in BOOLEAN : b = Ready(fd.h, fd.events)
  BY DEF Ready
<1>9. CASE call[t].i < Len(call[t].fds)
  <2> DEFINE c == [call[t] EXCEPT !.i = call[t].i + 1, !.found = call[t].found \/ b]
  <2>1. call' = [call EXCEPT ![t] = c] /\ UNCHANGED pc
    BY <1>5, <1>8, <1>9 DEF CheckHandle
  <2>2. c \in PollCalls /\ c.i \in DOMAIN c.fds
    <3>1. c.fds = call[t].fds /\ c.i = call[t].i + 1
      BY <1>4 DEF PollCalls
    <3>2. call[t].i + 1 \in Nat /\ (call[t].found \/ b) \in BOOLEAN
      BY <1>4, <1>6 DEF PollCalls
    <3>3. c \in PollCalls
      BY <1>4, <3>2 DEF PollCalls
    <3>4. call[t].i + 1 \in DOMAIN call[t].fds
      BY <1>6, <1>9
    <3>. QED  BY <3>1, <3>3, <3>4
  <2>3. CallFor("poll_check", c, open, connected)
    BY <2>2 DEF CallFor
  <2>4. pc' = [pc EXCEPT ![t] = "poll_check"] /\ "poll_check" \in Places
    BY <1>1, <1>3, <2>1 DEF IInv, TypeOK, Places
  <2> HIDE DEF c
  <2>. QED  BY <1>1, <1>2, <1>4, <1>7, <2>1, <2>3, <2>4, PollMoves
<1>10. CASE ~(call[t].i < Len(call[t].fds))
  <2> DEFINE c == [call[t] EXCEPT !.i = 1, !.found = FALSE]
  <2>1. call' = [call EXCEPT ![t] = c]
    BY <1>10 DEF CheckHandle
  <2>2. c \in PollCalls /\ c.i \in DOMAIN c.fds
    <3>1. c.fds = call[t].fds /\ c.i = 1
      BY <1>4 DEF PollCalls
    <3>2. c \in PollCalls
      BY <1>4 DEF PollCalls
    <3>3. 1 \in DOMAIN call[t].fds
      BY <1>6
    <3>. QED  BY <3>1, <3>2, <3>3
  <2>3. CallFor("poll_out", c, open, connected) /\ CallFor("poll_time", c, open, connected)
    BY <2>2 DEF CallFor
  <2>4. PICK at \in {"poll_out", "poll_time"} : pc' = [pc EXCEPT ![t] = at]
    BY <1>10 DEF CheckHandle
  <2>5. at \in Places /\ CallFor(at, c, open, connected)
    BY <1>3, <2>3 DEF Places
  <2> HIDE DEF c
  <2>. QED  BY <1>1, <1>2, <1>4, <1>7, <2>1, <2>4, <2>5, PollMoves
<1>. QED  BY <1>9, <1>10

(* Sleeping on the word that all pollers share.                            *)
LEMMA PollSleepInv ==
    ASSUME IInv, NEW t \in Threads, PollSleep(t)
    PROVE  IInv'
<1>1. pc[t] \in PollPc /\ "poll_relock" \in PollPc
  BY DEF PollSleep, Runs, PollPc
<1>2. /\ WakeupAndWait({}, t, "poll") /\ plock' = NoOne /\ pc' = [pc EXCEPT ![t] = "poll_relock"]
      /\ UNCHANGED polled /\ UNCHANGED <<poll_waiting, pending, expired, call>>
  BY DEF PollSleep
<1>3. CallsExact'
  <2>1. UNCHANGED <<open, connected>>
    BY <1>2 DEF polled, handles
  <2>2. call' = [call EXCEPT ![t] = call[t]] /\ CallFor("poll_relock", call[t], open, connected)
    BY <1>1, <1>2, PollerCall
  <2>. QED  BY <1>2, <2>1, <2>2, MoveCalls DEF IInv
<1>4. BlockedExact' /\ blocked' \in [Threads -> Futexes \cup {NoOne}]
  <2>1. "poll" \in Futexes /\ SleepPc("poll") = "poll_relock"
    BY DEF Futexes, SleepPc
  <2>2. pc'[t] = "poll_relock" /\ \A u \in Threads \ {t} : pc'[u] = pc[u]
    BY <1>2 DEF IInv, TypeOK
  <2>3. blocked' = [Woken({}) EXCEPT ![t] = "poll"]
    BY <1>2 DEF WakeupAndWait
  <2>. QED  BY <2>1, <2>2, <2>3, SleepBlocked DEF IInv
<1>5. pc' \in [Threads -> Places]
  BY <1>1, <1>2 DEF IInv, TypeOK, Places
<1>6. \A u \in Threads : blocked'[u] \notin {NoOne, "poll"} => blocked'[u] = blocked[u] /\ call'[u] = call[u]
  BY <1>2, WokenIs DEF IInv, WakeupAndWait
<1>7. /\ poll_waiting' \subseteq {"srv", "buf", "efd"} /\ plock' \in Threads \cup {NoOne}
      /\ pending' \subseteq Threads /\ expired' \subseteq Threads
  BY <1>2 DEF IInv, TypeOK
<1>. QED  BY <1>2, <1>3, <1>4, <1>5, <1>6, <1>7, PollFrame

(* The clock is looked at, the lock is taken again, the poll returns.      *)
LEMMA PollOthersInv ==
    ASSUME IInv, NEW t \in Threads, PollTime(t) \/ PollRelock(t) \/ PollOut(t)
    PROVE  IInv'
<1>0. "poll_out" \in PollPc /\ "poll_sleep" \in PollPc /\ "poll_check" \in PollPc
  BY DEF PollPc
<1>1. ASSUME PollTime(t) PROVE IInv'
  <2>1. pc[t] \in PollPc /\ blocked[t] = NoOne
    BY <1>1 DEF PollTime, Runs, PollPc
  <2>2. PICK at \in PollPc : pc' = [pc EXCEPT ![t] = at]
    BY <1>0, <1>1 DEF PollTime
  <2>3. UNCHANGED <<polled, blocked>> /\ UNCHANGED <<poll_waiting, plock, pending, expired, call>>
    BY <1>1 DEF PollTime, waits
  <2>. QED  BY <2>1, <2>2, <2>3, PollerCall, PollMoves
<1>2. ASSUME PollRelock(t) PROVE IInv'
  <2>1. pc[t] \in PollPc /\ blocked[t] = NoOne
    BY <1>2 DEF PollRelock, Runs, PollPc
  <2>2. plock' = t /\ pc' = [pc EXCEPT ![t] = "poll_check"]
    BY <1>2 DEF PollRelock
  <2>3. UNCHANGED <<polled, blocked>> /\ UNCHANGED <<poll_waiting, pending, expired, call>>
    BY <1>2 DEF PollRelock
  <2>. QED  BY <1>0, <2>1, <2>2, <2>3, PollerCall, PollMoves
<1>3. ASSUME PollOut(t) PROVE IInv'
  <2>1. pc[t] \in PollPc /\ blocked[t] = NoOne
    BY <1>3 DEF PollOut, Runs, PollPc
  <2>2. plock' = NoOne /\ pending' = pending \ {t} /\ expired' = expired \ {t}
    BY <1>3 DEF PollOut
  <2>3. pc' = [pc EXCEPT ![t] = "idle"] /\ call' = [call EXCEPT ![t] = NoCall]
    BY <1>3 DEF PollOut, Return
  <2>4. UNCHANGED <<polled, blocked>> /\ UNCHANGED poll_waiting
    BY <1>3 DEF PollOut
  <2>5. pending' \subseteq Threads /\ expired' \subseteq Threads
    BY <2>2 DEF IInv, TypeOK
  <2>. QED  BY <1>0, <2>1, <2>2, <2>3, <2>4, <2>5, PollerCall, PollMoves
<1>. QED  BY <1>1, <1>2, <1>3

(* A deadline passes; the timer wakes all pollers.                         *)
LEMMA TimerInv ==
    ASSUME IInv, Tick \/ \E t \in Threads : Expire(t)
    PROVE  IInv'
<1>1. ASSUME NEW t \in Threads, Expire(t) PROVE IInv'
  <2>1. /\ UNCHANGED polled /\ UNCHANGED <<poll_waiting, blocked, plock, pending, pc, call>>
        /\ expired' \subseteq Threads
    BY <1>1 DEF Expire, IInv, TypeOK
  <2>2. CallsExact' /\ BlockedExact'
    BY <2>1 DEF polled, handles, IInv, CallsExact, BlockedExact
  <2>. QED  BY <2>1, <2>2, PollFrame DEF IInv, TypeOK, Places
<1>2. ASSUME Tick PROVE IInv'
  <2>1. /\ UNCHANGED polled /\ UNCHANGED <<poll_waiting, plock, expired, pc, call>>
        /\ pending' \subseteq Threads
    BY <1>2 DEF Tick, IInv, TypeOK
  <2>2. /\ blocked' \in [Threads -> Futexes \cup {NoOne}]
        /\ \A u \in Threads : blocked'[u] # NoOne => blocked'[u] = blocked[u]
    BY <1>2, WokenIs DEF IInv, Tick, Wakeup
  <2>3. CallsExact' /\ BlockedExact'
    BY <2>1, <2>2 DEF polled, handles, IInv, CallsExact, BlockedExact
  <2>. QED  BY <2>1, <2>2, <2>3, PollFrame DEF IInv, TypeOK, Places
<1>. QED  BY <1>1, <1>2

------------------------------------------------------------------------------
(* Every step keeps the invariant.                                         *)
LEMMA NextInv == IInv /\ [Next]_vars => IInv'
<1> SUFFICES ASSUME IInv, [Next]_vars PROVE IInv'
  OBVIOUS
<1>1. ASSUME NEW t \in Threads, Call(t) PROVE IInv'
  <2>1. \A mode \in {{"r"}, {"w"}, {"r", "w"}} : mode \in SUBSET {"r", "w"}
    OBVIOUS
  <2>2. {"r"} \in {{"r"}, {"w"}, {"r", "w"}}
    OBVIOUS
  <2>. QED  BY <1>1, <2>1, <2>2, BeginsInv, ConnectInv, DestroyInv, OptionsInv DEF Call
<1>2. ASSUME NEW t \in Threads, Transfer(t) PROVE IInv'
  BY <1>2, AcceptInv, ReadInv, WriteInv, EventReadInv, EventWriteInv, HangupInv, FreeInv DEF Transfer
<1>3. ASSUME NEW t \in Threads, Poll(t) PROVE IInv'
  BY <1>3, PollLockInv, CheckHandleInv, PollSleepInv, PollOthersInv DEF Poll
<1>4. ASSUME UNCHANGED vars PROVE IInv'
  <2> USE <1>4 DEF vars, handles, pipebuf, eventfd, waits, IInv
  <2>1. TypeOK'
    BY DEF TypeOK
  <2>2. CallsExact' /\ BlockedExact' /\ BufferExact'
    BY DEF CallsExact, BlockedExact, BufferExact
  <2>3. SleepersHaveCause'
    BY DEF SleepersHaveCause, Empty, Full, Fits
  <2>. QED  BY <2>1, <2>2, <2>3
<1>. QED  BY <1>1, <1>2, <1>3, <1>4, TimerInv DEF Next

(* The inductive invariant holds throughout.                               *)
THEOREM Invariance == Spec => []IInv
<1>. QED  BY InitInv, NextInv, PTL DEF Spec

(* The state of pipes, eventfds and pollers keeps its types: the count of  *)
(* the buffer never leaves 0 .. 2, an eventfd never exceeds its maximum.   *)
THEOREM TypeCorrect == Spec => []TypeOK
<1>1. IInv => TypeOK
  BY DEF IInv
<1>. QED  BY <1>1, Invariance, PTL

(* No wakeup is lost: a thread sleeps on a pipe, a server or an eventfd    *)
(* only while what it waits for is not there.                              *)
THEOREM SleepersAlwaysHaveCause == Spec => []SleepersHaveCause
<1>1. IInv => SleepersHaveCause
  BY DEF IInv
<1>. QED  BY <1>1, Invariance, PTL

------------------------------------------------------------------------------
(* Who frees the buffer.                                                   *)

FreeingExact ==
    /\ freed => \A t \in Threads : ~Freeing(t)
    /\ connected /\ open \cap Ends = {} => freed \/ \E t \in Threads : Freeing(t)
    /\ \A t, u \in Threads : Freeing(t) /\ Freeing(u) => t = u

(* The destroys under way stay as they are, and no last end is closed.     *)
LEMMA FreeingSame ==
    ASSUME FreeingExact, freed' = freed,
           connected' /\ open' \cap Ends = {} => connected /\ open \cap Ends = {},
           \A u \in Threads : /\ pc'[u] = "destroy" <=> pc[u] = "destroy"
                              /\ pc[u] = "destroy" => call'[u] = call[u]
    PROVE  FreeingExact'
<1>1. \A u \in Threads : Freeing(u)' <=> Freeing(u)
  BY DEF Freeing
<1>. QED  BY <1>1 DEF FreeingExact

(* One thread moves that is not in a destroy.                              *)
LEMMA FreeingMove ==
    ASSUME IInv, FreeingExact, NEW t \in Threads, UNCHANGED <<open, connected, freed>>,
           pc[t] # "destroy", pc'[t] # "destroy",
           \A u \in Threads \ {t} : pc'[u] = pc[u] /\ call'[u] = call[u]
    PROVE  FreeingExact'
<1>1. \A u \in Threads : /\ pc'[u] = "destroy" <=> pc[u] = "destroy"
                         /\ pc[u] = "destroy" => call'[u] = call[u]
  OBVIOUS
<1>. QED  BY <1>1, FreeingSame

(* A call begins.                                                          *)
LEMMA BeginFrees ==
    ASSUME IInv, FreeingExact, NEW t \in Threads, NEW at, NEW c, at # "destroy",
           Begin(t, at, c), UNCHANGED <<open, connected, freed>>
    PROVE  FreeingExact'
<1>1. pc[t] # "destroy" /\ pc'[t] # "destroy"
  BY DEF Begin, IInv, TypeOK
<1>2. \A u \in Threads \ {t} : pc'[u] = pc[u] /\ call'[u] = call[u]
  BY DEF Begin, IInv, TypeOK, CallsExact
<1>. QED  BY <1>1, <1>2, FreeingMove

(* A call returns that is not a destroy.                                   *)
LEMMA ReturnFrees ==
    ASSUME IInv, FreeingExact, NEW t \in Threads, pc[t] # "destroy",
           Return(t), UNCHANGED <<open, connected, freed>>
    PROVE  FreeingExact'
<1>1. pc'[t] # "destroy"
  BY DEF Return, IInv, TypeOK
<1>2. \A u \in Threads \ {t} : pc'[u] = pc[u] /\ call'[u] = call[u]
  BY DEF Return, IInv, TypeOK, CallsExact
<1>. QED  BY <1>1, <1>2, FreeingMove

(* The calls that begin.                                                   *)
LEMMA CallFrees ==
    ASSUME IInv, FreeingExact, NEW t \in Threads, Call(t)
    PROVE  FreeingExact'
<1> USE DEF handles, pipebuf
<1>1. ASSUME pipe_connect(t) PROVE FreeingExact'
  <2>1. freed' = freed /\ connected' = connected /\ ~connected /\ pc' = pc /\ call' = call
    BY <1>1 DEF pipe_connect
  <2>. QED  BY <2>1, FreeingSame
<1>2. ASSUME CallAccept(t) PROVE FreeingExact'
  BY <1>2, BeginFrees DEF CallAccept
<1>3. ASSUME NEW h \in Ends, NEW n \in Lens, CallRead(t, h, n) \/ CallWrite(t, h, n)
      PROVE  FreeingExact'
  BY <1>3, BeginFrees DEF CallRead, CallWrite
<1>4. ASSUME NEW h \in Handles, NEW mode, SetNonblocking(t, h) \/ pal_common_pipe_delete(t, h, mode)
      PROVE  FreeingExact'
  <2>1. UNCHANGED <<open, connected, freed, pc, call>>
    BY <1>4 DEF SetNonblocking, pal_common_pipe_delete
  <2>. QED  BY <2>1, FreeingSame
<1>5. ASSUME NEW at \in {"eread", "ewrite"}, NEW n, CallEventfd(t, at, n) PROVE FreeingExact'
  BY <1>5, BeginFrees DEF CallEventfd
<1>6. ASSUME NEW fds, NEW timeout, CallPoll(t, fds, timeout) PROVE FreeingExact'
  BY <1>6, BeginFrees DEF CallPoll
<1>7. ASSUME NEW h \in Handles, Destroy(t, h) PROVE FreeingExact'
  <2> USE <1>7 DEF Destroy
  <2>1. CASE h \in Ends /\ connected
    <3> DEFINE c == [kind |-> "destroy", last |-> refcount = 1]
    <3>1. Begin(t, "destroy", c) /\ freed' = freed /\ open' = open \ {h} /\ h \in open
      BY <2>1
    <3>2. pc'[t] = "destroy" /\ call'[t] = c
      BY <3>1 DEF Begin, IInv, TypeOK, CallsExact
    <3>3. \A u \in Threads \ {t} : pc'[u] = pc[u] /\ call'[u] = call[u]
      BY <3>1 DEF Begin, IInv, TypeOK, CallsExact
    <3>4. Freeing(t)' <=> refcount = 1
      <4>1. c.last = (refcount = 1)
        OBVIOUS
      <4>. QED  BY <3>2, <4>1, Zenon DEF Freeing
    <3>5. \A u \in Threads \ {t} : Freeing(u)' <=> Freeing(u)
      BY <3>3 DEF Freeing
    <3>6. ~freed /\ \A u \in Threads : ~Freeing(u)
      BY <2>1, <3>1 DEF IInv, BufferExact, CallsExact, CallFor, Freeing
    <3>7. open' \cap Ends = {} => refcount = 1
      BY <2>1, <3>1 DEF IInv, BufferExact, Counts, Ends
    <3>. QED  BY <3>1, <3>4, <3>5, <3>6, <3>7 DEF FreeingExact
  <2>2. CASE ~(h \in Ends /\ connected)
    <3>1. UNCHANGED <<connected, freed, pc, call>> /\ open' = open \ {h}
      BY <2>2
    <3>2. connected' /\ open' \cap Ends = {} => connected /\ open \cap Ends = {}
      BY <2>2, <3>1
    <3>. QED  BY <3>1, <3>2, FreeingSame
  <2>. QED  BY <2>1, <2>2
<1>. QED  BY <1>1, <1>2, <1>3, <1>4, <1>5, <1>6, <1>7 DEF Call

(* The calls at work: only Free frees, and it is the only one that may.    *)
LEMMA TransferFrees ==
    ASSUME IInv, FreeingExact, NEW t \in Threads, Transfer(t)
    PROVE  FreeingExact'
<1> USE DEF handles, pipebuf, Runs
<1>1. ASSUME Accept(t) PROVE FreeingExact'
  <2> USE <1>1 DEF Accept
  <2>1. CASE connecting /\ Attach /\ Return(t)
    <3>1. pc[t] # "destroy" /\ pc'[t] # "destroy"
      BY <2>1 DEF Return, IInv, TypeOK
    <3>2. \A u \in Threads \ {t} : pc'[u] = pc[u] /\ call'[u] = call[u]
      BY <2>1 DEF Return, IInv, TypeOK, CallsExact
    <3>3. \A u \in Threads : /\ pc'[u] = "destroy" <=> pc[u] = "destroy"
                             /\ pc[u] = "destroy" => call'[u] = call[u]
      BY <3>1, <3>2
    <3>4. open' \cap Ends # {} /\ freed' = freed
      BY <2>1 DEF Attach, Ends
    <3>. QED  BY <3>3, <3>4, FreeingSame
  <2>2. CASE Return(t) /\ UNCHANGED <<open, connected>>
    BY <2>2, ReturnFrees
  <2>3. CASE UNCHANGED <<open, connected, pc, call>>
    BY <2>3, FreeingSame
  <2>. QED  BY <2>1, <2>2, <2>3
<1>2. ASSUME pal_common_pipe_read(t) PROVE FreeingExact'
  <2>1. UNCHANGED <<open, connected, freed>> /\ pc[t] # "destroy"
    BY <1>2 DEF pal_common_pipe_read
  <2>2. Return(t) \/ UNCHANGED <<pc, call>>
    BY <1>2 DEF pal_common_pipe_read, ReadBytes, ReadNothing, ReadSleeps
  <2>. QED  BY <2>1, <2>2, ReturnFrees, FreeingSame
<1>3. ASSUME pal_common_pipe_write(t) PROVE FreeingExact'
  <2>1. UNCHANGED <<open, connected, freed>> /\ pc[t] # "destroy"
    BY <1>3 DEF pal_common_pipe_write
  <2>2. CASE Return(t)
    BY <2>1, <2>2, ReturnFrees
  <2>3. CASE WriteSleeps(t)
    <3>1. pc' = pc /\ \A u \in Threads \ {t} : call'[u] = call[u]
      BY <2>3 DEF WriteSleeps, IInv, CallsExact
    <3>. QED  BY <2>1, <3>1, FreeingMove
  <2>. QED  BY <1>3, <2>2, <2>3 DEF pal_common_pipe_write, WriteReturns
<1>4. ASSUME pal_common_eventfd_read(t) \/ pal_common_eventfd_write(t) PROVE FreeingExact'
  <2>1. UNCHANGED <<open, connected, freed>> /\ pc[t] # "destroy"
    BY <1>4 DEF pal_common_eventfd_read, pal_common_eventfd_write
  <2>2. Return(t) \/ UNCHANGED <<pc, call>>
    BY <1>4 DEF pal_common_eventfd_read, pal_common_eventfd_write
  <2>. QED  BY <2>1, <2>2, ReturnFrees, FreeingSame
<1>5. ASSUME Hangup(t) \/ Free(t) PROVE FreeingExact'
  <2>1. UNCHANGED <<open, connected>> /\ pc[t] = "destroy" /\ Return(t)
    BY <1>5 DEF Hangup, Free
  <2>2. ~Freeing(t)'
    BY <2>1 DEF Freeing, Return, IInv, TypeOK
  <2>3. \A u \in Threads \ {t} : pc'[u] = pc[u] /\ call'[u] = call[u]
    BY <2>1 DEF Return, IInv, TypeOK, CallsExact
  <2>4. \A u \in Threads \ {t} : Freeing(u)' <=> Freeing(u)
    BY <2>3 DEF Freeing
  <2>5. CASE Hangup(t)
    <3>1. ~Freeing(t) /\ freed' = freed
      BY <2>5 DEF Hangup, Freeing
    <3>. QED  BY <2>1, <2>2, <2>4, <3>1 DEF FreeingExact
  <2>6. CASE Free(t)
    <3>1. Freeing(t) /\ freed' = TRUE
      BY <2>6 DEF Free, Freeing
    <3>. QED  BY <2>1, <2>2, <2>4, <3>1 DEF FreeingExact
  <2>. QED  BY <1>5, <2>5, <2>6
<1>. QED  BY <1>1, <1>2, <1>3, <1>4, <1>5 DEF Transfer

(* Pollers and the timer do not touch the buffer's life.                   *)
LEMMA PollFrees ==
    ASSUME IInv, FreeingExact, NEW t \in Threads, Poll(t)
    PROVE  FreeingExact'
<1> USE DEF handles, pipebuf, polled, Runs
<1>1. pc[t] \in PollPc /\ UNCHANGED <<open, connected, freed>>
  BY DEF Poll, PollPc, PollLock, CheckHandle, PollTime, PollSleep, PollRelock, PollOut
<1>2. pc[t] # "destroy"
  BY <1>1 DEF PollPc
<1>3. CASE Return(t)
  BY <1>1, <1>2, <1>3, ReturnFrees
<1>4. CASE CheckHandle(t)
  <2>1. \A u \in Threads \ {t} : pc'[u] = pc[u] /\ call'[u] = call[u]
    BY <1>4 DEF CheckHandle, IInv, TypeOK, CallsExact
  <2>2. pc'[t] # "destroy"
    BY <1>2, <1>4 DEF CheckHandle, IInv, TypeOK
  <2>. QED  BY <1>1, <1>2, <2>1, <2>2, FreeingMove
<1>5. ASSUME NEW at \in PollPc, pc' = [pc EXCEPT ![t] = at], call' = call PROVE FreeingExact'
  <2>1. pc'[t] # "destroy" /\ \A u \in Threads \ {t} : pc'[u] = pc[u] /\ call'[u] = call[u]
    BY <1>5 DEF IInv, TypeOK, PollPc
  <2>. QED  BY <1>1, <1>2, <2>1, FreeingMove
<1>. QED  BY <1>3, <1>4, <1>5 DEF Poll, PollPc, PollLock, PollTime, PollSleep, PollRelock, PollOut

(* Every step keeps it.                                                    *)
LEMMA NextFrees == IInv /\ FreeingExact /\ [Next]_vars => FreeingExact'
<1> SUFFICES ASSUME IInv, FreeingExact, [Next]_vars PROVE FreeingExact'
  OBVIOUS
<1>1. ASSUME UNCHANGED <<open, connected, freed, pc, call>> PROVE FreeingExact'
  BY <1>1, FreeingSame
<1>2. ASSUME UNCHANGED vars \/ Tick \/ \E t \in Threads : Expire(t) PROVE FreeingExact'
  BY <1>1, <1>2 DEF vars, handles, pipebuf, polled, Tick, Expire
<1>. QED  BY <1>2, CallFrees, TransferFrees, PollFrees DEF Next

(* The buffer of a pipe is freed by the destroy of its last end, once,     *)
(* after the last read and write, and is never left behind.                *)
THEOREM BufferAlwaysFreedOnce == Spec => []BufferFreedOnce
<1>1. Init => FreeingExact
  BY DEF Init, FreeingExact, Freeing, Ends
<1>2. IInv /\ FreeingExact => BufferFreedOnce
  <2> SUFFICES ASSUME IInv, FreeingExact PROVE BufferFreedOnce
    OBVIOUS
  <2>1. freed => open \cap Ends = {}
    BY DEF IInv, BufferExact
  <2>2. ASSUME freed, NEW t \in Threads, pc[t] \in {"read", "write"} PROVE FALSE
    BY <2>1, <2>2 DEF IInv, CallsExact, CallFor, ReadCalls, WriteCalls
  <2>3. ASSUME NEW t \in Threads, Freeing(t) PROVE open \cap Ends = {}
    BY <2>3 DEF IInv, CallsExact, CallFor, Freeing
  <2>. QED  BY <2>1, <2>2, <2>3 DEF FreeingExact, BufferFreedOnce
<1>. QED  BY <1>1, <1>2, Invariance, NextFrees, PTL DEF Spec

------------------------------------------------------------------------------
(* The pipe is a byte stream.                                              *)

Content == Oldest(Used(write_pos, read_pos))
Pieces  == [t \in Threads |-> Unsent(t)]

(* Bytes in a row are a sequence.                                          *)
LEMMA RowIsSeq ==
    ASSUME NEW S, NEW n \in Nat, NEW f \in [1 .. n -> S]
    PROVE  f \in Seq(S) /\ Len(f) = n
OBVIOUS

(* What the buffer holds, byte by byte.                                    *)
ContentExact ==
    /\ Content \in Seq(Bytes) /\ Len(Content) = Used(write_pos, read_pos)
    /\ Used(write_pos, read_pos) \in 0 .. Size
    /\ \A i \in 1 .. Used(write_pos, read_pos) : Content[i] = buf[(read_pos + i - 1) % Size]

(* It has one byte for each position between the two.                      *)
LEMMA ContentSeq == IInv => ContentExact
<1> SUFFICES ASSUME IInv PROVE ContentExact
  OBVIOUS
<1> DEFINE n == Used(write_pos, read_pos)
<1>1. Size \in Nat \ {0} /\ read_pos \in Nat /\ buf \in [0 .. Size - 1 -> Bytes]
  BY StreamsAssumption DEF IInv, TypeOK
<1>2. n \in 0 .. Size
  <2>1. n \in 0 .. Mod - 1
    BY UsedIs DEF IInv, TypeOK
  <2>. QED  BY <1>1, <2>1, StreamsAssumption DEF IInv, BufferExact
<1> HIDE DEF n
<1>3. ASSUME NEW i \in 1 .. n PROVE buf[(read_pos + i - 1) % Size] \in Bytes
  <2>1. read_pos + i - 1 \in Int
    BY <1>1, <1>2
  <2>2. (read_pos + i - 1) % Size \in 0 .. Size - 1
    BY <1>1, <2>1, Division
  <2>. QED  BY <1>1, <2>2
<1>4. Content = [i \in 1 .. n |-> buf[(read_pos + i - 1) % Size]]
  BY DEF Content, Oldest, n
<1>5. Content \in [1 .. n -> Bytes]
  BY <1>3, <1>4
<1>6. Content \in Seq(Bytes) /\ Len(Content) = n
  BY <1>2, <1>5, RowIsSeq
<1>. QED  BY <1>2, <1>4, <1>6 DEF ContentExact, n

(* The slots of a write are distinct.                                      *)
LEMMA FillIs ==
    ASSUME IInv, NEW t \in Threads, NEW x \in 0 .. Size
    PROVE  /\ \A j \in 1 .. x : Fill(t, x)[(write_pos + j - 1) % Size] = <<t, call[t].done + j>>
           /\ \A s \in 0 .. Size - 1 :
                 (\A j \in 1 .. x : s # (write_pos + j - 1) % Size) => Fill(t, x)[s] = buf[s]
<1>0. Size \in Nat \ {0} /\ write_pos \in Nat
  BY StreamsAssumption DEF IInv, TypeOK
<1>1. ASSUME NEW j \in 1 .. x
      PROVE  Fill(t, x)[(write_pos + j - 1) % Size] = <<t, call[t].done + j>>
  <2>1. PICK s \in 0 .. Size - 1 : s = (write_pos + j - 1) % Size
    <3>1. write_pos + j - 1 \in Int
      BY <1>0
    <3>. QED  BY <1>0, <3>1, Division
  <2>2. PICK k : k = (CHOOSE i \in 1 .. x : s = (write_pos + i - 1) % Size)
    OBVIOUS
  <2>3. k \in 1 .. x /\ s = (write_pos + k - 1) % Size
    BY <2>1, <2>2
  <2>4. Fill(t, x)[s] = <<t, call[t].done + k>>
    BY <2>1, <2>2 DEF Fill
  <2>5. k = j
    <3>1. PICK a \in Int, b \in Int : a = write_pos + j - 1 /\ b = write_pos + k - 1
      BY <1>0, <2>3
    <3>2. a % Size = b % Size
      BY <2>1, <2>3, <3>1
    <3>3. ~(a < b) /\ ~(b < a)
      <4>1. a < b + Size /\ b < a + Size
        BY <1>0, <2>3, <3>1
      <4>. QED  BY <1>0, <3>2, <4>1, DistinctSlots
    <3>. QED  BY <1>0, <2>3, <3>1, <3>3
  <2>. QED  BY <2>1, <2>4, <2>5
<1>2. ASSUME NEW s \in 0 .. Size - 1, \A j \in 1 .. x : s # (write_pos + j - 1) % Size
      PROVE  Fill(t, x)[s] = buf[s]
  BY <1>2 DEF Fill
<1>. QED  BY <1>1, <1>2

(* The write position follows the last byte.                               *)
LEMMA WriteSlot ==
    ASSUME IInv, NEW i \in Int
    PROVE  (write_pos + i) % Size = (read_pos + Used(write_pos, read_pos) + i) % Size
<1>0. Mod \in Nat \ {0} /\ write_pos \in 0 .. Mod - 1 /\ read_pos \in 0 .. Mod - 1
  BY StreamsAssumption DEF IInv, TypeOK
<1>1. PICK a \in 0 .. 2 * Mod - 1 :
         /\ a = read_pos + Used(write_pos, read_pos)
         /\ a = (IF write_pos >= read_pos THEN write_pos ELSE write_pos + Mod)
  <2>1. PICK n : /\ n = Used(write_pos, read_pos)
                 /\ n = (IF write_pos >= read_pos THEN write_pos - read_pos
                                                 ELSE write_pos + Mod - read_pos)
    BY <1>0, UsedIs
  <2>. QED  BY <1>0, <2>1
<1>2. a % Mod = write_pos
  <2>1. a % Mod = (IF a < Mod THEN a ELSE a - Mod)
    BY Wrap
  <2>. QED  BY <1>0, <1>1, <2>1
<1>3. ((a % Mod) + i) % Size = (a + i) % Size
  BY WrapKeepsSlot
<1>. QED  BY <1>1, <1>2, <1>3

(* Copying x bytes appends them.                                           *)
LEMMA PutContent ==
    ASSUME IInv, IInv', NEW t \in Threads, NEW x \in Nat, Used(write_pos, read_pos) + x <= Size,
           call[t].done \in Nat,
           buf' = Fill(t, x), write_pos' = (write_pos + x) % Mod, UNCHANGED read_pos,
           NEW new \in Seq(Bytes), Len(new) = x, \A j \in 1 .. x : new[j] = <<t, call[t].done + j>>
    PROVE  Content' = Content \o new
<1> DEFINE n == Used(write_pos, read_pos)
<1>0. Size \in Nat \ {0} /\ read_pos \in Nat /\ write_pos \in Nat
  BY StreamsAssumption DEF IInv, TypeOK
<1>1. ContentExact /\ ContentExact'
  <2>1. (IInv => ContentExact)'
    BY ContentSeq, PTL
  <2>. QED  BY <2>1, ContentSeq
<1>2. Used(write_pos, read_pos)' = n + x /\ n \in Nat
  <2>1. Used(write_pos', read_pos) = n + x
    BY UsedGrows DEF IInv, TypeOK
  <2>. QED  BY <1>1, <2>1 DEF ContentExact
<1>3. /\ Content \in Seq(Bytes) /\ Len(Content) = n
      /\ \A i \in 1 .. n : Content[i] = buf[(read_pos + i - 1) % Size]
  BY <1>1 DEF ContentExact
<1>4. /\ Content' \in Seq(Bytes) /\ Len(Content') = n + x
      /\ \A i \in 1 .. n + x : Content'[i] = Fill(t, x)[(read_pos + i - 1) % Size]
  BY <1>1, <1>2 DEF ContentExact
<1>5. \A i \in Int : (write_pos + i) % Size = (read_pos + n + i) % Size
  BY WriteSlot
<1>6. n + x <= Size /\ x \in 0 .. Size
  BY <1>0, <1>2
<1> HIDE DEF n
<1>7. /\ Content \o new \in Seq(Bytes) /\ Len(Content \o new) = n + x
      /\ \A i \in 1 .. n + x : (Content \o new)[i] = IF i <= n THEN Content[i] ELSE new[i - n]
  BY <1>3, ConcatProperties
<1>8. ASSUME NEW i \in 1 .. n + x PROVE Content'[i] = (Content \o new)[i]
  <2>1. PICK a \in Int : a = read_pos + i - 1
    BY <1>0, <1>2
  <2>2. CASE i <= n
    <3>1. ASSUME NEW j \in 1 .. x PROVE a % Size # (write_pos + j - 1) % Size
      <4>1. PICK b \in Int : b = read_pos + n + (j - 1)
        BY <1>0, <1>2
      <4>2. (write_pos + (j - 1)) % Size = b % Size /\ write_pos + j - 1 = write_pos + (j - 1)
        BY <1>0, <1>5, <4>1
      <4>3. a < b /\ b < a + Size
        BY <1>0, <1>2, <1>6, <2>1, <2>2, <4>1
      <4>. QED  BY <1>0, <4>2, <4>3, DistinctSlots
    <3>2. a % Size \in 0 .. Size - 1
      BY <1>0, Division
    <3>3. Fill(t, x)[a % Size] = buf[a % Size]
      BY <1>6, <3>1, <3>2, FillIs
    <3>4. i \in 1 .. n
      BY <1>2, <2>2
    <3>. QED  BY <1>3, <1>4, <1>7, <2>1, <2>2, <3>3, <3>4
  <2>3. CASE i > n
    <3>1. PICK j \in 1 .. x : j = i - n
      BY <1>2, <2>3
    <3>2. write_pos + j - 1 = write_pos + (j - 1) /\ read_pos + n + (j - 1) = a
      BY <1>0, <1>2, <2>1, <3>1
    <3>3. (write_pos + j - 1) % Size = a % Size
      BY <1>5, <3>2
    <3>4. Fill(t, x)[a % Size] = <<t, call[t].done + j>>
      BY <1>6, <3>3, FillIs
    <3>5. ~(i <= n)
      BY <1>2, <2>3
    <3>. QED  BY <1>4, <1>7, <2>1, <3>1, <3>4, <3>5
  <2>4. i <= n \/ i > n
    BY <1>2
  <2>. QED  BY <2>2, <2>3, <2>4
<1>. QED  BY <1>4, <1>7, <1>8, SeqEqual

(* Taking x bytes drops the first x.                                       *)
LEMMA GetContent ==
    ASSUME IInv, IInv', NEW x \in Nat, x <= Used(write_pos, read_pos),
           read_pos' = (read_pos + x) % Mod, UNCHANGED <<write_pos, buf>>
    PROVE  /\ Oldest(x) = SubSeq(Content, 1, x)
           /\ Content' = SubSeq(Content, x + 1, Len(Content))
<1> DEFINE n == Used(write_pos, read_pos)
<1>0. Mod \in Nat \ {0} /\ read_pos \in 0 .. Mod - 1 /\ Size \in Nat \ {0} /\ Size < Mod
  BY StreamsAssumption DEF IInv, TypeOK
<1>1. ContentExact /\ ContentExact'
  <2>1. (IInv => ContentExact)'
    BY ContentSeq, PTL
  <2>. QED  BY <2>1, ContentSeq
<1>2. n \in Nat /\ n <= Size /\ Used(write_pos, read_pos)' = n - x
  <2>1. Used(write_pos, read_pos') = n - x
    BY UsedShrinks DEF IInv, TypeOK
  <2>. QED  BY <1>0, <1>1, <2>1 DEF ContentExact
<1>3. /\ Content \in Seq(Bytes) /\ Len(Content) = n
      /\ \A i \in 1 .. n : Content[i] = buf[(read_pos + i - 1) % Size]
  BY <1>1 DEF ContentExact
<1>4. /\ Content' \in Seq(Bytes) /\ Len(Content') = n - x
      /\ \A i \in 1 .. n - x : Content'[i] = buf[(read_pos' + i - 1) % Size]
  BY <1>1, <1>2 DEF ContentExact
<1>5. x <= n
  OBVIOUS
<1> HIDE DEF n
<1>6. \A i \in 1 .. n : Content[i] \in Bytes
  BY <1>3, ElementOfSeq
<1>7. Oldest(x) = SubSeq(Content, 1, x)
  <2>1. \A i \in 1 .. x : Content[i] \in Bytes
    BY <1>2, <1>5, <1>6
  <2>2. /\ SubSeq(Content, 1, x) \in Seq(Bytes) /\ Len(SubSeq(Content, 1, x)) = x
        /\ \A i \in 1 .. x : SubSeq(Content, 1, x)[i] = Content[i]
    <3>1. /\ SubSeq(Content, 1, x) \in Seq(Bytes)
          /\ Len(SubSeq(Content, 1, x)) = IF 1 <= x THEN x - 1 + 1 ELSE 0
          /\ \A i \in 1 .. x - 1 + 1 : SubSeq(Content, 1, x)[i] = Content[1 + i - 1]
      BY <2>1, SubSeqProperties
    <3>2. x - 1 + 1 = x /\ \A i \in 1 .. x : 1 + i - 1 = i
      OBVIOUS
    <3>. QED  BY <3>1, <3>2
  <2>3. Oldest(x) \in [1 .. x -> Bytes] /\ \A i \in 1 .. x : Oldest(x)[i] = Content[i]
    <3>1. \A i \in 1 .. x : buf[(read_pos + i - 1) % Size] = Content[i]
      BY <1>2, <1>3, <1>5
    <3>. QED  BY <2>1, <3>1 DEF Oldest
  <2>4. Oldest(x) \in Seq(Bytes) /\ Len(Oldest(x)) = x
    BY <2>3, RowIsSeq
  <2>. QED  BY <2>2, <2>3, <2>4, SeqEqual
<1>8. Content' = SubSeq(Content, x + 1, Len(Content))
  <2>1. \A i \in x + 1 .. n : Content[i] \in Bytes
    BY <1>2, <1>5, <1>6
  <2>2. /\ SubSeq(Content, x + 1, n) \in Seq(Bytes) /\ Len(SubSeq(Content, x + 1, n)) = n - x
        /\ \A i \in 1 .. n - x : SubSeq(Content, x + 1, n)[i] = Content[x + i]
    <3>1. /\ SubSeq(Content, x + 1, n) \in Seq(Bytes)
          /\ Len(SubSeq(Content, x + 1, n)) = IF x + 1 <= n THEN n - (x + 1) + 1 ELSE 0
          /\ \A i \in 1 .. n - (x + 1) + 1 : SubSeq(Content, x + 1, n)[i] = Content[x + 1 + i - 1]
      <4>1. x + 1 \in Int /\ n \in Int
        BY <1>2
      <4>. QED  BY <2>1, <4>1, SubSeqProperties
    <3>2. n - (x + 1) + 1 = n - x /\ \A i \in 1 .. n - x : x + 1 + i - 1 = x + i
      BY <1>2
    <3>. QED  BY <1>2, <1>5, <3>1, <3>2
  <2>3. ASSUME NEW i \in 1 .. n - x PROVE Content'[i] = SubSeq(Content, x + 1, n)[i]
    <3>1. PICK a \in 0 .. 2 * Mod - 1 : a = read_pos + x
      BY <1>0, <1>2, <1>5
    <3>2. i - 1 \in Int /\ x + i \in 1 .. n
      BY <1>2, <1>5
    <3>3. ((a % Mod) + (i - 1)) % Size = (a + (i - 1)) % Size
      BY <3>2, WrapKeepsSlot
    <3>4. a + (i - 1) = read_pos + (x + i) - 1
      BY <1>0, <1>2, <3>1
    <3>5. read_pos' \in Int /\ read_pos' + i - 1 = (a % Mod) + (i - 1)
      <4>1. read_pos' = a % Mod
        BY <3>1
      <4>2. a % Mod \in 0 .. Mod - 1
        BY <1>0, Division
      <4>. QED  BY <1>0, <1>2, <4>1, <4>2
    <3>6. (read_pos' + i - 1) % Size = (read_pos + (x + i) - 1) % Size
      BY <3>3, <3>4, <3>5
    <3>. QED  BY <1>3, <1>4, <2>2, <3>2, <3>6
  <2>. QED  BY <1>3, <1>4, <2>2, <2>3, SeqEqual
<1>. QED  BY <1>7, <1>8

(* What a write has still to hand over.                                    *)
LEMMA UnsentIs ==
    ASSUME IInv, NEW t \in Threads, pc[t] = "write"
    PROVE  /\ Unsent(t) \in Seq(Bytes) /\ Len(Unsent(t)) = call[t].n - call[t].done
           /\ \A j \in 1 .. call[t].n - call[t].done : Unsent(t)[j] = <<t, call[t].done + j>>
<1>1. call[t].n - call[t].done \in Nat /\ call[t].done \in Nat
  BY RoomIs
<1>2. PICK n \in Nat, d \in Nat : n = call[t].n - call[t].done /\ d = call[t].done
  BY <1>1
<1>3. Unsent(t) = [j \in 1 .. n |-> <<t, d + j>>]
  BY <1>2 DEF Unsent
<1>4. \A j \in 1 .. n : <<t, d + j>> \in Bytes
  BY DEF Bytes
<1>5. Unsent(t) \in [1 .. n -> Bytes]
  BY <1>3, <1>4
<1>6. Unsent(t) \in Seq(Bytes) /\ Len(Unsent(t)) = n
  BY <1>5, RowIsSeq
<1>. QED  BY <1>2, <1>3, <1>6

(* It is the thread's own.                                                 *)
LEMMA UnsentSame ==
    ASSUME NEW u, pc'[u] = pc[u], call'[u] = call[u]
    PROVE  Unsent(u)' = Unsent(u)
BY DEF Unsent

(* A thread that moves outside a write hands over nothing.                 *)
LEMMA PiecesMove ==
    ASSUME IInv, NEW t \in Threads, pc[t] # "write", NEW at, at # "write", NEW c,
           pc' = [pc EXCEPT ![t] = at], call' = [call EXCEPT ![t] = c]
    PROVE  Pieces' = Pieces
<1>1. ASSUME NEW u \in Threads PROVE Unsent(u)' = Unsent(u)
  <2>1. CASE u = t
    BY <2>1 DEF IInv, TypeOK, Unsent
  <2>2. CASE u # t
    <3>1. pc'[u] = pc[u] /\ call'[u] = call[u]
      BY <2>2 DEF IInv, TypeOK, CallsExact
    <3>. QED  BY <3>1, UnsentSame
  <2>. QED  BY <2>1, <2>2
<1>. QED  BY <1>1 DEF Pieces

(* A write that returns hands over nothing more.                           *)
LEMMA PiecesReturn ==
    ASSUME IInv, NEW t \in Threads, Return(t)
    PROVE  Pieces' = [Pieces EXCEPT ![t] = <<>>]
<1>1. ASSUME NEW u \in Threads PROVE Unsent(u)' = IF u = t THEN <<>> ELSE Unsent(u)
  <2>1. CASE u = t
    BY <2>1 DEF IInv, TypeOK, Unsent, Return
  <2>2. CASE u # t
    <3>1. pc'[u] = pc[u] /\ call'[u] = call[u]
      BY <2>2 DEF IInv, TypeOK, CallsExact, Return
    <3>. QED  BY <2>2, <3>1 DEF Unsent
  <2>. QED  BY <2>1, <2>2
<1>. QED  BY <1>1 DEF Pieces

(* Steps outside the ring buffer and the writes change nothing of it.      *)
LEMMA StreamStutters ==
    ASSUME UNCHANGED <<write_pos, read_pos, buf, got>>, Pieces' = Pieces
    PROVE  UNCHANGED Stream!vars
<1>1. Content' = Content
  BY DEF Content, Oldest, Used
<1>. QED  BY <1>1 DEF Stream!vars, Content, Pieces

(* A write begins.                                                         *)
LEMMA SubmitSimulates ==
    ASSUME IInv, NEW t \in Threads, NEW h \in Ends, NEW n \in Lens, CallWrite(t, h, n)
    PROVE  Stream!Next
<1>1. pc[t] = "idle" /\ pc' = [pc EXCEPT ![t] = "write"]
      /\ call' = [call EXCEPT ![t] = [kind |-> "write", h |-> h, n |-> n, done |-> 0]]
  BY DEF CallWrite, Begin
<1>2. Content' = Content /\ got' = got
  BY DEF CallWrite, pipebuf, Content, Oldest, Used
<1>3. ASSUME NEW u \in Threads
      PROVE  Unsent(u)' = IF u = t THEN [i \in 1 .. n |-> <<t, i>>] ELSE Unsent(u)
  <2>1. CASE u = t
    <3>1. pc'[t] = "write" /\ call'[t].n = n /\ call'[t].done = 0
      BY <1>1 DEF IInv, TypeOK, CallsExact
    <3>2. Unsent(t)' = [i \in 1 .. n - 0 |-> <<t, 0 + i>>]
      BY <3>1 DEF Unsent
    <3>3. n \in Nat
      BY StreamsAssumption
    <3>4. n - 0 = n /\ \A i \in 1 .. n : 0 + i = i
      BY <3>3
    <3>. QED  BY <2>1, <3>2, <3>4
  <2>2. CASE u # t
    <3>1. pc'[u] = pc[u] /\ call'[u] = call[u]
      BY <1>1, <2>2 DEF IInv, TypeOK, CallsExact
    <3>. QED  BY <2>2, <3>1 DEF Unsent
  <2>. QED  BY <2>1, <2>2
<1>4. Pieces' = [Pieces EXCEPT ![t] = [i \in 1 .. n |-> <<t, i>>]]
  BY <1>3 DEF Pieces
<1>5. Pieces[t] = <<>>
  BY <1>1 DEF Pieces, Unsent
<1>6. Stream!Submit(t)
  BY <1>2, <1>4, <1>5 DEF Stream!Submit, Content, Pieces
<1>. QED  BY <1>6 DEF Stream!Next

(* One pass of a write: it puts the bytes for which there is room, and     *)
(* gives up the rest when it returns.                                      *)
LEMMA PutSimulates ==
    ASSUME IInv, IInv', NEW t \in Threads, pal_common_pipe_write(t)
    PROVE  [Stream!Next]_(Stream!vars)
<1>0. pc[t] = "write"
  BY DEF pal_common_pipe_write, Runs
<1>1. PICK x \in Nat, n \in Nat, d \in Nat, m \in Nat :
         /\ x = Room(t) /\ n = call[t].n /\ d = call[t].done /\ m = n - d /\ x <= m
         /\ Used(write_pos, read_pos) + x <= Size
  BY <1>0, RoomIs
<1>2. /\ Unsent(t) \in Seq(Bytes) /\ Len(Unsent(t)) = m
      /\ \A j \in 1 .. m : Unsent(t)[j] = <<t, d + j>>
  BY <1>0, <1>1, UnsentIs
<1>3. /\ SubSeq(Unsent(t), 1, x) \in Seq(Bytes) /\ Len(SubSeq(Unsent(t), 1, x)) = x
      /\ \A j \in 1 .. x : SubSeq(Unsent(t), 1, x)[j] = <<t, d + j>>
  <2>1. \A j \in 1 .. x : j \in 1 .. m /\ Unsent(t)[j] \in Bytes
    BY <1>1, <1>2, ElementOfSeq
  <2>2. /\ SubSeq(Unsent(t), 1, x) \in Seq(Bytes)
        /\ Len(SubSeq(Unsent(t), 1, x)) = IF 1 <= x THEN x - 1 + 1 ELSE 0
        /\ \A j \in 1 .. x - 1 + 1 : SubSeq(Unsent(t), 1, x)[j] = Unsent(t)[1 + j - 1]
    BY <2>1, SubSeqProperties
  <2>3. x - 1 + 1 = x /\ \A j \in 1 .. x : 1 + j - 1 = j
    OBVIOUS
  <2>. QED  BY <1>2, <2>1, <2>2, <2>3
<1>4. buf' = Fill(t, x) /\ write_pos' = (write_pos + x) % Mod /\ read_pos' = read_pos /\ got' = got
  BY <1>1 DEF pal_common_pipe_write, WriteBytes
<1>5. Content' = Content \o SubSeq(Unsent(t), 1, x)
  BY <1>1, <1>3, <1>4, PutContent
<1>6. Content \in Seq(Bytes) /\ Len(Content) + x <= Size
  BY <1>1, ContentSeq DEF ContentExact
<1>7. Pieces[t] = Unsent(t)
  BY DEF Pieces
<1>8. x = 0 => Content' = Content
  <2>1. x = 0 => SubSeq(Unsent(t), 1, x) = <<>>
    BY <1>3, EmptySeq
  <2>. QED  BY <1>5, <1>6, <2>1, ConcatEmptySeq
<1>9. ASSUME x > 0,
             \/ Pieces' = [Pieces EXCEPT ![t] = SubSeq(Pieces[t], x + 1, Len(Pieces[t]))]
             \/ Pieces' = [Pieces EXCEPT ![t] = <<>>]
      PROVE  Stream!Next
  <2>1. x \in 1 .. Len(Pieces[t])
    BY <1>1, <1>2, <1>7, <1>9
  <2>2. Stream!Put(t)
    BY <1>4, <1>5, <1>6, <1>7, <1>9, <2>1 DEF Stream!Put, Content, Pieces
  <2>. QED  BY <2>2 DEF Stream!Next
<1>10. ASSUME WriteReturns(t) PROVE Stream!Next
  <2>1. Pieces' = [Pieces EXCEPT ![t] = <<>>]
    BY <1>10, PiecesReturn DEF WriteReturns
  <2>2. CASE x = 0
    <3>1. Stream!Abandon(t)
      BY <1>4, <1>8, <2>1, <2>2 DEF Stream!Abandon, Content, Pieces
    <3>. QED  BY <3>1 DEF Stream!Next
  <2>3. CASE x > 0
    BY <1>9, <2>1, <2>3
  <2>. QED  BY <2>2, <2>3
<1>11. ASSUME WriteSleeps(t) PROVE [Stream!Next]_(Stream!vars)
  <2>1. /\ call' = [call EXCEPT ![t].done = call[t].done + x] /\ pc' = pc /\ x < m
    BY <1>1, <1>11 DEF WriteSleeps
  <2>2. call'[t].n = n /\ call'[t].done = d + x
    <3>1. call[t] \in WriteCalls
      BY <1>0, RoomIs
    <3>. QED  BY <1>1, <2>1, <3>1 DEF IInv, CallsExact, WriteCalls
  <2>3. \A u \in Threads : u # t => Unsent(u)' = Unsent(u)
    <3>1. \A u \in Threads : u # t => pc'[u] = pc[u] /\ call'[u] = call[u]
      BY <2>1 DEF IInv, CallsExact
    <3>. QED  BY <3>1 DEF Unsent
  <2>4. Unsent(t)' = [j \in 1 .. m - x |-> <<t, d + x + j>>]
    <3>1. n - (d + x) = m - x
      BY <1>1
    <3>. QED  BY <1>0, <2>1, <2>2, <3>1 DEF Unsent
  <2>5. Unsent(t)' = SubSeq(Unsent(t), x + 1, m)
    <3>1. \A j \in x + 1 .. m : j \in 1 .. m /\ Unsent(t)[j] \in Bytes
      BY <1>1, <1>2, ElementOfSeq
    <3>2. x + 1 \in Int /\ m \in Int
      OBVIOUS
    <3>3. /\ SubSeq(Unsent(t), x + 1, m) \in Seq(Bytes)
          /\ Len(SubSeq(Unsent(t), x + 1, m)) = IF x + 1 <= m THEN m - (x + 1) + 1 ELSE 0
          /\ \A j \in 1 .. m - (x + 1) + 1 :
                SubSeq(Unsent(t), x + 1, m)[j] = Unsent(t)[x + 1 + j - 1]
      BY <3>1, <3>2, SubSeqProperties
    <3>4. m - (x + 1) + 1 = m - x /\ m - x \in Nat /\ x + 1 <= m
      BY <2>1
    <3>5. \A j \in 1 .. m - x : x + 1 + j - 1 \in 1 .. m /\ d + (x + 1 + j - 1) = d + x + j
      BY <2>1
    <3>6. \A j \in 1 .. m - x : SubSeq(Unsent(t), x + 1, m)[j] = <<t, d + x + j>>
      BY <1>2, <3>3, <3>4, <3>5
    <3>7. \A j \in 1 .. m - x : <<t, d + x + j>> \in Bytes
      BY <3>4 DEF Bytes
    <3>8. Unsent(t)' \in [1 .. m - x -> Bytes]
      BY <2>4, <3>7
    <3>9. Unsent(t)' \in Seq(Bytes) /\ Len(Unsent(t)') = m - x
      BY <3>4, <3>8, RowIsSeq
    <3>10. \A j \in 1 .. m - x : Unsent(t)'[j] = SubSeq(Unsent(t), x + 1, m)[j]
      BY <2>4, <3>6
    <3>. QED  BY <3>3, <3>4, <3>9, <3>10, SeqEqual
  <2>6. Pieces' = [Pieces EXCEPT ![t] = SubSeq(Pieces[t], x + 1, Len(Pieces[t]))]
    BY <1>2, <1>7, <2>3, <2>5 DEF Pieces
  <2>7. CASE x = 0
    <3>1. Unsent(t)' = Unsent(t)
      <4>1. Unsent(t)' = SubSeq(Unsent(t), 1, m)
        BY <2>5, <2>7
      <4>. QED  BY <1>2, <4>1, SubSeqFull
    <3>2. Pieces' = Pieces
      <4>1. \A u \in Threads : Unsent(u)' = Unsent(u)
        BY <2>3, <3>1
      <4>. QED  BY <4>1 DEF Pieces
    <3>. QED  BY <1>4, <1>8, <2>7, <3>2 DEF Stream!vars, Content, Pieces
  <2>8. CASE x > 0
    BY <1>9, <2>6, <2>8
  <2>. QED  BY <2>7, <2>8
<1>. QED  BY <1>10, <1>11 DEF pal_common_pipe_write

(* A read gets the oldest bytes, or none.                                  *)
LEMMA GetSimulates ==
    ASSUME IInv, IInv', NEW t \in Threads, pal_common_pipe_read(t)
    PROVE  [Stream!Next]_(Stream!vars)
<1>0. pc[t] = "read" /\ UNCHANGED <<write_pos, buf>>
  BY DEF pal_common_pipe_read, Runs
<1>1. Content \in Seq(Bytes) /\ Len(Content) = Used(write_pos, read_pos)
      /\ Used(write_pos, read_pos) \in Nat
  BY ContentSeq, StreamsAssumption DEF ContentExact
<1>2. ASSUME Return(t) PROVE Pieces' = Pieces
  BY <1>0, <1>2, PiecesMove DEF Return
<1>3. ASSUME NEW x \in Nat, x <= Used(write_pos, read_pos), Return(t),
             got' = [got EXCEPT ![t] = SubSeq(Content, 1, x)],
             Content' = SubSeq(Content, x + 1, Len(Content))
      PROVE  Stream!Next
  <2>1. x \in 0 .. Len(Content)
    BY <1>1, <1>3
  <2>2. Stream!Get(t)
    BY <1>2, <1>3, <2>1 DEF Stream!Get, Content, Pieces
  <2>. QED  BY <2>2 DEF Stream!Next
<1>4. ASSUME ReadBytes(t) PROVE Stream!Next
  <2>1. PICK x : x = Smaller(call[t].n, Used(write_pos, read_pos))
    OBVIOUS
  <2>2. got' = [got EXCEPT ![t] = Oldest(x)] /\ read_pos' = (read_pos + x) % Mod /\ Return(t)
    BY <1>4, <2>1 DEF ReadBytes
  <2>3. x \in Nat /\ x <= Used(write_pos, read_pos)
    <3>1. call[t] \in ReadCalls
      BY <1>0 DEF IInv, CallsExact, CallFor
    <3>2. call[t].n \in Nat
      BY <3>1, StreamsAssumption DEF ReadCalls
    <3>. QED  BY <1>1, <2>1, <3>2 DEF Smaller
  <2>4. Oldest(x) = SubSeq(Content, 1, x) /\ Content' = SubSeq(Content, x + 1, Len(Content))
    BY <1>0, <2>2, <2>3, GetContent
  <2>. QED  BY <1>3, <2>2, <2>3, <2>4
<1>5. ASSUME ReadNothing(t) PROVE Stream!Next
  <2>1. got' = [got EXCEPT ![t] = <<>>] /\ read_pos' = read_pos /\ Return(t)
    BY <1>5 DEF ReadNothing
  <2>2. Content' = Content
    BY <1>0, <2>1 DEF Content, Oldest, Used
  <2>3. SubSeq(Content, 1, 0) = <<>> /\ SubSeq(Content, 0 + 1, Len(Content)) = Content
    BY <1>1, SubSeqEmpty, SubSeqFull
  <2>4. 0 \in Nat /\ 0 <= Used(write_pos, read_pos)
    BY <1>1
  <2>5. /\ got' = [got EXCEPT ![t] = SubSeq(Content, 1, 0)]
        /\ Content' = SubSeq(Content, 0 + 1, Len(Content))
    BY <2>1, <2>2, <2>3
  <2>. QED  BY <1>3, <2>1, <2>4, <2>5
<1>6. ASSUME ReadSleeps(t) PROVE UNCHANGED Stream!vars
  <2>1. UNCHANGED <<read_pos, got, pc, call>>
    BY <1>6 DEF ReadSleeps
  <2>2. Pieces' = Pieces
    BY <2>1 DEF Pieces, Unsent
  <2>. QED  BY <1>0, <2>1, <2>2, StreamStutters
<1>. QED  BY <1>4, <1>5, <1>6 DEF pal_common_pipe_read

(* No other call touches the bytes.                                        *)
LEMMA CallsStutter ==
    ASSUME IInv, NEW t \in Threads,
           \/ pipe_connect(t) \/ CallAccept(t)
           \/ \E h \in Ends, n \in Lens : CallRead(t, h, n)
           \/ \E h \in Handles : Destroy(t, h) \/ SetNonblocking(t, h)
           \/ \E h \in Handles, mode \in {{"r"}, {"w"}, {"r", "w"}} : pal_common_pipe_delete(t, h, mode)
           \/ CallEventfd(t, "eread", 0) \/ (\E n \in EVals : CallEventfd(t, "ewrite", n))
           \/ \E fds \in Polls, timeout \in {"none", "zero", "timed"} : CallPoll(t, fds, timeout)
    PROVE  UNCHANGED Stream!vars
<1>1. UNCHANGED <<write_pos, read_pos, buf, got>>
  BY DEF pipe_connect, CallAccept, CallRead, Destroy, SetNonblocking, pal_common_pipe_delete,
         CallEventfd, CallPoll, pipebuf
<1>2. ASSUME UNCHANGED <<pc, call>> PROVE Pieces' = Pieces
  BY <1>2 DEF Pieces, Unsent
<1>3. ASSUME NEW at, at # "write", NEW c, Begin(t, at, c) PROVE Pieces' = Pieces
  <2>1. pc[t] # "write"
    BY <1>3 DEF Begin
  <2>. QED  BY <1>3, <2>1, PiecesMove DEF Begin
<1>4. Pieces' = Pieces
  <2>1. ASSUME pipe_connect(t) \/ (\E h \in Handles : SetNonblocking(t, h))
               \/ (\E h \in Handles, mode \in {{"r"}, {"w"}, {"r", "w"}} : pal_common_pipe_delete(t, h, mode))
        PROVE  UNCHANGED <<pc, call>>
    BY <2>1 DEF pipe_connect, SetNonblocking, pal_common_pipe_delete
  <2>2. ASSUME CallAccept(t) PROVE Pieces' = Pieces
    BY <1>3, <2>2 DEF CallAccept
  <2>3. ASSUME NEW h \in Ends, NEW n \in Lens, CallRead(t, h, n) PROVE Pieces' = Pieces
    BY <1>3, <2>3 DEF CallRead
  <2>4. ASSUME NEW h \in Handles, Destroy(t, h) PROVE Pieces' = Pieces
    <3>1. UNCHANGED <<pc, call>> \/ Begin(t, "destroy", [kind |-> "destroy", last |-> refcount = 1])
      BY <2>4 DEF Destroy
    <3>. QED  BY <1>2, <1>3, <3>1
  <2>5. ASSUME NEW at \in {"eread", "ewrite"}, NEW n, CallEventfd(t, at, n) PROVE Pieces' = Pieces
    <3>1. at # "write"
      OBVIOUS
    <3>. QED  BY <1>3, <2>5, <3>1 DEF CallEventfd
  <2>6. ASSUME NEW fds, NEW timeout, CallPoll(t, fds, timeout) PROVE Pieces' = Pieces
    BY <1>3, <2>6 DEF CallPoll
  <2>. QED  BY <1>2, <2>1, <2>2, <2>3, <2>4, <2>5, <2>6
<1>. QED  BY <1>1, <1>4, StreamStutters

(* Nor do accepting, the eventfd, closing, polling and the timer.          *)
LEMMA OthersStutter ==
    ASSUME IInv, NEW t \in Threads,
           \/ Accept(t) \/ pal_common_eventfd_read(t) \/ pal_common_eventfd_write(t)
           \/ Hangup(t) \/ Free(t) \/ Poll(t)
    PROVE  UNCHANGED Stream!vars
<1> USE DEF Runs
<1>1. UNCHANGED <<write_pos, read_pos, buf, got>>
  BY DEF Accept, pal_common_eventfd_read, pal_common_eventfd_write, Hangup, Free, Poll, PollLock,
         CheckHandle, PollTime, PollSleep, PollRelock, PollOut, polled, pipebuf
<1>2. pc[t] # "write"
  BY DEF Accept, pal_common_eventfd_read, pal_common_eventfd_write, Hangup, Free, Poll, PollLock,
         CheckHandle, PollTime, PollSleep, PollRelock, PollOut
<1>3. ASSUME UNCHANGED <<pc, call>> PROVE Pieces' = Pieces
  BY <1>3 DEF Pieces, Unsent
<1>4. ASSUME Return(t) PROVE Pieces' = Pieces
  BY <1>2, <1>4, PiecesMove DEF Return
<1>5. ASSUME NEW at \in PollPc, pc' = [pc EXCEPT ![t] = at], NEW c, call' = [call EXCEPT ![t] = c]
      PROVE  Pieces' = Pieces
  <2>1. at # "write"
    BY DEF PollPc
  <2>. QED  BY <1>2, <1>5, <2>1, PiecesMove
<1>6. call = [call EXCEPT ![t] = call[t]] /\ pc = [pc EXCEPT ![t] = pc[t]]
  BY DEF IInv, TypeOK, CallsExact
<1>7. {"poll_check", "poll_time", "poll_sleep", "poll_relock", "poll_out"} \subseteq PollPc
  BY DEF PollPc
<1>8. ASSUME PollLock(t) \/ PollTime(t) \/ PollSleep(t) \/ PollRelock(t) \/ PollOut(t)
      PROVE  Pieces' = Pieces
  <2>1. \/ Return(t)
        \/ UNCHANGED call /\ \E at \in PollPc : pc' = [pc EXCEPT ![t] = at]
    BY <1>7, <1>8 DEF PollLock, PollTime, PollSleep, PollRelock, PollOut
  <2>. QED  BY <1>4, <1>5, <1>6, <2>1
<1>9. ASSUME CheckHandle(t) PROVE Pieces' = Pieces
  <2>1. CASE call[t].i < Len(call[t].fds)
    <3>1. PICK c : call' = [call EXCEPT ![t] = c]
      BY <1>9, <2>1 DEF CheckHandle
    <3>2. pc' = [pc EXCEPT ![t] = "poll_check"]
      BY <1>6, <1>9, <2>1 DEF CheckHandle
    <3>. QED  BY <1>5, <1>7, <3>1, <3>2
  <2>2. CASE ~(call[t].i < Len(call[t].fds))
    <3>1. PICK c : call' = [call EXCEPT ![t] = c]
      BY <1>9, <2>2 DEF CheckHandle
    <3>2. PICK at \in PollPc : pc' = [pc EXCEPT ![t] = at]
      BY <1>7, <1>9, <2>2 DEF CheckHandle
    <3>. QED  BY <1>5, <3>1, <3>2
  <2>. QED  BY <2>1, <2>2
<1>10. Pieces' = Pieces
  <2>1. ASSUME \/ Accept(t) \/ pal_common_eventfd_read(t) \/ pal_common_eventfd_write(t)
               \/ Hangup(t) \/ Free(t)
        PROVE  Return(t) \/ UNCHANGED <<pc, call>>
    BY <2>1 DEF Accept, pal_common_eventfd_read, pal_common_eventfd_write, Hangup, Free
  <2>. QED  BY <1>3, <1>4, <1>8, <1>9, <2>1 DEF Poll
<1>. QED  BY <1>1, <1>10, StreamStutters

(* Every step is one of the byte stream's, or none.                        *)
LEMMA StepSimulates == IInv /\ IInv' /\ [Next]_vars => [Stream!Next]_(Stream!vars)
<1> SUFFICES ASSUME IInv, IInv', [Next]_vars PROVE [Stream!Next]_(Stream!vars)
  OBVIOUS
<1>1. ASSUME NEW t \in Threads, Call(t) PROVE [Stream!Next]_(Stream!vars)
  BY <1>1, CallsStutter, SubmitSimulates DEF Call
<1>2. ASSUME NEW t \in Threads, Transfer(t) PROVE [Stream!Next]_(Stream!vars)
  BY <1>2, OthersStutter, PutSimulates, GetSimulates DEF Transfer
<1>3. ASSUME Tick \/ (\E t \in Threads : Expire(t)) \/ UNCHANGED vars PROVE UNCHANGED Stream!vars
  <2>1. UNCHANGED <<write_pos, read_pos, buf, got, pc, call>>
    BY <1>3 DEF Tick, Expire, polled, vars, pipebuf
  <2>2. Pieces' = Pieces
    BY <2>1 DEF Pieces, Unsent
  <2>. QED  BY <2>1, <2>2, StreamStutters
<1>4. ASSUME NEW t \in Threads, Poll(t) PROVE UNCHANGED Stream!vars
  BY <1>4, OthersStutter
<1>. QED  BY <1>1, <1>2, <1>3, <1>4 DEF Next

(* A pipe starts as an empty stream, wherever its positions are.           *)
LEMMA InitSimulates == Init => Stream!Init
<1> SUFFICES ASSUME Init PROVE Stream!Init
  OBVIOUS
<1>1. IInv
  BY InitInv
<1>2. Used(write_pos, read_pos) = 0
  BY <1>1, UsedIs DEF Init, IInv, TypeOK
<1>3. Content = <<>>
  BY <1>1, <1>2, ContentSeq, EmptySeq DEF ContentExact
<1>4. Pieces = [t \in Threads |-> <<>>]
  BY DEF Init, Pieces, Unsent
<1>. QED  BY <1>3, <1>4 DEF Init, Stream!Init, Content, Pieces

(* The shared ring buffer implements a byte stream, for every size that    *)
(* divides the range of the positions: what was written comes out whole,   *)
(* in order and once, over the wrap and through writes done in pieces.     *)
THEOREM PipeRefinesStream == Spec => PipeImplementsStream
<1>1. Spec => Init /\ [][Next]_vars /\ []IInv
  BY Invariance, PTL DEF Spec
<1>. QED  BY <1>1, InitSimulates, StepSimulates, PTL DEF PipeImplementsStream, Stream!Spec
============================================================================

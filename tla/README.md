# A TLA+ model of Tirith

Tirith runs a game inside a VM whose kernel is Gramine (`gramine-tdx`), while the
GPU, the display and the files of the graphics stack stay on the host.  A library
preloaded into the game (`egl-redirect`), the patched Gramine LibOS and a listener
thread inside QEMU (`qemu/util/sg-listener.c`) co-operate over memory that guest
and host share.  This directory holds TLA+ modules of the concurrent core of that
system, TLC configurations that model-check small instances, and TLAPS proofs for
all instances.  `PROJECT.json` maps every definition to the lines it models.

## 1. The system

| part | state it keeps | operations | interacts through |
|---|---|---|---|
| SG request channel (`egl-redirect/gramine.c`, `common.h`; LibOS `libos_sg.h`, `libos_sg_lock.c`, `libos_lock.h`; `sg-listener.c`) | one page: `magic`, `req_bit`, `ret`, `p1..p5`; the comm lock; magic words of the arenas | set-up handshake, request, completion | shared memory polled by both sides |
| Shared input transport (`xcb.c`, `glx.c`, `input_ring.h`) | ring of key and button events, one motion slot with a sequence lock, `enabled` | publish, seed, switch, `XPending`, `XNextEvent`, `XPeekEvent`, `XQueryPointer` | shared memory; `UPDATE_INPUT_MASK` requests |
| GEM arenas (`sg-listener.c`, `libos_mmap.c`) | next free address of two arenas, the LibOS's reservations | `GEM_ALLOCATION`, `mmap`, `munmap` | SG requests; identity-mapped addresses |
| System V semaphores (`libos_sem.c`) | table of one-element sets, waiter counts, an event per set | `semget`, `semctl`, `semop`, `semtimedop` | `g_sysv_sem_lock`, PAL events; or SG requests |
| PAL events (`vm-common/pal_common_events.c`) | signaled word, waiter count, spinlock | create, set, clear, wait with timeout | scheduler, timer interrupt |
| Kernel scheduler and time (`kernel_sched.c`, `kernel_thread.c`, `kernel_time.c`) | thread list, states, pending timeouts | block, wake, pick, register, expire | futex words, `g_thread_list_lock`, vector 32 |
| Redirected descriptors (`libos_open.c`, `libos_fcntl.c`, `libos_dup.c`, `libos_ioctl.c`) | host descriptors behind guest handles | open, dup, fcntl, close, ioctl | SG requests |
| Presentation (`xcb.c`, `egl.c`, `glx.c`) | DRI3 pixmaps, fences, parent window | set-up, present, idle query, attach | SG requests, X server |
| Streams (`pal_common_pipes.c`, `pal_common_eventfd.c`, `pal_common_object.c`) | pipe buffers with their reference counts, eventfd counters, poll marks | connect, accept, read, write, shutdown, destroy, poll | scheduler, one shared poll futex, timer interrupt |
| Virtqueues and vsock (`kernel_virtio.c`, `kernel_virtio_vsock.c`, `pal_common_sockets.c`) | descriptor free list, pending control packets, connections, credit | socket, connect, read, write, shutdown, close, processing of the queues | host device, bottom halves |
| TLB shoot-down (`kernel_interrupts.c`, `kernel_memory.c`) | one request, its response count, a flag per vCPU | change entries, broadcast, respond | IPIs |

What is hard in it: three kinds of processes (guest threads, the QEMU listener,
the QEMU input thread) share words without a common lock; the channel has one
acknowledgement bit; the listener is single, so anything that blocks it blocks
everyone; an event and a sequence lock replace the usual blocking primitives;
wakeups are skipped by counting waiters; deadlines are looked at in one place and
delivered in another; pollers are woken through marks that others set and take
off; flow control counts bytes in numbers that wrap, over queues that fill up.
`hazards` in `PROJECT.json` lists these places by line.

What makes each part correct: a request is answered, by its own answer, whoever
else makes requests (channel); events arrive once, whole and in order, positions
whole and current (input); GPU buffers overlap neither each other nor the heap
(arenas); no waiter sleeps although it could go on, counts are exact (semaphores,
events); locks are never waited for in a circle (scheduler, time); bytes come out
once and in order, and who waits for them is woken (streams, vsock); no vCPU uses
an old translation when a change of the page tables returns (TLB).

## 2. The modules

All modules assume sequentially consistent memory, each load or store of a shared
word being one step: on x86 every store that publishes something is a release
store and every load that looks for it an acquire load in the code.  Reordering by
the compiler of the plain copies of a record around those accesses is not modelled.

**`SgChannel`**: constructor, any number of guest threads, the listener.
`Setup*` is `setup_syscall_comms`, `HostSetup` is `setup_comm_data_regions`, both
step by step over `magic`, the arenas' magic words and `p1`.  A request is `Call`,
`Acquire` (the LibOS lock, an auto-clearing PAL event), `Fill`, `Post`, `Notify`
(the spin in `comm_sync_notify`) and `Relinquish`; `Retry` and `GiveUp` are the
loop of `do_semop` around host semaphores.  The listener is `Poll`, `Serve`,
`complete_request`.  Some thirty request codes are seven operations here: a system
call with a result (`SYSCALL`), a request that leaves `ret` alone (`NORET`), and
semaphore and file-lock requests, whose outcome depends on host state other guest
threads change.  Each request code the guest sends has a case in the listener, so its
default case, which completes nothing, is never met.  A read, write, ioctl or fcntl may
block on the host; the one operation that blocks, `FLOCK_EX`, stands for them too, and
`SYSCALL` for those that do not.  A call may come before the constructor has run: it
returns 0 at once and leaves its request in the page, which the constructor clears.  A
parameter is the pair of thread and call number, so that an answer can be traced to its
request.

**`InputQueue`, `InputRing`**: `InputQueue` is the abstract bounded FIFO queue.
`InputRing` has the input thread (`ReceiveEvent` ... `PublishTail`,
`ReceiveMotion`), the listener (`SetMask` ... `StoreEnabled`), both running
`update_shared_motion`, and the game's event loop.  Records are two halves copied
one after the other.  Indices are numbers modulo `Mod`, a multiple of the capacity
(2^32 and 64 in the code).  The window that `XQueryPointer` compares and the
latency measurement are left out.  Whether `attach_presentation_window` comes by to
retry a failed mask is left open (`RetryMask`).

**`PalEvent`**: one event, its users, the timer interrupt on CPU0.  The three
spinlocks are variables; a critical section is one step only where it cannot be
observed half-way (`Clear`, the walk of `sched_thread_wakeup`, registering a
timeout).  Time is the set of waits whose deadline has passed.  Which runnable
thread a CPU picks is abstracted away.

**`SysvSem`**: the LibOS's own semaphores; a critical section of
`g_sysv_sem_lock` is a step, and the event is used as `PalEvent` establishes it.
`MaxValue` is `SEMVMX`.

**`GemArena`**: the two arenas, the listener's bucket choice and fallbacks, the
guest's ordinary mappings (`MapHeap`), mappings with `MAP_FIXED`, which first release
what is there (`MapFixed`), and `munmap` of any range.  Lengths are in pages, as `mmap`
rounds them.  `torn` records the arena pages the program has given up, by a fixed
mapping or by an unmapping not inside one arena.  A failing `mmap` of a GPU buffer on the
host, which aborts QEMU, is left out.

**`ByteStream`, `Streams`**: `ByteStream` is the abstract pipe: bytes keep their
order, at most `Cap` are held, a write hands over its bytes in pieces and may be
abandoned.  `Streams` has a pipe server, one connection, an eventfd, the threads that
use them, and the timer.  A critical section of a handle's lock is a step; it may end
in `sched_thread_wait`.  `pal_common_streams_wait_events` goes handle by handle
(`CheckHandle`), and holds the pollers' lock, which nobody else takes.  Positions are
numbers modulo `Mod` (2^64), a byte is the writing thread and its place in the write.
`Destroy` drops the reference and `Hangup` or `Free` follow in a step of their own, as
in the code.  That the LibOS destroys a handle only when no call uses it is assumed
(`Unused`, external).

**`TlbShootdown`**: vCPUs that change entries (`MarkPages`) and run
`send_invalidate_tlb_ipi_and_wait` store by store, the LAPIC (`Deliver`, an interrupt
in service until it is completed), the handler of vector 33 load by load, and
interrupts that nobody sent (`ExtraIpi`).  A TLB is the set of changes it may not
reflect.  `own` records that a vCPU has answered its own request, which an extra
interrupt during its wait makes it do; what is stated until then says so.

**`Vsock`**: the transmit queue with its list of free descriptors and its pending
control packets, one connection at a time, the pollers of the queues, and the host's
device and socket (external, from the protocol the guest's code relies on).
Operations are critical sections of the connections lock; a write keeps it packet by
packet (`WritePacket`), connect and close sleep on the state.  A payload is an
interval of byte numbers, credit counters are modulo `Mod` (2^32).  A run makes
`MaxGen` connections; `gen` tells packets of different ones apart.  The three loops
(`cleanup_tq`, `send_pending_tq_control_packets`, the copying of a read) apply one turn
(`free_completed`, `send_one_pending`, `copy_packet`) as often as there are entries.

`MC*` modules instantiate these for TLC; `*_proof` modules hold the theorems.  An
operator whose name ends in a slip (`Poll_early`, `CheckFull_over`, ...) is a
plausible mistake in the definition after it; `PROJECT.json` lists, per property,
the slip that makes TLC find that property violated.

## 3. Runs

| run | expects | question |
|---|---|---|
| `sg_requests` | pass | two threads, two requests each, all request kinds that cannot block: `SingleProducer`, `ReplyIsOwn`, `SetupIsolated`, and under fairness `RequestCompletes`, `SemopServed` |
| `sg_flock` | violation of `RequestCompletes` | finding 1 |
| `ring` | pass | five events through a ring of two with indices modulo 4 (two wraps), two motions, a mask request with failures, retries and a withdrawal, `XPending`, `XPeekEvent`, `XNextEvent` and `XQueryPointer`: `EventsWhole`, `MotionWhole`, `MotionCurrent`, `RingImplementsQueue` (refinement of `InputQueue`) |
| `ring_blocked` | violation of `EventDelivered` | finding 2 |
| `events` | pass | two threads, two operations each, every kind of timeout: `NoLostWakeup`, `SleepersCounted`, and under fairness `SignalReleasesWaiter`, `SetReturns`, `TimeoutWakes` |
| `event_timeout` | violation of `TimeoutHonoured` | finding 3 |
| `sems` | pass | three threads, two sets, a key; set 0 with operations 1 and -1, set 1 with -2, 0 and 1; SETVAL, removal, timeouts: `WaitersExact`, `NobodyStranded`, `WaitersReleased` |
| `gem_arenas` | pass | arenas of 3 and 5 pages with a page between them and around them, 2-page huge pages, buffers, mappings and unmappings of 2 and 3 pages anywhere: `SlicesDisjoint`, `HeapApart`, `AbortOnlyWhenFull` |
| `streams` | pass | two threads, three operations, a buffer of two bytes whose positions wrap, writes of one and three bytes; polls of a server, an eventfd and both ends of a pipe, with and without timeout: `SleepersHaveCause`, `BufferFreedOnce`, `PipeImplementsStream` (refinement of `ByteStream`), `HangupReleases`, `PollReturns` |
| `tlb` | pass | three vCPUs, two changes, two regions, one extra interrupt: `AnswersExact`, `FlushedBeforeReturn`, `HonestNeverFails`, `ShootdownCompletes` |
| `vsock` | pass | a connection over two descriptors and one pending packet, a receive ring of two packets, reads of one and three bytes, writes of six to a host with room for four, credit modulo 7, a host that sends full packets and resets, shuts down or asks for credit at any time: `BytesInOrder`, `HostNotOverrun`, `GuestNotOverrun`, `NothingDropped`, `FreeListExact` |
| `vsock_credit` | violation of `NothingDropped` | finding 4 |

Bounds.  The number of calls, events, motions and mask requests is bounded by
constants named `Max...`.  Two guest threads are enough to interleave on the
channel, where every third one waits for the same lock; three are needed where one
wakes and two are left (semaphores).  The ring holds two events so
that full, empty, partly filled and wrapped all occur; `Mod` is twice the capacity,
the least at which full and empty differ.  `Attempts` is 3, as in the code, in
`ring_blocked`; in `ring`, where it matters to no property, 2 saves states, and so does
the view `LiveView`, which leaves locals out of a state once the code does not read
them any more.  The arenas are small enough that every buffer size meets a full arena,
in either order.  The pipe's
buffer of two bytes is full, empty and split by a write of three; it starts one byte
before the wrap.  Three vCPUs are the fewest at which one answer can be mistaken for
another's.  In `vsock` a write of six bytes needs three packets and more credit than
the host's four bytes, so it is cut short by credit as well as by the two
descriptors, and the counters of the guest's bytes wrap within a run.  Two packets of two
bytes wait in the receive ring together: a read of one byte trims the first, one of three
takes it and trims the second.  Symmetry is not used: most
runs check liveness, and elsewhere threads are not interchangeable.  Deadlock is checked in
`sg_requests`, where the listener polls forever; elsewhere a bounded instance ends.

Fairness.  The listener and the vCPUs run; the comm lock is strongly fair because
its event wakes every waiter at each release and holders keep it for one request.
The game's loop asks for events again and again.  A thread in the kernel runs until
it blocks; the timer ticks; a lock that the interrupt handler takes and drops at
each tick is strongly fair for the threads that spin on it, and so is the pollers'
lock, which its holders drop before they sleep.  An IPI that was sent arrives.
Nothing makes a thread post or set an event, and the X server owes the game no ordinary
event.  `ring`, `gem_arenas` and `vsock` check safety only and assume no fairness: the
transmit interrupts of vsock are off, so what makes its queues move is either another
look at a socket or a timeout, and no progress is claimed.

## 4. Findings

1. *A blocking `flock` stops the channel* (`sg_flock`).  `HOST_FLOCK` passes the
   guest's command on; `LOCK_EX` on a lock held through another descriptor blocks
   the listener, and the holder's `LOCK_UN` waits for the comm lock for ever.  The
   semaphore handler shows the intended pattern: "Never block the single request
   listener" (`sg-listener.c:1059`).
2. *The pointer can hold up a key* (`ring_blocked`).  `peek_shared_input` sees a new
   motion, loses three races for the slot and reports nothing; the call enters the real,
   blocking `XNextEvent`.  A key published after that stays in the ring until an ordinary
   X event happens to come, against "an arbitrarily fast pointer cannot crowd out a key
   or button release" (`input_ring.h:16`).
3. *A timeout can be lost* (`event_timeout`).  The deadline passes after the waiter
   has looked at the clock and before it is `THREAD_BLOCKED`; the interrupt wakes
   nobody and removes the entry.  A deadline that passes while the waiter sleeps does
   wake it (`TimeoutWakes`).
4. *Credit in bytes, room in packets* (`vsock_credit`).  `buf_alloc` is
   `VSOCK_MAX_PACKETS * VSOCK_MAX_PAYLOAD_SIZE`, the ring holds `VSOCK_MAX_PACKETS`
   packets of any size.  A host within its credit that sends shorter packets finds the
   ring full; the packet is dropped and the connection reset, against "dropping one
   packet corrupts the byte stream, so keep enough receive credit for them"
   (`kernel_virtio_vsock.h:29`).  `vsock` checks `NothingDropped` for full packets.

Limits of what the passing runs say:

- *Two writers of the motion slot.*  The seed in `apply_shared_input_mask` and the
  input thread run the same single-writer sequence lock.  Overlapping, they can leave
  `motion_seq` odd, after which no reader succeeds, or make a reader accept half of
  each position.  `MotionWhole` claims nothing once a second request has switched input
  on; before that no motion is received while the slot is seeded.
- `ReplyIsOwn` is about requests whose handler stores a result.  `CLOSE` and the others
  that store none get what the request before them left in `ret`
  (`sg-listener.c:999`), and `libos_syscall_close` returns it to the application
  (`libos_open.c:298`).
- `NobodyStranded` and `WaitersReleased` speak of posts only for sets used with 1 and
  -1 (`Counting`): where waiters for zero or for several units share a set, the woken
  one may sleep again without passing the signal on.
- `HeapApart` excepts pages the program has given up (`torn`): a `munmap` that reaches
  from outside into an arena, and `mmap` with `MAP_FIXED` over one, release its pages, and
  the allocator may hand them out while the GPU uses them.  The comment at
  `libos_mmap.c:417` gives the reason against that for any subrange.
- `HangupReleases` is about destroyed ends: `pal_common_pipe_delete` (shutdown) wakes
  pollers, and not those who sleep on the buffer.
- `AnswersExact` and `FlushedBeforeReturn` are stated until a vCPU answers its own
  request; `ShootdownCompletes` while there is no extra interrupt, since an ignored
  one is not completed at the LAPIC.  The excluded case is real: an extra interrupt to
  the initiator during its wait is answered and counted, so that the wait can end before
  another vCPU has flushed, although `kernel_interrupts.c:67` asks the protocol to be
  secure against extra IPIs.
- `BufferFreedOnce` says that one destroy frees the buffer, and after the last read and
  write.  It leaves out the other destroy: between dropping its reference
  (`pal_common_pipes.c:364`) and taking the buffer's lock (`:369`) the last end can free
  the buffer, and the lock is then taken in freed memory.  The model reaches that.
- `PipeImplementsStream` lets a write be split anywhere.  `pal_common_pipes.c:283` asks
  a blocking write of up to `PIPE_BUF_SIZE` bytes to be atomic; one that meets a partly
  filled buffer is not, and no property says so.
- `BytesInOrder` is about the first incarnation of a port.  With `MaxGen = 2` it does
  not hold: the guest uses the port again while packets of the connection before, or its
  reset, are on their way (`kernel_virtio_vsock.c:1711`).  `HostNotOverrun` is likewise
  checked and proved for the first incarnation.
- `GuestNotOverrun` is stated for less than one range of the counters: a pending credit
  update that is overtaken tells the host an old `fwd_cnt`, and only while the counters
  have not wrapped does that understate the credit.  The same holds of
  `NothingDropped`, which needs full packets besides (finding 4).

Places that look fragile and that no property covers:

- `kernel_virtio_vsock.c:1281`: transmit interrupts stay off, rearming looks at the
  receive queue only (`:638`), and CPU0's helper acts on a receive interrupt or while a
  thread polls (`kernel_thread.c:209`): a REQUEST or SHUTDOWN that is pending because the
  transmit queue was full may stay there until connect or close times out.
- `kernel_virtio_vsock.h:139`: the comment calls the counters of the host's credit "not
  used currently"; the code uses them.
- `kernel_virtio_vsock.c:1163`: a writer without credit or descriptors is woken by
  `CREDIT_UPDATE` and by the next cleanup of the queue only.
- `kernel_virtio_vsock.c:453`: a pending control packet is overtaken by later ones and
  carries an old `fwd_cnt`; it understates the credit, which the next packet corrects.
- `kernel_virtio_vsock.c:1723`: a connect whose REQUEST cannot be queued leaves its
  ports set; the next connect on the socket meets the assertion at line 1709.
- `kernel_virtio_vsock.c:1083`: a packet whose pair of ports is unknown goes to any
  connection on the guest port.
- `kernel_virtio_vsock.c:254`, `:514`: interrupts are enabled without a fence before
  the index is read again, and the bottom half and a polling thread write
  `g_vsock_polling` and the mask in either order.
- `kernel_sched.c:129`: bottom halves run when CPU0 finds no other runnable thread.
- `kernel_memory.c:161`: a page without an entry in the middle of a region ends the
  change without a flush of what was changed.
- `pal_common_pipes.c:283`, `:289`: a blocking write that fills the buffer is split,
  and one that fails after some bytes reports none.
- `pal_common_sockets.c:630`: the local UDP ring computes its free space without the
  gap it leaves at the end.
- `libos_sem.c:89`: a removed set keeps its key.  `xcb.c:346`: a failed mask is retried
  only on the way to a new parent window.  `libos_mmap.c:177`: a failing protect leaks
  a slice.  `sg-listener.c:999`: requests without a result leave the last one in `ret`.

## 5. Proofs

All for every number of threads, requests, sizes and addresses.

**`SgChannel_proof`**: `SingleProducer`, `ReplyIsOwn`, `SetupIsolated`, `TypeOK`.
None of the three is inductive.  The invariant adds: the lock word is clear exactly
while somebody owns the page; constructor and listener are at matching points of
the handshake (each pair of program counters fixes the magic words and `p1`);
outside set-up `magic` is `comm`; a request left by a call before set-up is gone once
the page is cleared; while the listener serves, its copy of the request is the one in the
page and its owner spins; and once it has served, `ret` answers that owner's call if the
request is one with a result.

**`PalEvent_proof`**: `NoLostWakeup`, `SleepersCounted`, `LocksExclude`, `TypeOK`.
The invariant is types, mutual exclusion, the exact count (cardinality lemmas from
`FiniteSetTheorems`), and `SleepInv`: whoever is on its way to sleep or asleep on a
signaled word is about to be woken by a setter that still holds the event's lock,
and holds the thread-list lock until it is blocked, so that the setter cannot pass.

**`GemArena_proof`**: `SlicesDisjoint`, `AbortOnlyWhenFull`, `TypeOK`, `HeapApart`, for
mappings and unmappings of any range.  The invariant says that every slice lies in one
arena below that arena's next address, that slices are ordered, and that an arena page
is reserved, and not in the heap, unless it was given up.

**`TlbShootdown_proof`**: `AnswersExact`, `FlushedBeforeReturn`, `HonestNeverFails`,
`TypeOK`, and that the count of answers never passes the number of vCPUs, which the
initiator compares for equality (`CountNeverOverrun`); where the model says `~own`, until
a vCPU answers its own request.  The point the lock's owner has
reached (`Phase`) fixes the fields of the request (`RequestByPhase`), who may be in a
handler and how far (`HandlersByPhase`) and which vCPUs have answered (`FlagExact`);
`CountExact` says what the count is while answers are collected, `FlushedExact` who may still hold
an old translation.  The handler that was started for one request and looks at the
next one is the case that makes all of these needed.  `HonestExact` adds, while no
extra interrupt came, that each interrupt in flight belongs to the present request.

**`SysvSem_proof`**: `WaitersExact`, `NobodyStranded`, `TypeOK`.  The three are
inductive together with `CallsExact`: a registered waiter has a call on a slot in use,
and a sleeper is registered.  The exact counts are needed because they decide whether a
change sets the event at all, and whether a woken waiter passes it on.

**`InputRing_proof`**: `EventsWhole`, `MotionCurrent`, the refinement of `InputQueue`
and, while the pointer was masked at most once, `MotionWhole` (with a second request
two host threads may write the slot at once, section 4).  `RingExact` says that
published slots are whole and what the writer has done to the slot it fills;
`CopyExact` that the copy the game makes is of the slot at `head`; `SeqLock` that an
unchanged even sequence number means an unchanged motion; `MotionNumbers`
relates the motion in the slot and in a copy to the serial, and `OneWriter` says that the
first mask request seeds the slot before a motion is received.  Indices wrap at `Mod`: lemmas about
remainders show that consecutive indices keep distinct slots because `Cap` divides
`Mod`.  The refinement is a step simulation: each action is shown to be the matching
step of the queue or a stutter.

**`Streams_proof`**: `SleepersHaveCause`, `BufferFreedOnce`, `TypeOK` and the refinement of
`ByteStream`.  `CallsExact` relates a thread's program counter to the call it is in and
the handle it uses, `BlockedExact` a blocked thread to its futex word, `BufferExact`
reference count, open ends and the two positions.  `SleepersHaveCause` is inductive
with these, because every step that makes a pipe, the server or the eventfd ready wakes
the word of the other side in the same critical section.  `FreeingExact`, inductive with
these, adds that once both ends are gone the buffer is freed or exactly one destroy is
about to free it.  The refinement uses the same
remainder lemmas: what is between the positions is the abstract stream, also for a
write done in pieces and one abandoned after a hangup.

**`Vsock_proof`**: `FreeListExact` and `TypeOK`, for any number of incarnations; for the
first one `HostNotOverrun` (`HostNeverOverrun`) and, while no packet was dropped,
`BytesInOrder` (`BytesAlwaysInOrder`) and `GuestNotOverrun` (`GuestNeverOverrun`),
whatever the sizes of the host's packets.  That no packet is dropped is not proved: it
does not hold for packets of any size (finding 4).  Loops and lists need induction over
data; it is had from the library's `NatLessThanWellFounded` for sets (`SetInduction`),
so that a set closed under one turn of a loop is closed under the loop (`CleanupStays`,
`SendPendingStays`, `ConsumeStays`).  The invariant has three parts.
*`Shape`*: types; `Descriptors`, which says that some numbering of the free descriptors
follows the links from the head to the sentinel, apart from what the device has, and
that links of what the device has are zero, as `virtq_is_desc_free` expects; and which
fields of the connection go with its state and with the application's call.
*`Once`*: a first incarnation is before its request (`Before`), waiting for the host
to take it (`Asking`), or past that (`Talking`).  Then everything on the wire is its
own (`Wire`); the credits the host has reported, in the order in which they lie in the
receive queue, let the guest's distance from them only shrink and never fall below what is
really unread, modulo `Mod` (`CreditExact`); and the bytes in the queues continue each other
(`DownExact`, `PacketsExact`, `UpExact`).  The order is needed because every packet
header, and not only the newest, overwrites the guest's view of the credit.
*`CreditKept`*: until a packet is lost or the host has sent more bytes than the counters
count, every `fwd_cnt` on its way to the host, and the one it has seen, is at most what
was read, and what the host has sent lies within `BufAlloc` of it.

Assumptions are those named in the modules (`ChannelAssumption`, `EventAssumption`,
`ArenaAssumption`, `TlbAssumption`, `SemAssumption`, `RingAssumption`,
`StreamsAssumption`, `VsockAssumption`): distinct owners, finite thread sets, arenas that do not overlap,
ring sizes that divide the range of the indices (powers of two in the code), writes of
at least one byte, polls of at least one handle, buffers smaller than the range of the
credit counters (4096 * 980 and 32 bits).  TLC evaluates them in the runs, and
each inductive invariant was checked by TLC on a small instance before it was proved.

Only model-checked: liveness, because it needs `ENABLED`, the violations, and
`NothingDropped` of `vsock`, which is about a host that sends full packets.  Every other
invariant that a run checks is also proved, under the conditions named above.

## 6. Not modelled

Of vsock: listening and accepting, masking and rearming of the receive interrupts and
the sockets' futex behind them, the ring for local UDP.  Of the scheduler: which
runnable thread a CPU picks, affinity, idle threads, release of stacks.  Redirected
descriptors are one request of the channel per call, without a protocol of their own.
Presentation is ordered by the X server and the GPU driver, which are not in the
repository.  virtio-fs and the console are encoding and host I/O over the same
descriptor list.  Boot code programs hardware once, sequentially.  Upstream Gramine, QEMU,
Mesa, virgl, sharedgl and muvm, the other PAL hosts, measurement, logging, scripts
and containers are outside the project's own logic.

## 7. Plan

Receive interrupts of vsock with the sockets' futex behind them, and what holds of a
connection whose port was used before.

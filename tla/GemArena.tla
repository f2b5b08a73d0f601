------------------------------- MODULE GemArena -------------------------------
(***************************************************************************)
(* GPU buffers in the guest's address space.                               *)
(*                                                                         *)
(* egl-redirect reserves two arenas in the LibOS; guest and host map them  *)
(* at the same addresses.  An mmap of a host descriptor becomes a          *)
(* GEM_ALLOCATION request: the listener replaces the next slice of one of  *)
(* the arenas by the buffer and returns its address.  2 MB multiples go to *)
(* the hugepage arena, the rest to the regular one, either to the other    *)
(* when its own has no room.  The LibOS ignores a munmap inside an arena,  *)
(* so that its allocator does not hand out addresses the GPU still uses;   *)
(* it has no such test for a range that begins or ends outside an arena    *)
(* and none in mmap with MAP_FIXED.                                        *)
(*                                                                         *)
(*   qemu/util/sg-listener.c, gramine-tdx/libos/src/sys/libos_mmap.c       *)
(*                                                                         *)
(* Addresses and lengths are counted in pages: libos_syscall_mmap and      *)
(* munmap round lengths up to pages before anything else.                  *)
(***************************************************************************)
EXTENDS Naturals

CONSTANTS
    DATA_REGION, DATA_SIZE,             \* the regular arena
    HUGEPAGE_DATA_REGION, HUGE_DATA_SIZE,
    HugeUnit,                           \* pages in 2 MB
    Top,                                \* end of the address space
    Sizes                               \* buffer and mapping lengths used

ASSUME ArenaAssumption ==
    /\ DATA_REGION \in Nat /\ DATA_SIZE \in Nat
    /\ HUGEPAGE_DATA_REGION \in Nat /\ HUGE_DATA_SIZE \in Nat
    /\ DATA_REGION + DATA_SIZE <= HUGEPAGE_DATA_REGION
    /\ Top \in Nat /\ HUGEPAGE_DATA_REGION + HUGE_DATA_SIZE <= Top
    /\ HugeUnit \in Nat \ {0}
    /\ Sizes \subseteq Nat \ {0}

VARIABLES
    gem_slots,            \* next page of the regular arena
    gem_hugepage_slots,   \* next page of the hugepage arena
    slices,               \* buffers mapped so far
    reserved,             \* pages of the arenas that the LibOS keeps reserved
    heap,                 \* pages of other guest mappings
    torn,                 \* history: arena pages given up by a mapping or
                          \* unmapping that was not inside one arena
    aborted               \* the size QEMU aborted on, 0 while it runs

vars == <<gem_slots, gem_hugepage_slots, slices, reserved, heap, torn, aborted>>

Pages      == 0 .. Top - 1
Range(a, n) == a .. a + n - 1
Arena      == Range(DATA_REGION, DATA_SIZE)
HugeArena  == Range(HUGEPAGE_DATA_REGION, HUGE_DATA_SIZE)
Arenas     == Arena \cup HugeArena

TypeOK ==
    /\ gem_slots \in DATA_REGION .. DATA_REGION + DATA_SIZE
    /\ gem_hugepage_slots \in HUGEPAGE_DATA_REGION .. HUGEPAGE_DATA_REGION + HUGE_DATA_SIZE
    /\ slices \subseteq [start : Nat, len : Sizes]
    /\ reserved \subseteq Arenas
    /\ heap \subseteq Pages
    /\ torn \subseteq Arenas
    /\ aborted \in Sizes \cup {0}

(* setup_syscall_comms has reserved the arenas and setup_comm_data_regions *)
(* has recorded their addresses.                                           *)
Init ==
    /\ gem_slots = DATA_REGION
    /\ gem_hugepage_slots = HUGEPAGE_DATA_REGION
    /\ slices = {}
    /\ reserved = Arenas
    /\ heap = {}
    /\ torn = {}
    /\ aborted = 0

------------------------------------------------------------------------------
(* The listener: GEM_ALLOCATION.                                           *)

(* For n whole pages PAGE_SIZE * ((PAGE_SIZE + size) / PAGE_SIZE) is one   *)
(* page more.                                                              *)
gem_regular_advance(n) == n + 1

(* Slip: a bucket may be filled to its last page.                           *)
gem_bucket_has_capacity_full(slot, n, base, size) == slot + n <= base + size

gem_bucket_has_capacity(slot, n, base, size) == slot + n < base + size

RegularHasCapacity(n)  ==
    gem_bucket_has_capacity(gem_slots, n, DATA_REGION, DATA_SIZE)
HugepageHasCapacity(n) ==
    gem_bucket_has_capacity(gem_hugepage_slots, n, HUGEPAGE_DATA_REGION, HUGE_DATA_SIZE)

(* Slip: no fallback.                                                       *)
UseHugepageBucket_strict(n) == n % HugeUnit = 0

UseHugepageBucket(n) ==
    IF n % HugeUnit = 0
    THEN HugepageHasCapacity(n) \/ ~RegularHasCapacity(n)
    ELSE HugepageHasCapacity(n) /\ ~RegularHasCapacity(n)

(* Slip: the bucket advances by one huge page.                              *)
AllocHugepage_unit(n) ==
    /\ aborted = 0
    /\ UseHugepageBucket(n) /\ HugepageHasCapacity(n)
    /\ slices' = slices \cup {[start |-> gem_hugepage_slots, len |-> n]}
    /\ gem_hugepage_slots' = gem_hugepage_slots + HugeUnit
    /\ UNCHANGED <<gem_slots, reserved, heap, torn, aborted>>

AllocHugepage(n) ==
    /\ aborted = 0
    /\ UseHugepageBucket(n) /\ HugepageHasCapacity(n)
    /\ slices' = slices \cup {[start |-> gem_hugepage_slots, len |-> n]}
    /\ gem_hugepage_slots' = gem_hugepage_slots + n
    /\ UNCHANGED <<gem_slots, reserved, heap, torn, aborted>>

AllocRegular(n) ==
    /\ aborted = 0
    /\ ~UseHugepageBucket(n) /\ RegularHasCapacity(n)
    /\ slices' = slices \cup {[start |-> gem_slots, len |-> n]}
    /\ gem_slots' = gem_slots + gem_regular_advance(n)
    /\ UNCHANGED <<gem_hugepage_slots, reserved, heap, torn, aborted>>

(* assert(hugepage_has_capacity), assert(regular_has_capacity).            *)
AllocAborts(n) ==
    /\ aborted = 0
    /\ IF UseHugepageBucket(n) THEN ~HugepageHasCapacity(n) ELSE ~RegularHasCapacity(n)
    /\ aborted' = n
    /\ UNCHANGED <<gem_slots, gem_hugepage_slots, slices, reserved, heap, torn>>

------------------------------------------------------------------------------
(* The LibOS.                                                              *)

(* mmap of anything but a host descriptor at a hint, anywhere or with      *)
(* MAP_FIXED_NOREPLACE: bookkeeping picks or accepts a range that is not   *)
(* in use, and gives it back when the PAL cannot map it.                   *)
MapHeap(a, n) ==
    /\ aborted = 0
    /\ Range(a, n) \subseteq Pages \ (reserved \cup heap)
    /\ heap' = heap \cup Range(a, n)
    /\ UNCHANGED <<gem_slots, gem_hugepage_slots, slices, reserved, torn, aborted>>

(* With MAP_FIXED it first releases whatever is in the range, an arena's   *)
(* pages like any others; when the PAL cannot map the range it stays       *)
(* released.                                                               *)
MapFixed(a, n, mapped) ==
    /\ aborted = 0
    /\ Range(a, n) \subseteq Pages
    /\ reserved' = reserved \ Range(a, n)
    /\ heap' = IF mapped THEN heap \cup Range(a, n) ELSE heap \ Range(a, n)
    /\ torn' = torn \cup (Range(a, n) \cap Arenas)
    /\ UNCHANGED <<gem_slots, gem_hugepage_slots, slices, aborted>>

(* Slip: a range that ends with the arena is not recognised.                *)
InArena_short(a, n, base, size) == a >= base /\ n <= size /\ a - base < size - n

InArena(a, n, base, size) == a >= base /\ n <= size /\ a - base <= size - n

InOneArena(a, n) == Range(a, n) \subseteq Arena \/ Range(a, n) \subseteq HugeArena

(* A range inside an arena is left alone; any other is released, whatever  *)
(* it covers.                                                              *)
libos_syscall_munmap(a, n) ==
    /\ aborted = 0
    /\ Range(a, n) \subseteq Pages
    /\ IF \/ InArena(a, n, DATA_REGION, DATA_SIZE)
          \/ InArena(a, n, HUGEPAGE_DATA_REGION, HUGE_DATA_SIZE)
       THEN UNCHANGED <<reserved, heap>>
       ELSE /\ reserved' = reserved \ Range(a, n)
            /\ heap' = heap \ Range(a, n)
    /\ torn' = IF InOneArena(a, n) THEN torn ELSE torn \cup (Range(a, n) \cap Arenas)
    /\ UNCHANGED <<gem_slots, gem_hugepage_slots, slices, aborted>>

------------------------------------------------------------------------------
Next ==
    \E n \in Sizes :
        \/ AllocHugepage(n) \/ AllocRegular(n) \/ AllocAborts(n)
        \/ \E a \in Pages :
              \/ MapHeap(a, n)
              \/ \E mapped \in BOOLEAN : MapFixed(a, n, mapped)
              \/ libos_syscall_munmap(a, n)

Spec == Init /\ [][Next]_vars

------------------------------------------------------------------------------
(* Properties.                                                             *)

Slice(s) == Range(s.start, s.len)

(* No two buffers share a page, whichever arena the fallbacks put them in, *)
(* and no buffer leaves its arena.                                         *)
SlicesDisjoint ==
    /\ \A s \in slices : Slice(s) \subseteq Arena \/ Slice(s) \subseteq HugeArena
    /\ \A r, s \in slices : r # s => Slice(r) \cap Slice(s) = {}

(* The guest allocator hands out a page of a GPU buffer only if the        *)
(* program itself gave that page up, with a mapping placed over it or an   *)
(* unmapping that reached beyond the arena: unmapping GPU buffers, at      *)
(* either end of an arena and in any pieces, never does it.                *)
HeapApart == \A s \in slices : heap \cap Slice(s) \subseteq torn

(* QEMU aborts an allocation only when neither arena has room for it: the  *)
(* fallback is tried in both directions.                                   *)
AbortOnlyWhenFull ==
    aborted # 0 => ~HugepageHasCapacity(aborted) /\ ~RegularHasCapacity(aborted)
==============================================================================

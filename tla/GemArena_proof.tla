---------------------------- MODULE GemArena_proof ----------------------------
(* Proofs about GemArena, for arenas and buffers of any size. *)
EXTENDS GemArena, TLAPS

(* Each buffer lies in the part of an arena that has been handed out.       *)
SliceInv ==
    \A s \in slices :
        \/ DATA_REGION <= s.start /\ s.start + s.len <= gem_slots
        \/ HUGEPAGE_DATA_REGION <= s.start /\ s.start + s.len <= gem_hugepage_slots

Before(r, s) == r.start + r.len <= s.start

OrderInv == \A r, s \in slices : r # s => Before(r, s) \/ Before(s, r)

FullInv == AbortOnlyWhenFull

IInv == TypeOK /\ SliceInv /\ OrderInv /\ FullInv

(* A whole number of pages never takes a bucket past its end: the test is   *)
(* strict, and the page gem_regular_advance adds is the one it leaves free. *)
LEMMA AdvanceStaysInside ==
    ASSUME NEW slot \in Nat, NEW n \in Nat, NEW base \in Nat, NEW size \in Nat,
           gem_bucket_has_capacity(slot, n, base, size)
    PROVE  slot + gem_regular_advance(n) <= base + size
BY DEF gem_bucket_has_capacity, gem_regular_advance

(* Initially nothing is allocated.                                          *)
LEMMA InitInv == Init => IInv
BY ArenaAssumption
   DEF Init, IInv, TypeOK, SliceInv, OrderInv, FullInv, AbortOnlyWhenFull, Arenas, Pages

(* A slice appended at the end of a bucket keeps the buffers apart.         *)
LEMMA AppendKeepsOrder ==
    ASSUME IInv, NEW x, x.start \in Nat, x.len \in Nat \ {0},
           \A s \in slices : Before(s, x) \/ Before(x, s),
           slices' = slices \cup {x}
    PROVE  OrderInv'
BY DEF IInv, OrderInv, Before

(* A slice of the hugepage arena lies above all earlier ones.              *)
LEMMA AllocHugepageInv ==
    ASSUME IInv, NEW n \in Sizes, AllocHugepage(n)
    PROVE  IInv'
<1> DEFINE x == [start |-> gem_hugepage_slots, len |-> n]
<1> USE ArenaAssumption
<1>1. /\ gem_hugepage_slots \in Nat /\ gem_slots \in Nat /\ n \in Nat \ {0}
      /\ gem_slots <= DATA_REGION + DATA_SIZE
      /\ gem_hugepage_slots >= HUGEPAGE_DATA_REGION
  BY DEF IInv, TypeOK
<1>2. \A s \in slices : s.start \in Nat /\ s.len \in Nat \ {0}
  BY DEF IInv, TypeOK
<1>3. gem_hugepage_slots + n < HUGEPAGE_DATA_REGION + HUGE_DATA_SIZE
  BY DEF AllocHugepage, HugepageHasCapacity, gem_bucket_has_capacity
<1>4. \A s \in slices : Before(s, x)
  BY <1>1, <1>2 DEF IInv, SliceInv, Before
<1>5. OrderInv'
  BY <1>1, <1>4, AppendKeepsOrder DEF AllocHugepage
<1>6. TypeOK'
  BY <1>1, <1>3 DEF IInv, TypeOK, AllocHugepage
<1>7. SliceInv'
  BY <1>1, <1>2 DEF IInv, SliceInv, AllocHugepage
<1>8. FullInv'
  BY DEF AllocHugepage, FullInv, AbortOnlyWhenFull
<1>. QED  BY <1>5, <1>6, <1>7, <1>8 DEF IInv

(* So does one of the regular arena.                                       *)
LEMMA AllocRegularInv ==
    ASSUME IInv, NEW n \in Sizes, AllocRegular(n)
    PROVE  IInv'
<1> DEFINE x == [start |-> gem_slots, len |-> n]
<1> USE ArenaAssumption
<1>1. /\ gem_hugepage_slots \in Nat /\ gem_slots \in Nat /\ n \in Nat \ {0}
      /\ gem_slots >= DATA_REGION
  BY DEF IInv, TypeOK
<1>2. \A s \in slices : s.start \in Nat /\ s.len \in Nat \ {0}
  BY DEF IInv, TypeOK
<1>3. gem_slots + n < DATA_REGION + DATA_SIZE
  BY DEF AllocRegular, RegularHasCapacity, gem_bucket_has_capacity
<1>4. gem_slots + gem_regular_advance(n) <= DATA_REGION + DATA_SIZE
  BY <1>1, AdvanceStaysInside DEF AllocRegular, RegularHasCapacity
<1>5. \A s \in slices : Before(s, x) \/ Before(x, s)
  BY <1>1, <1>2, <1>3 DEF IInv, SliceInv, Before
<1>6. OrderInv'
  BY <1>1, <1>5, AppendKeepsOrder DEF AllocRegular
<1>7. TypeOK'
  BY <1>1, <1>4 DEF IInv, TypeOK, AllocRegular, gem_regular_advance
<1>8. SliceInv'
  BY <1>1, <1>2 DEF IInv, SliceInv, AllocRegular, gem_regular_advance
<1>9. FullInv'
  BY DEF AllocRegular, FullInv, AbortOnlyWhenFull
<1>. QED  BY <1>6, <1>7, <1>8, <1>9 DEF IInv

(* QEMU aborts when both are full.                                         *)
LEMMA AllocAbortsInv ==
    ASSUME IInv, NEW n \in Sizes, AllocAborts(n)
    PROVE  IInv'
<1>1. TypeOK' /\ SliceInv' /\ OrderInv'
  BY DEF IInv, TypeOK, SliceInv, OrderInv, AllocAborts
<1>2. ~HugepageHasCapacity(n) /\ ~RegularHasCapacity(n)
  BY DEF AllocAborts, UseHugepageBucket
<1>3. FullInv'
  BY <1>2 DEF AllocAborts, FullInv, AbortOnlyWhenFull, HugepageHasCapacity,
              RegularHasCapacity, gem_bucket_has_capacity
<1>. QED  BY <1>1, <1>3 DEF IInv

(* The LibOS changes the reservation and the heap, never the buffers.       *)
LEMMA GuestInv ==
    ASSUME IInv, NEW n \in Sizes, NEW a \in Pages, NEW mapped \in BOOLEAN,
           MapHeap(a, n) \/ MapFixed(a, n, mapped) \/ libos_syscall_munmap(a, n)
    PROVE  IInv'
<1>1. UNCHANGED <<gem_slots, gem_hugepage_slots, slices, aborted>>
  BY DEF MapHeap, MapFixed, libos_syscall_munmap
<1>2. SliceInv' /\ OrderInv' /\ FullInv'
  BY <1>1 DEF IInv, SliceInv, OrderInv, FullInv, AbortOnlyWhenFull, Before,
              HugepageHasCapacity, RegularHasCapacity, gem_bucket_has_capacity
<1>3. reserved' \subseteq Arenas /\ heap' \subseteq Pages /\ torn' \subseteq Arenas
  BY DEF IInv, TypeOK, MapHeap, MapFixed, libos_syscall_munmap
<1>4. TypeOK'
  BY <1>1, <1>3 DEF IInv, TypeOK
<1>. QED  BY <1>2, <1>4 DEF IInv

(* Every step keeps the invariant.                                          *)
LEMMA NextInv == IInv /\ [Next]_vars => IInv'
<1> SUFFICES ASSUME IInv, [Next]_vars PROVE IInv'
  OBVIOUS
<1>1. ASSUME NEW n \in Sizes, AllocHugepage(n) PROVE IInv'
  BY <1>1, AllocHugepageInv
<1>2. ASSUME NEW n \in Sizes, AllocRegular(n) PROVE IInv'
  BY <1>2, AllocRegularInv
<1>3. ASSUME NEW n \in Sizes, AllocAborts(n) PROVE IInv'
  BY <1>3, AllocAbortsInv
<1>4. ASSUME NEW n \in Sizes, NEW a \in Pages,
             MapHeap(a, n) \/ \E mapped \in BOOLEAN : MapFixed(a, n, mapped)
      PROVE  IInv'
  BY <1>4, GuestInv
<1>5. ASSUME NEW n \in Sizes, NEW a \in Pages, libos_syscall_munmap(a, n) PROVE IInv'
  BY <1>5, GuestInv
<1>6. CASE UNCHANGED vars
  BY <1>6 DEF vars, IInv, TypeOK, SliceInv, OrderInv, FullInv, AbortOnlyWhenFull, Before,
              HugepageHasCapacity, RegularHasCapacity, gem_bucket_has_capacity
<1>. QED  BY <1>1, <1>2, <1>3, <1>4, <1>5, <1>6 DEF Next

(* The allocator invariant holds throughout: the two bump pointers stay     *)
(* inside their arenas, the buffers lie behind them and do not overlap.     *)
THEOREM Invariance == Spec => []IInv
BY InitInv, NextInv, PTL DEF Spec

(* The bump pointers never leave their arenas (mmap_listener,               *)
(* GEM_ALLOCATION), for arenas and buffers of any size.                     *)
THEOREM TypeCorrect == Spec => []TypeOK
<1>1. IInv => TypeOK
  BY DEF IInv
<1>. QED  BY <1>1, Invariance, PTL

(* The invariant keeps the buffers apart.                                   *)
LEMMA InvDisjoint == IInv => SlicesDisjoint
<1> SUFFICES ASSUME IInv PROVE SlicesDisjoint
  OBVIOUS
<1> USE ArenaAssumption
<1>1. /\ gem_slots \in Nat /\ gem_slots <= DATA_REGION + DATA_SIZE
      /\ gem_hugepage_slots \in Nat
      /\ gem_hugepage_slots <= HUGEPAGE_DATA_REGION + HUGE_DATA_SIZE
  BY DEF IInv, TypeOK
<1>2. \A s \in slices : s.start \in Nat /\ s.len \in Nat
  BY DEF IInv, TypeOK
<1>3. ASSUME NEW s \in slices
      PROVE  Slice(s) \subseteq Arena \/ Slice(s) \subseteq HugeArena
  BY <1>1, <1>2 DEF IInv, SliceInv, Slice, Range, Arena, HugeArena
<1>4. ASSUME NEW r \in slices, NEW s \in slices, r # s
      PROVE  Slice(r) \cap Slice(s) = {}
  <2>1. Before(r, s) \/ Before(s, r)
    BY <1>4 DEF IInv, OrderInv
  <2>. QED  BY <1>2, <2>1 DEF Before, Slice, Range
<1>. QED  BY <1>3, <1>4 DEF SlicesDisjoint

(* No two GPU buffers share a page and none leaves its arena, through every *)
(* fallback from one bucket to the other.                                   *)
THEOREM BuffersDisjoint == Spec => []SlicesDisjoint
BY InvDisjoint, Invariance, PTL

(* QEMU aborts an allocation only when neither arena has room.              *)
THEOREM FallbackComplete == Spec => []AbortOnlyWhenFull
<1>1. IInv => AbortOnlyWhenFull
  BY DEF IInv, FullInv
<1>. QED  BY <1>1, Invariance, PTL

------------------------------------------------------------------------------
(* What keeps the arenas: a page of theirs is reserved as long as no fixed  *)
(* mapping and no range that reached beyond an arena has covered it.        *)
ReservedInv == Arenas \ reserved \subseteq torn /\ heap \cap Arenas \subseteq torn

(* A munmap inside an arena is recognised and ignored.                      *)
LEMMA ArenaUnmapIgnored ==
    ASSUME NEW n \in Sizes, NEW a \in Pages, InOneArena(a, n)
    PROVE  \/ InArena(a, n, DATA_REGION, DATA_SIZE)
           \/ InArena(a, n, HUGEPAGE_DATA_REGION, HUGE_DATA_SIZE)
<1> USE ArenaAssumption DEF InOneArena
<1>1. n \in Nat \ {0} /\ a \in Nat
  BY DEF Pages
<1>2. a \in Range(a, n) /\ a + n - 1 \in Range(a, n)
  BY <1>1 DEF Range
<1>3. CASE Range(a, n) \subseteq Arena
  BY <1>1, <1>2, <1>3, SMTT(30) DEF Arena, Range, InArena
<1>4. CASE Range(a, n) \subseteq HugeArena
  BY <1>1, <1>2, <1>4 DEF HugeArena, Range, InArena
<1>. QED  BY <1>3, <1>4

(* Every other way to give up a page of an arena is recorded in torn.       *)
LEMMA ReservedStep == ReservedInv /\ [Next]_vars => ReservedInv'
<1> SUFFICES ASSUME ReservedInv, [Next]_vars PROVE ReservedInv'
  OBVIOUS
<1>1. ASSUME NEW n \in Sizes, AllocHugepage(n) \/ AllocRegular(n) \/ AllocAborts(n)
      PROVE  ReservedInv'
  BY <1>1 DEF AllocHugepage, AllocRegular, AllocAborts, ReservedInv
<1>2. ASSUME NEW n \in Sizes, NEW a \in Pages, MapHeap(a, n) PROVE ReservedInv'
  BY <1>2 DEF MapHeap, ReservedInv
<1>3. ASSUME NEW n \in Sizes, NEW a \in Pages, NEW mapped \in BOOLEAN,
             MapFixed(a, n, mapped)
      PROVE  ReservedInv'
  BY <1>3 DEF MapFixed, ReservedInv
<1>4. ASSUME NEW n \in Sizes, NEW a \in Pages, libos_syscall_munmap(a, n)
      PROVE  ReservedInv'
  <2>1. CASE InOneArena(a, n)
    <3>1. UNCHANGED <<reserved, heap, torn>>
      BY <1>4, <2>1, ArenaUnmapIgnored DEF libos_syscall_munmap
    <3>. QED  BY <3>1 DEF ReservedInv
  <2>2. CASE ~InOneArena(a, n)
    BY <1>4, <2>2 DEF libos_syscall_munmap, ReservedInv
  <2>. QED  BY <2>1, <2>2
<1>5. CASE UNCHANGED vars
  BY <1>5 DEF vars, ReservedInv
<1>. QED  BY <1>1, <1>2, <1>3, <1>4, <1>5 DEF Next

(* For arenas and ranges of any size: a page of a GPU buffer is handed out  *)
(* by the guest allocator only after a fixed mapping over it or an          *)
(* unmapping that reached beyond its arena (libos_syscall_mmap,             *)
(* libos_syscall_munmap).                                                   *)
THEOREM HeapSafe == Spec => []HeapApart
<1>1. Init => ReservedInv
  BY DEF Init, ReservedInv
<1>2. SlicesDisjoint /\ ReservedInv => HeapApart
  BY DEF SlicesDisjoint, ReservedInv, HeapApart, Arenas
<1>. QED  BY <1>1, <1>2, ReservedStep, BuffersDisjoint, PTL DEF Spec
===============================================================================

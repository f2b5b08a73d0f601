---------------------------- MODULE Vsock_proof ----------------------------
(***************************************************************************)
(* Proofs about Vsock.  The loops of the code are functions defined by     *)
(* recursion on a number; what they keep is proved by induction, in the    *)
(* form of the library's theorem that the naturals are well-founded.       *)
(*                                                                         *)
(* The inductive invariant has three parts:                                *)
(*   Shape   types, the list of free descriptors, the states of the        *)
(*           connection and the application; for every incarnation;        *)
(*   Once    the bytes and the credit on their way in both directions,     *)
(*           for the first incarnation of the port;                        *)
(*   CreditKept  the credit the guest has given, in the packets on their   *)
(*           way to the host and in what the host has sent against it.     *)
(***************************************************************************)
EXTENDS Vsock, SequenceTheorems, WellFoundedInduction, TLAPS

------------------------------------------------------------------------------
(* Induction.  The library's well-foundedness of the naturals, for sets.   *)

(* Every set of naturals that is not empty has a least element.            *)
LEMMA Least ==
    ASSUME NEW T, T \subseteq Nat, T # {}
    PROVE  \E x \in T : \A y \in T : x <= y
<1>1. PICK R : R = OpToRel(<, Nat)
  OBVIOUS
<1>2. IsWellFoundedOn(R, Nat)
  BY <1>1, NatLessThanWellFounded
<1>3. PICK x \in T : \A y \in T : ~(<<y, x>> \in R)
  BY <1>2, WFMin
<1>4. \A y, z \in Nat : <<y, z>> \in R <=> y < z
  BY <1>1 DEF OpToRel
<1>5. ASSUME NEW y \in T PROVE x <= y
  <2>1. x \in Nat /\ y \in Nat
    OBVIOUS
  <2>2. ~(<<y, x>> \in R)
    BY <1>3
  <2>3. ~(y < x)
    BY <1>4, <2>1, <2>2
  <2>. QED  BY <2>1, <2>3
<1>. QED  BY <1>3, <1>5

(* Induction up to n, for a set instead of a predicate.                    *)
LEMMA SetInduction ==
    ASSUME NEW T, NEW n \in Nat, 0 \in T, \A k \in 0 .. n - 1 : k \in T => k + 1 \in T
    PROVE  \A k \in 0 .. n : k \in T
<1> SUFFICES ASSUME NEW j \in 0 .. n, j \notin T PROVE FALSE
  OBVIOUS
<1>1. PICK U : U = {k \in Nat : k <= n /\ k \notin T}
  OBVIOUS
<1>2. U # {} /\ U \subseteq Nat
  BY <1>1
<1>3. PICK x \in U : \A y \in U : x <= y
  BY <1>2, Least
<1>4. x # 0 /\ x \in Nat /\ x <= n /\ x \notin T
  BY <1>1
<1>5. x - 1 \in 0 .. n - 1 /\ x - 1 \notin U
  BY <1>3, <1>4
<1>6. x - 1 \in T
  BY <1>1, <1>4, <1>5
<1>. QED  BY <1>4, <1>5, <1>6

(* n turns of a loop whose turn is the function G on Q.                    *)
IsRun(f, n, Q, x, G) ==
    f \in [0 .. n -> Q] /\ f[0] = x /\ \A k \in 1 .. n : f[k] = G[f[k - 1]]

(* Such a loop runs.                                                       *)
LEMMA LoopRuns ==
    ASSUME NEW Q, NEW x \in Q, NEW G \in [Q -> Q], NEW n \in Nat
    PROVE  \E f : IsRun(f, n, Q, x, G)
<1> DEFINE Run(m, f) == f \in [0 .. m -> Q] /\ f[0] = x /\ \A k \in 1 .. m : f[k] = G[f[k - 1]]
           T == {m \in 0 .. n : \E f : Run(m, f)}
<1>1. 0 \in T
  <2>1. PICK f : f = [k \in 0 .. 0 |-> x]
    OBVIOUS
  <2>2. f \in [0 .. 0 -> Q] /\ f[0] = x /\ \A k \in 1 .. 0 : f[k] = G[f[k - 1]]
    BY <2>1
  <2>3. 0 \in 0 .. n
    OBVIOUS
  <2>. QED  BY <2>2, <2>3
<1>2. ASSUME NEW m \in 0 .. n - 1, m \in T PROVE m + 1 \in T
  <2>1. PICK f : Run(m, f)
    BY <1>2
  <2>2. PICK g : g = [k \in 0 .. m + 1 |-> IF k <= m THEN f[k] ELSE G[f[m]]]
    OBVIOUS
  <2>3. g \in [0 .. m + 1 -> Q] /\ g[0] = x
    BY <2>1, <2>2
  <2>4. ASSUME NEW k \in 1 .. m + 1 PROVE g[k] = G[g[k - 1]]
    <3>1. CASE k <= m
      BY <2>1, <2>2, <3>1
    <3>2. CASE k = m + 1
      BY <2>1, <2>2, <3>2
    <3>. QED  BY <3>1, <3>2
  <2>. QED  BY <2>3, <2>4
<1>3. \A m \in 0 .. n : m \in T
  <2> HIDE DEF T
  <2>. QED  BY <1>1, <1>2, SetInduction
<1>. QED  BY <1>3 DEF IsRun

(* What every turn of the loops of the transmit queue and of the read      *)
(* preserves, the loops preserve.                                          *)
LEMMA CleanupStays ==
    ASSUME NEW Q, NEW q \in Q, Len(q.completed) \in Nat, \A r \in Q : free_completed(r) \in Q
    PROVE  cleanup_tq(q) \in Q
<1>0. PICK n \in Nat : n = Len(q.completed)
  OBVIOUS
<1> DEFINE Body(f) == [k \in 0 .. n |-> IF k = 0 THEN q ELSE free_completed(f[k - 1])]
           r == CHOOSE f : f = Body(f)
<1>1. \E f : f = Body(f)
  <2>1. PICK G : G = [x \in Q |-> free_completed(x)]
    OBVIOUS
  <2>2. G \in [Q -> Q]
    BY <2>1
  <2>3. PICK f : IsRun(f, n, Q, q, G)
    BY <2>2, LoopRuns, Zenon
  <2>4. ASSUME NEW k \in 0 .. n PROVE f[k] = IF k = 0 THEN q ELSE free_completed(f[k - 1])
    BY <2>1, <2>3 DEF IsRun
  <2>5. f = Body(f)
    BY <2>3, <2>4 DEF IsRun
  <2>. QED  BY <2>5
<1>2. r = Body(r)
  BY <1>1
<1>3. cleanup_tq(q) = r[n]
  BY <1>0 DEF cleanup_tq, Iterate
<1> HIDE DEF r
<1>4. r[0] = q /\ \A k \in 0 .. n - 1 : r[k + 1] = free_completed(r[k])
  BY <1>2
<1>5. PICK T : T = {k \in 0 .. n : r[k] \in Q}
  OBVIOUS
<1>6. 0 \in T /\ \A k \in 0 .. n - 1 : k \in T => k + 1 \in T
  BY <1>4, <1>5
<1>7. \A k \in 0 .. n : k \in T
  BY <1>6, SetInduction, Zenon
<1>. QED  BY <1>3, <1>5, <1>7

(* The same for the loop over the pending packets,                         *)
LEMMA SendPendingStays ==
    ASSUME NEW Q, NEW q \in Q, Len(q.pending) \in Nat, \A r \in Q : send_one_pending(r) \in Q
    PROVE  send_pending_tq_control_packets(q) \in Q
<1>0. PICK n \in Nat : n = Len(q.pending)
  OBVIOUS
<1> DEFINE Body(f) == [k \in 0 .. n |-> IF k = 0 THEN q ELSE send_one_pending(f[k - 1])]
           r == CHOOSE f : f = Body(f)
<1>1. \E f : f = Body(f)
  <2>1. PICK G : G = [x \in Q |-> send_one_pending(x)]
    OBVIOUS
  <2>2. G \in [Q -> Q]
    BY <2>1
  <2>3. PICK f : IsRun(f, n, Q, q, G)
    BY <2>2, LoopRuns, Zenon
  <2>4. ASSUME NEW k \in 0 .. n PROVE f[k] = IF k = 0 THEN q ELSE send_one_pending(f[k - 1])
    BY <2>1, <2>3 DEF IsRun
  <2>5. f = Body(f)
    BY <2>3, <2>4 DEF IsRun
  <2>. QED  BY <2>5
<1>2. r = Body(r)
  BY <1>1
<1>3. send_pending_tq_control_packets(q) = r[n]
  BY <1>0 DEF send_pending_tq_control_packets, Iterate
<1> HIDE DEF r
<1>4. r[0] = q /\ \A k \in 0 .. n - 1 : r[k + 1] = send_one_pending(r[k])
  BY <1>2
<1>5. PICK T : T = {k \in 0 .. n : r[k] \in Q}
  OBVIOUS
<1>6. 0 \in T /\ \A k \in 0 .. n - 1 : k \in T => k + 1 \in T
  BY <1>4, <1>5
<1>7. \A k \in 0 .. n : k \in T
  BY <1>6, SetInduction, Zenon
<1>. QED  BY <1>3, <1>5, <1>7

(* and for the loop of a read.                                             *)
LEMMA ConsumeStays ==
    ASSUME NEW Q, NEW packets, NEW count, [count |-> count, packets |-> packets] \in Q,
           Len(packets) \in Nat, \A r \in Q : copy_packet(r) \in Q
    PROVE  Consume(packets, count) \in Q
<1>0. PICK n \in Nat : n = Len(packets)
  OBVIOUS
<1>q. PICK q \in Q : q = [count |-> count, packets |-> packets]
  OBVIOUS
<1> DEFINE Body(f) == [k \in 0 .. n |-> IF k = 0 THEN q ELSE copy_packet(f[k - 1])]
           r == CHOOSE f : f = Body(f)
<1>1. \E f : f = Body(f)
  <2>1. PICK G : G = [x \in Q |-> copy_packet(x)]
    OBVIOUS
  <2>2. G \in [Q -> Q]
    BY <2>1
  <2>3. PICK f : IsRun(f, n, Q, q, G)
    BY <2>2, LoopRuns, Zenon
  <2>4. ASSUME NEW k \in 0 .. n PROVE f[k] = IF k = 0 THEN q ELSE copy_packet(f[k - 1])
    BY <2>1, <2>3 DEF IsRun
  <2>5. f = Body(f)
    BY <2>3, <2>4 DEF IsRun
  <2>. QED  BY <2>5
<1>2. r = Body(r)
  BY <1>1
<1>3. Consume(packets, count) = r[n]
  BY <1>0, <1>q DEF Consume, Iterate
<1> HIDE DEF r
<1>4. r[0] = q /\ \A k \in 0 .. n - 1 : r[k + 1] = copy_packet(r[k])
  BY <1>2
<1>5. PICK T : T = {k \in 0 .. n : r[k] \in Q}
  OBVIOUS
<1>6. 0 \in T /\ \A k \in 0 .. n - 1 : k \in T => k + 1 \in T
  BY <1>4, <1>5
<1>7. \A k \in 0 .. n : k \in T
  BY <1>6, SetInduction, Zenon
<1>. QED  BY <1>3, <1>5, <1>7

------------------------------------------------------------------------------
(* The descriptors of the transmit queue.                                  *)

(* The free list is l[1], ..., l[n]; the device has the others, each once, *)
(* among the packets it is given and those it has consumed.  What it has   *)
(* has a link of 0, by which a double completion would be told.            *)
FreeList(free, next, avail, completed, n, l) ==
    /\ n \in Nat /\ l \in [1 .. n -> 0 .. TqSize - 1]
    /\ n + Len(avail) + Len(completed) = TqSize
    /\ free = IF n = 0 THEN TqSize ELSE l[1]
    /\ \A i \in 1 .. n : next[l[i]] = IF i = n THEN TqSize ELSE l[i + 1]
    /\ \A i, j \in 1 .. n : l[i] = l[j] => i = j

DeviceHas(next, avail, completed, n, l) ==
    /\ \A i, j \in 1 .. Len(avail) : avail[i].id = avail[j].id => i = j
    /\ \A i, j \in 1 .. Len(completed) : completed[i] = completed[j] => i = j
    /\ \A i \in 1 .. Len(avail), j \in 1 .. Len(completed) : avail[i].id # completed[j]
    /\ \A i \in 1 .. Len(avail) : next[avail[i].id] = 0
    /\ \A i \in 1 .. Len(completed) : next[completed[i]] = 0
    /\ \A i \in 1 .. n, j \in 1 .. Len(avail) : l[i] # avail[j].id
    /\ \A i \in 1 .. n, j \in 1 .. Len(completed) : l[i] # completed[j]
    /\ \A d \in 0 .. TqSize - 1 : \/ \E i \in 1 .. n : l[i] = d
                                  \/ \E i \in 1 .. Len(avail) : avail[i].id = d
                                  \/ \E i \in 1 .. Len(completed) : completed[i] = d

Descriptors(free, next, avail, completed) ==
    \E n, l : /\ FreeList(free, next, avail, completed, n, l)
              /\ DeviceHas(next, avail, completed, n, l)

Id   == 0 .. TqSize - 1
Link == 0 .. TqSize
Desc == [id : Id, packet : Packet]

(* virtq_create's chain is exact,                                          *)
LEMMA DescriptorsInit ==
    Descriptors(0, [d \in Id |-> d + 1], <<>>, <<>>)
<1>0. TqSize \in Nat \ {0}
  BY VsockAssumption
<1>1. PICK l : l = [i \in 1 .. TqSize |-> i - 1]
  OBVIOUS
<1>2. FreeList(0, [d \in Id |-> d + 1], <<>>, <<>>, TqSize, l)
  BY <1>0, <1>1 DEF FreeList, Id
<1>3. \A d \in Id : d + 1 \in 1 .. TqSize /\ l[d + 1] = d
  BY <1>0, <1>1 DEF Id
<1>4. DeviceHas([d \in Id |-> d + 1], <<>>, <<>>, TqSize, l)
  BY <1>0, <1>3 DEF DeviceHas, Id
<1>. QED  BY <1>2, <1>4 DEF Descriptors

(* virtq_alloc_desc, whose descriptor goes to the device, keeps it exact,  *)
LEMMA DescriptorsAlloc ==
    ASSUME NEW free \in Link, NEW next \in [Id -> Link], NEW avail \in Seq(Desc),
           NEW completed \in Seq(Id), NEW packet \in Packet,
           Descriptors(free, next, avail, completed), free # TqSize
    PROVE  /\ free \in Id
           /\ Descriptors(next[free], [next EXCEPT ![free] = 0],
                          Append(avail, [id |-> free, packet |-> packet]), completed)
<1>0. TqSize \in Nat \ {0}
  BY VsockAssumption
<1>1. PICK n, l : /\ FreeList(free, next, avail, completed, n, l)
                  /\ DeviceHas(next, avail, completed, n, l)
  BY DEF Descriptors
<1>2. n \in Nat \ {0} /\ l \in [1 .. n -> Id] /\ free = l[1]
  BY <1>0, <1>1 DEF FreeList, Id
<1>3. free \in Id
  BY <1>2
<1>4. PICK m : m = [i \in 1 .. n - 1 |-> l[i + 1]]
  OBVIOUS
<1>5. PICK x : x = [next EXCEPT ![free] = 0]
  OBVIOUS
<1>6. PICK e : e = [id |-> free, packet |-> packet]
  OBVIOUS
<1>7. e \in Desc /\ e.id = free
  BY <1>3, <1>6 DEF Desc
<1>8. PICK a : a = Append(avail, e)
  OBVIOUS
<1>9. /\ Len(a) = Len(avail) + 1 /\ a[Len(avail) + 1] = e /\ Len(avail) \in Nat
      /\ \A i \in 1 .. Len(avail) : a[i] = avail[i]
  BY <1>7, <1>8
<1>10. /\ x \in [Id -> Link] /\ x[free] = 0
       /\ \A d \in Id : d # free => x[d] = next[d]
  BY <1>0, <1>3, <1>5 DEF Id, Link
<1>11. FreeList(next[free], x, a, completed, n - 1, m)
  <2>1. n - 1 \in Nat /\ m \in [1 .. n - 1 -> 0 .. TqSize - 1]
    BY <1>2, <1>4 DEF Id
  <2>2. n - 1 + Len(a) + Len(completed) = TqSize
    BY <1>1, <1>2, <1>9 DEF FreeList
  <2>3. next[free] = IF n - 1 = 0 THEN TqSize ELSE m[1]
    BY <1>1, <1>2, <1>4 DEF FreeList
  <2>4. ASSUME NEW i \in 1 .. n - 1
        PROVE  x[m[i]] = IF i = n - 1 THEN TqSize ELSE m[i + 1]
    <3>1. i + 1 \in 1 .. n /\ m[i] = l[i + 1] /\ l[i + 1] # l[1]
      BY <1>1, <1>2, <1>4 DEF FreeList
    <3>2. x[m[i]] = next[l[i + 1]]
      BY <1>2, <1>10, <3>1
    <3>3. next[l[i + 1]] = IF i + 1 = n THEN TqSize ELSE l[i + 1 + 1]
      BY <1>1, <3>1 DEF FreeList
    <3>. QED  BY <1>2, <1>4, <3>2, <3>3
  <2>5. \A i, j \in 1 .. n - 1 : m[i] = m[j] => i = j
    BY <1>1, <1>2, <1>4 DEF FreeList
  <2>. QED  BY <2>1, <2>2, <2>3, <2>4, <2>5 DEF FreeList
<1>12. \A i \in 1 .. n - 1 : i + 1 \in 1 .. n /\ m[i] = l[i + 1] /\ l[i + 1] # free
  BY <1>1, <1>2, <1>4 DEF FreeList
<1>13. \A i \in 1 .. Len(avail) : avail[i].id # free /\ avail[i].id \in Id
  <2>1. \A i \in 1 .. Len(avail) : avail[i] \in Desc
    OBVIOUS
  <2>2. \A i \in 1 .. Len(avail) : avail[i].id \in Id
    BY <2>1 DEF Desc
  <2>3. \A i \in 1 .. Len(avail) : avail[i].id # l[1]
    BY <1>1, <1>2 DEF DeviceHas
  <2>. QED  BY <1>2, <2>2, <2>3
<1>14. \A i \in 1 .. Len(completed) : completed[i] # free /\ completed[i] \in Id
  BY <1>1, <1>2 DEF DeviceHas
<1>15. DeviceHas(x, a, completed, n - 1, m)
  <2>1. \A i, j \in 1 .. Len(a) : a[i].id = a[j].id => i = j
    BY <1>1, <1>7, <1>9, <1>13 DEF DeviceHas
  <2>2. \A i, j \in 1 .. Len(completed) : completed[i] = completed[j] => i = j
    BY <1>1 DEF DeviceHas
  <2>3. \A i \in 1 .. Len(a), j \in 1 .. Len(completed) : a[i].id # completed[j]
    BY <1>1, <1>7, <1>9, <1>14 DEF DeviceHas
  <2>4. \A i \in 1 .. Len(a) : x[a[i].id] = 0
    BY <1>1, <1>7, <1>9, <1>10, <1>13 DEF DeviceHas
  <2>5. \A i \in 1 .. Len(completed) : x[completed[i]] = 0
    BY <1>1, <1>10, <1>14 DEF DeviceHas
  <2>6. \A i \in 1 .. n - 1, j \in 1 .. Len(a) : m[i] # a[j].id
    BY <1>1, <1>7, <1>9, <1>12 DEF DeviceHas
  <2>7. \A i \in 1 .. n - 1, j \in 1 .. Len(completed) : m[i] # completed[j]
    BY <1>1, <1>12 DEF DeviceHas
  <2>8. ASSUME NEW d \in 0 .. TqSize - 1
        PROVE  \/ \E i \in 1 .. n - 1 : m[i] = d
               \/ \E i \in 1 .. Len(a) : a[i].id = d
               \/ \E i \in 1 .. Len(completed) : completed[i] = d
    <3>1. CASE \E i \in 1 .. n : l[i] = d
      <4>1. PICK i \in 1 .. n : l[i] = d
        BY <3>1
      <4>2. CASE i = 1
        BY <1>2, <1>7, <1>9, <4>1, <4>2
      <4>3. CASE i # 1
        <5>1. i - 1 \in 1 .. n - 1 /\ m[i - 1] = d
          BY <1>2, <1>4, <4>1, <4>3
        <5>. QED  BY <5>1
      <4>. QED  BY <4>2, <4>3
    <3>2. CASE \E i \in 1 .. Len(avail) : avail[i].id = d
      BY <1>9, <3>2
    <3>. QED  BY <1>1, <3>1, <3>2 DEF DeviceHas
  <2>. QED  BY <2>1, <2>2, <2>3, <2>4, <2>5, <2>6, <2>7, <2>8 DEF DeviceHas
<1>. QED  BY <1>3, <1>5, <1>6, <1>8, <1>11, <1>15 DEF Descriptors

(* so does virtq_free_desc for what the device has consumed first, which   *)
(* does not look free,                                                     *)
LEMMA DescriptorsFree ==
    ASSUME NEW free \in Link, NEW next \in [Id -> Link], NEW avail \in Seq(Desc),
           NEW completed \in Seq(Id), NEW d, d = Head(completed),
           Descriptors(free, next, avail, completed), completed # <<>>
    PROVE  /\ d \in Id /\ next[d] = 0
           /\ Descriptors(d, [next EXCEPT ![d] = free], avail, Tail(completed))
<1>0. TqSize \in Nat \ {0}
  BY VsockAssumption
<1>1. PICK n, l : /\ FreeList(free, next, avail, completed, n, l)
                  /\ DeviceHas(next, avail, completed, n, l)
  BY DEF Descriptors
<1>2. PICK t : t = Tail(completed)
  OBVIOUS
<1>3. /\ Len(completed) \in Nat \ {0} /\ Len(t) = Len(completed) - 1
      /\ d = completed[1] /\ d \in Id
      /\ \A i \in 1 .. Len(t) : t[i] = completed[i + 1] /\ i + 1 \in 1 .. Len(completed)
  BY <1>2
<1>4. next[d] = 0
  BY <1>1, <1>3 DEF DeviceHas
<1>5. n \in Nat /\ l \in [1 .. n -> Id] /\ Len(avail) \in Nat
  BY <1>1, SMTT(30) DEF FreeList, Id
<1>6. PICK m : m = [i \in 1 .. n + 1 |-> IF i = 1 THEN d ELSE l[i - 1]]
  OBVIOUS
<1>7. m \in [1 .. n + 1 -> Id] /\ m[1] = d
  BY <1>3, <1>5, <1>6
<1>8. \A i \in 2 .. n + 1 : m[i] = l[i - 1] /\ i - 1 \in 1 .. n
  BY <1>5, <1>6
<1>9. PICK x : x = [next EXCEPT ![d] = free]
  OBVIOUS
<1>10. /\ x \in [Id -> Link] /\ x[d] = free
       /\ \A e \in Id : e # d => x[e] = next[e]
  BY <1>0, <1>3, <1>9
<1>11. \A i \in 1 .. n : l[i] # d /\ l[i] \in Id
  BY <1>1, <1>3, <1>5 DEF DeviceHas
<1>12. FreeList(d, x, avail, t, n + 1, m)
  <2>1. n + 1 \in Nat /\ m \in [1 .. n + 1 -> 0 .. TqSize - 1] /\ n + 1 # 0
    BY <1>5, <1>7 DEF Id
  <2>2. n + 1 + Len(avail) + Len(t) = TqSize
    BY <1>1, <1>3, <1>5 DEF FreeList
  <2>3. ASSUME NEW i \in 1 .. n + 1
        PROVE  x[m[i]] = IF i = n + 1 THEN TqSize ELSE m[i + 1]
    <3>1. CASE i = 1
      <4>1. x[m[i]] = free
        BY <1>7, <1>10, <3>1
      <4>2. free = IF n = 0 THEN TqSize ELSE l[1]
        BY <1>1 DEF FreeList
      <4>3. n # 0 => m[2] = l[1]
        BY <1>5, <1>6
      <4>. QED  BY <1>5, <3>1, <4>1, <4>2, <4>3
    <3>2. CASE i # 1
      <4>1. m[i] = l[i - 1] /\ i - 1 \in 1 .. n
        BY <1>5, <1>8, <3>2
      <4>2. x[m[i]] = next[l[i - 1]]
        BY <1>10, <1>11, <4>1
      <4>3. next[l[i - 1]] = IF i - 1 = n THEN TqSize ELSE l[i - 1 + 1]
        BY <1>1, <4>1 DEF FreeList
      <4>4. i # n + 1 => m[i + 1] = l[i]
        BY <1>5, <1>6, <3>2
      <4>. QED  BY <1>5, <4>2, <4>3, <4>4
    <3>. QED  BY <3>1, <3>2
  <2>4. \A i, j \in 1 .. n : l[i] = l[j] => i = j
    BY <1>1 DEF FreeList
  <2>5. \A i, j \in 1 .. n + 1 : m[i] = m[j] => i = j
    BY <1>5, <1>7, <1>8, <1>11, <2>4
  <2>. QED  BY <1>7, <2>1, <2>2, <2>3, <2>5 DEF FreeList
<1>13. DeviceHas(x, avail, t, n + 1, m)
  <2>1. \A i, j \in 1 .. Len(avail) : avail[i].id = avail[j].id => i = j
    BY <1>1 DEF DeviceHas
  <2>2. \A i, j \in 1 .. Len(t) : t[i] = t[j] => i = j
    <3>1. \A i, j \in 1 .. Len(completed) : completed[i] = completed[j] => i = j
      BY <1>1 DEF DeviceHas
    <3>. QED  BY <1>3, <3>1
  <2>3. \A i \in 1 .. Len(avail), j \in 1 .. Len(t) : avail[i].id # t[j]
    BY <1>1, <1>3 DEF DeviceHas
  <2>4. \A i \in 1 .. Len(avail) : avail[i].id \in Id
    <3>1. \A i \in 1 .. Len(avail) : avail[i] \in Desc
      OBVIOUS
    <3>. QED  BY <3>1 DEF Desc
  <2>5. \A i \in 1 .. Len(avail) : x[avail[i].id] = 0
    <3>1. \A i \in 1 .. Len(avail) : avail[i].id # d /\ next[avail[i].id] = 0
      BY <1>1, <1>3 DEF DeviceHas
    <3>. QED  BY <1>10, <2>4, <3>1
  <2>6. \A i \in 1 .. Len(t) : t[i] # d /\ t[i] \in Id /\ next[t[i]] = 0
    <3>1. \A i \in 1 .. Len(t) : t[i] = completed[i + 1] /\ i + 1 \in 1 .. Len(completed)
      BY <1>3
    <3>2. \A i \in 1 .. Len(completed) : completed[i] \in Id /\ next[completed[i]] = 0
      BY <1>1 DEF DeviceHas
    <3>3. \A i \in 1 .. Len(t) : completed[i + 1] # d
      BY <1>1, <1>3, <3>1 DEF DeviceHas
    <3>. QED  BY <3>1, <3>2, <3>3
  <2>7. \A i \in 1 .. Len(t) : x[t[i]] = 0
    BY <1>10, <2>6
  <2>8. \A i \in 1 .. n + 1, j \in 1 .. Len(avail) : m[i] # avail[j].id
    <3> SUFFICES ASSUME NEW i \in 1 .. n + 1, NEW j \in 1 .. Len(avail)
                 PROVE  m[i] # avail[j].id
      OBVIOUS
    <3>1. CASE i = 1
      BY <1>1, <1>3, <1>7, <3>1 DEF DeviceHas
    <3>2. CASE i # 1
      <4>1. m[i] = l[i - 1] /\ i - 1 \in 1 .. n
        BY <1>5, <1>8, <3>2
      <4>. QED  BY <1>1, <4>1 DEF DeviceHas
    <3>. QED  BY <3>1, <3>2
  <2>9. \A i \in 1 .. n + 1, j \in 1 .. Len(t) : m[i] # t[j]
    <3>1. \A i \in 1 .. n, j \in 1 .. Len(t) : l[i] # t[j]
      BY <1>1, <1>3 DEF DeviceHas
    <3>. QED  BY <1>5, <1>7, <1>8, <2>6, <3>1
  <2>10. ASSUME NEW e \in 0 .. TqSize - 1
         PROVE  \/ \E i \in 1 .. n + 1 : m[i] = e
                \/ \E i \in 1 .. Len(avail) : avail[i].id = e
                \/ \E i \in 1 .. Len(t) : t[i] = e
    <3>1. CASE \E i \in 1 .. n : l[i] = e
      <4>1. PICK i \in 1 .. n : l[i] = e
        BY <3>1
      <4>2. i + 1 \in 1 .. n + 1 /\ m[i + 1] = e
        BY <1>5, <1>6, <4>1
      <4>. QED  BY <4>2
    <3>2. CASE \E i \in 1 .. Len(completed) : completed[i] = e
      <4>1. PICK i \in 1 .. Len(completed) : completed[i] = e
        BY <3>2
      <4>2. CASE i = 1
        <5>1. 1 \in 1 .. n + 1 /\ m[1] = e
          BY <1>3, <1>5, <1>7, <4>1, <4>2
        <5>. QED  BY <5>1
      <4>3. CASE i # 1
        <5>1. i - 1 \in 1 .. Len(t) /\ t[i - 1] = e
          BY <1>3, <4>1, <4>3
        <5>. QED  BY <5>1
      <4>. QED  BY <4>2, <4>3
    <3>. QED  BY <1>1, <3>1, <3>2 DEF DeviceHas
  <2>. QED  BY <2>1, <2>2, <2>3, <2>5, <2>7, <2>8, <2>9, <2>10 DEF DeviceHas
<1>. QED  BY <1>2, <1>3, <1>4, <1>9, <1>12, <1>13 DEF Descriptors

(* and so does the device, that takes the first packet.                    *)
LEMMA DescriptorsTake ==
    ASSUME NEW free \in Link, NEW next \in [Id -> Link], NEW avail \in Seq(Desc),
           NEW completed \in Seq(Id),
           Descriptors(free, next, avail, completed), avail # <<>>
    PROVE  /\ Head(avail).id \in Id
           /\ Descriptors(free, next, Tail(avail), Append(completed, Head(avail).id))
<1>1. PICK n, l : /\ FreeList(free, next, avail, completed, n, l)
                  /\ DeviceHas(next, avail, completed, n, l)
  BY DEF Descriptors
<1>2. PICK t : t = Tail(avail)
  OBVIOUS
<1>3. PICK d : d = Head(avail).id
  OBVIOUS
<1>4. PICK c : c = Append(completed, d)
  OBVIOUS
<1>5. /\ Len(avail) \in Nat \ {0} /\ Len(t) = Len(avail) - 1
      /\ \A i \in 1 .. Len(t) : t[i] = avail[i + 1] /\ i + 1 \in 1 .. Len(avail)
      /\ avail[1] = Head(avail) /\ avail[1] \in Desc
  BY <1>2
<1>6. d \in Id /\ d = avail[1].id
  BY <1>3, <1>5 DEF Desc
<1>7. /\ Len(completed) \in Nat /\ Len(c) = Len(completed) + 1
      /\ c[Len(completed) + 1] = d
      /\ \A i \in 1 .. Len(completed) : c[i] = completed[i]
  BY <1>4, <1>6
<1>8. n \in Nat
  BY <1>1 DEF FreeList
<1>9. FreeList(free, next, t, c, n, l)
  <2>1. n + Len(t) + Len(c) = TqSize
    BY <1>1, <1>5, <1>7, <1>8 DEF FreeList
  <2>. QED  BY <1>1, <2>1 DEF FreeList
<1>10. DeviceHas(next, t, c, n, l)
  <2>0. \A i \in 1 .. Len(c) : i \in 1 .. Len(completed) \/ i = Len(completed) + 1
    BY <1>7
  <2>1. \A i, j \in 1 .. Len(t) : t[i].id = t[j].id => i = j
    BY <1>1, <1>5 DEF DeviceHas
  <2>2. ASSUME NEW i \in 1 .. Len(t)
        PROVE  /\ t[i].id # d /\ next[t[i].id] = 0
               /\ \A j \in 1 .. n : l[j] # t[i].id
    <3>1. i + 1 \in 1 .. Len(avail) /\ t[i] = avail[i + 1] /\ i + 1 # 1 /\ 1 \in 1 .. Len(avail)
      BY <1>5
    <3>2. avail[i + 1].id # avail[1].id
      BY <1>1, <3>1 DEF DeviceHas
    <3>3. next[avail[i + 1].id] = 0 /\ \A j \in 1 .. n : l[j] # avail[i + 1].id
      BY <1>1, <3>1 DEF DeviceHas
    <3>. QED  BY <1>6, <3>1, <3>2, <3>3
  <2>3. \A i \in 1 .. Len(completed) : completed[i] # d
    BY <1>1, <1>5, <1>6 DEF DeviceHas
  <2>4. \A i, j \in 1 .. Len(c) : c[i] = c[j] => i = j
    <3>1. \A i, j \in 1 .. Len(completed) : completed[i] = completed[j] => i = j
      BY <1>1 DEF DeviceHas
    <3>. QED  BY <1>7, <2>0, <2>3, <3>1
  <2>5. \A i \in 1 .. Len(t), j \in 1 .. Len(c) : t[i].id # c[j]
    <3>1. \A i \in 1 .. Len(t), j \in 1 .. Len(completed) : t[i].id # completed[j]
      BY <1>1, <1>5 DEF DeviceHas
    <3>. QED  BY <1>7, <2>0, <2>2, <3>1
  <2>6. \A i \in 1 .. Len(t) : next[t[i].id] = 0
    BY <2>2
  <2>7. \A i \in 1 .. Len(c) : next[c[i]] = 0
    <3>1. next[d] = 0 /\ \A i \in 1 .. Len(completed) : next[completed[i]] = 0
      BY <1>1, <1>5, <1>6 DEF DeviceHas
    <3>. QED  BY <1>7, <2>0, <3>1
  <2>8. \A i \in 1 .. n, j \in 1 .. Len(t) : l[i] # t[j].id
    BY <2>2
  <2>9. \A i \in 1 .. n, j \in 1 .. Len(c) : l[i] # c[j]
    <3>1. \A i \in 1 .. n : l[i] # d /\ \A j \in 1 .. Len(completed) : l[i] # completed[j]
      BY <1>1, <1>5, <1>6 DEF DeviceHas
    <3>. QED  BY <1>7, <2>0, <3>1
  <2>10. ASSUME NEW e \in 0 .. TqSize - 1
         PROVE  \/ \E i \in 1 .. n : l[i] = e
                \/ \E i \in 1 .. Len(t) : t[i].id = e
                \/ \E i \in 1 .. Len(c) : c[i] = e
    <3>1. CASE \E i \in 1 .. Len(avail) : avail[i].id = e
      <4>1. PICK i \in 1 .. Len(avail) : avail[i].id = e
        BY <3>1
      <4>2. CASE i = 1
        <5>1. Len(c) \in 1 .. Len(c) /\ c[Len(c)] = e
          BY <1>6, <1>7, <4>1, <4>2
        <5>. QED  BY <5>1
      <4>3. CASE i # 1
        <5>1. i - 1 \in 1 .. Len(t) /\ t[i - 1].id = e
          BY <1>5, <4>1, <4>3, SMTT(30)
        <5>. QED  BY <5>1
      <4>. QED  BY <4>2, <4>3
    <3>2. CASE \E i \in 1 .. Len(completed) : completed[i] = e
      BY <1>7, <3>2
    <3>. QED  BY <1>1, <3>1, <3>2 DEF DeviceHas
  <2>. QED  BY <2>1, <2>4, <2>5, <2>6, <2>7, <2>8, <2>9, <2>10 DEF DeviceHas
<1>. QED  BY <1>2, <1>3, <1>4, <1>6, <1>9, <1>10 DEF Descriptors

(* The walk along the links of an exact list ends, and meets exactly the   *)
(* descriptors the device does not have.                                   *)
LEMMA ExactWalk ==
    ASSUME tq \in TxQueue, ~tq.refused,
           Descriptors(tq.free, tq.next, tq.avail, tq.completed)
    PROVE  FreeListExact
<1>0. TqSize \in Nat \ {0}
  BY VsockAssumption
<1>1. /\ tq.free \in Link /\ tq.next \in [Id -> Link]
      /\ tq.avail \in Seq(Desc) /\ tq.completed \in Seq(Id)
  BY DEF TxQueue, Id, Link, Desc
<1>2. PICK n, l : /\ FreeList(tq.free, tq.next, tq.avail, tq.completed, n, l)
                  /\ DeviceHas(tq.next, tq.avail, tq.completed, n, l)
  BY DEF Descriptors
<1>3. n \in 0 .. TqSize /\ l \in [1 .. n -> Id]
  <2>1. Len(tq.avail) \in Nat /\ Len(tq.completed) \in Nat
    BY <1>1
  <2>2. n \in Nat /\ n + Len(tq.avail) + Len(tq.completed) = TqSize
    BY <1>2 DEF FreeList
  <2>3. l \in [1 .. n -> Id]
    BY <1>2 DEF FreeList, Id
  <2>4. PICK i \in Nat, j \in Nat : n + i + j = TqSize
    BY <2>1, <2>2
  <2>5. n \in 0 .. TqSize
    BY <1>0, <2>2, <2>4
  <2>. QED  BY <2>3, <2>5
<1> DEFINE Body(f) == [k \in 0 .. TqSize |->
                          CASE k = 0 -> tq.free
                            [] k > 0 /\ f[k - 1] = TqSize -> TqSize
                            [] OTHER -> tq.next[f[k - 1]]]
           w == CHOOSE f : f = Body(f)
           device == [i \in DOMAIN tq.avail |-> tq.avail[i].id] \o tq.completed
<1>4. PICK v : v = [k \in 0 .. TqSize |-> IF k < n THEN l[k + 1] ELSE TqSize]
  OBVIOUS
<1>5. \A i \in 1 .. n : l[i] \in Id /\ l[i] # TqSize
  BY <1>0, <1>3 DEF Id
<1>6. v[0] = tq.free
  BY <1>0, <1>2, <1>3, <1>4 DEF FreeList
<1>7. ASSUME NEW k \in 1 .. TqSize
      PROVE  v[k] = IF v[k - 1] = TqSize THEN TqSize ELSE tq.next[v[k - 1]]
  <2>0. k - 1 \in 0 .. TqSize /\ k \in 0 .. TqSize /\ k - 1 + 1 = k
    BY <1>0
  <2>v. /\ v[k - 1] = IF k - 1 < n THEN l[k] ELSE TqSize
        /\ v[k] = IF k < n THEN l[k + 1] ELSE TqSize
    BY <1>4, <2>0
  <2>1. CASE k - 1 < n
    <3>1. v[k - 1] = l[k] /\ k \in 1 .. n
      BY <1>3, <2>v, <2>1
    <3>2. tq.next[l[k]] = IF k = n THEN TqSize ELSE l[k + 1]
      BY <1>2, <3>1 DEF FreeList
    <3>3. v[k] = IF k < n THEN l[k + 1] ELSE TqSize
      BY <2>v
    <3>4. k < n \/ k = n
      BY <1>3, <3>1
    <3>. QED  BY <1>5, <3>1, <3>2, <3>3, <3>4
  <2>2. CASE k - 1 >= n
    <3>1. ~(k - 1 < n) /\ ~(k < n)
      BY <1>3, <2>2
    <3>. QED  BY <2>v, <3>1
  <2>. QED  BY <1>3, <2>1, <2>2
<1>8. v = Body(v)
  <2>1. \A k \in 0 .. TqSize : v[k] = CASE k = 0 -> tq.free
                                        [] k > 0 /\ v[k - 1] = TqSize -> TqSize
                                        [] OTHER -> tq.next[v[k - 1]]
    BY <1>0, <1>6, <1>7
  <2>2. DOMAIN v = 0 .. TqSize /\ v = [k \in DOMAIN v |-> v[k]]
    BY <1>4
  <2>. QED  BY <2>1, <2>2
<1>9. w = Body(w)
  BY <1>8
<1>10. FreeListExact <=> /\ ~tq.refused
                         /\ w[TqSize] = TqSize
                         /\ Range(w) = (0 .. TqSize) \ Range(device)
                         /\ IsInjective(device)
  BY Zenon DEF FreeListExact
<1> HIDE DEF w
<1>11. w[0] = v[0] /\ \A k \in 0 .. TqSize - 1 : w[k] = v[k] => w[k + 1] = v[k + 1]
  <2>1. w[0] = tq.free
    BY <1>0, <1>9
  <2>2. ASSUME NEW k \in 0 .. TqSize - 1
        PROVE  w[k + 1] = IF w[k] = TqSize THEN TqSize ELSE tq.next[w[k]]
    <3>1. k + 1 \in 0 .. TqSize /\ k + 1 # 0 /\ k + 1 > 0 /\ k + 1 - 1 = k
      BY <1>0
    <3>2. PICK j \in 0 .. TqSize : j = k + 1
      BY <3>1
    <3>3. w[j] = CASE j = 0 -> tq.free
                   [] j > 0 /\ w[j - 1] = TqSize -> TqSize
                   [] OTHER -> tq.next[w[j - 1]]
      BY <1>9
    <3>4. j # 0 /\ j > 0 /\ j - 1 = k
      BY <3>1, <3>2
    <3>5. w[j] = IF w[k] = TqSize THEN TqSize ELSE tq.next[w[k]]
      BY <3>3, <3>4
    <3>. QED  BY <3>2, <3>5
  <2>3. ASSUME NEW k \in 0 .. TqSize - 1, w[k] = v[k] PROVE w[k + 1] = v[k + 1]
    <3>1. k + 1 \in 1 .. TqSize /\ k + 1 - 1 = k
      BY <1>0
    <3>. QED  BY <1>7, <2>2, <2>3, <3>1
  <2>. QED  BY <1>6, <2>1, <2>3
<1>12. PICK T : T = {k \in 0 .. TqSize : w[k] = v[k]}
  OBVIOUS
<1>13. 0 \in T /\ \A k \in 0 .. TqSize - 1 : k \in T => k + 1 \in T
  BY <1>0, <1>11, <1>12
<1>14. \A k \in 0 .. TqSize : k \in T
  BY <1>0, <1>13, SetInduction, Zenon
<1>15. DOMAIN w = 0 .. TqSize /\ \A k \in 0 .. TqSize : w[k] = v[k]
  BY <1>9, <1>12, <1>14
<1>16. w[TqSize] = TqSize
  BY <1>0, <1>3, <1>4, <1>15
<1>17. PICK a : a = [i \in DOMAIN tq.avail |-> tq.avail[i].id]
  OBVIOUS
<1>18. a \in Seq(Id) /\ Len(a) = Len(tq.avail) /\ \A i \in 1 .. Len(a) : a[i] = tq.avail[i].id
  <2>1. \A i \in 1 .. Len(tq.avail) : tq.avail[i] \in Desc
    BY <1>1
  <2>2. \A i \in 1 .. Len(tq.avail) : tq.avail[i].id \in Id
    BY <2>1 DEF Desc
  <2>3. DOMAIN tq.avail = 1 .. Len(tq.avail) /\ Len(tq.avail) \in Nat
    BY <1>1
  <2>. QED  BY <1>17, <2>2, <2>3
<1>19. PICK dev : dev = device
  OBVIOUS
<1>20. /\ dev \in Seq(Id) /\ Len(dev) = Len(a) + Len(tq.completed)
       /\ Len(a) \in Nat /\ Len(tq.completed) \in Nat /\ DOMAIN dev = 1 .. Len(dev)
       /\ \A i \in 1 .. Len(a) : dev[i] = a[i]
       /\ \A i \in 1 .. Len(tq.completed) : dev[Len(a) + i] = tq.completed[i]
  BY <1>1, <1>17, <1>18, <1>19
<1>21. ASSUME NEW i \in 1 .. Len(dev)
       PROVE  \/ i \in 1 .. Len(a) /\ dev[i] = tq.avail[i].id
              \/ i - Len(a) \in 1 .. Len(tq.completed) /\ dev[i] = tq.completed[i - Len(a)]
  <2>1. CASE i <= Len(a)
    <3>1. i \in 1 .. Len(a)
      BY <1>20, <2>1
    <3>. QED  BY <1>18, <1>20, <3>1
  <2>2. CASE i > Len(a)
    <3>1. i - Len(a) \in 1 .. Len(tq.completed) /\ Len(a) + (i - Len(a)) = i
      BY <1>20, <2>2
    <3>. QED  BY <1>20, <3>1
  <2>. QED  BY <1>20, <2>1, <2>2
<1>22. IsInjective(dev)
  <2>1. ASSUME NEW i \in 1 .. Len(dev), NEW j \in 1 .. Len(dev), dev[i] = dev[j]
        PROVE  i = j
    <3>1. \A x, y \in 1 .. Len(a) : tq.avail[x].id = tq.avail[y].id => x = y
      BY <1>2, <1>18 DEF DeviceHas
    <3>2. \A x, y \in 1 .. Len(tq.completed) : tq.completed[x] = tq.completed[y] => x = y
      BY <1>2 DEF DeviceHas
    <3>3. \A x \in 1 .. Len(a), y \in 1 .. Len(tq.completed) : tq.avail[x].id # tq.completed[y]
      BY <1>2, <1>18 DEF DeviceHas
    <3>4. CASE i \in 1 .. Len(a) /\ dev[i] = tq.avail[i].id
      BY <1>21, <2>1, <3>1, <3>3, <3>4
    <3>5. CASE i - Len(a) \in 1 .. Len(tq.completed) /\ dev[i] = tq.completed[i - Len(a)]
      <4>1. ~(j \in 1 .. Len(a) /\ dev[j] = tq.avail[j].id)
        BY <2>1, <3>3, <3>5
      <4>2. j - Len(a) \in 1 .. Len(tq.completed) /\ dev[j] = tq.completed[j - Len(a)]
        BY <1>21, <4>1
      <4>3. i - Len(a) = j - Len(a)
        BY <2>1, <3>2, <3>5, <4>2
      <4>. QED  BY <1>20, <4>3
    <3>. QED  BY <1>21, <3>4, <3>5
  <2>. QED  BY <1>20, <2>1 DEF IsInjective
<1>23. ASSUME NEW d \in 0 .. TqSize
       PROVE  d \in Range(w) <=> d \notin Range(dev)
  <2>1. Range(w) = {w[k] : k \in 0 .. TqSize} /\ Range(dev) = {dev[i] : i \in 1 .. Len(dev)}
    BY <1>15, <1>20 DEF Range
  <2>2. CASE d = TqSize
    <3>1. d \in Range(w)
      BY <1>0, <1>16, <2>1, <2>2
    <3>2. \A i \in 1 .. Len(dev) : dev[i] \in Id /\ dev[i] # TqSize
      BY <1>0, <1>20, SMTT(30) DEF Id
    <3>. QED  BY <2>1, <2>2, <3>1, <3>2
  <2>3. CASE d # TqSize
    <3>1. d \in 0 .. TqSize - 1
      BY <1>0, <2>3
    <3>2. CASE \E i \in 1 .. n : l[i] = d
      <4>1. PICK i \in 1 .. n : l[i] = d
        BY <3>2
      <4>2. i - 1 \in 0 .. TqSize /\ w[i - 1] = d
        <5>1. i - 1 \in 0 .. TqSize /\ i - 1 < n /\ i - 1 + 1 = i
          BY <1>0, <1>3
        <5>2. v[i - 1] = l[i]
          BY <1>4, <5>1
        <5>. QED  BY <1>15, <4>1, <5>1, <5>2
      <4>3. ASSUME NEW j \in 1 .. Len(dev) PROVE dev[j] # d
        <5>1. \A x \in 1 .. Len(a) : tq.avail[x].id # d
          BY <1>2, <1>18, <4>1 DEF DeviceHas
        <5>2. \A x \in 1 .. Len(tq.completed) : tq.completed[x] # d
          BY <1>2, <4>1 DEF DeviceHas
        <5>. QED  BY <1>21, <5>1, <5>2
      <4>. QED  BY <2>1, <4>2, <4>3
    <3>3. CASE ~ \E i \in 1 .. n : l[i] = d
      <4>1. \A k \in 0 .. TqSize : w[k] # d
        BY <1>3, <1>4, <1>15, <2>3, <3>3
      <4>2. \E j \in 1 .. Len(dev) : dev[j] = d
        <5>1. CASE \E i \in 1 .. Len(tq.avail) : tq.avail[i].id = d
          <6>1. PICK i \in 1 .. Len(a) : tq.avail[i].id = d
            BY <1>18, <5>1
          <6>2. i \in 1 .. Len(dev)
            BY <1>20
          <6>3. dev[i] = d
            BY <1>18, <1>20, <6>1
          <6>. QED  BY <6>2, <6>3
        <5>2. CASE \E i \in 1 .. Len(tq.completed) : tq.completed[i] = d
          <6>1. PICK i \in 1 .. Len(tq.completed) : tq.completed[i] = d
            BY <5>2
          <6>2. Len(a) + i \in 1 .. Len(dev) /\ dev[Len(a) + i] = d
            BY <1>20, <6>1
          <6>. QED  BY <6>2
        <5>. QED  BY <1>2, <3>1, <3>3, <5>1, <5>2 DEF DeviceHas
      <4>. QED  BY <2>1, <4>1, <4>2
    <3>. QED  BY <3>2, <3>3
  <2>. QED  BY <2>2, <2>3
<1>24. Range(w) \subseteq 0 .. TqSize
  <2>1. \A k \in 0 .. TqSize : v[k] \in 0 .. TqSize
    BY <1>0, <1>3, <1>4, <1>5 DEF Id
  <2>. QED  BY <1>15, <2>1 DEF Range
<1>25. Range(w) = (0 .. TqSize) \ Range(dev)
  BY <1>23, <1>24
<1> HIDE DEF device
<1>. QED  BY <1>10, <1>16, <1>19, <1>22, <1>25

------------------------------------------------------------------------------
(* The bytes in a sequence of packets.                                     *)

(* The bytes from a + 1 to b, none of them beyond b.                       *)
Stream(g, packets, a, b) ==
    /\ Chain(g, packets, a, b)
    /\ \A i \in DOMAIN packets : Data(g, packets[i]) => End(packets[i]) <= b

(* The numbers of a packet.                                                *)
LEMMA PacketNumbers ==
    ASSUME NEW p \in Packet
    PROVE  p.first \in Nat /\ p.size \in 0 .. Payload /\ p.size \in Nat /\ p.fwd_cnt \in Counter
BY VsockAssumption DEF Packet

(* No packet, no byte.                                                     *)
LEMMA StreamEmpty ==
    ASSUME NEW g, NEW a
    PROVE  Stream(g, <<>>, a, a)
BY DEF Stream, Chain

(* A packet without data adds none.                                        *)
LEMMA StreamOther ==
    ASSUME NEW g, NEW s \in Seq(Packet), NEW p \in Packet, NEW a \in Nat, NEW b \in Nat,
           Stream(g, s, a, b), ~Data(g, p)
    PROVE  Stream(g, Append(s, p), a, b)
<1>1. PICK t : t = Append(s, p)
  OBVIOUS
<1>2. DOMAIN s = 1 .. Len(s) /\ Len(s) \in Nat /\ DOMAIN t = 1 .. Len(s) + 1
      /\ t[Len(s) + 1] = p /\ \A i \in 1 .. Len(s) : t[i] = s[i]
  BY <1>1
<1>3. {i \in DOMAIN t : Data(g, t[i])} = {i \in DOMAIN s : Data(g, s[i])}
  BY <1>2
<1>4. \A i \in DOMAIN s : s[i] = t[i]
  BY <1>2
<1>. QED  BY <1>1, <1>2, <1>3, <1>4 DEF Stream, Chain

(* Data that continues what is there adds its bytes.                       *)
LEMMA StreamData ==
    ASSUME NEW g, NEW s \in Seq(Packet), NEW p \in Packet, NEW a \in Nat, NEW b \in Nat,
           Stream(g, s, a, b), Data(g, p), p.first = b + 1
    PROVE  Stream(g, Append(s, p), a, b + p.size)
<1>1. PICK t : t = Append(s, p)
  OBVIOUS
<1>2. DOMAIN s = 1 .. Len(s) /\ Len(s) \in Nat /\ DOMAIN t = 1 .. Len(s) + 1
      /\ t[Len(s) + 1] = p /\ \A i \in 1 .. Len(s) : t[i] = s[i]
  BY <1>1
<1>3. PICK D : D = {i \in DOMAIN s : Data(g, s[i])}
  OBVIOUS
<1>4. PICK n : n = Len(s) + 1
  OBVIOUS
<1>5. PICK E : E = {i \in DOMAIN t : Data(g, t[i])}
  OBVIOUS
<1>6. E = D \cup {n} /\ n \in Nat /\ \A i \in D : i \in Nat /\ i < n /\ t[i] = s[i]
  BY <1>2, <1>3, <1>4, <1>5
<1>7. p.size \in Nat /\ p.first \in Nat /\ End(p) = b + p.size /\ t[n] = p
  <2>1. p.size \in Nat /\ p.first \in Nat
    BY VsockAssumption DEF Packet
  <2>. QED  BY <1>2, <1>4, <2>1, SMTT(30) DEF End
<1>8. ASSUME NEW j \in E
      PROVE  /\ (\A i \in E : i >= j) => t[j].first = a + 1
             /\ \A i \in E : i < j /\ (\A k \in E : k <= i \/ k >= j)
                   => t[j].first = End(t[i]) + 1
             /\ (\A i \in E : i <= j) => End(t[j]) = b + p.size
  <2>1. CASE j = n
    <3>1. (\A i \in E : i >= j) => D = {}
      BY <1>6, <2>1
    <3>2. D = {} => a = b
      BY <1>3 DEF Stream, Chain
    <3>3. ASSUME NEW i \in E, i < j, \A k \in E : k <= i \/ k >= j
          PROVE  End(s[i]) = b /\ t[i] = s[i]
      <4>1. i \in D /\ \A k \in D : k <= i
        BY <1>6, <2>1, <3>3
      <4>. QED  BY <1>3, <1>6, <4>1 DEF Stream, Chain
    <3>. QED  BY <1>7, <2>1, <3>1, <3>2, <3>3
  <2>2. CASE j # n
    <3>0. j \in D /\ t[j] = s[j] /\ n \in E /\ ~(n <= j)
      BY <1>6, <2>2
    <3>1. (\A i \in E : i >= j) => t[j].first = a + 1
      <4>1. (\A i \in D : i >= j) => s[j].first = a + 1
        BY <1>3, <3>0 DEF Stream, Chain
      <4>. QED  BY <1>6, <3>0, <4>1
    <3>2. ASSUME NEW i \in E, i < j, \A k \in E : k <= i \/ k >= j
          PROVE  t[j].first = End(t[i]) + 1
      <4>1. i \in D /\ t[i] = s[i]
        BY <1>6, <3>0, <3>2
      <4>2. s[j].first = End(s[i]) + 1
        BY <1>3, <1>6, <3>0, <3>2, <4>1 DEF Stream, Chain
      <4>. QED  BY <3>0, <4>1, <4>2
    <3>. QED  BY <3>0, <3>1, <3>2
  <2>. QED  BY <2>1, <2>2
<1>9. Chain(g, t, a, b + p.size)
  <2>1. E # {}
    BY <1>6
  <2>. QED  BY <1>5, <1>8, <2>1 DEF Chain
<1>10. ASSUME NEW i \in DOMAIN t, Data(g, t[i]) PROVE End(t[i]) <= b + p.size
  <2>1. CASE i \in D
    <3>1. End(s[i]) <= b /\ s[i] \in Packet
      BY <1>2, <1>3, <2>1 DEF Stream
    <3>2. s[i].first \in Nat /\ s[i].size \in Nat
      BY <3>1, PacketNumbers
    <3>3. End(s[i]) \in Int
      BY <3>2 DEF End
    <3>4. t[i] = s[i]
      BY <1>6, <2>1
    <3>. QED  BY <1>7, <3>1, <3>3, <3>4
  <2>2. CASE i = n
    BY <1>7, <2>2
  <2>. QED  BY <1>5, <1>6, <1>10, <2>1, <2>2
<1>. QED  BY <1>1, <1>9, <1>10 DEF Stream

(* A packet without data is taken off and nothing changes.                 *)
LEMMA StreamTailOther ==
    ASSUME NEW g, NEW s \in Seq(Packet), s # <<>>, NEW a \in Nat, NEW b \in Nat,
           Stream(g, s, a, b), ~Data(g, Head(s))
    PROVE  Stream(g, Tail(s), a, b)
<1>1. PICK t : t = Tail(s)
  OBVIOUS
<1>2. /\ Len(s) \in Nat \ {0} /\ DOMAIN s = 1 .. Len(s) /\ DOMAIN t = 1 .. Len(s) - 1
      /\ s[1] = Head(s) /\ \A i \in DOMAIN t : i + 1 \in DOMAIN s /\ t[i] = s[i + 1]
  BY <1>1
<1>3. PICK D : D = {i \in DOMAIN s : Data(g, s[i])}
  OBVIOUS
<1>4. PICK E : E = {i \in DOMAIN t : Data(g, t[i])}
  OBVIOUS
<1>5. \A i \in E : i \in Nat /\ i + 1 \in D /\ t[i] = s[i + 1]
  BY <1>2, <1>3, <1>4
<1>6. \A i \in D : i \in Nat /\ i - 1 \in E /\ t[i - 1] = s[i]
  <2> SUFFICES ASSUME NEW i \in D PROVE i \in Nat /\ i - 1 \in E /\ t[i - 1] = s[i]
    OBVIOUS
  <2>1. i \in 1 .. Len(s) /\ i # 1
    BY <1>2, <1>3
  <2>2. i - 1 \in DOMAIN t /\ i - 1 + 1 = i
    BY <1>2, <2>1
  <2>. QED  BY <1>2, <1>3, <1>4, <2>1, <2>2
<1>7. E = {} => D = {}
  BY <1>6
<1>8. ASSUME NEW j \in E
      PROVE  /\ (\A i \in E : i >= j) => t[j].first = a + 1
             /\ \A i \in E : i < j /\ (\A k \in E : k <= i \/ k >= j)
                   => t[j].first = End(t[i]) + 1
             /\ (\A i \in E : i <= j) => End(t[j]) = b
  <2>0. j + 1 \in D /\ t[j] = s[j + 1]
    BY <1>5
  <2>1. (\A i \in E : i >= j) => (\A i \in D : i >= j + 1)
    BY <1>5, <1>6
  <2>2. (\A i \in E : i <= j) => (\A i \in D : i <= j + 1)
    BY <1>5, <1>6
  <2>3. ASSUME NEW i \in E, i < j, \A k \in E : k <= i \/ k >= j
        PROVE  t[j].first = End(t[i]) + 1
    <3>1. i + 1 \in D /\ t[i] = s[i + 1] /\ i + 1 < j + 1
      BY <1>5, <2>3
    <3>2. ASSUME NEW k \in D PROVE k <= i + 1 \/ k >= j + 1
      <4>1. k \in Nat /\ i \in Nat /\ j \in Nat
        BY <1>5, <1>6
      <4>2. k = 1 \/ k - 1 \in E
        BY <1>6
      <4>3. k = 1 \/ k - 1 <= i \/ k - 1 >= j
        BY <2>3, <4>2
      <4>. QED  BY <4>1, <4>3
    <3>. QED  BY <1>3, <2>0, <3>1, <3>2 DEF Stream, Chain
  <2>. QED  BY <1>3, <2>0, <2>1, <2>2, <2>3 DEF Stream, Chain
<1>9. Chain(g, t, a, b)
  <2>1. E = {} => a = b
    BY <1>3, <1>7 DEF Stream, Chain
  <2>. QED  BY <1>4, <1>8, <2>1 DEF Chain
<1>10. \A i \in DOMAIN t : Data(g, t[i]) => End(t[i]) <= b
  BY <1>2 DEF Stream
<1>. QED  BY <1>1, <1>9, <1>10 DEF Stream

(* The first data packet carries the first bytes.                          *)
LEMMA StreamTailData ==
    ASSUME NEW g, NEW s \in Seq(Packet), s # <<>>, NEW a \in Nat, NEW b \in Nat,
           Stream(g, s, a, b), Data(g, Head(s))
    PROVE  /\ Head(s) \in Packet /\ Head(s).first = a + 1
           /\ a + Head(s).size <= b
           /\ Stream(g, Tail(s), a + Head(s).size, b)
<1>1. PICK t : t = Tail(s)
  OBVIOUS
<1>2. /\ Len(s) \in Nat \ {0} /\ DOMAIN s = 1 .. Len(s) /\ DOMAIN t = 1 .. Len(s) - 1
      /\ s[1] = Head(s) /\ s[1] \in Packet
      /\ \A i \in DOMAIN t : i + 1 \in DOMAIN s /\ t[i] = s[i + 1]
  BY <1>1
<1>3. PICK D : D = {i \in DOMAIN s : Data(g, s[i])}
  OBVIOUS
<1>4. PICK E : E = {i \in DOMAIN t : Data(g, t[i])}
  OBVIOUS
<1>5. \A i \in E : i \in Nat \ {0} /\ i + 1 \in D /\ t[i] = s[i + 1]
  BY <1>2, <1>3, <1>4
<1>6. ASSUME NEW i \in D PROVE i \in Nat \ {0} /\ (i = 1 \/ (i - 1 \in E /\ t[i - 1] = s[i]))
  <2>1. i \in 1 .. Len(s)
    BY <1>2, <1>3
  <2>2. CASE i # 1
    <3>1. i - 1 \in DOMAIN t /\ i - 1 + 1 = i
      BY <1>2, <2>1, <2>2
    <3>. QED  BY <1>2, <1>3, <1>4, <2>1, <3>1
  <2>. QED  BY <2>1, <2>2
<1>7. 1 \in D /\ \A i \in D : i >= 1
  BY <1>2, <1>3, <1>6
<1>8. s[1].first = a + 1 /\ s[1].size \in Nat /\ End(s[1]) = a + s[1].size
  <2>1. s[1].first = a + 1
    BY <1>3, <1>7 DEF Stream, Chain
  <2>2. s[1].size \in Nat
    BY <1>2, VsockAssumption, SMTT(30) DEF Packet
  <2>. QED  BY <2>1, <2>2 DEF End
<1>9. a + s[1].size <= b
  BY <1>2, <1>8 DEF Stream
<1>10. PICK c \in Nat : c = a + s[1].size
  BY <1>8
<1>11. ASSUME NEW j \in E
       PROVE  /\ (\A i \in E : i >= j) => t[j].first = c + 1
              /\ \A i \in E : i < j /\ (\A k \in E : k <= i \/ k >= j)
                    => t[j].first = End(t[i]) + 1
              /\ (\A i \in E : i <= j) => End(t[j]) = b
  <2>0. j + 1 \in D /\ t[j] = s[j + 1]
    BY <1>5
  <2>1. ASSUME \A i \in E : i >= j PROVE t[j].first = c + 1
    <3>1. \A k \in D : k <= 1 \/ k >= j + 1
      BY <1>5, <1>6, <2>1
    <3>2. 1 < j + 1
      BY <1>5
    <3>3. s[j + 1].first = End(s[1]) + 1
      BY <1>3, <1>7, <2>0, <3>1, <3>2 DEF Stream, Chain
    <3>. QED  BY <1>8, <1>10, <2>0, <3>3
  <2>2. (\A i \in E : i <= j) => (\A i \in D : i <= j + 1)
    BY <1>5, <1>6
  <2>3. ASSUME NEW i \in E, i < j, \A k \in E : k <= i \/ k >= j
        PROVE  t[j].first = End(t[i]) + 1
    <3>1. i + 1 \in D /\ t[i] = s[i + 1] /\ i + 1 < j + 1
      BY <1>5, <2>3
    <3>2. ASSUME NEW k \in D PROVE k <= i + 1 \/ k >= j + 1
      <4>1. k \in Nat /\ i \in Nat /\ j \in Nat
        BY <1>5, <1>6
      <4>2. k = 1 \/ k - 1 \in E
        BY <1>6
      <4>3. k = 1 \/ k - 1 <= i \/ k - 1 >= j
        BY <2>3, <4>2
      <4>. QED  BY <4>1, <4>3
    <3>. QED  BY <1>3, <2>0, <3>1, <3>2 DEF Stream, Chain
  <2>4. (\A i \in E : i <= j) => End(t[j]) = b
    BY <1>3, <2>0, <2>2 DEF Stream, Chain
  <2>. QED  BY <2>1, <2>3, <2>4
<1>12. Chain(g, t, c, b)
  <2>1. E = {} => c = b
    <3>1. E = {} => \A i \in D : i <= 1
      BY <1>6
    <3>2. E = {} => End(s[1]) = b
      BY <1>3, <1>7, <3>1 DEF Stream, Chain
    <3>. QED  BY <1>8, <1>10, <3>2
  <2>. QED  BY <1>4, <1>11, <2>1 DEF Chain
<1>13. \A i \in DOMAIN t : Data(g, t[i]) => End(t[i]) <= b
  BY <1>2 DEF Stream
<1>. QED  BY <1>1, <1>2, <1>8, <1>9, <1>10, <1>12, <1>13 DEF Stream

------------------------------------------------------------------------------
(* What the operations of the transmit queue keep.                         *)

Queues == {q \in TxQueue : /\ ~q.refused /\ Len(q.pending) <= PendingSize
                           /\ \A i \in DOMAIN q.pending : q.pending[i].op # "RW"
                           /\ Descriptors(q.free, q.next, q.avail, q.completed)}

(* Every packet that waits, offered or pending, is in C.                   *)
Holds(q, C) ==
    /\ \A i \in DOMAIN q.avail : q.avail[i].packet \in C
    /\ \A i \in DOMAIN q.pending : q.pending[i] \in C

(* Queues with no packet that q does not hold, and the same data.          *)
Kept(q) ==
    {r \in Queues :
        /\ \A C \in SUBSET Packet : Holds(q, C) => Holds(r, C)
        /\ \A g, a, b \in Nat : Stream(g, Offered(q), a, b) => Stream(g, Offered(r), a, b)}

(* The fields of a queue.                                                  *)
LEMMA QueueFields ==
    ASSUME NEW q \in TxQueue
    PROVE  /\ q.free \in Link /\ q.next \in [Id -> Link] /\ q.avail \in Seq(Desc)
           /\ q.completed \in Seq(Id) /\ q.pending \in Seq(Packet) /\ q.refused \in BOOLEAN
           /\ Len(q.completed) \in Nat /\ Len(q.pending) \in Nat
BY DEF TxQueue, Link, Id, Desc

(* A queue with these fields.                                              *)
LEMMA MakeQueue ==
    ASSUME NEW free \in Link, NEW next \in [Id -> Link], NEW avail \in Seq(Desc),
           NEW completed \in Seq(Id), NEW pending \in Seq(Packet), NEW refused \in BOOLEAN
    PROVE  [free |-> free, next |-> next, avail |-> avail, completed |-> completed,
            pending |-> pending, refused |-> refused] \in TxQueue
BY DEF TxQueue, Link, Id, Desc

(* The packets of the descriptors the device is given.                     *)
LEMMA OfferedSeq ==
    ASSUME NEW q, q.avail \in Seq(Desc)
    PROVE  /\ Offered(q) \in Seq(Packet) /\ Len(Offered(q)) = Len(q.avail)
           /\ Len(q.avail) \in Nat /\ DOMAIN q.avail = 1 .. Len(q.avail)
           /\ \A i \in 1 .. Len(q.avail) : /\ q.avail[i] \in Desc
                                           /\ Offered(q)[i] = q.avail[i].packet
                                           /\ q.avail[i].packet \in Packet
<1>1. DOMAIN q.avail = 1 .. Len(q.avail) /\ Len(q.avail) \in Nat
      /\ \A i \in 1 .. Len(q.avail) : q.avail[i] \in Desc
  OBVIOUS
<1>2. \A i \in 1 .. Len(q.avail) : q.avail[i].packet \in Packet
  BY <1>1 DEF Desc
<1>. QED  BY <1>1, <1>2 DEF Offered

(* One more,                                                               *)
LEMMA OfferedAppend ==
    ASSUME NEW q, NEW r, q.avail \in Seq(Desc), NEW e \in Desc, r.avail = Append(q.avail, e)
    PROVE  Offered(r) = Append(Offered(q), e.packet)
<1>1. r.avail \in Seq(Desc) /\ e.packet \in Packet
  BY DEF Desc
<1>2. PICK n \in Nat : n = Len(q.avail)
  BY OfferedSeq
<1>3. /\ Len(r.avail) = n + 1 /\ r.avail[n + 1] = e
      /\ \A i \in 1 .. n : r.avail[i] = q.avail[i]
  BY <1>2
<1>4. PICK s : s = Offered(q)
  OBVIOUS
<1>5. PICK t : t = Offered(r)
  OBVIOUS
<1>6. s \in Seq(Packet) /\ Len(s) = n /\ \A i \in 1 .. n : s[i] = q.avail[i].packet
  BY <1>2, <1>4, OfferedSeq
<1>7. t \in Seq(Packet) /\ Len(t) = n + 1 /\ \A i \in 1 .. n + 1 : t[i] = r.avail[i].packet
  BY <1>1, <1>3, <1>5, OfferedSeq
<1>8. t[n + 1] = e.packet /\ \A i \in 1 .. n : t[i] = s[i]
  BY <1>2, <1>3, <1>6, <1>7
<1>9. t = Append(s, e.packet)
  BY <1>1, <1>6, <1>7, <1>8
<1>. QED  BY <1>4, <1>5, <1>9

(* and one less.                                                           *)
LEMMA OfferedTail ==
    ASSUME NEW q, NEW r, q.avail \in Seq(Desc), q.avail # <<>>, r.avail = Tail(q.avail)
    PROVE  /\ Offered(q) # <<>> /\ Head(Offered(q)) = Head(q.avail).packet
           /\ Offered(r) = Tail(Offered(q))
<1>1. r.avail \in Seq(Desc)
  OBVIOUS
<1>2. PICK n \in Nat : n = Len(q.avail) /\ n > 0
  BY OfferedSeq
<1>3. Len(r.avail) = n - 1 /\ \A i \in 1 .. n - 1 : r.avail[i] = q.avail[i + 1]
  BY <1>2
<1>4. PICK s : s = Offered(q)
  OBVIOUS
<1>5. PICK t : t = Offered(r)
  OBVIOUS
<1>6. s \in Seq(Packet) /\ Len(s) = n /\ \A i \in 1 .. n : s[i] = q.avail[i].packet
  BY <1>2, <1>4, OfferedSeq
<1>7. t \in Seq(Packet) /\ Len(t) = n - 1 /\ \A i \in 1 .. n - 1 : t[i] = r.avail[i].packet
  BY <1>1, <1>3, <1>5, OfferedSeq
<1>8. \A i \in 1 .. n - 1 : t[i] = s[i + 1]
  <2>1. ASSUME NEW i \in 1 .. n - 1 PROVE t[i] = s[i + 1]
    <3>1. i + 1 \in 1 .. n
      BY <1>2
    <3>. QED  BY <1>3, <1>6, <1>7, <3>1
  <2>. QED  BY <2>1
<1>9. t = Tail(s) /\ s # <<>> /\ Head(s) = s[1]
  BY <1>2, <1>6, <1>7, <1>8, SMTT(30)
<1>10. Head(q.avail) = q.avail[1] /\ s[1] = q.avail[1].packet
  BY <1>2, <1>6
<1>. QED  BY <1>4, <1>5, <1>9, <1>10

(* A queue keeps itself,                                                   *)
LEMMA KeptSelf ==
    ASSUME NEW q \in Queues
    PROVE  q \in Kept(q)
BY Zenon DEF Kept

(* and what a kept one keeps.                                              *)
LEMMA KeptOn ==
    ASSUME NEW q, NEW r \in Kept(q), NEW s \in Kept(r)
    PROVE  s \in Kept(q)
BY Zenon DEF Kept

(* free_completed gives one descriptor back.                               *)
LEMMA FreeCompletedKept ==
    ASSUME NEW q \in Queues
    PROVE  free_completed(q) \in Kept(q)
<1>1. CASE q.completed = <<>>
  BY <1>1, KeptSelf, Zenon DEF free_completed
<1>2. CASE q.completed # <<>>
  <2>1. q \in TxQueue /\ Descriptors(q.free, q.next, q.avail, q.completed)
    BY DEF Queues
  <2>2. PICK d : d = Head(q.completed)
    OBVIOUS
  <2>3. /\ d \in Id /\ q.next[d] = 0
        /\ Descriptors(d, [q.next EXCEPT ![d] = q.free], q.avail, Tail(q.completed))
    BY <1>2, <2>1, <2>2, QueueFields, DescriptorsFree, SMTT(30)
  <2>4. PICK r : r = [free |-> d, next |-> [q.next EXCEPT ![d] = q.free], avail |-> q.avail,
                      completed |-> Tail(q.completed), pending |-> q.pending,
                      refused |-> q.refused]
    OBVIOUS
  <2>5. free_completed(q) = r
    <3>1. ~virtq_is_desc_free(q, d)
      BY <2>3 DEF virtq_is_desc_free
    <3>2. free_completed(q) = [virtq_free_desc(q, d) EXCEPT !.completed = Tail(@)]
      BY <1>2, <2>2, <3>1 DEF free_completed
    <3>3. q = [free |-> q.free, next |-> q.next, avail |-> q.avail,
               completed |-> q.completed, pending |-> q.pending, refused |-> q.refused]
      BY <2>1 DEF TxQueue
    <3>4. virtq_free_desc(q, d) = [q EXCEPT !.free = d, !.next = [q.next EXCEPT ![d] = q.free]]
      BY <3>3 DEF virtq_free_desc
    <3>. QED  BY <2>4, <3>2, <3>3, <3>4
  <2>6. r \in TxQueue
    <3>0. q.free \in Link /\ q.next \in [Id -> Link] /\ q.completed \in Seq(Id)
      BY <2>1, QueueFields
    <3>1. d \in Link
      BY <2>3, VsockAssumption DEF Id, Link
    <3>2. [q.next EXCEPT ![d] = q.free] \in [Id -> Link]
      BY <2>3, <3>0
    <3>3. Tail(q.completed) \in Seq(Id)
      BY <1>2, <3>0
    <3>. QED  BY <2>1, <2>4, <3>1, <3>2, <3>3, QueueFields, MakeQueue
  <2>7. r \in Queues
    BY <2>3, <2>4, <2>6 DEF Queues
  <2>8. r.avail = q.avail /\ r.pending = q.pending
    BY <2>4
  <2>9. Offered(r) = Offered(q) /\ \A C \in SUBSET Packet : Holds(q, C) => Holds(r, C)
    BY <2>8 DEF Offered, Holds
  <2>10. r \in Kept(q)
    BY <2>7, <2>9, Zenon DEF Kept
  <2>. QED  BY <2>5, <2>10
<1>. QED  BY <1>1, <1>2

(* So does cleanup_tq, for all of them.                                    *)
LEMMA CleanupKept ==
    ASSUME NEW q \in Queues
    PROVE  cleanup_tq(q) \in Kept(q)
<1>1. q \in Kept(q)
  BY KeptSelf
<1>2. \A r \in Kept(q) : free_completed(r) \in Kept(q)
  <2>1. \A r \in Kept(q) : r \in Queues
    BY DEF Kept
  <2>2. ASSUME NEW r \in Kept(q) PROVE free_completed(r) \in Kept(q)
    <3>1. free_completed(r) \in Kept(r)
      BY <2>1, FreeCompletedKept
    <3>. QED  BY <3>1, KeptOn
  <2>. QED  BY <2>2
<1>3. Len(q.completed) \in Nat
  BY QueueFields DEF Queues
<1>. QED  BY <1>1, <1>2, <1>3, CleanupStays, Zenon

(* When nothing is completed, nothing changes.                             *)
LEMMA CleanupNothing ==
    ASSUME NEW q, q.completed = <<>>
    PROVE  cleanup_tq(q) = q
<1>1. free_completed(q) = q
  BY Zenon DEF free_completed
<1>2. Len(q.completed) \in Nat
  OBVIOUS
<1>3. PICK Q : Q = {q}
  OBVIOUS
<1>4. \A r \in Q : free_completed(r) \in Q
  BY <1>1, <1>3, Zenon
<1>5. q \in Q
  BY <1>3
<1>6. cleanup_tq(q) \in Q
  BY <1>2, <1>4, <1>5, CleanupStays, Zenon
<1>. QED  BY <1>3, <1>6

(* copy_into_tq_internal, with a descriptor at hand.                       *)
LEMMA CopyIntoTq ==
    ASSUME NEW q \in Queues, HasFree(q), NEW p \in Packet,
           NEW r, r = copy_into_tq_internal(q, p)
    PROVE  /\ r \in Queues /\ r.pending = q.pending /\ r.completed = q.completed
           /\ \A C \in SUBSET Packet : Holds(q, C) /\ p \in C => Holds(r, C)
           /\ Offered(r) = Append(Offered(q), p) /\ Len(r.avail) = Len(q.avail) + 1
           /\ r.avail[Len(r.avail)].packet = p
<1>1. q \in TxQueue /\ Descriptors(q.free, q.next, q.avail, q.completed)
  BY DEF Queues
<1>2. PICK e : e = [id |-> q.free, packet |-> p]
  OBVIOUS
<1>3. /\ q.free \in Id
      /\ Descriptors(q.next[q.free], [q.next EXCEPT ![q.free] = 0], Append(q.avail, e), q.completed)
  BY <1>1, <1>2, QueueFields, DescriptorsAlloc DEF HasFree
<1>4. e \in Desc /\ e.packet = p
  BY <1>2, <1>3 DEF Desc
<1>5. r = [free |-> q.next[q.free], next |-> [q.next EXCEPT ![q.free] = 0],
           avail |-> Append(q.avail, e), completed |-> q.completed,
           pending |-> q.pending, refused |-> q.refused]
  <2>1. q = [free |-> q.free, next |-> q.next, avail |-> q.avail,
             completed |-> q.completed, pending |-> q.pending, refused |-> q.refused]
    BY <1>1 DEF TxQueue
  <2>2. virtq_alloc_desc(q) = [q EXCEPT !.free = q.next[q.free],
                                        !.next = [q.next EXCEPT ![q.free] = 0]]
    BY <2>1 DEF virtq_alloc_desc
  <2>3. r = [virtq_alloc_desc(q) EXCEPT !.avail = Append(@, e)]
    BY <1>2 DEF copy_into_tq_internal
  <2>. QED  BY <2>1, <2>2, <2>3
<1>6. r \in TxQueue
  <2>1. q.next \in [Id -> Link] /\ q.avail \in Seq(Desc)
    BY <1>1, QueueFields
  <2>2. q.next[q.free] \in Link
    BY <1>3, <2>1
  <2>3. [q.next EXCEPT ![q.free] = 0] \in [Id -> Link]
    <3>1. 0 \in Link
      BY VsockAssumption DEF Link
    <3>. QED  BY <1>3, <2>1, <3>1
  <2>4. Append(q.avail, e) \in Seq(Desc)
    BY <1>4, <2>1
  <2>5. q.completed \in Seq(Id) /\ q.pending \in Seq(Packet) /\ q.refused \in BOOLEAN
    BY <1>1, QueueFields
  <2>6. PICK f \in Link, n \in [Id -> Link], a \in Seq(Desc) :
           f = q.next[q.free] /\ n = [q.next EXCEPT ![q.free] = 0] /\ a = Append(q.avail, e)
    BY <2>2, <2>3, <2>4
  <2>7. [free |-> f, next |-> n, avail |-> a, completed |-> q.completed,
         pending |-> q.pending, refused |-> q.refused] \in TxQueue
    BY <2>5, MakeQueue
  <2>. QED  BY <1>5, <2>6, <2>7
<1>7. r.avail = Append(q.avail, e) /\ r.pending = q.pending /\ r.completed = q.completed
  BY <1>5
<1>8. r \in Queues
  <2>1. /\ r.free = q.next[q.free] /\ r.next = [q.next EXCEPT ![q.free] = 0]
        /\ r.refused = q.refused
    BY <1>5
  <2>2. Descriptors(r.free, r.next, r.avail, r.completed)
    BY <1>3, <1>7, <2>1
  <2>. QED  BY <1>6, <1>7, <2>1, <2>2 DEF Queues
<1>9. q.avail \in Seq(Desc)
  BY <1>1, QueueFields
<1>10. Offered(r) = Append(Offered(q), p)
  BY <1>4, <1>7, <1>9, OfferedAppend
<1>11. /\ Len(q.avail) \in Nat /\ Len(r.avail) = Len(q.avail) + 1
       /\ r.avail[Len(q.avail) + 1] = e /\ DOMAIN r.avail = 1 .. Len(q.avail) + 1
       /\ DOMAIN q.avail = 1 .. Len(q.avail)
       /\ \A i \in 1 .. Len(q.avail) : r.avail[i] = q.avail[i]
  BY <1>4, <1>7, <1>9
<1>12. ASSUME NEW C \in SUBSET Packet, Holds(q, C), p \in C PROVE Holds(r, C)
  <2>1. ASSUME NEW i \in DOMAIN r.avail PROVE r.avail[i].packet \in C
    <3>1. i \in 1 .. Len(q.avail) \/ i = Len(q.avail) + 1
      BY <1>11
    <3>. QED  BY <1>4, <1>11, <1>12, <3>1 DEF Holds
  <2>. QED  BY <1>7, <1>12, <2>1 DEF Holds
<1>. QED  BY <1>4, <1>7, <1>8, <1>10, <1>11, <1>12

(* A control packet does not disturb the data, wherever it goes.           *)
LEMMA CopyControl ==
    ASSUME NEW q \in Queues, HasFree(q), NEW p \in Packet, p.op # "RW",
           NEW r, r = copy_into_tq_internal(q, p)
    PROVE  \A g, a, b \in Nat : Stream(g, Offered(q), a, b) => Stream(g, Offered(r), a, b)
<1>1. Offered(r) = Append(Offered(q), p)
  BY CopyIntoTq
<1>2. Offered(q) \in Seq(Packet)
  BY QueueFields, OfferedSeq DEF Queues
<1>3. \A g \in Nat : ~Data(g, p)
  BY DEF Data
<1>. QED  BY <1>1, <1>2, <1>3, StreamOther

(* A pending packet is sent without being lost.                            *)
LEMMA SendOneKept ==
    ASSUME NEW q \in Queues
    PROVE  send_one_pending(q) \in Kept(q)
<1>1. CASE q.pending = <<>> \/ ~HasFree(q)
  BY <1>1, KeptSelf DEF send_one_pending
<1>2. CASE ~(q.pending = <<>> \/ ~HasFree(q))
  <2>1. PICK p : p = Head(q.pending)
    OBVIOUS
  <2>2. PICK t : t = Tail(q.pending)
    OBVIOUS
  <2>3. q.pending \in Seq(Packet) /\ Len(q.pending) <= PendingSize
        /\ \A i \in DOMAIN q.pending : q.pending[i].op # "RW"
    BY QueueFields DEF Queues
  <2>4. /\ p \in Packet /\ t \in Seq(Packet) /\ Len(q.pending) \in Nat \ {0}
        /\ DOMAIN q.pending = 1 .. Len(q.pending) /\ p = q.pending[1]
        /\ DOMAIN t = 1 .. Len(q.pending) - 1 /\ Len(t) = Len(q.pending) - 1
        /\ \A i \in DOMAIN t : i + 1 \in DOMAIN q.pending /\ t[i] = q.pending[i + 1]
    BY <1>2, <2>1, <2>2, <2>3
  <2>5. p.op # "RW" /\ Len(t) <= PendingSize /\ \A i \in DOMAIN t : t[i].op # "RW"
    <3>1. 1 \in DOMAIN q.pending /\ p.op # "RW"
      BY <2>3, <2>4
    <3>2. Len(t) <= PendingSize
      BY <2>3, <2>4, VsockAssumption, SMTT(30)
    <3>3. \A i \in DOMAIN t : t[i].op # "RW"
      BY <2>3, <2>4
    <3>. QED  BY <3>1, <3>2, <3>3
  <2>6. PICK r : r = copy_into_tq_internal(q, p)
    OBVIOUS
  <2>7. /\ r \in Queues /\ r.pending = q.pending
        /\ \A C \in SUBSET Packet : Holds(q, C) /\ p \in C => Holds(r, C)
        /\ \A g, a, b \in Nat : Stream(g, Offered(q), a, b) => Stream(g, Offered(r), a, b)
    BY <1>2, <2>4, <2>5, <2>6, CopyIntoTq, CopyControl
  <2>8. PICK u : u = [r EXCEPT !.pending = t]
    OBVIOUS
  <2>9. send_one_pending(q) = u
    BY <1>2, <2>1, <2>2, <2>6, <2>7, <2>8 DEF send_one_pending
  <2>10. /\ u \in TxQueue /\ u.avail = r.avail /\ u.pending = t /\ u.free = r.free
         /\ u.next = r.next /\ u.completed = r.completed /\ u.refused = r.refused
    BY <2>4, <2>7, <2>8 DEF Queues, TxQueue
  <2>11. u \in Queues
    BY <2>5, <2>7, <2>10 DEF Queues
  <2>12. Offered(u) = Offered(r)
    BY <2>10 DEF Offered
  <2>13. ASSUME NEW C \in SUBSET Packet, Holds(q, C) PROVE Holds(u, C)
    <3>1. p \in C /\ \A i \in DOMAIN t : t[i] \in C
      BY <2>4, <2>13 DEF Holds
    <3>. QED  BY <2>7, <2>10, <2>13, <3>1 DEF Holds
  <2>14. u \in Kept(q)
    BY <2>7, <2>11, <2>12, <2>13, Zenon DEF Kept
  <2>. QED  BY <2>9, <2>14
<1>. QED  BY <1>1, <1>2

(* So are all of them.                                                     *)
LEMMA SendPendingKept ==
    ASSUME NEW q \in Queues
    PROVE  send_pending_tq_control_packets(q) \in Kept(q)
<1>1. q \in Kept(q)
  BY KeptSelf
<1>2. \A r \in Kept(q) : send_one_pending(r) \in Kept(q)
  <2>1. \A r \in Kept(q) : r \in Queues
    BY DEF Kept
  <2>2. ASSUME NEW r \in Kept(q) PROVE send_one_pending(r) \in Kept(q)
    <3>1. send_one_pending(r) \in Kept(r)
      BY <2>1, SendOneKept
    <3>. QED  BY <3>1, KeptOn
  <2>. QED  BY <2>2
<1>3. Len(q.pending) \in Nat
  BY QueueFields DEF Queues
<1>. QED  BY <1>1, <1>2, <1>3, SendPendingStays, Zenon

(* A control packet is offered, kept pending or lost; the others stay.     *)
LEMMA ControlKept ==
    ASSUME NEW q \in Queues, NEW p \in Packet, p.op # "RW",
           NEW r, r = copy_into_tq_or_add_to_pending(q, p).tq
    PROVE  /\ r \in Queues
           /\ \A C \in SUBSET Packet : Holds(q, C) /\ p \in C => Holds(r, C)
           /\ \A g, a, b \in Nat : Stream(g, Offered(q), a, b) => Stream(g, Offered(r), a, b)
<1>1. PICK u : u = CASE HasFree(q) -> copy_into_tq_internal(q, p)
                     [] ~HasFree(q) /\ Len(q.pending) < PendingSize ->
                            [q EXCEPT !.pending = Append(@, p)]
                     [] OTHER -> q
  OBVIOUS
<1>2. r = cleanup_tq(u)
  BY <1>1 DEF copy_into_tq_or_add_to_pending
<1>3. /\ u \in Queues
      /\ \A C \in SUBSET Packet : Holds(q, C) /\ p \in C => Holds(u, C)
      /\ \A g, a, b \in Nat : Stream(g, Offered(q), a, b) => Stream(g, Offered(u), a, b)
  <2>1. CASE HasFree(q)
    <3>1. u = copy_into_tq_internal(q, p)
      BY <1>1, <2>1
    <3>. QED  BY <2>1, <3>1, CopyIntoTq, CopyControl
  <2>2. CASE ~HasFree(q) /\ Len(q.pending) < PendingSize
    <3>1. u = [q EXCEPT !.pending = Append(q.pending, p)]
      BY <1>1, <2>2
    <3>2. q \in TxQueue /\ q.pending \in Seq(Packet)
      BY QueueFields DEF Queues
    <3>3. PICK t : t = Append(q.pending, p)
      OBVIOUS
    <3>4. /\ u \in TxQueue /\ u.avail = q.avail /\ u.pending = t /\ u.free = q.free
          /\ u.next = q.next /\ u.completed = q.completed /\ u.refused = q.refused
      <4>1. t \in Seq(Packet)
        BY <3>2, <3>3
      <4>. QED  BY <3>1, <3>2, <3>3, <4>1 DEF TxQueue
    <3>5. /\ Len(q.pending) \in Nat /\ Len(t) = Len(q.pending) + 1
          /\ DOMAIN q.pending = 1 .. Len(q.pending) /\ DOMAIN t = 1 .. Len(q.pending) + 1
          /\ t[Len(q.pending) + 1] = p /\ \A i \in 1 .. Len(q.pending) : t[i] = q.pending[i]
      BY <3>2, <3>3
    <3>6. \A i \in DOMAIN t : (i \in DOMAIN q.pending /\ t[i] = q.pending[i]) \/ t[i] = p
      BY <3>5
    <3>7. u \in Queues
      <4>1. Len(t) <= PendingSize
        BY <2>2, <3>5, VsockAssumption
      <4>2. \A i \in DOMAIN t : t[i].op # "RW"
        BY <3>6 DEF Queues
      <4>. QED  BY <3>4, <4>1, <4>2 DEF Queues
    <3>8. Offered(u) = Offered(q)
      BY <3>4 DEF Offered
    <3>9. \A C \in SUBSET Packet : Holds(q, C) /\ p \in C => Holds(u, C)
      BY <3>4, <3>6 DEF Holds
    <3>. QED  BY <3>7, <3>8, <3>9, Zenon
  <2>3. CASE ~HasFree(q) /\ ~(Len(q.pending) < PendingSize)
    <3>1. u = q
      BY <1>1, <2>3
    <3>. QED  BY <3>1
  <2>. QED  BY <2>1, <2>2, <2>3
<1>4. r \in Kept(u)
  BY <1>2, <1>3, CleanupKept
<1>. QED  BY <1>3, <1>4, Zenon DEF Kept

(* A data packet is offered, or nothing is.                                *)
LEMMA DataKept ==
    ASSUME NEW q \in Queues, NEW p \in Packet, NEW s, s = copy_into_tq_and_free(q, p)
    PROVE  /\ s.tq \in Queues
           /\ \A C \in SUBSET Packet : Holds(q, C) /\ p \in C => Holds(s.tq, C)
           /\ ~s.sent => s.tq \in Kept(q)
           /\ s.sent => \A g, a, b \in Nat :
                 Stream(g, Offered(q), a, b) /\ Data(g, p) /\ p.first = b + 1
                    => Stream(g, Offered(s.tq), a, b + p.size)
<1>1. PICK u : u = IF HasFree(q) THEN q ELSE cleanup_tq(q)
  OBVIOUS
<1>2. u \in Kept(q) /\ u \in Queues
  <2>1. u \in Kept(q)
    BY <1>1, KeptSelf, CleanupKept
  <2>. QED  BY <2>1 DEF Kept
<1>3. PICK v : v = IF HasFree(u) THEN copy_into_tq_internal(u, p) ELSE u
  OBVIOUS
<1>4. s.sent = HasFree(u) /\ s.tq = cleanup_tq(v)
  BY <1>1, <1>3 DEF copy_into_tq_and_free
<1>5. CASE HasFree(u)
  <2>1. /\ v \in Queues /\ Offered(v) = Append(Offered(u), p)
        /\ \A C \in SUBSET Packet : Holds(u, C) /\ p \in C => Holds(v, C)
    BY <1>2, <1>3, <1>5, CopyIntoTq
  <2>2. s.tq \in Kept(v)
    BY <1>4, <2>1, CleanupKept
  <2>3. s.tq \in Queues
    BY <2>2 DEF Kept
  <2>4. \A C \in SUBSET Packet : Holds(q, C) /\ p \in C => Holds(s.tq, C)
    BY <1>2, <2>1, <2>2, Zenon DEF Kept
  <2>5. ASSUME NEW g \in Nat, NEW a \in Nat, NEW b \in Nat, Stream(g, Offered(q), a, b),
               Data(g, p), p.first = b + 1
        PROVE  Stream(g, Offered(s.tq), a, b + p.size)
    <3>1. Stream(g, Offered(u), a, b)
      BY <1>2, <2>5, Zenon DEF Kept
    <3>2. \A c \in Nat : Stream(g, Offered(v), a, c) => Stream(g, Offered(s.tq), a, c)
      BY <2>2, Zenon DEF Kept
    <3>3. b + p.size \in Nat
      BY PacketNumbers
    <3>4. Offered(u) \in Seq(Packet)
      BY <1>2, QueueFields, OfferedSeq DEF Queues
    <3>5. Stream(g, Offered(v), a, b + p.size)
      BY <2>1, <2>5, <3>1, <3>4, StreamData
    <3>. QED  BY <3>2, <3>3, <3>5
  <2>. QED  BY <1>4, <1>5, <2>3, <2>4, <2>5, Zenon
<1>6. CASE ~HasFree(u)
  <2>1. v = u
    BY <1>3, <1>6
  <2>2. s.tq \in Kept(u)
    BY <1>2, <1>4, <2>1, CleanupKept
  <2>3. s.tq \in Kept(q)
    BY <1>2, <2>2, KeptOn
  <2>. QED  BY <1>4, <1>6, <2>3, Zenon DEF Kept
<1>. QED  BY <1>5, <1>6

------------------------------------------------------------------------------
(* What a read leaves.                                                     *)

(* Packets with something in them.                                         *)
Unread(s) == s \in Seq(Packet) /\ \A i \in DOMAIN s : s[i].size > 0

AllData(g, s) == \A i \in DOMAIN s : Data(g, s[i])

(* The packets without the first n bytes of the first.                     *)
Trimmed(p, n) == [p EXCEPT !.first = p.first + n, !.size = p.size - n]
TrimHead(s, n) == <<Trimmed(Head(s), n)>> \o Tail(s)

(* Trimming takes the bytes that were copied.                              *)
LEMMA TrimFirst ==
    ASSUME NEW s, Unread(s), s # <<>>, NEW n \in Nat, n < Head(s).size,
           NEW t, t = TrimHead(s, n)
    PROVE  /\ Unread(t) /\ Len(t) = Len(s)
           /\ \A g, a, b \in Nat : AllData(g, s) /\ Stream(g, s, a, b)
                 => AllData(g, t) /\ Stream(g, t, a + n, b) /\ a + n <= b
<1>1. PICK p : p = Head(s)
  OBVIOUS
<1>2. /\ s \in Seq(Packet) /\ Len(s) \in Nat \ {0} /\ DOMAIN s = 1 .. Len(s)
      /\ p = s[1] /\ p \in Packet /\ Tail(s) \in Seq(Packet) /\ Len(Tail(s)) = Len(s) - 1
      /\ \A i \in 1 .. Len(s) - 1 : Tail(s)[i] = s[i + 1]
  BY <1>1 DEF Unread
<1>3. PICK u : u = Trimmed(p, n)
  OBVIOUS
<1>4. /\ p.first \in Nat /\ p.size \in 0 .. Payload /\ p.size \in Nat /\ p.size > n
      /\ Payload \in Nat
  <2>1. p.first \in Nat /\ p.size \in 0 .. Payload /\ p.size \in Nat
    BY <1>2, PacketNumbers
  <2>2. n < p.size
    BY <1>1
  <2>. QED  BY <2>1, <2>2, VsockAssumption
<1>5. /\ u \in Packet /\ u.first = p.first + n /\ u.size = p.size - n /\ u.op = p.op
      /\ u.gen = p.gen
  <2>1. p.first + n \in Nat /\ p.size - n \in 0 .. Payload
    BY <1>4
  <2>. QED  BY <1>2, <1>3, <2>1 DEF Trimmed, Packet
<1>6. u.size > 0 /\ End(u) = End(p) /\ \A g \in Nat : Data(g, u) <=> Data(g, p)
  <2>1. u.size > 0
    BY <1>4, <1>5
  <2>2. \A f, z \in Nat : f + n + (z - n) - 1 = f + z - 1
    OBVIOUS
  <2>3. End(u) = End(p)
    BY <1>4, <1>5, <2>2 DEF End
  <2>. QED  BY <1>5, <2>1, <2>3 DEF Data
<1>7. /\ t \in Seq(Packet) /\ Len(t) = Len(s) /\ t[1] = u
      /\ \A i \in 2 .. Len(s) : t[i] = s[i]
  <2>1. <<u>> \in Seq(Packet) /\ Len(<<u>>) = 1 /\ <<u>>[1] = u
    BY <1>5
  <2>2. t = <<u>> \o Tail(s)
    BY <1>1, <1>3 DEF TrimHead
  <2>3. /\ t \in Seq(Packet) /\ Len(t) = 1 + (Len(s) - 1) /\ t[1] = u
        /\ \A i \in 1 .. Len(s) - 1 : t[1 + i] = Tail(s)[i]
    BY <1>2, <2>1, <2>2
  <2>4. ASSUME NEW i \in 2 .. Len(s) PROVE t[i] = s[i]
    <3>1. i - 1 \in 1 .. Len(s) - 1 /\ 1 + (i - 1) = i /\ i - 1 + 1 = i
      BY <1>2
    <3>. QED  BY <1>2, <2>3, <3>1
  <2>. QED  BY <1>2, <2>3, <2>4
<1>8. DOMAIN t = DOMAIN s /\ \A i \in DOMAIN s : i = 1 \/ (i > 1 /\ t[i] = s[i])
  BY <1>2, <1>7
<1>9. Unread(t)
  BY <1>6, <1>7, <1>8 DEF Unread
<1>10. \A i \in DOMAIN s : End(t[i]) = End(s[i])
  BY <1>2, <1>6, <1>7, <1>8
<1>11. \A g \in Nat, i \in DOMAIN s : Data(g, t[i]) <=> Data(g, s[i])
  BY <1>2, <1>6, <1>7, <1>8
<1>12. ASSUME NEW g \in Nat, NEW a \in Nat, NEW b \in Nat, AllData(g, s), Stream(g, s, a, b)
       PROVE  AllData(g, t) /\ Stream(g, t, a + n, b) /\ a + n <= b
  <2>1. AllData(g, t)
    BY <1>8, <1>11, <1>12 DEF AllData
  <2>2. Data(g, p) /\ 1 \in DOMAIN s
    BY <1>2, <1>12 DEF AllData
  <2>3. p.first = a + 1 /\ a + p.size <= b
    BY <1>1, <1>2, <1>12, <2>2, StreamTailData
  <2>4. a + n <= b
    BY <1>4, <2>3
  <2>5. PICK D : D = {i \in DOMAIN s : Data(g, s[i])}
    OBVIOUS
  <2>6. D = {i \in DOMAIN t : Data(g, t[i])} /\ D = DOMAIN s /\ D # {}
    BY <1>8, <1>11, <1>12, <2>2, <2>5 DEF AllData
  <2>7. ASSUME NEW j \in D
        PROVE  /\ (\A i \in D : i >= j) => t[j].first = a + n + 1
               /\ \A i \in D : i < j /\ (\A k \in D : k <= i \/ k >= j)
                     => t[j].first = End(t[i]) + 1
               /\ (\A i \in D : i <= j) => End(t[j]) = b
    <3>1. (\A i \in D : i >= j) => j = 1
      BY <1>2, <2>6
    <3>2. j = 1 => t[j].first = a + n + 1
      BY <1>4, <1>5, <1>7, <2>3
    <3>3. (\A i \in D : i <= j) => End(t[j]) = b
      BY <1>10, <1>12, <2>5, <2>6 DEF Stream, Chain
    <3>4. ASSUME NEW i \in D, i < j, \A k \in D : k <= i \/ k >= j
          PROVE  t[j].first = End(t[i]) + 1
      <4>1. t[j] = s[j]
        BY <1>2, <1>8, <2>6, <3>4
      <4>2. s[j].first = End(s[i]) + 1
        BY <1>12, <2>5, <3>4 DEF Stream, Chain
      <4>. QED  BY <1>10, <2>6, <4>1, <4>2
    <3>. QED  BY <3>1, <3>2, <3>3, <3>4
  <2>8. Chain(g, t, a + n, b)
    BY <2>6, <2>7 DEF Chain
  <2>9. \A i \in DOMAIN t : Data(g, t[i]) => End(t[i]) <= b
    BY <1>8, <1>10, <1>11, <1>12 DEF Stream
  <2>. QED  BY <2>1, <2>4, <2>8, <2>9 DEF Stream
<1>. QED  BY <1>7, <1>9, <1>12

(* Freeing the first packet takes all of it.                               *)
LEMMA FreeFirst ==
    ASSUME NEW s, Unread(s), s # <<>>, NEW t, t = Tail(s)
    PROVE  /\ Unread(t) /\ Len(t) = Len(s) - 1 /\ Head(s).size \in Nat
           /\ \A g, a, b \in Nat : AllData(g, s) /\ Stream(g, s, a, b)
                 => AllData(g, t) /\ Stream(g, t, a + Head(s).size, b) /\ a + Head(s).size <= b
<1>1. s \in Seq(Packet)
  BY DEF Unread
<1>2. /\ Len(s) \in Nat \ {0} /\ DOMAIN s = 1 .. Len(s) /\ t \in Seq(Packet)
      /\ Head(s) = s[1] /\ Head(s) \in Packet
      /\ Len(t) = Len(s) - 1 /\ DOMAIN t = 1 .. Len(s) - 1
      /\ \A i \in DOMAIN t : i + 1 \in DOMAIN s /\ t[i] = s[i + 1]
  BY <1>1
<1>3. Unread(t)
  BY <1>2 DEF Unread
<1>4. ASSUME NEW g \in Nat, NEW a \in Nat, NEW b \in Nat, AllData(g, s), Stream(g, s, a, b)
      PROVE  AllData(g, t) /\ Stream(g, t, a + Head(s).size, b) /\ a + Head(s).size <= b
  <2>1. AllData(g, t) /\ Data(g, Head(s))
    BY <1>2, <1>4 DEF AllData
  <2>. QED  BY <1>1, <1>4, <2>1, StreamTailData
<1>5. Head(s).size \in Nat
  BY <1>2, PacketNumbers
<1>. QED  BY <1>2, <1>3, <1>4, <1>5

(* What the turns of a read of n bytes from s may leave.                   *)
Leaves(s, n) ==
    {r \in [count : 0 .. n, packets : Seq(Packet)] :
        /\ Unread(r.packets) /\ Len(r.packets) <= Len(s)
        /\ \A g, a, b \in Nat : AllData(g, s) /\ Stream(g, s, a, b) /\ a <= b
              => /\ AllData(g, r.packets)
                 /\ Stream(g, r.packets, a + (n - r.count), b)
                 /\ a + (n - r.count) <= b}

(* One turn.                                                               *)
LEMMA CopyPacketLeaves ==
    ASSUME NEW s, Unread(s), NEW n \in Nat, NEW r \in Leaves(s, n)
    PROVE  copy_packet(r) \in Leaves(s, n)
<1>1. /\ r \in [count : 0 .. n, packets : Seq(Packet)] /\ Unread(r.packets)
      /\ Len(r.packets) <= Len(s) /\ r.count \in Nat /\ r.count <= n /\ Len(s) \in Nat
  BY DEF Leaves, Unread
<1>2. PICK p : p = Head(r.packets)
  OBVIOUS
<1>3. CASE r.packets = <<>>
  BY <1>3, Zenon DEF copy_packet
<1>4. CASE r.packets # <<>> /\ p.size <= r.count
  <2>1. PICK t : t = Tail(r.packets)
    OBVIOUS
  <2>2. PICK x : x = [count |-> r.count - p.size, packets |-> t]
    OBVIOUS
  <2>3. copy_packet(r) = x
    BY <1>2, <1>4, <2>1, <2>2 DEF copy_packet
  <2>4. /\ Unread(t) /\ Len(t) = Len(r.packets) - 1 /\ p.size \in Nat
        /\ \A g, a, b \in Nat : AllData(g, r.packets) /\ Stream(g, r.packets, a, b)
              => AllData(g, t) /\ Stream(g, t, a + p.size, b) /\ a + p.size <= b
    BY <1>1, <1>2, <1>4, <2>1, FreeFirst
  <2>5. /\ x \in [count : 0 .. n, packets : Seq(Packet)] /\ x.packets = t
        /\ x.count = r.count - p.size
    BY <1>1, <1>4, <2>2, <2>4 DEF Unread
  <2>6. Len(t) <= Len(s)
    BY <1>1, <2>4
  <2>7. ASSUME NEW g \in Nat, NEW a \in Nat, NEW b \in Nat,
               AllData(g, s), Stream(g, s, a, b), a <= b
        PROVE  AllData(g, t) /\ Stream(g, t, a + (n - x.count), b) /\ a + (n - x.count) <= b
    <3>1. PICK c \in Nat : c = a + (n - r.count)
      BY <1>1
    <3>2. AllData(g, r.packets) /\ Stream(g, r.packets, c, b)
      BY <2>7, <3>1 DEF Leaves
    <3>3. c + p.size = a + (n - x.count)
      BY <1>1, <2>4, <2>5, <3>1, SMTT(30)
    <3>. QED  BY <2>4, <3>2, <3>3
  <2>. QED  BY <2>3, <2>4, <2>5, <2>6, <2>7 DEF Leaves
<1>5. CASE r.packets # <<>> /\ ~(p.size <= r.count)
  <2>1. PICK t : t = TrimHead(r.packets, r.count)
    OBVIOUS
  <2>2. PICK x : x = [count |-> 0, packets |-> t]
    OBVIOUS
  <2>3. copy_packet(r) = x
    BY <1>2, <1>5, <2>1, <2>2 DEF copy_packet, TrimHead, Trimmed
  <2>4. r.count < p.size
    <3>1. r.packets \in Seq(Packet) /\ p \in Packet
      BY <1>1, <1>2, <1>5
    <3>2. p.size \in Nat
      BY <3>1, PacketNumbers
    <3>. QED  BY <1>1, <1>5, <3>2
  <2>5. /\ Unread(t) /\ Len(t) = Len(r.packets)
        /\ \A g, a, b \in Nat : AllData(g, r.packets) /\ Stream(g, r.packets, a, b)
              => AllData(g, t) /\ Stream(g, t, a + r.count, b) /\ a + r.count <= b
    <3>0. PICK k \in Nat : k = r.count
      BY <1>1
    <3>1. PICK y : y = r.packets
      OBVIOUS
    <3>2. Unread(y) /\ y # <<>> /\ k < Head(y).size /\ t = TrimHead(y, k)
      BY <1>1, <1>2, <1>5, <2>1, <2>4, <3>0, <3>1
    <3>3. /\ Unread(t) /\ Len(t) = Len(y)
          /\ \A g, a, b \in Nat : AllData(g, y) /\ Stream(g, y, a, b)
                => AllData(g, t) /\ Stream(g, t, a + k, b) /\ a + k <= b
      BY <3>2, TrimFirst
    <3>. QED  BY <3>0, <3>1, <3>3
  <2>6. x \in [count : 0 .. n, packets : Seq(Packet)] /\ x.packets = t /\ x.count = 0
    BY <2>2, <2>5 DEF Unread
  <2>7. ASSUME NEW g \in Nat, NEW a \in Nat, NEW b \in Nat,
               AllData(g, s), Stream(g, s, a, b), a <= b
        PROVE  AllData(g, t) /\ Stream(g, t, a + (n - x.count), b) /\ a + (n - x.count) <= b
    <3>1. PICK c \in Nat : c = a + (n - r.count)
      BY <1>1
    <3>2. AllData(g, r.packets) /\ Stream(g, r.packets, c, b)
      BY <2>7, <3>1 DEF Leaves
    <3>3. c + r.count = a + (n - x.count)
      BY <1>1, <2>6, <3>1
    <3>. QED  BY <2>5, <3>2, <3>3
  <2>8. Len(t) <= Len(s)
    BY <1>1, <2>5
  <2>. QED  BY <2>3, <2>5, <2>6, <2>7, <2>8 DEF Leaves
<1>. QED  BY <1>3, <1>4, <1>5

(* All of them.                                                            *)
LEMMA ConsumeLeaves ==
    ASSUME NEW s, Unread(s), NEW n \in Nat
    PROVE  Consume(s, n) \in Leaves(s, n)
<1>1. PICK x : x = [count |-> n, packets |-> s]
  OBVIOUS
<1>2. /\ x \in [count : 0 .. n, packets : Seq(Packet)] /\ x.count = n /\ x.packets = s
      /\ Len(s) \in Nat
  BY <1>1 DEF Unread
<1>3. \A a \in Nat : a + (n - x.count) = a
  BY <1>2
<1>4. x \in Leaves(s, n)
  BY <1>2, <1>3 DEF Leaves
<1>5. \A r \in Leaves(s, n) : copy_packet(r) \in Leaves(s, n)
  BY CopyPacketLeaves
<1>. QED  BY <1>1, <1>2, <1>4, <1>5, ConsumeStays, Zenon

------------------------------------------------------------------------------
(* The inductive invariant.  Its first part holds for every incarnation.   *)

(* A connection has a state while it has its ports, and packets.           *)
ConnShape ==
    /\ conn.open \/ conn = NoConn
    /\ conn.ported => conn.open
    /\ conn.state # "CLOSE" => conn.ported
    /\ ~conn.ported => conn.packets = <<>>

(* A write keeps the connection as it found it.                            *)
AppShape ==
    /\ apc = "writing" => conn.used /\ conn.state = "ESTABLISHED"
    /\ apc \in {"connecting", "closing"} => conn.open

Shape == TypeOK /\ tq \in Queues /\ ConnShape /\ AppShape

(* The second part is about the first incarnation: before the request is   *)
(* sent, until the host takes it, and from then on.                        *)
Socket  == [NoConn EXCEPT !.open = TRUE]
Calling == [NoConn EXCEPT !.open = TRUE, !.ported = TRUE, !.state = "CONNECT"]
Request == [op |-> "REQUEST", gen |-> 1, first |-> 0, size |-> 0, flags |-> {},
            fwd_cnt |-> 0, buf_alloc |-> BufAlloc]

Quiet ==
    /\ rx = <<>> /\ host = NoHost /\ bad = NoPacket
    /\ written = 0 /\ taken = 0 /\ ~dropped
    /\ tq.completed = <<>> /\ tq.pending = <<>>

Before == gen = 0 /\ Quiet /\ conn \in {NoConn, Socket} /\ tq.avail = <<>>

Asking ==
    /\ gen = 1 /\ Quiet /\ conn \in {NoConn, Socket, Calling}
    /\ Len(tq.avail) = 1 /\ tq.avail[1].packet = Request

(* What the guest sends after its request.                                 *)
Answers == {p \in Packet : /\ p.gen = 1 /\ p.op # "REQUEST"
                           /\ p.op # "RST" => p.buf_alloc = BufAlloc}

Live == conn.state \in {"CONNECT", "ESTABLISHED"}

(* What the guest knows of the host's reads lags behind, by the order in   *)
(* which the host has reported them.                                       *)
Lag(c) == Minus(written, c)

CreditExact ==
    /\ conn.tx_cnt = written % Mod /\ conn.peer_buf_alloc \in {0, HostBuf}
    /\ Lag(conn.peer_fwd_cnt) <= HostBuf
    /\ written - host.consumed <= Lag(conn.peer_fwd_cnt)
    /\ \A i \in DOMAIN rx : /\ rx[i].buf_alloc = HostBuf
                            /\ Lag(rx[i].fwd_cnt) <= Lag(conn.peer_fwd_cnt)
                            /\ written - host.consumed <= Lag(rx[i].fwd_cnt)
    /\ \A i, j \in DOMAIN rx : i < j => Lag(rx[j].fwd_cnt) <= Lag(rx[i].fwd_cnt)

(* To the host: its bytes are those before the packets it is offered.      *)
DownExact ==
    /\ Stream(1, Offered(tq), host.received, written)
    /\ host.consumed <= host.received /\ host.received <= written

(* From the host: the unread packets, then those in the receive queue.     *)
PacketsExact ==
    AllData(1, conn.packets) /\ Stream(1, conn.packets, taken, Accepted) /\ taken <= Accepted

UpExact == \E S \in 0 .. MaxHost : /\ Stream(1, rx, Accepted, S) /\ Accepted <= S
                                   /\ host.open => S = host.sent

(* A call that is not answered yet has the answer before it.               *)
CallExact == conn.state = "CONNECT" =>
    /\ conn = Calling /\ written = 0 /\ taken = 0
    /\ rx # <<>> /\ Head(rx).op \in {"RESPONSE", "RST"}

(* What is on the wire belongs to the one incarnation.                     *)
Wire ==
    /\ gen = 1 /\ Holds(tq, Answers)
    /\ host.open => host.gen = 1 /\ host.buf_alloc = BufAlloc
    /\ \A i \in DOMAIN rx : rx[i].gen = 1
    /\ bad # NoPacket => bad.gen = 1

Talking ==
    /\ Wire /\ CallExact
    /\ Live /\ host.open => CreditExact /\ DownExact
    /\ Live /\ ~dropped => PacketsExact /\ (~conn.recv_disallowed => UpExact)

Once == gen <= 1 => Before \/ Asking \/ Talking

(* The third part bounds what the host sends.  No count of bytes read that *)
(* is on its way to the host, pending or overtaken, is more than what was  *)
(* read, since a counter is at most what it counts.                        *)
Early(t) == {p \in Packet : p.fwd_cnt <= t}

SentExact ==
    /\ host.fwd_cnt <= taken /\ Accepted <= host.sent
    /\ host.sent < Mod => host.sent <= taken + BufAlloc

ReadExact ==
    /\ conn.fwd_cnt = taken % Mod /\ Holds(tq, Early(taken))
    /\ host.open => SentExact

Bounded == Live /\ ~dropped => ReadExact

CreditKept == gen <= 1 => Bounded

------------------------------------------------------------------------------
(* The constants and the counters.                                         *)

(* The constants are numbers, and the counters can hold the credit.        *)
LEMMA Constants ==
    /\ Payload \in Nat \ {0} /\ MaxPackets \in Nat \ {0} /\ TqSize \in Nat \ {0}
    /\ HostBuf \in Nat \ {0} /\ PendingSize \in Nat /\ MaxGen \in Nat /\ MaxHost \in Nat
    /\ MaxExtra \in Nat /\ MaxOps \in Nat
    /\ Mod \in Nat \ {0} /\ BufAlloc \in Nat /\ BufAlloc < Mod /\ HostBuf < Mod
<1>1. /\ Payload \in Nat \ {0} /\ MaxPackets \in Nat \ {0} /\ TqSize \in Nat \ {0}
      /\ HostBuf \in Nat \ {0} /\ PendingSize \in Nat /\ MaxGen \in Nat /\ MaxHost \in Nat
      /\ MaxExtra \in Nat /\ MaxOps \in Nat /\ Mod \in Nat /\ HostBuf < Mod
  BY VsockAssumption
<1>2. BufAlloc \in Nat
  <2>1. \A a, b \in Nat : a * b \in Nat
    OBVIOUS
  <2>. QED  BY <1>1, <2>1 DEF BufAlloc
<1>3. BufAlloc < Mod
  <2>1. Mod > BufAlloc
    BY VsockAssumption DEF BufAlloc
  <2>. QED  BY <1>1, <1>2, <2>1
<1>. QED  BY <1>1, <1>2, <1>3

(* A remainder is a counter.                                               *)
LEMMA Remainder ==
    ASSUME NEW x \in Int
    PROVE  x % Mod \in Counter
BY Constants DEF Counter

(* Counters are naturals.                                                  *)
LEMMA CounterNat ==
    ASSUME NEW x \in Counter
    PROVE  x \in Nat /\ x < Mod
BY Constants DEF Counter

(* What generate_packet makes.                                             *)
LEMMA Generated ==
    ASSUME NEW c \in Conn, NEW op \in Ops, NEW first \in Nat, NEW size \in 0 .. Payload,
           NEW flags \in Flags, gen \in 0 .. MaxGen
    PROVE  generate_packet(c, op, first, size, flags) \in Packet
<1>1. c.fwd_cnt \in Counter
  BY DEF Conn
<1>. QED  BY <1>1 DEF generate_packet, Packet

(* A control packet of the connection.                                     *)
Control(op, flags) ==
    [op |-> op, gen |-> gen, first |-> 0, size |-> 0, flags |-> flags,
     fwd_cnt |-> conn.fwd_cnt, buf_alloc |-> BufAlloc]

(* The connection after a packet, before the packet's operation.           *)
Seen(p) == [conn EXCEPT !.peer_fwd_cnt = p.fwd_cnt, !.peer_buf_alloc = p.buf_alloc]

(* The fields of the connection.                                           *)
LEMMA ConnFields ==
    ASSUME NEW c \in Conn
    PROVE  /\ c.open \in BOOLEAN /\ c.state \in {"CLOSE", "CONNECT", "ESTABLISHED", "CLOSING"}
           /\ c.ported \in BOOLEAN /\ c.used \in BOOLEAN /\ c.peer_fwd_cnt \in Counter
           /\ c.peer_buf_alloc \in {0, BufAlloc, HostBuf} /\ c.tx_cnt \in Counter
           /\ c.fwd_cnt \in Counter /\ c.recv_disallowed \in BOOLEAN
           /\ c.send_disallowed \in BOOLEAN /\ c.packets \in Seq(Packet)
BY DEF Conn

(* A connection with other credit of the host.                             *)
LEMMA SeenFields ==
    ASSUME conn \in Conn, NEW p \in Packet, NEW c, c = Seen(p)
    PROVE  /\ c \in Conn /\ c.open = conn.open /\ c.state = conn.state /\ c.ported = conn.ported
           /\ c.used = conn.used /\ c.tx_cnt = conn.tx_cnt /\ c.fwd_cnt = conn.fwd_cnt
           /\ c.recv_disallowed = conn.recv_disallowed
           /\ c.send_disallowed = conn.send_disallowed /\ c.packets = conn.packets
           /\ c.peer_fwd_cnt = p.fwd_cnt /\ c.peer_buf_alloc = p.buf_alloc
<1>1. p.fwd_cnt \in Counter /\ p.buf_alloc \in {0, BufAlloc, HostBuf}
  BY DEF Packet
<1>. QED  BY <1>1 DEF Seen, Conn

(* The outcomes of process_packet.                                         *)
Ignored  == ~(conn.open /\ conn.ported) /\ conn' = conn /\ tq' = tq /\ dropped' = dropped

Answered(p) ==
    /\ conn.state = "CONNECT" /\ p.op = "RESPONSE"
    /\ conn' = [Seen(p) EXCEPT !.state = "ESTABLISHED"]
    /\ tq' = tq /\ dropped' = dropped

WasReset(p) ==
    /\ conn.ported /\ p.op = "RST"
    /\ conn' = cleanup_connection(Seen(p))
    /\ tq' = tq /\ dropped' = dropped

OnlySeen(p) ==
    /\ conn.ported
    /\ conn.state = "CONNECT" => p.op \notin {"RESPONSE", "RST"}
    /\ conn.state = "ESTABLISHED" /\ p.op = "RW" => conn.recv_disallowed
    /\ conn' = Seen(p) /\ tq' = tq /\ dropped' = dropped

Queued(p) ==
    /\ conn.state = "ESTABLISHED" /\ p.op = "RW" /\ ~conn.recv_disallowed
    /\ Len(conn.packets) < MaxPackets
    /\ conn' = [Seen(p) EXCEPT !.packets = Append(Seen(p).packets, p)]
    /\ tq' = tq /\ dropped' = dropped

Lost(p) ==
    /\ conn.state = "ESTABLISHED" /\ p.op = "RW" /\ ~conn.recv_disallowed
    /\ Len(conn.packets) >= MaxPackets
    /\ conn' = Seen(p) /\ tq' = tq /\ dropped' = TRUE

Replied(p) ==
    /\ conn.state = "ESTABLISHED" /\ p.op # "RW"
    /\ \E s, r \in BOOLEAN :
          /\ conn.recv_disallowed => r
          /\ conn' = [Seen(p) EXCEPT !.send_disallowed = s, !.recv_disallowed = r]
    /\ \/ tq' = tq
       \/ \E op \in {"CREDIT_UPDATE", "RST"} :
             tq' = copy_into_tq_or_add_to_pending(tq, Control(op, {})).tq
    /\ dropped' = dropped

(* There are no others.                                                    *)
LEMMA ProcessCases ==
    ASSUME conn \in Conn, rx \in Seq(Packet), ConnShape, process_packet
    PROVE  /\ rx # <<>> /\ rx' = Tail(rx) /\ Head(rx) \in Packet
           /\ bad = NoPacket /\ bad' \in {NoPacket, Head(rx)} /\ apc # "writing"
           /\ UNCHANGED <<host, apc, left, gen, written, taken, extra, ops>>
           /\ \/ Ignored \/ Answered(Head(rx)) \/ WasReset(Head(rx)) \/ OnlySeen(Head(rx))
              \/ Queued(Head(rx)) \/ Lost(Head(rx)) \/ Replied(Head(rx))
<1>0. PICK p : p = Head(rx)
  OBVIOUS
<1>1. /\ rx # <<>> /\ rx' = Tail(rx) /\ bad = NoPacket /\ apc # "writing"
      /\ UNCHANGED <<host, apc, left, gen, written, taken, extra, ops>>
  BY DEF process_packet, ConnectionsLockFree, app
<1>2. p \in Packet
  BY <1>0, <1>1
<1>3. PICK c : c = Seen(p)
  OBVIOUS
<1>4. /\ c \in Conn /\ c.open = conn.open /\ c.state = conn.state /\ c.ported = conn.ported
      /\ c.fwd_cnt = conn.fwd_cnt /\ c.packets = conn.packets
      /\ c.recv_disallowed = conn.recv_disallowed /\ c.send_disallowed = conn.send_disallowed
  BY <1>2, <1>3, SeenFields
<1>5. conn.state # "CLOSE" => conn.ported /\ conn.open
  BY DEF ConnShape
<1> DEFINE Refuse(d) == IF p.op = "RST" THEN Good(d, tq) ELSE Neglect(d) /\ UNCHANGED dropped
<1>6. ASSUME NEW d, Refuse(d)
      PROVE  conn' = d /\ tq' = tq /\ dropped' = dropped /\ bad' \in {NoPacket, p}
  BY <1>0, <1>1, <1>6 DEF Good, Neglect
<1>7. \/ ~(conn.open /\ conn.ported) /\ Refuse(conn)
      \/ /\ conn.open /\ conn.ported
         /\ \/ /\ conn.state = "CONNECT"
               /\ IF p.op = "RESPONSE" THEN Good([c EXCEPT !.state = "ESTABLISHED"], tq)
                  ELSE Refuse(IF p.op = "RST" THEN cleanup_connection(c) ELSE c)
            \/ conn.state = "ESTABLISHED" /\ Established(p, c)
            \/ /\ conn.state = "CLOSING"
               /\ Good(IF p.op = "RST" THEN cleanup_connection(c) ELSE c, tq)
            \/ conn.state = "CLOSE" /\ Refuse(c)
  BY <1>0, <1>3, Zenon DEF process_packet, Seen
<1> HIDE DEF Refuse
<1>8. CASE ~(conn.open /\ conn.ported) /\ Refuse(conn)
  BY <1>0, <1>1, <1>2, <1>6, <1>8 DEF Ignored
<1>9. CASE /\ conn.open /\ conn.ported /\ conn.state = "CONNECT"
           /\ IF p.op = "RESPONSE" THEN Good([c EXCEPT !.state = "ESTABLISHED"], tq)
              ELSE Refuse(IF p.op = "RST" THEN cleanup_connection(c) ELSE c)
  <2>1. CASE p.op = "RESPONSE"
    <3>1. Good([c EXCEPT !.state = "ESTABLISHED"], tq)
      BY <1>9, <2>1
    <3>. QED  BY <1>0, <1>1, <1>2, <1>3, <1>9, <2>1, <3>1 DEF Good, Answered
  <2>2. CASE p.op = "RST"
    <3>1. Refuse(cleanup_connection(c))
      BY <1>9, <2>2
    <3>. QED  BY <1>0, <1>1, <1>2, <1>3, <1>6, <1>9, <2>2, <3>1 DEF WasReset
  <2>3. CASE p.op \notin {"RESPONSE", "RST"}
    <3>1. Refuse(c)
      BY <1>9, <2>3
    <3>. QED  BY <1>0, <1>1, <1>2, <1>3, <1>6, <1>9, <2>3, <3>1 DEF OnlySeen
  <2>. QED  BY <2>1, <2>2, <2>3
<1>10. CASE conn.open /\ conn.ported /\ conn.state = "ESTABLISHED" /\ Established(p, c)
  <2>1. CASE p.op = "RW"
    <3>1. (c.recv_disallowed /\ Good(c, tq)) \/ (~c.recv_disallowed /\ recv_rw_packet(p, c))
      BY <1>10, <2>1 DEF Established
    <3>2. CASE c.recv_disallowed /\ Good(c, tq)
      BY <1>0, <1>1, <1>2, <1>3, <1>4, <1>10, <2>1, <3>2 DEF Good, OnlySeen
    <3>3. CASE ~c.recv_disallowed /\ recv_rw_packet(p, c)
      <4>1. CASE Len(c.packets) < MaxPackets /\ Good([c EXCEPT !.packets = Append(@, p)], tq)
        BY <1>0, <1>1, <1>2, <1>3, <1>4, <1>10, <2>1, <3>3, <4>1 DEF Good, Queued
      <4>2. CASE Len(c.packets) >= MaxPackets /\ Neglect(c) /\ dropped' = TRUE
        BY <1>0, <1>1, <1>2, <1>3, <1>4, <1>10, <2>1, <3>3, <4>2 DEF Neglect, Lost
      <4>. QED  BY <3>3, <4>1, <4>2 DEF recv_rw_packet
    <3>. QED  BY <3>1, <3>2, <3>3
  <2>2. CASE p.op = "CREDIT_REQUEST"
    <3>1. generate_packet(c, "CREDIT_UPDATE", 0, 0, {}) = Control("CREDIT_UPDATE", {})
      BY <1>4 DEF generate_packet, Control
    <3>2. \/ Good(c, send_control(c, "CREDIT_UPDATE", {}).tq)
          \/ Neglect(c) /\ UNCHANGED dropped
      BY <1>10, <2>2 DEF Established
    <3>3. CASE Good(c, send_control(c, "CREDIT_UPDATE", {}).tq)
      <4>1. c = [c EXCEPT !.send_disallowed = conn.send_disallowed,
                          !.recv_disallowed = conn.recv_disallowed]
        BY <1>4 DEF Conn
      <4>2. tq' = copy_into_tq_or_add_to_pending(tq, Control("CREDIT_UPDATE", {})).tq
        BY <3>1, <3>3 DEF Good, send_control
      <4>3. conn' = c /\ dropped' = dropped /\ bad' = bad
        BY <3>3 DEF Good
      <4>4. Replied(p)
        <5>1. conn.send_disallowed \in BOOLEAN /\ conn.recv_disallowed \in BOOLEAN
          BY ConnFields
        <5>. QED  BY <1>3, <1>10, <2>2, <4>1, <4>2, <4>3, <5>1 DEF Replied
      <4>. QED  BY <1>0, <1>1, <1>2, <4>3, <4>4
    <3>4. CASE Neglect(c) /\ UNCHANGED dropped
      BY <1>0, <1>1, <1>2, <1>3, <1>10, <2>2, <3>4 DEF Neglect, OnlySeen
    <3>. QED  BY <3>2, <3>3, <3>4
  <2>3. CASE p.op = "CREDIT_UPDATE"
    <3>1. Good(c, tq)
      BY <1>10, <2>3 DEF Established
    <3>. QED  BY <1>0, <1>1, <1>2, <1>3, <1>10, <2>3, <3>1 DEF Good, OnlySeen
  <2>4. CASE p.op = "SHUTDOWN"
    <3>1. PICK s, r : /\ s = (c.send_disallowed \/ "RCV" \in p.flags)
                      /\ r = (c.recv_disallowed \/ "SEND" \in p.flags)
      OBVIOUS
    <3>2. PICK d : d = [c EXCEPT !.send_disallowed = s, !.recv_disallowed = r]
      OBVIOUS
    <3>3. s \in BOOLEAN /\ r \in BOOLEAN /\ (conn.recv_disallowed => r)
      BY <1>4, <3>1
    <3>4. d.fwd_cnt = conn.fwd_cnt
      BY <1>4, <3>2 DEF Conn
    <3>5. Good(d, IF d.recv_disallowed /\ d.send_disallowed
                     THEN send_control(d, "RST", {}).tq ELSE tq)
      BY <1>10, <2>4, <3>1, <3>2 DEF Established
    <3>6. generate_packet(d, "RST", 0, 0, {}) = Control("RST", {})
      BY <3>4 DEF generate_packet, Control
    <3>7. /\ conn' = d /\ dropped' = dropped /\ bad' = bad
          /\ tq' = tq \/ tq' = copy_into_tq_or_add_to_pending(tq, Control("RST", {})).tq
      BY <3>5, <3>6 DEF Good, send_control
    <3>8. Replied(p)
      BY <1>3, <1>10, <2>4, <3>2, <3>3, <3>7 DEF Replied
    <3>. QED  BY <1>0, <1>1, <1>2, <3>7, <3>8
  <2>5. CASE p.op = "RST"
    <3>1. Good(IF c.recv_disallowed /\ c.send_disallowed THEN c ELSE cleanup_connection(c), tq)
      BY <1>10, <2>5 DEF Established
    <3>2. CASE c.recv_disallowed /\ c.send_disallowed
      BY <1>0, <1>1, <1>2, <1>3, <1>10, <2>5, <3>1, <3>2 DEF Good, OnlySeen
    <3>3. CASE ~(c.recv_disallowed /\ c.send_disallowed)
      BY <1>0, <1>1, <1>2, <1>3, <1>10, <2>5, <3>1, <3>3 DEF Good, WasReset
    <3>. QED  BY <3>2, <3>3
  <2>6. CASE p.op \in {"REQUEST", "RESPONSE"}
    <3>1. Neglect(c) /\ UNCHANGED dropped
      BY <1>10, <2>6 DEF Established
    <3>. QED  BY <1>0, <1>1, <1>2, <1>3, <1>10, <2>6, <3>1 DEF Neglect, OnlySeen
  <2>. QED  BY <1>10, <2>1, <2>2, <2>3, <2>4, <2>5, <2>6 DEF Established
<1>11. CASE /\ conn.open /\ conn.ported /\ conn.state = "CLOSING"
            /\ Good(IF p.op = "RST" THEN cleanup_connection(c) ELSE c, tq)
  <2>1. CASE p.op = "RST"
    BY <1>0, <1>1, <1>2, <1>3, <1>11, <2>1 DEF Good, WasReset
  <2>2. CASE p.op # "RST"
    BY <1>0, <1>1, <1>2, <1>3, <1>11, <2>2 DEF Good, OnlySeen
  <2>. QED  BY <2>1, <2>2
<1>12. CASE conn.open /\ conn.ported /\ conn.state = "CLOSE" /\ Refuse(c)
  BY <1>0, <1>1, <1>2, <1>3, <1>6, <1>12 DEF OnlySeen
<1>. QED  BY <1>7, <1>8, <1>9, <1>10, <1>11, <1>12

------------------------------------------------------------------------------
(* The first part is invariant.                                            *)

(* The connection's part of the type.                                      *)
ConnOK == conn \in Conn /\ Len(conn.packets) <= MaxPackets /\ Unread(conn.packets)

RxOK == rx \in Seq(Packet) /\ \A i \in DOMAIN rx : rx[i].op = "RW" => rx[i].size > 0

RestOK ==
    /\ host \in Host /\ apc \in {"idle", "connecting", "writing", "closing"} /\ left \in Nat
    /\ bad \in Packet \cup {NoPacket}
    /\ gen \in 0 .. MaxGen /\ written \in Nat /\ taken \in Nat
    /\ dropped \in BOOLEAN /\ extra \in 0 .. MaxExtra /\ ops \in 0 .. MaxOps

(* Shape in parts.                                                         *)
LEMMA ShapeParts ==
    Shape <=> ConnOK /\ tq \in Queues /\ RxOK /\ RestOK /\ ConnShape /\ AppShape
<1>1. conn \in Conn => conn.packets \in Seq(Packet)
  BY ConnFields
<1>2. tq \in Queues => tq \in TxQueue /\ Len(tq.pending) <= PendingSize
  BY DEF Queues
<1>. QED  BY <1>1, <1>2 DEF Shape, TypeOK, ConnOK, RxOK, RestOK, Unread

(* A closed socket and one that was just created.                          *)
LEMMA FreshConn ==
    ASSUME NEW c \in {NoConn, Socket, Calling}
    PROVE  /\ c \in Conn /\ Len(c.packets) <= MaxPackets /\ Unread(c.packets)
           /\ c.packets = <<>> /\ ~c.used /\ ~c.recv_disallowed /\ ~c.send_disallowed
           /\ c.peer_fwd_cnt = 0 /\ c.peer_buf_alloc = 0 /\ c.tx_cnt = 0 /\ c.fwd_cnt = 0
           /\ c.state = "CLOSE" \/ (c = Calling /\ c.state = "CONNECT")
           /\ c.ported <=> c = Calling
           /\ c.open <=> c # NoConn
<1>1. 0 \in Counter
  BY Constants DEF Counter
<1>2. NoConn \in Conn /\ Socket \in Conn /\ Calling \in Conn
  <2>1. <<>> \in Seq(Packet)
    OBVIOUS
  <2>2. NoConn \in Conn
    BY <1>1, <2>1 DEF NoConn, Conn
  <2>. QED  BY <2>2 DEF Socket, Calling, Conn
<1>3. /\ c.packets = <<>> /\ ~c.used /\ ~c.recv_disallowed /\ ~c.send_disallowed
      /\ c.peer_fwd_cnt = 0 /\ c.peer_buf_alloc = 0 /\ c.tx_cnt = 0 /\ c.fwd_cnt = 0
      /\ c.state = "CLOSE" \/ (c = Calling /\ c.state = "CONNECT")
      /\ c.ported <=> c = Calling
      /\ c.open <=> c # NoConn
  <2>1. CASE c = NoConn
    <3>1. NoConn # Calling
      BY DEF NoConn, Calling
    <3>. QED  BY <2>1, <3>1 DEF NoConn
  <2>2. CASE c = Socket
    <3>1. Socket # Calling /\ Socket # NoConn
      BY DEF NoConn, Socket, Calling
    <3>. QED  BY <2>2, <3>1 DEF NoConn, Socket
  <2>3. CASE c = Calling
    <3>1. Calling # NoConn
      BY DEF NoConn, Calling
    <3>. QED  BY <2>3, <3>1 DEF NoConn, Calling
  <2>. QED  BY <2>1, <2>2, <2>3
<1>4. Len(c.packets) <= MaxPackets /\ Unread(c.packets)
  BY <1>3, Constants DEF Unread
<1>. QED  BY <1>2, <1>3, <1>4

(* An unconnected host socket.                                             *)
LEMMA NoHostOK == NoHost \in Host /\ ~NoHost.open /\ NoHost.sent = 0 /\ NoHost.received = 0
                  /\ NoHost.consumed = 0 /\ NoHost.fwd_cnt = 0
<1>1. 0 \in Counter /\ 0 \in 0 .. MaxGen /\ 0 \in 0 .. MaxHost
  BY Constants DEF Counter
<1>. QED  BY <1>1 DEF NoHost, Host, Flags

(* Shape holds of the first state,                                         *)
LEMMA ShapeInit == Init => Shape
<1> SUFFICES ASSUME Init PROVE Shape
  OBVIOUS
<1>1. ConnOK /\ ConnShape
  <2>1. conn \in {NoConn, Socket, Calling} /\ conn = NoConn /\ conn # Calling
    <3>1. NoConn # Calling
      BY DEF NoConn, Calling
    <3>. QED  BY <3>1 DEF Init
  <2>. QED  BY <2>1, FreshConn DEF ConnOK, ConnShape
<1>2. tq \in Queues
  <2>1. PICK n : n = [d \in Id |-> d + 1]
    OBVIOUS
  <2>2. n \in [Id -> Link] /\ 0 \in Link
    BY <2>1, Constants DEF Id, Link
  <2>3. tq = [free |-> 0, next |-> n, avail |-> <<>>, completed |-> <<>>, pending |-> <<>>,
              refused |-> FALSE]
    BY <2>1 DEF Init, Id
  <2>4. tq \in TxQueue
    <3>1. <<>> \in Seq(Desc) /\ <<>> \in Seq(Id) /\ <<>> \in Seq(Packet) /\ FALSE \in BOOLEAN
      OBVIOUS
    <3>2. PICK x \in Link, a \in Seq(Desc), c \in Seq(Id), p \in Seq(Packet), r \in BOOLEAN :
             x = 0 /\ a = <<>> /\ c = <<>> /\ p = <<>> /\ r = FALSE
      BY <2>2, <3>1
    <3>3. [free |-> x, next |-> n, avail |-> a, completed |-> c, pending |-> p,
           refused |-> r] \in TxQueue
      BY <2>2, MakeQueue
    <3>. QED  BY <2>3, <3>2, <3>3
  <2>5. Descriptors(tq.free, tq.next, tq.avail, tq.completed)
    BY <2>1, <2>3, DescriptorsInit
  <2>6. ~tq.refused /\ Len(tq.pending) <= PendingSize /\ tq.pending = <<>>
    BY <2>3, Constants
  <2>. QED  BY <2>4, <2>5, <2>6 DEF Queues
<1>3. RxOK
  BY DEF Init, RxOK
<1>4. RestOK
  <2>1. 0 \in 0 .. MaxGen /\ 0 \in 0 .. MaxExtra /\ 0 \in 0 .. MaxOps
    BY Constants
  <2>. QED  BY <2>1, NoHostOK DEF Init, RestOK
<1>5. AppShape
  BY DEF Init, AppShape
<1>. QED  BY <1>1, <1>2, <1>3, <1>4, <1>5, ShapeParts

(* A control packet is a packet.                                           *)
LEMMA ControlPacket ==
    ASSUME Shape, NEW op \in Ops, NEW flags \in Flags
    PROVE  /\ Control(op, flags) \in Packet /\ Control(op, flags).op = op
           /\ Control(op, flags).gen = gen /\ Control(op, flags).buf_alloc = BufAlloc
           /\ Control(op, flags).fwd_cnt = conn.fwd_cnt
<1>1. conn.fwd_cnt \in Counter /\ gen \in 0 .. MaxGen /\ 0 \in 0 .. Payload
  BY ShapeParts, ConnFields, Constants DEF ConnOK, RestOK
<1>. QED  BY <1>1 DEF Control, Packet

(* What the guest sends of itself, in the actions that send.               *)
LEMMA SendControl ==
    ASSUME Shape, NEW op \in Ops \ {"RW"}, NEW flags \in Flags,
           NEW c, c.fwd_cnt = conn.fwd_cnt, NEW r, r = send_control(c, op, flags).tq
    PROVE  /\ r \in Queues
           /\ \A C \in SUBSET Packet : Holds(tq, C) /\ Control(op, flags) \in C => Holds(r, C)
           /\ \A g, a, b \in Nat : Stream(g, Offered(tq), a, b) => Stream(g, Offered(r), a, b)
<1>1. generate_packet(c, op, 0, 0, flags) = Control(op, flags)
  BY DEF generate_packet, Control
<1>2. Control(op, flags) \in Packet /\ Control(op, flags).op # "RW"
  BY ControlPacket
<1>3. r = copy_into_tq_or_add_to_pending(tq, Control(op, flags)).tq
  BY <1>1 DEF send_control
<1>4. tq \in Queues
  BY DEF Shape
<1>. QED  BY <1>2, <1>3, <1>4, ControlKept

(* The parts in the next state.                                            *)
LEMMA ShapePartsNext ==
    (ConnOK /\ tq \in Queues /\ RxOK /\ RestOK /\ ConnShape /\ AppShape)' => Shape'
BY ShapeParts, PTL

(* it is kept by the application's calls that send nothing,                *)
LEMMA ShapeQuietCalls ==
    ASSUME Shape,
           \/ virtio_vsock_socket \/ ConnectDone \/ ConnectTimesOut
           \/ CloseDone \/ CloseTimesOut \/ \E n \in WriteLens : virtio_vsock_write(n)
    PROVE  Shape'
<1>0. ConnOK /\ tq \in Queues /\ RxOK /\ RestOK /\ ConnShape /\ AppShape
  BY ShapeParts
<1>1. CASE virtio_vsock_socket
  <2>1. conn' = Socket /\ UNCHANGED <<tq, rx, host, apc, left, bad, gen, written, taken,
                                      dropped, extra, ops>> /\ apc = "idle"
    BY <1>1 DEF virtio_vsock_socket, Socket, app, hist
  <2>2. Socket # NoConn /\ Socket # Calling
    BY DEF NoConn, Socket, Calling
  <2>3. (ConnOK /\ ConnShape)'
    BY <2>1, <2>2, FreshConn DEF ConnOK, ConnShape
  <2>4. (tq \in Queues /\ RxOK /\ RestOK /\ AppShape)'
    BY <1>0, <2>1 DEF RxOK, RestOK, AppShape
  <2>. QED  BY <2>3, <2>4, ShapePartsNext
<1>2. CASE ConnectDone
  <2>1. /\ conn' = [conn EXCEPT !.used = conn.state = "ESTABLISHED"]
        /\ apc = "connecting" /\ apc' = "idle"
        /\ UNCHANGED <<tq, rx, host, left, bad, gen, written, taken, dropped, extra, ops>>
    BY <1>2 DEF ConnectDone, hist
  <2>2. /\ conn' \in Conn /\ conn'.packets = conn.packets /\ conn'.open = conn.open
        /\ conn'.ported = conn.ported /\ conn'.state = conn.state
    BY <1>0, <2>1 DEF ConnOK, Conn
  <2>3. conn.open
    BY <1>0, <2>1 DEF AppShape
  <2>4. (ConnOK /\ ConnShape)'
    BY <1>0, <2>2, <2>3 DEF ConnOK, ConnShape
  <2>5. (tq \in Queues /\ RxOK /\ RestOK /\ AppShape)'
    BY <1>0, <2>1 DEF RxOK, RestOK, AppShape
  <2>. QED  BY <2>4, <2>5, ShapePartsNext
<1>3. CASE ConnectTimesOut
  <2>1. apc' = "idle" /\ UNCHANGED <<conn, tq, rx, host, left, bad, gen, written, taken,
                                      dropped, extra, ops>>
    BY <1>3 DEF ConnectTimesOut, hist
  <2>2. (ConnOK /\ tq \in Queues /\ RxOK /\ RestOK /\ ConnShape /\ AppShape)'
    BY <1>0, <2>1 DEF ConnOK, RxOK, RestOK, ConnShape, AppShape
  <2>. QED  BY <2>2, ShapePartsNext
<1>4. CASE CloseDone \/ CloseTimesOut
  <2>1. /\ conn' = NoConn /\ written' = 0 /\ taken' = 0 /\ apc' = "idle"
        /\ UNCHANGED <<tq, rx, host, left, bad, gen, dropped, extra, ops>>
    BY <1>4 DEF CloseDone, CloseTimesOut, remove_connection
  <2>2. NoConn # Calling
    BY DEF NoConn, Calling
  <2>3. (ConnOK /\ ConnShape)'
    BY <2>1, <2>2, FreshConn DEF ConnOK, ConnShape
  <2>4. (tq \in Queues /\ RxOK /\ RestOK /\ AppShape)'
    BY <1>0, <2>1 DEF RxOK, RestOK, AppShape
  <2>. QED  BY <2>3, <2>4, ShapePartsNext
<1>5. ASSUME NEW n \in WriteLens, virtio_vsock_write(n) PROVE Shape'
  <2>1. /\ apc' = "writing" /\ left' = n /\ ops' = ops + 1 /\ ops < MaxOps
        /\ conn.used /\ conn.state = "ESTABLISHED"
        /\ UNCHANGED <<conn, tq, rx, host, bad, gen, written, taken, dropped, extra>>
    BY <1>5 DEF virtio_vsock_write, Use
  <2>2. n \in Nat
    BY VsockAssumption
  <2>3. ops' \in 0 .. MaxOps
    BY <1>0, <2>1, Constants DEF RestOK
  <2>4. (ConnOK /\ tq \in Queues /\ RxOK /\ RestOK /\ ConnShape /\ AppShape)'
    BY <1>0, <2>1, <2>2, <2>3 DEF ConnOK, RxOK, RestOK, ConnShape, AppShape
  <2>. QED  BY <2>4, ShapePartsNext
<1>. QED  BY <1>1, <1>2, <1>3, <1>4, <1>5

(* The packet a connect sends.                                             *)
LEMMA ConnectRequest ==
    ASSUME Shape, virtio_vsock_connect
    PROVE  \E p, s :
              /\ p \in Packet /\ p = [Control("REQUEST", {}) EXCEPT !.gen = gen + 1]
              /\ p.op = "REQUEST" /\ p.gen = gen + 1 /\ p.fwd_cnt = conn.fwd_cnt
              /\ s = copy_into_tq_or_add_to_pending(tq, p)
              /\ tq' = s.tq /\ gen' = gen + 1 /\ gen < MaxGen
              /\ conn' = [conn EXCEPT !.ported = TRUE,
                                      !.state = IF s.sent THEN "CONNECT" ELSE conn.state]
              /\ apc' = IF s.sent THEN "connecting" ELSE "idle"
<1>1. PICK p : p = [Control("REQUEST", {}) EXCEPT !.gen = gen + 1]
  OBVIOUS
<1>2. PICK s : s = copy_into_tq_or_add_to_pending(tq, p)
  OBVIOUS
<1>3. generate_packet(conn, "REQUEST", 0, 0, {}) = Control("REQUEST", {})
  BY DEF generate_packet, Control
<1>4. /\ tq' = s.tq /\ gen' = gen + 1 /\ gen < MaxGen
      /\ conn' = [conn EXCEPT !.ported = TRUE,
                              !.state = IF s.sent THEN "CONNECT" ELSE conn.state]
      /\ apc' = IF s.sent THEN "connecting" ELSE "idle"
  BY <1>1, <1>2, <1>3 DEF virtio_vsock_connect
<1>5. gen \in 0 .. MaxGen /\ gen + 1 \in 0 .. MaxGen
  BY <1>4, ShapeParts, Constants DEF RestOK
<1>6. "REQUEST" \in Ops /\ {} \in Flags
  BY DEF Ops, Flags
<1>7. Control("REQUEST", {}) \in Packet
  BY <1>6, ControlPacket
<1>8. p \in Packet /\ p.op = "REQUEST" /\ p.gen = gen + 1 /\ p.fwd_cnt = conn.fwd_cnt
  BY <1>1, <1>5, <1>7 DEF Packet, Control
<1>. QED  BY <1>1, <1>2, <1>4, <1>8

(* by a connect,                                                           *)
LEMMA ShapeConnect ==
    ASSUME Shape, virtio_vsock_connect
    PROVE  Shape'
<1>0. ConnOK /\ tq \in Queues /\ RxOK /\ RestOK /\ ConnShape /\ AppShape
  BY ShapeParts
<1>1. PICK p, s :
              /\ p \in Packet /\ p.op = "REQUEST" /\ s = copy_into_tq_or_add_to_pending(tq, p)
              /\ tq' = s.tq /\ gen' = gen + 1 /\ gen < MaxGen
              /\ conn' = [conn EXCEPT !.ported = TRUE,
                                      !.state = IF s.sent THEN "CONNECT" ELSE conn.state]
              /\ apc' = IF s.sent THEN "connecting" ELSE "idle"
  BY ConnectRequest
<1>2. /\ conn.open /\ conn.state = "CLOSE" /\ apc = "idle"
      /\ UNCHANGED <<rx, host, left, bad, written, taken, dropped, extra, ops>>
  BY DEF virtio_vsock_connect
<1>3. tq' \in Queues
  BY <1>0, <1>1, ControlKept
<1>4. /\ conn' \in Conn /\ conn'.open /\ conn'.ported /\ conn'.packets = conn.packets
  BY <1>0, <1>1, <1>2 DEF ConnOK, Conn
<1>5. (ConnOK /\ ConnShape)'
  BY <1>0, <1>4 DEF ConnOK, ConnShape
<1>6. gen' \in 0 .. MaxGen
  BY <1>0, <1>1, Constants DEF RestOK
<1>7. (RxOK /\ RestOK)'
  BY <1>0, <1>1, <1>2, <1>6 DEF RxOK, RestOK
<1>8. AppShape'
  BY <1>1, <1>4 DEF AppShape
<1>. QED  BY <1>3, <1>5, <1>7, <1>8, ShapePartsNext

(* The packet a write sends.                                               *)
LEMMA WriteSize ==
    ASSUME Shape, NEW size, size = MinOf(MinOf(left, Payload), peer_free_space(conn))
    PROVE  /\ size \in 0 .. Payload /\ size <= left /\ size <= peer_free_space(conn)
           /\ peer_free_space(conn) \in Nat /\ Minus(conn.tx_cnt, conn.peer_fwd_cnt) \in Counter
           /\ generate_packet(conn, "RW", written + 1, size, {}) \in Packet
<1>0. left \in Nat /\ written \in Nat /\ conn \in Conn /\ gen \in 0 .. MaxGen
  BY ShapeParts DEF RestOK, ConnOK
<1>1. conn.tx_cnt \in Nat /\ conn.peer_fwd_cnt \in Nat
  BY <1>0, ConnFields, CounterNat
<1>2. Minus(conn.tx_cnt, conn.peer_fwd_cnt) \in Counter
  BY <1>1, Remainder DEF Minus
<1>3. conn.peer_buf_alloc \in Nat
  BY <1>0, ConnFields, Constants
<1>4. peer_free_space(conn) \in Nat
  <2>1. PICK o \in Nat : o = Minus(conn.tx_cnt, conn.peer_fwd_cnt)
    BY <1>2, CounterNat
  <2>. QED  BY <1>3, <2>1 DEF peer_free_space
<1>5. size \in 0 .. Payload /\ size <= left /\ size <= peer_free_space(conn)
  <2>1. PICK f \in Nat : f = peer_free_space(conn)
    BY <1>4
  <2>. QED  BY <1>0, <2>1, Constants DEF MinOf
<1>6. "RW" \in Ops /\ {} \in Flags /\ written + 1 \in Nat
  BY <1>0 DEF Ops, Flags
<1>7. generate_packet(conn, "RW", written + 1, size, {}) \in Packet
  BY <1>0, <1>5, <1>6, Generated
<1>. QED  BY <1>2, <1>4, <1>5, <1>7

(* by a write,                                                             *)
LEMMA ShapeWrite ==
    ASSUME Shape, WritePacket
    PROVE  Shape'
<1>0. ConnOK /\ tq \in Queues /\ RxOK /\ RestOK /\ ConnShape /\ AppShape
  BY ShapeParts
<1>1. PICK size : size = MinOf(MinOf(left, Payload), peer_free_space(conn))
  OBVIOUS
<1>2. PICK p : p = generate_packet(conn, "RW", written + 1, size, {})
  OBVIOUS
<1>3. PICK s : s = copy_into_tq_and_free(tq, p)
  OBVIOUS
<1>4. size \in Nat /\ size <= left /\ p \in Packet
  BY <1>1, <1>2, WriteSize, Constants
<1>5. s.tq \in Queues
  BY <1>0, <1>3, <1>4, DataKept
<1>6. /\ apc = "writing" /\ apc' = IF left' = 0 THEN "idle" ELSE "writing"
      /\ UNCHANGED <<rx, host, bad, gen, taken, dropped, extra, ops>>
  BY DEF WritePacket
<1>7. \/ /\ tq' = s.tq /\ conn' = [conn EXCEPT !.tx_cnt = Plus(conn.tx_cnt, size)]
         /\ written' = written + size /\ left' = left - size
      \/ tq' = s.tq /\ left' = 0 /\ UNCHANGED <<conn, written>>
      \/ left' = 0 /\ UNCHANGED <<conn, tq, written>>
  BY <1>1, <1>2, <1>3 DEF WritePacket
<1>8. tq' \in Queues
  BY <1>0, <1>5, <1>7
<1>9. written' \in Nat /\ left' \in Nat
  BY <1>0, <1>4, <1>7 DEF RestOK
<1>10. Plus(conn.tx_cnt, size) \in Counter
  <2>1. conn.tx_cnt \in Nat
    BY <1>0, ConnFields, CounterNat DEF ConnOK
  <2>. QED  BY <1>4, <2>1, Remainder DEF Plus
<1>11. /\ conn' \in Conn /\ conn'.packets = conn.packets /\ conn'.open = conn.open
       /\ conn'.ported = conn.ported /\ conn'.state = conn.state /\ conn'.used = conn.used
  BY <1>0, <1>7, <1>10 DEF ConnOK, Conn
<1>12. conn.state = "ESTABLISHED" /\ conn.used /\ conn.open
  BY <1>0, <1>6 DEF AppShape, ConnShape
<1>13. (ConnOK /\ ConnShape)'
  BY <1>0, <1>11, <1>12 DEF ConnOK, ConnShape
<1>14. (RxOK /\ RestOK /\ AppShape)'
  BY <1>0, <1>6, <1>9, <1>11, <1>12 DEF RxOK, RestOK, AppShape
<1>. QED  BY <1>8, <1>13, <1>14, ShapePartsNext

(* What a read does, in terms of what it leaves.                           *)
LEMMA ReadCases ==
    ASSUME Shape, NEW n \in ReadLens, virtio_vsock_read(n)
    PROVE  \E r \in Leaves(conn.packets, n) :
              /\ n \in Nat /\ r.count \in 0 .. n /\ Unread(r.packets)
              /\ Len(r.packets) <= Len(conn.packets)
              /\ conn' = [conn EXCEPT !.packets = r.packets,
                                      !.fwd_cnt = Plus(conn.fwd_cnt, n - r.count)]
              /\ conn' \in Conn /\ conn'.packets = r.packets /\ conn'.state = conn.state
              /\ conn'.fwd_cnt = Plus(conn.fwd_cnt, n - r.count)
              /\ conn'.open = conn.open /\ conn'.ported = conn.ported /\ conn'.used = conn.used
              /\ conn'.tx_cnt = conn.tx_cnt /\ conn'.peer_fwd_cnt = conn.peer_fwd_cnt
              /\ conn'.peer_buf_alloc = conn.peer_buf_alloc
              /\ conn'.recv_disallowed = conn.recv_disallowed
              /\ taken' = taken + (n - r.count)
              /\ \E p \in Packet :
                    /\ p.op = "CREDIT_UPDATE" /\ p.gen = gen /\ p.buf_alloc = BufAlloc
                    /\ p.fwd_cnt = conn'.fwd_cnt
                    /\ tq' = copy_into_tq_or_add_to_pending(tq, p).tq
<1>0. ConnOK /\ RestOK
  BY ShapeParts
<1>1. n \in Nat
  BY VsockAssumption
<1>2. PICK r : r = Consume(conn.packets, n)
  OBVIOUS
<1>3. r \in Leaves(conn.packets, n)
  BY <1>0, <1>1, <1>2, ConsumeLeaves DEF ConnOK
<1>4. r.count \in 0 .. n /\ Unread(r.packets) /\ Len(r.packets) <= Len(conn.packets)
  BY <1>3 DEF Leaves
<1>5. PICK c : c = [conn EXCEPT !.packets = r.packets, !.fwd_cnt = Plus(conn.fwd_cnt, n - r.count)]
  OBVIOUS
<1>6. /\ conn' = c /\ tq' = send_control(c, "CREDIT_UPDATE", {}).tq
      /\ taken' = taken + (n - r.count)
  BY <1>2, <1>5 DEF virtio_vsock_read
<1>7. Plus(conn.fwd_cnt, n - r.count) \in Counter
  <2>1. conn.fwd_cnt \in Nat
    BY <1>0, ConnFields, CounterNat DEF ConnOK
  <2>2. conn.fwd_cnt + (n - r.count) \in Int
    BY <1>1, <1>4, <2>1
  <2>. QED  BY <2>2, Remainder DEF Plus
<1>8. /\ c \in Conn /\ c.packets = r.packets /\ c.state = conn.state
      /\ c.fwd_cnt = Plus(conn.fwd_cnt, n - r.count)
      /\ c.open = conn.open /\ c.ported = conn.ported /\ c.used = conn.used
      /\ c.tx_cnt = conn.tx_cnt /\ c.peer_fwd_cnt = conn.peer_fwd_cnt
      /\ c.peer_buf_alloc = conn.peer_buf_alloc
      /\ c.recv_disallowed = conn.recv_disallowed
  BY <1>0, <1>4, <1>5, <1>7 DEF ConnOK, Conn, Unread
<1>9. PICK p : p = generate_packet(c, "CREDIT_UPDATE", 0, 0, {})
  OBVIOUS
<1>10. p \in Packet
  <2>1. "CREDIT_UPDATE" \in Ops /\ {} \in Flags /\ 0 \in 0 .. Payload /\ 0 \in Nat
    BY Constants DEF Ops, Flags
  <2>. QED  BY <1>0, <1>8, <1>9, <2>1, Generated DEF RestOK
<1>11. p.op = "CREDIT_UPDATE" /\ p.gen = gen /\ p.buf_alloc = BufAlloc /\ p.fwd_cnt = c.fwd_cnt
  BY <1>9 DEF generate_packet
<1>12. tq' = copy_into_tq_or_add_to_pending(tq, p).tq
  BY <1>6, <1>9 DEF send_control
<1>. QED  BY <1>1, <1>3, <1>4, <1>5, <1>6, <1>8, <1>10, <1>11, <1>12

(* by a read,                                                              *)
LEMMA ShapeRead ==
    ASSUME Shape, NEW n \in ReadLens, virtio_vsock_read(n)
    PROVE  Shape'
<1>0. ConnOK /\ tq \in Queues /\ RxOK /\ RestOK /\ ConnShape /\ AppShape
  BY ShapeParts
<1>1. PICK r : /\ n \in Nat /\ r.count \in 0 .. n /\ Unread(r.packets)
               /\ Len(r.packets) <= Len(conn.packets)
               /\ conn' \in Conn /\ conn'.packets = r.packets /\ conn'.state = conn.state
               /\ conn'.open = conn.open /\ conn'.ported = conn.ported
               /\ taken' = taken + (n - r.count)
  BY ReadCases
<1>2. PICK p \in Packet : /\ p.op = "CREDIT_UPDATE"
                          /\ tq' = copy_into_tq_or_add_to_pending(tq, p).tq
  BY ReadCases
<1>3. /\ apc = "idle" /\ conn.open /\ ops < MaxOps /\ ops' = ops + 1
      /\ conn.state = "ESTABLISHED"
      /\ UNCHANGED <<rx, host, apc, left, bad, gen, written, dropped, extra>>
  BY DEF virtio_vsock_read, Use, app
<1>4. tq' \in Queues
  BY <1>0, <1>2, ControlKept
<1>5. (ConnOK /\ ConnShape)'
  <2>1. Len(conn'.packets) <= MaxPackets
    <3>1. conn.packets \in Seq(Packet) /\ Len(conn.packets) \in Nat /\ Len(r.packets) \in Nat
      BY <1>0, <1>1 DEF ConnOK, Unread
    <3>. QED  BY <1>0, <1>1, <3>1, Constants DEF ConnOK
  <2>2. conn.ported
    BY <1>0, <1>3 DEF ConnShape
  <2>. QED  BY <1>1, <1>3, <2>1, <2>2 DEF ConnOK, ConnShape
<1>6. ops' \in 0 .. MaxOps /\ taken' \in Nat
  BY <1>0, <1>1, <1>3, Constants DEF RestOK
<1>7. (RxOK /\ RestOK /\ AppShape)'
  BY <1>0, <1>3, <1>6 DEF RxOK, RestOK, AppShape
<1>. QED  BY <1>4, <1>5, <1>7, ShapePartsNext

(* by a shutdown,                                                          *)
LEMMA ShapeShutdown ==
    ASSUME Shape, NEW f \in Flags, virtio_vsock_shutdown(f)
    PROVE  Shape'
<1>0. ConnOK /\ tq \in Queues /\ RxOK /\ RestOK /\ ConnShape /\ AppShape
  BY ShapeParts
<1>1. /\ conn' = [conn EXCEPT !.recv_disallowed = conn.recv_disallowed \/ "RCV" \in f,
                              !.send_disallowed = conn.send_disallowed \/ "SEND" \in f]
      /\ tq' = send_control(conn, "SHUTDOWN", f).tq
      /\ apc = "idle" /\ conn.open /\ ops < MaxOps /\ ops' = ops + 1
      /\ UNCHANGED <<rx, host, apc, left, bad, gen, written, taken, dropped, extra>>
  BY DEF virtio_vsock_shutdown, Use, app
<1>2. tq' \in Queues
  <2>1. "SHUTDOWN" \in Ops \ {"RW"}
    BY DEF Ops
  <2>. QED  BY <1>1, <2>1, SendControl
<1>3. /\ conn' \in Conn /\ conn'.packets = conn.packets /\ conn'.open = conn.open
      /\ conn'.ported = conn.ported /\ conn'.state = conn.state
  BY <1>0, <1>1 DEF ConnOK, Conn
<1>4. (ConnOK /\ ConnShape)'
  BY <1>0, <1>1, <1>3 DEF ConnOK, ConnShape
<1>5. ops' \in 0 .. MaxOps
  BY <1>0, <1>1, Constants DEF RestOK
<1>6. (RxOK /\ RestOK /\ AppShape)'
  BY <1>0, <1>1, <1>5 DEF RxOK, RestOK, AppShape
<1>. QED  BY <1>2, <1>4, <1>6, ShapePartsNext

(* by a close,                                                             *)
LEMMA ShapeClose ==
    ASSUME Shape, virtio_vsock_close
    PROVE  Shape'
<1>0. ConnOK /\ tq \in Queues /\ RxOK /\ RestOK /\ ConnShape /\ AppShape
  BY ShapeParts
<1>1. /\ apc = "idle" /\ conn.open
      /\ UNCHANGED <<rx, host, left, bad, gen, dropped, extra, ops>>
  BY DEF virtio_vsock_close
<1>2. /\ \/ tq' = tq
         \/ tq' = send_control(conn, "SHUTDOWN", {"RCV", "SEND"}).tq
      /\ \/ /\ conn' = [conn EXCEPT !.state = "CLOSING"] /\ apc' = "closing"
            /\ conn.state = "ESTABLISHED" /\ UNCHANGED <<written, taken>>
         \/ conn' = NoConn /\ written' = 0 /\ taken' = 0 /\ apc' = apc
  BY DEF virtio_vsock_close, virtio_vsock_close_common, remove_connection
<1>3. tq' \in Queues
  <2>1. "SHUTDOWN" \in Ops \ {"RW"} /\ {"RCV", "SEND"} \in Flags
    BY DEF Ops, Flags
  <2>2. send_control(conn, "SHUTDOWN", {"RCV", "SEND"}).tq \in Queues
    BY <2>1, SendControl
  <2>. QED  BY <1>0, <1>2, <2>2
<1>4. (RxOK /\ RestOK)'
  BY <1>0, <1>1, <1>2 DEF RxOK, RestOK
<1>5. CASE /\ conn' = [conn EXCEPT !.state = "CLOSING"] /\ apc' = "closing"
           /\ conn.state = "ESTABLISHED"
  <2>1. /\ conn' \in Conn /\ conn'.packets = conn.packets /\ conn'.open = conn.open
        /\ conn'.ported = conn.ported /\ conn'.state = "CLOSING"
    BY <1>0, <1>5 DEF ConnOK, Conn
  <2>2. (ConnOK /\ ConnShape /\ AppShape)'
    BY <1>0, <1>1, <1>5, <2>1 DEF ConnOK, ConnShape, AppShape
  <2>. QED  BY <1>3, <1>4, <2>2, ShapePartsNext
<1>6. CASE conn' = NoConn /\ apc' = apc
  <2>1. NoConn # Calling
    BY DEF NoConn, Calling
  <2>2. (ConnOK /\ ConnShape /\ AppShape)'
    BY <1>1, <1>6, <2>1, FreshConn DEF ConnOK, ConnShape, AppShape
  <2>. QED  BY <1>3, <1>4, <2>2, ShapePartsNext
<1>. QED  BY <1>2, <1>5, <1>6

(* The receive queue without its first packet.                             *)
LEMMA RxTail ==
    ASSUME RxOK, rx # <<>>, NEW t, t = Tail(rx)
    PROVE  /\ t \in Seq(Packet) /\ Head(rx) \in Packet /\ Head(rx) = rx[1] /\ 1 \in DOMAIN rx
           /\ Head(rx).op = "RW" => Head(rx).size > 0
           /\ \A i \in DOMAIN t : i \in Nat /\ i + 1 \in DOMAIN rx /\ t[i] = rx[i + 1]
           /\ \A i \in DOMAIN t : t[i].op = "RW" => t[i].size > 0
<1>1. /\ t \in Seq(Packet) /\ Head(rx) \in Packet /\ Head(rx) = rx[1] /\ 1 \in DOMAIN rx
      /\ \A i \in DOMAIN t : i \in Nat /\ i + 1 \in DOMAIN rx /\ t[i] = rx[i + 1]
  BY DEF RxOK
<1>. QED  BY <1>1 DEF RxOK

(* by the processing of a packet,                                          *)
LEMMA ShapeProcess ==
    ASSUME Shape, process_packet
    PROVE  Shape'
<1>0. ConnOK /\ tq \in Queues /\ RxOK /\ RestOK /\ ConnShape /\ AppShape
  BY ShapeParts
<1>1. PICK p : p = Head(rx)
  OBVIOUS
<1>2. /\ rx # <<>> /\ rx' = Tail(rx) /\ p \in Packet
      /\ bad' \in {NoPacket, p} /\ apc # "writing"
      /\ UNCHANGED <<host, apc, left, gen, written, taken, extra, ops>>
      /\ \/ Ignored \/ Answered(p) \/ WasReset(p) \/ OnlySeen(p)
         \/ Queued(p) \/ Lost(p) \/ Replied(p)
  BY <1>0, <1>1, ProcessCases DEF ConnOK, RxOK
<1>3. RxOK'
  BY <1>0, <1>2, RxTail DEF RxOK
<1>4. dropped' \in BOOLEAN
  BY <1>0, <1>2 DEF RestOK, Ignored, Answered, WasReset, OnlySeen, Queued, Lost, Replied
<1>5. RestOK'
  BY <1>0, <1>2, <1>4 DEF RestOK
<1>6. tq' \in Queues
  <2>1. ASSUME Replied(p) PROVE tq' \in Queues
    <3>1. ASSUME NEW op \in {"CREDIT_UPDATE", "RST"}
          PROVE  copy_into_tq_or_add_to_pending(tq, Control(op, {})).tq \in Queues
      <4>1. op \in Ops /\ {} \in Flags /\ op # "RW"
        BY DEF Ops, Flags
      <4>2. Control(op, {}) \in Packet /\ Control(op, {}).op # "RW"
        BY <4>1, ControlPacket
      <4>. QED  BY <1>0, <4>2, ControlKept
    <3>. QED  BY <1>0, <2>1, <3>1 DEF Replied
  <2>. QED  BY <1>0, <1>2, <2>1 DEF Ignored, Answered, WasReset, OnlySeen, Queued, Lost
<1>7. PICK c : c = Seen(p)
  OBVIOUS
<1>8. /\ c \in Conn /\ c.open = conn.open /\ c.state = conn.state /\ c.ported = conn.ported
      /\ c.used = conn.used /\ c.packets = conn.packets
  BY <1>0, <1>2, <1>7, SeenFields DEF ConnOK
<1>9. CASE Ignored
  <2>1. (ConnOK /\ ConnShape /\ AppShape)'
    BY <1>0, <1>2, <1>9 DEF Ignored, ConnOK, ConnShape, AppShape
  <2>. QED  BY <1>3, <1>5, <1>6, <2>1, ShapePartsNext
<1>10. CASE ~Ignored
  <2>1. conn.ported /\ conn.open
    BY <1>0, <1>2, <1>10 DEF ConnShape, Answered, WasReset, OnlySeen, Queued, Lost, Replied
  <2>2. CASE Queued(p)
    <3>1. conn' = [c EXCEPT !.packets = Append(conn.packets, p)] /\ p.op = "RW"
          /\ Len(conn.packets) < MaxPackets
      BY <1>7, <1>8, <2>2 DEF Queued
    <3>2. PICK t : t = Append(conn.packets, p)
      OBVIOUS
    <3>3. conn.packets \in Seq(Packet) /\ Unread(conn.packets)
      BY <1>0 DEF ConnOK, Unread
    <3>4. /\ t \in Seq(Packet) /\ Len(t) = Len(conn.packets) + 1 /\ Len(conn.packets) \in Nat
          /\ DOMAIN t = 1 .. Len(conn.packets) + 1 /\ t[Len(conn.packets) + 1] = p
          /\ DOMAIN conn.packets = 1 .. Len(conn.packets)
          /\ \A i \in 1 .. Len(conn.packets) : t[i] = conn.packets[i]
      BY <1>2, <3>2, <3>3
    <3>5. Len(t) <= MaxPackets
      BY <3>1, <3>4, Constants
    <3>6. p.size > 0
      BY <1>0, <1>1, <1>2, <3>1, RxTail
    <3>7. Unread(t)
      <4>1. \A i \in DOMAIN t : i \in DOMAIN conn.packets \/ i = Len(conn.packets) + 1
        BY <3>4
      <4>. QED  BY <3>3, <3>4, <3>6, <4>1 DEF Unread
    <3>8. /\ conn' \in Conn /\ conn'.packets = t /\ conn'.open = conn.open
          /\ conn'.ported = conn.ported
      BY <1>8, <3>1, <3>2, <3>4 DEF Conn
    <3>9. (ConnOK /\ ConnShape /\ AppShape)'
      BY <1>2, <2>1, <3>5, <3>7, <3>8 DEF ConnOK, ConnShape, AppShape
    <3>. QED  BY <1>3, <1>5, <1>6, <3>9, ShapePartsNext
  <2>3. CASE WasReset(p)
    <3>1. conn' = [c EXCEPT !.packets = <<>>, !.ported = FALSE, !.state = "CLOSE"]
      BY <1>7, <2>3 DEF WasReset, cleanup_connection
    <3>2. /\ conn' \in Conn /\ conn'.packets = <<>> /\ conn'.open = conn.open
          /\ ~conn'.ported /\ conn'.state = "CLOSE"
      <4>1. <<>> \in Seq(Packet)
        OBVIOUS
      <4>. QED  BY <1>8, <3>1, <4>1 DEF Conn
    <3>3. Len(conn'.packets) <= MaxPackets /\ Unread(conn'.packets)
      BY <3>2, Constants DEF Unread
    <3>4. (ConnOK /\ ConnShape /\ AppShape)'
      BY <1>2, <2>1, <3>2, <3>3 DEF ConnOK, ConnShape, AppShape
    <3>. QED  BY <1>3, <1>5, <1>6, <3>4, ShapePartsNext
  <2>4. CASE Answered(p) \/ OnlySeen(p) \/ Lost(p) \/ Replied(p)
    <3>1. /\ conn' \in Conn /\ conn'.packets = conn.packets /\ conn'.open = conn.open
          /\ conn'.ported = conn.ported
      <4>1. CASE Answered(p)
        <5>1. conn' = [c EXCEPT !.state = "ESTABLISHED"]
          BY <1>7, <4>1 DEF Answered
        <5>. QED  BY <1>8, <5>1 DEF Conn
      <4>2. CASE OnlySeen(p) \/ Lost(p)
        BY <1>7, <1>8, <4>2 DEF OnlySeen, Lost
      <4>3. CASE Replied(p)
        <5>1. PICK s \in BOOLEAN, r \in BOOLEAN :
                 conn' = [c EXCEPT !.send_disallowed = s, !.recv_disallowed = r]
          BY <1>7, <4>3 DEF Replied
        <5>. QED  BY <1>8, <5>1 DEF Conn
      <4>. QED  BY <2>4, <4>1, <4>2, <4>3
    <3>2. (ConnOK /\ ConnShape /\ AppShape)'
      BY <1>0, <1>2, <2>1, <3>1 DEF ConnOK, ConnShape, AppShape
    <3>. QED  BY <1>3, <1>5, <1>6, <3>2, ShapePartsNext
  <2>. QED  BY <1>2, <1>10, <2>2, <2>3, <2>4
<1>. QED  BY <1>9, <1>10

(* The reset that answers a bad packet.                                    *)
LEMMA ResetPacket ==
    ASSUME NEW g \in 0 .. MaxGen,
           NEW p, p = [op |-> "RST", gen |-> g, first |-> 0, size |-> 0, flags |-> {},
                       fwd_cnt |-> 0, buf_alloc |-> 0]
    PROVE  /\ p \in Packet /\ p.op = "RST" /\ p.gen = g /\ p.fwd_cnt = 0
<1>1. 0 \in Counter /\ 0 \in 0 .. Payload
  BY Constants DEF Counter
<1>. QED  BY <1>1 DEF Packet, Ops, Flags

(* by a reset of what was bad, and by the processing of the transmit queue,*)
LEMMA ShapeTransmit ==
    ASSUME Shape, neglect_packet \/ PollTransmit
    PROVE  Shape'
<1>0. ConnOK /\ tq \in Queues /\ RxOK /\ RestOK /\ ConnShape /\ AppShape
  BY ShapeParts
<1>1. CASE neglect_packet
  <2>1. PICK p : p = [op |-> "RST", gen |-> bad.gen, first |-> 0, size |-> 0, flags |-> {},
                      fwd_cnt |-> 0, buf_alloc |-> 0]
    OBVIOUS
  <2>2. /\ bad # NoPacket /\ bad' = NoPacket
        /\ tq' = copy_into_tq_or_add_to_pending(tq, p).tq
        /\ UNCHANGED <<conn, rx, host, apc, left, gen, written, taken, dropped, extra, ops>>
    BY <1>1, <2>1 DEF neglect_packet, app, hist
  <2>3. bad.gen \in 0 .. MaxGen
    BY <1>0, <2>2 DEF RestOK, Packet
  <2>4. tq' \in Queues
    <3>1. p \in Packet /\ p.op # "RW"
      BY <2>1, <2>3, ResetPacket
    <3>. QED  BY <1>0, <2>2, <3>1, ControlKept
  <2>5. (ConnOK /\ RxOK /\ RestOK /\ ConnShape /\ AppShape)'
    BY <1>0, <2>2 DEF ConnOK, RxOK, RestOK, ConnShape, AppShape
  <2>. QED  BY <2>4, <2>5, ShapePartsNext
<1>2. CASE PollTransmit
  <2>1. /\ tq' = send_pending_tq_control_packets(cleanup_tq(tq))
        /\ UNCHANGED <<conn, rx, host, apc, left, bad, gen, written, taken, dropped, extra, ops>>
    BY <1>2 DEF PollTransmit, app, hist
  <2>2. cleanup_tq(tq) \in Queues
    BY <1>0, CleanupKept DEF Kept
  <2>3. tq' \in Queues
    BY <2>1, <2>2, SendPendingKept DEF Kept
  <2>4. (ConnOK /\ RxOK /\ RestOK /\ ConnShape /\ AppShape)'
    BY <1>0, <2>1 DEF ConnOK, RxOK, RestOK, ConnShape, AppShape
  <2>. QED  BY <2>3, <2>4, ShapePartsNext
<1>. QED  BY <1>1, <1>2

(* What the host sends is a packet.                                        *)
LEMMA ToGuestPacket ==
    ASSUME NEW h \in Host, NEW op \in Ops, NEW first \in Nat, NEW size \in 0 .. Payload,
           NEW flags \in Flags, NEW p, p = ToGuest(h, op, first, size, flags)
    PROVE  /\ p \in Packet /\ p.op = op /\ p.gen = h.gen /\ p.first = first /\ p.size = size
           /\ p.fwd_cnt = h.consumed % Mod /\ p.buf_alloc = HostBuf
<1>1. h.gen \in 0 .. MaxGen /\ h.consumed \in Nat
  BY DEF Host
<1>2. h.consumed % Mod \in Counter
  BY <1>1, Remainder
<1>. QED  BY <1>1, <1>2 DEF ToGuest, Packet

(* One more packet in the receive queue.                                   *)
LEMMA RxAppend ==
    ASSUME RxOK, NEW p \in Packet, p.op = "RW" => p.size > 0, NEW t, t = Append(rx, p)
    PROVE  /\ t \in Seq(Packet) /\ \A i \in DOMAIN t : t[i].op = "RW" => t[i].size > 0
           /\ DOMAIN rx = 1 .. Len(rx) /\ Len(rx) \in Nat /\ DOMAIN t = 1 .. Len(rx) + 1
           /\ t[Len(rx) + 1] = p /\ \A i \in DOMAIN rx : i \in DOMAIN t /\ t[i] = rx[i]
           /\ \A i \in DOMAIN t : i \in DOMAIN rx \/ i = Len(rx) + 1
           /\ t # <<>> /\ rx # <<>> => Head(t) = Head(rx)
<1>1. rx \in Seq(Packet)
  BY DEF RxOK
<1>2. /\ t \in Seq(Packet)
      /\ DOMAIN rx = 1 .. Len(rx) /\ Len(rx) \in Nat /\ DOMAIN t = 1 .. Len(rx) + 1
      /\ t[Len(rx) + 1] = p /\ \A i \in 1 .. Len(rx) : t[i] = rx[i]
  BY <1>1
<1>3. /\ \A i \in DOMAIN rx : i \in DOMAIN t /\ t[i] = rx[i]
      /\ \A i \in DOMAIN t : i \in DOMAIN rx \/ i = Len(rx) + 1
  BY <1>2
<1>4. \A i \in DOMAIN t : t[i].op = "RW" => t[i].size > 0
  BY <1>2, <1>3 DEF RxOK
<1>5. t # <<>> /\ rx # <<>> => Head(t) = Head(rx)
  BY <1>1, <1>2
<1>. QED  BY <1>2, <1>3, <1>4, <1>5

(* How the host answers: with nothing, or with one packet.                 *)
HostOutcome ==
    /\ host' \in Host
    /\ \/ rx' = rx
       \/ \E p \in Packet : p.op # "RW" /\ rx' = Append(rx, p)

(* The host's socket with the credit of a packet.                          *)
LEMMA HostCredits ==
    ASSUME host \in Host, NEW in \in Packet,
           NEW h, h = [host EXCEPT !.fwd_cnt = in.fwd_cnt, !.buf_alloc = in.buf_alloc]
    PROVE  /\ h \in Host /\ h.open = host.open /\ h.gen = host.gen /\ h.sent = host.sent
           /\ h.received = host.received /\ h.consumed = host.consumed
           /\ h.fwd_cnt = in.fwd_cnt /\ h.buf_alloc = in.buf_alloc
           /\ h.closing = host.closing /\ h.shut = host.shut
<1>1. in.fwd_cnt \in Counter /\ in.buf_alloc \in {0, BufAlloc, HostBuf}
  BY DEF Packet
<1>. QED  BY <1>1 DEF Host

(* There are no other outcomes.                                            *)
LEMMA HostReceivesOK ==
    ASSUME host \in Host, NEW in \in Packet, HostReceives(in)
    PROVE  HostOutcome
<1>1. PICK h : h = [host EXCEPT !.fwd_cnt = in.fwd_cnt, !.buf_alloc = in.buf_alloc]
  OBVIOUS
<1>2. h \in Host /\ h.received \in Nat /\ h.shut \in Flags
  BY <1>1, HostCredits DEF Host
<1>3. /\ in.gen \in 0 .. MaxGen /\ in.flags \in Flags /\ in.fwd_cnt \in Counter
      /\ in.buf_alloc \in {0, BufAlloc, HostBuf} /\ in.size \in Nat
  BY PacketNumbers DEF Packet
<1>4. Reset(in) \in Packet /\ Reset(in).op = "RST"
  BY <1>3, ResetPacket DEF Reset
<1>5. CASE ~host.open /\ in.op = "REQUEST"
  <2>1. PICK n : n = [NoHost EXCEPT !.open = TRUE, !.gen = in.gen,
                                    !.fwd_cnt = in.fwd_cnt, !.buf_alloc = in.buf_alloc]
    OBVIOUS
  <2>2. n \in Host
    BY <1>3, <2>1, NoHostOK DEF Host
  <2>3. "RESPONSE" \in Ops /\ {} \in Flags /\ 0 \in 0 .. Payload /\ 0 \in Nat
    BY Constants DEF Ops, Flags
  <2>4. PICK p : p = ToGuest(n, "RESPONSE", 0, 0, {})
    OBVIOUS
  <2>5. p \in Packet /\ p.op = "RESPONSE"
    BY <2>2, <2>3, <2>4, ToGuestPacket
  <2>6. \/ host' = n /\ rx' = Append(rx, p)
        \/ rx' = Append(rx, Reset(in)) /\ UNCHANGED host
    BY <1>5, <2>1, <2>4 DEF HostReceives
  <2>. QED  BY <1>4, <2>2, <2>5, <2>6 DEF HostOutcome
<1>6. CASE ~host.open /\ in.op # "REQUEST"
  <2>1. rx' = (IF in.op = "RST" THEN rx ELSE Append(rx, Reset(in))) /\ UNCHANGED host
    BY <1>6 DEF HostReceives
  <2>. QED  BY <1>4, <2>1 DEF HostOutcome
<1>7. CASE host.open /\ in.op = "RST"
  <2>1. host' = NoHost /\ UNCHANGED rx
    BY <1>7 DEF HostReceives
  <2>. QED  BY <2>1, NoHostOK DEF HostOutcome
<1>8. CASE host.open /\ in.op = "SHUTDOWN"
  <2>1. IF host.shut \cup in.flags = {"RCV", "SEND"}
        THEN host' = NoHost /\ rx' = Append(rx, Reset(in))
        ELSE host' = [h EXCEPT !.shut = h.shut \cup in.flags] /\ UNCHANGED rx
    BY <1>1, <1>8 DEF HostReceives
  <2>2. [h EXCEPT !.shut = h.shut \cup in.flags] \in Host
    <3>1. h.shut \cup in.flags \in Flags
      BY <1>2, <1>3 DEF Flags
    <3>. QED  BY <1>2, <3>1 DEF Host
  <2>. QED  BY <1>4, <2>1, <2>2, NoHostOK DEF HostOutcome
<1>9. CASE host.open /\ in.op = "RW"
  <2>1. host' = [h EXCEPT !.received = h.received + in.size] /\ UNCHANGED rx
    BY <1>1, <1>9 DEF HostReceives
  <2>2. h.received + in.size \in Nat
    BY <1>2, <1>3
  <2>3. host' \in Host
    BY <1>2, <2>1, <2>2 DEF Host
  <2>. QED  BY <2>1, <2>3 DEF HostOutcome
<1>10. CASE host.open /\ in.op \in {"CREDIT_UPDATE", "REQUEST"}
  <2>1. host' = h /\ UNCHANGED rx
    BY <1>1, <1>10 DEF HostReceives
  <2>. QED  BY <1>2, <2>1 DEF HostOutcome
<1>. QED  BY <1>5, <1>6, <1>7, <1>8, <1>9, <1>10 DEF HostReceives

(* The queue after the device has taken a packet.                          *)
LEMMA TakenQueue ==
    ASSUME NEW q \in Queues, q.avail # <<>>,
           NEW r, r = [q EXCEPT !.avail = Tail(q.avail),
                                !.completed = Append(q.completed, Head(q.avail).id)]
    PROVE  /\ r \in Queues /\ r.avail = Tail(q.avail) /\ r.pending = q.pending
           /\ Head(q.avail).packet \in Packet /\ Head(q.avail) = q.avail[1]
           /\ \A C \in SUBSET Packet : Holds(q, C) => Head(q.avail).packet \in C /\ Holds(r, C)
<1>1. q \in TxQueue /\ Descriptors(q.free, q.next, q.avail, q.completed)
  BY DEF Queues
<1>2. /\ q.free \in Link /\ q.next \in [Id -> Link] /\ q.avail \in Seq(Desc)
      /\ q.completed \in Seq(Id)
  BY <1>1, QueueFields
<1>3. PICK d : d = Head(q.avail).id
  OBVIOUS
<1>4. d \in Id /\ Descriptors(q.free, q.next, Tail(q.avail), Append(q.completed, d))
  BY <1>1, <1>2, <1>3, DescriptorsTake
<1>5. Tail(q.avail) \in Seq(Desc) /\ Append(q.completed, d) \in Seq(Id)
  BY <1>2, <1>4
<1>6. /\ r \in TxQueue /\ r.avail = Tail(q.avail) /\ r.completed = Append(q.completed, d)
      /\ r.pending = q.pending /\ r.free = q.free /\ r.next = q.next /\ r.refused = q.refused
  <2>1. q = [free |-> q.free, next |-> q.next, avail |-> q.avail,
             completed |-> q.completed, pending |-> q.pending, refused |-> q.refused]
    BY <1>1 DEF TxQueue
  <2>3. PICK a \in Seq(Desc), c \in Seq(Id) : a = Tail(q.avail) /\ c = Append(q.completed, d)
    BY <1>5
  <2>2. PICK x : x = [free |-> q.free, next |-> q.next, avail |-> a, completed |-> c,
                      pending |-> q.pending, refused |-> q.refused]
    OBVIOUS
  <2>4. [free |-> q.free, next |-> q.next, avail |-> a, completed |-> c,
         pending |-> q.pending, refused |-> q.refused] \in TxQueue
    BY <1>1, QueueFields, MakeQueue
  <2>5. r = x
    <3>1. r = [free |-> q.free, next |-> q.next, avail |-> Tail(q.avail),
               completed |-> Append(q.completed, d), pending |-> q.pending, refused |-> q.refused]
      BY <1>3, <2>1
    <3>. QED  BY <2>2, <2>3, <3>1
  <2>6. /\ x.avail = a /\ x.completed = c
        /\ x.pending = q.pending /\ x.free = q.free /\ x.next = q.next /\ x.refused = q.refused
    BY <2>2
  <2>. QED  BY <2>2, <2>3, <2>4, <2>5, <2>6
<1>7. r \in Queues
  BY <1>4, <1>6 DEF Queues
<1>8. /\ Head(q.avail) = q.avail[1] /\ Head(q.avail) \in Desc /\ 1 \in DOMAIN q.avail
      /\ \A i \in DOMAIN r.avail : i + 1 \in DOMAIN q.avail /\ r.avail[i] = q.avail[i + 1]
  BY <1>2, <1>6
<1>9. Head(q.avail).packet \in Packet
  BY <1>8 DEF Desc
<1>10. \A C \in SUBSET Packet : Holds(q, C) => Head(q.avail).packet \in C /\ Holds(r, C)
  BY <1>6, <1>8 DEF Holds
<1>. QED  BY <1>6, <1>7, <1>8, <1>9, <1>10

(* and by the host.                                                        *)
LEMMA ShapeHost ==
    ASSUME Shape,
           HostTakes \/ (\E n \in HostSizes : HostSends(n)) \/ HostReads \/ HostExtra
    PROVE  Shape'
<1>0. ConnOK /\ tq \in Queues /\ RxOK /\ RestOK /\ ConnShape /\ AppShape
  BY ShapeParts
<1>1. host \in Host
  BY <1>0 DEF RestOK
<1>2. ASSUME NEW p \in Packet, p.op # "RW", rx' = Append(rx, p) PROVE RxOK'
  BY <1>0, <1>2, RxAppend DEF RxOK
<1>3. CASE HostTakes
  <2>1. /\ tq.avail # <<>> /\ HostReceives(Head(tq.avail).packet)
        /\ tq' = [tq EXCEPT !.avail = Tail(tq.avail),
                            !.completed = Append(tq.completed, Head(tq.avail).id)]
        /\ UNCHANGED <<conn, apc, left, bad, gen, written, taken, dropped, extra, ops>>
    BY <1>3 DEF HostTakes, app, hist
  <2>2. tq' \in Queues /\ Head(tq.avail).packet \in Packet
    BY <1>0, <2>1, TakenQueue
  <2>3. HostOutcome
    BY <1>1, <2>1, <2>2, HostReceivesOK
  <2>4. RxOK'
    BY <1>0, <1>2, <2>3 DEF HostOutcome, RxOK
  <2>5. (ConnOK /\ RestOK /\ ConnShape /\ AppShape)'
    BY <1>0, <2>1, <2>3 DEF ConnOK, RestOK, ConnShape, AppShape, HostOutcome
  <2>. QED  BY <2>2, <2>4, <2>5, ShapePartsNext
<1>4. ASSUME NEW n \in HostSizes, HostSends(n) PROVE Shape'
  <2>1. /\ host.sent + n <= MaxHost
        /\ rx' = Append(rx, ToGuest(host, "RW", host.sent + 1, n, {}))
        /\ host' = [host EXCEPT !.sent = host.sent + n]
        /\ UNCHANGED <<conn, tq, apc, left, bad, gen, written, taken, dropped, extra, ops>>
    BY <1>4 DEF HostSends, app, hist
  <2>2. n \in 1 .. Payload /\ n \in Nat /\ n > 0 /\ n \in 0 .. Payload
    BY VsockAssumption
  <2>3. host.sent \in 0 .. MaxHost /\ host.sent + 1 \in Nat /\ host.sent + n \in 0 .. MaxHost
    <3>1. host.sent \in 0 .. MaxHost
      BY <1>1 DEF Host
    <3>2. PICK s \in Nat : s = host.sent /\ s <= MaxHost /\ s + n <= MaxHost
      BY <2>1, <3>1, Constants
    <3>3. s + 1 \in Nat /\ s + n \in 0 .. MaxHost
      BY <2>2, <3>2, Constants
    <3>. QED  BY <3>1, <3>2, <3>3
  <2>4. PICK p : p = ToGuest(host, "RW", host.sent + 1, n, {})
    OBVIOUS
  <2>5. p \in Packet /\ p.size = n
    <3>1. "RW" \in Ops /\ {} \in Flags
      BY DEF Ops, Flags
    <3>. QED  BY <1>1, <2>2, <2>3, <2>4, <3>1, ToGuestPacket
  <2>6. RxOK'
    BY <1>0, <2>1, <2>2, <2>4, <2>5, RxAppend DEF RxOK
  <2>7. host' \in Host
    BY <1>1, <2>1, <2>3 DEF Host
  <2>8. (ConnOK /\ tq \in Queues /\ RestOK /\ ConnShape /\ AppShape)'
    BY <1>0, <2>1, <2>7 DEF ConnOK, RestOK, ConnShape, AppShape
  <2>. QED  BY <2>6, <2>8, ShapePartsNext
<1>5. CASE HostReads
  <2>1. /\ host' = [host EXCEPT !.consumed = host.received]
        /\ rx' = Append(rx, ToGuest(host', "CREDIT_UPDATE", 0, 0, {}))
        /\ UNCHANGED <<conn, tq, apc, left, bad, gen, written, taken, dropped, extra, ops>>
    BY <1>5 DEF HostReads, app, hist
  <2>2. host' \in Host
    BY <1>1, <2>1 DEF Host
  <2>3. PICK p : p = ToGuest(host', "CREDIT_UPDATE", 0, 0, {})
    OBVIOUS
  <2>4. p \in Packet /\ p.op = "CREDIT_UPDATE"
    <3>1. "CREDIT_UPDATE" \in Ops /\ {} \in Flags /\ 0 \in Nat /\ 0 \in 0 .. Payload
      BY Constants DEF Ops, Flags
    <3>. QED  BY <2>2, <2>3, <3>1, ToGuestPacket
  <2>5. RxOK'
    BY <1>2, <2>1, <2>3, <2>4
  <2>6. (ConnOK /\ tq \in Queues /\ RestOK /\ ConnShape /\ AppShape)'
    BY <1>0, <2>1, <2>2 DEF ConnOK, RestOK, ConnShape, AppShape
  <2>. QED  BY <2>5, <2>6, ShapePartsNext
<1>6. CASE HostExtra
  <2>1. /\ extra < MaxExtra /\ extra' = extra + 1
        /\ UNCHANGED <<conn, tq, apc, left, bad, gen, written, taken, dropped, ops>>
    BY <1>6 DEF HostExtra, app
  <2>2. \E op \in {"CREDIT_REQUEST", "SHUTDOWN", "RST"}, f \in {{}, {"RCV", "SEND"}} :
           rx' = Append(rx, ToGuest(host, op, 0, 0, f))
    BY <1>6 DEF HostExtra
  <2>3. host' \in {host, [host EXCEPT !.closing = TRUE], NoHost}
    BY <1>6 DEF HostExtra
  <2>4. host' \in Host
    BY <1>1, <2>3, NoHostOK DEF Host
  <2>5. RxOK'
    <3>1. PICK op \in {"CREDIT_REQUEST", "SHUTDOWN", "RST"}, f \in {{}, {"RCV", "SEND"}} :
             rx' = Append(rx, ToGuest(host, op, 0, 0, f))
      BY <2>2
    <3>2. op \in Ops /\ f \in Flags /\ 0 \in Nat /\ 0 \in 0 .. Payload /\ op # "RW"
      BY Constants DEF Ops, Flags
    <3>3. PICK p : p = ToGuest(host, op, 0, 0, f)
      OBVIOUS
    <3>4. p \in Packet /\ p.op # "RW"
      BY <1>1, <3>2, <3>3, ToGuestPacket
    <3>. QED  BY <1>2, <3>1, <3>3, <3>4
  <2>6. extra' \in 0 .. MaxExtra
    BY <1>0, <2>1, Constants DEF RestOK
  <2>7. (ConnOK /\ tq \in Queues /\ RestOK /\ ConnShape /\ AppShape)'
    BY <1>0, <2>1, <2>4, <2>6 DEF ConnOK, RestOK, ConnShape, AppShape
  <2>. QED  BY <2>5, <2>7, ShapePartsNext
<1>. QED  BY <1>3, <1>4, <1>5, <1>6

(* Every step keeps the shape.                                             *)
LEMMA ShapeNext == Shape /\ [Next]_vars => Shape'
<1> SUFFICES ASSUME Shape, [Next]_vars PROVE Shape'
  OBVIOUS
<1>1. CASE UNCHANGED vars
  <2>1. ConnOK /\ tq \in Queues /\ RxOK /\ RestOK /\ ConnShape /\ AppShape
    BY ShapeParts
  <2>2. UNCHANGED <<conn, tq, rx, host, apc, left, bad, gen, written, taken, dropped, extra, ops>>
    BY <1>1 DEF vars, app, hist
  <2>3. (ConnOK /\ tq \in Queues /\ RxOK /\ RestOK /\ ConnShape /\ AppShape)'
    BY <2>1, <2>2 DEF ConnOK, RxOK, RestOK, ConnShape, AppShape
  <2>. QED  BY <2>3, ShapePartsNext
<1>2. CASE Application
  BY <1>2, ShapeQuietCalls, ShapeConnect, ShapeWrite, ShapeRead, ShapeShutdown, ShapeClose
     DEF Application
<1>3. CASE process_packet \/ neglect_packet \/ PollTransmit
  BY <1>3, ShapeProcess, ShapeTransmit
<1>4. CASE HostTakes \/ (\E n \in HostSizes : HostSends(n)) \/ HostReads \/ HostExtra
  BY <1>4, ShapeHost
<1>. QED  BY <1>1, <1>2, <1>3, <1>4 DEF Next

(* The variables stay within their types: in particular the packet ring    *)
(* and the pending control packets never exceed their bounds.              *)
THEOREM TypeCorrect == Spec => []TypeOK
<1>1. Shape => TypeOK
  BY DEF Shape
<1>. QED  BY <1>1, ShapeInit, ShapeNext, PTL DEF Spec

(* In every state the free list of the transmit queue holds exactly the    *)
(* descriptors the device does not have, and no completion is refused.     *)
THEOREM FreeListAlwaysExact == Spec => []FreeListExact
<1>1. Shape => FreeListExact
  <2> SUFFICES ASSUME Shape PROVE FreeListExact
    OBVIOUS
  <2>1. /\ tq \in TxQueue /\ ~tq.refused
        /\ Descriptors(tq.free, tq.next, tq.avail, tq.completed)
    BY DEF Shape, Queues
  <2>. QED  BY <2>1, ExactWalk
<1>. QED  BY <1>1, ShapeInit, ShapeNext, PTL DEF Spec

------------------------------------------------------------------------------
(* The second part: counters modulo 2^32.                                  *)

(* Division with remainder.                                                *)
LEMMA Division ==
    ASSUME NEW a \in Int, NEW m \in Int, m > 0
    PROVE  a % m \in 0 .. m - 1 /\ a \div m \in Int /\ a = m * (a \div m) + (a % m)
<1>1. a % m \in 0 .. m - 1
  OBVIOUS
<1>2. a \div m \in Int
  OBVIOUS
<1>3. a = m * (a \div m) + (a % m)
  OBVIOUS
<1>. QED  BY <1>1, <1>2, <1>3

(* There is one remainder.                                                 *)
LEMMA OneRemainder ==
    ASSUME NEW a \in Int, NEW k \in Int, NEW r \in Counter, a = Mod * k + r
    PROVE  a % Mod = r
<1>0. Mod \in Int /\ Mod > 0 /\ r \in 0 .. Mod - 1
  BY Constants DEF Counter
<1>1. PICK p \in Int, t \in 0 .. Mod - 1 : a = Mod * p + t /\ t = a % Mod
  BY <1>0, Division
<1>2. Mod * (k - p) = t - r
  BY <1>0, <1>1
<1>3. CASE k - p >= 1
  <2>1. Mod * (k - p) >= Mod
    BY <1>0, <1>3
  <2>. QED  BY <1>0, <1>1, <1>2, <2>1
<1>4. CASE k - p <= -1
  <2>1. Mod * (p - k) >= Mod
    BY <1>0, <1>4
  <2>2. Mod * (p - k) = r - t
    BY <1>0, <1>1
  <2>. QED  BY <1>0, <1>1, <2>1, <2>2
<1>5. CASE k = p
  <2>1. Mod * (k - p) = 0
    BY <1>0, <1>5
  <2>2. t = r
    BY <1>0, <1>2, <2>1
  <2>. QED  BY <1>1, <2>2
<1>. QED  BY <1>3, <1>4, <1>5

(* What a number and its remainder differ by does not matter.              *)
LEMMA ModStep ==
    ASSUME NEW a \in Int, NEW b \in Int
    PROVE  ((a % Mod) + b) % Mod = (a + b) % Mod
<1>0. Mod \in Int /\ Mod > 0
  BY Constants
<1>1. PICK p \in Int, t \in Int : a = Mod * p + t /\ t = a % Mod
  BY <1>0, Division
<1>2. PICK q \in Int, r \in Counter : t + b = Mod * q + r /\ r = (t + b) % Mod
  BY <1>0, Division DEF Counter
<1>3. Mod * (p + q) = Mod * p + Mod * q
  BY <1>0
<1>4. a + b = Mod * (p + q) + r
  BY <1>0, <1>1, <1>2, <1>3
<1>5. (a + b) % Mod = r
  BY <1>2, <1>4, OneRemainder
<1>. QED  BY <1>1, <1>2, <1>5

(* A difference is a counter,                                              *)
LEMMA MinusCounter ==
    ASSUME NEW w \in Int, NEW c \in Int
    PROVE  Minus(w, c) \in Counter /\ Minus(w, c) \in Nat /\ Minus(w, c) < Mod
BY Remainder, CounterNat DEF Minus

(* the same whether a number or its counter is taken,                      *)
LEMMA MinusOfCounter ==
    ASSUME NEW w \in Int, NEW c \in Int
    PROVE  Minus(w % Mod, c) = Minus(w, c)
<1>1. -c \in Int /\ \A x \in Int : x - c = x + (-c)
  OBVIOUS
<1>2. w % Mod \in Int
  BY Remainder, CounterNat
<1>3. Minus(w % Mod, c) = ((w % Mod) + (-c)) % Mod /\ Minus(w, c) = (w + (-c)) % Mod
  BY <1>1, <1>2 DEF Minus
<1>. QED  BY <1>1, <1>3, ModStep

(* that grows with what is counted,                                        *)
LEMMA MinusMore ==
    ASSUME NEW w \in Int, NEW c \in Int, NEW s \in Nat, Minus(w, c) + s < Mod
    PROVE  Minus(w + s, c) = Minus(w, c) + s
<1>0. Mod \in Int /\ Mod > 0
  BY Constants
<1>1. PICK d \in Int : d = w - c
  OBVIOUS
<1>2. PICK r : r = d % Mod
  OBVIOUS
<1>3. PICK m : m = Mod * (d \div Mod)
  OBVIOUS
<1>4. r \in Counter /\ r \in Nat /\ d \div Mod \in Int /\ d = m + r
  BY <1>0, <1>2, <1>3, Division, CounterNat DEF Counter
<1>5. m \in Int
  BY <1>0, <1>3, <1>4
<1>6. Minus(w, c) = r
  BY <1>1, <1>2 DEF Minus
<1>7. r + s \in Counter
  BY <1>0, <1>4, <1>6 DEF Counter
<1>8. d + s = m + (r + s) /\ d + s \in Int /\ w + s - c = d + s
  BY <1>1, <1>4, <1>5
<1>9. (d + s) % Mod = r + s
  BY <1>3, <1>4, <1>7, <1>8, OneRemainder
<1>. QED  BY <1>6, <1>8, <1>9 DEF Minus

(* and is exact while it fits.                                             *)
LEMMA MinusExact ==
    ASSUME NEW w \in Nat, NEW k \in Nat, k <= w, w - k < Mod
    PROVE  Minus(w, k % Mod) = w - k
<1>0. Mod \in Int /\ Mod > 0
  BY Constants
<1>1. PICK r : r = k % Mod
  OBVIOUS
<1>2. PICK m : m = Mod * (k \div Mod)
  OBVIOUS
<1>3. r \in Counter /\ r \in Nat /\ k \div Mod \in Int /\ k = m + r
  BY <1>0, <1>1, <1>2, Division, CounterNat DEF Counter
<1>4. m \in Int
  BY <1>0, <1>2, <1>3
<1>5. w - k \in Counter
  BY <1>0 DEF Counter
<1>6. w - r = m + (w - k) /\ w - r \in Int
  BY <1>3, <1>4
<1>7. (w - r) % Mod = w - k
  BY <1>2, <1>3, <1>5, <1>6, OneRemainder
<1>. QED  BY <1>1, <1>7 DEF Minus

(* A small number is its own counter.                                      *)
LEMMA SmallCounter ==
    ASSUME NEW w \in Nat, w < Mod
    PROVE  w % Mod = w
<1>0. Mod \in Int /\ Mod > 0
  BY Constants
<1>1. w \in Counter
  BY <1>0 DEF Counter
<1>2. w = Mod * 0 + w
  BY <1>0
<1>. QED  BY <1>1, <1>2, OneRemainder

------------------------------------------------------------------------------
(* The second part is invariant.                                           *)

(* A step that leaves the wire and what is known of it as they are, or     *)
(* ends the connection.                                                    *)
LEMMA TalkingKept ==
    ASSUME Shape, Talking, UNCHANGED <<gen, rx, host>>, bad' \in {bad, NoPacket},
           Holds(tq', Answers),
           \A a, b \in Nat : Stream(1, Offered(tq), a, b) => Stream(1, Offered(tq'), a, b),
           \/ conn'.state \in {"CLOSE", "CLOSING"}
           \/ /\ UNCHANGED <<written, taken, dropped>>
              /\ conn'.state = conn.state /\ conn'.packets = conn.packets
              /\ conn'.tx_cnt = conn.tx_cnt /\ conn'.peer_fwd_cnt = conn.peer_fwd_cnt
              /\ conn'.peer_buf_alloc = conn.peer_buf_alloc
              /\ conn.recv_disallowed => conn'.recv_disallowed
              /\ conn.state = "CONNECT" => conn' = conn
    PROVE  Talking'
<1>1. Wire'
  BY DEF Talking, Wire
<1>2. CASE conn'.state \in {"CLOSE", "CLOSING"}
  <2>1. ~Live' /\ CallExact'
    BY <1>2 DEF Live, CallExact
  <2>. QED  BY <1>1, <2>1 DEF Talking
<1>3. CASE /\ UNCHANGED <<written, taken, dropped>>
           /\ conn'.state = conn.state /\ conn'.packets = conn.packets
           /\ conn'.tx_cnt = conn.tx_cnt /\ conn'.peer_fwd_cnt = conn.peer_fwd_cnt
           /\ conn'.peer_buf_alloc = conn.peer_buf_alloc
           /\ conn.recv_disallowed => conn'.recv_disallowed
           /\ conn.state = "CONNECT" => conn' = conn
  <2>1. CallExact'
    BY <1>3 DEF Talking, CallExact
  <2>2. Live' = Live /\ host'.open = host.open /\ dropped' = dropped
    BY <1>3 DEF Live
  <2>3. Accepted' = Accepted
    BY <1>3 DEF Accepted
  <2>4. CreditExact => CreditExact'
    BY <1>3 DEF CreditExact, Lag
  <2>5. DownExact => DownExact'
    <3>1. host.received \in Nat /\ written \in Nat
      BY ShapeParts DEF RestOK, Host
    <3>. QED  BY <1>3, <3>1 DEF DownExact
  <2>6. PacketsExact => PacketsExact'
    BY <1>3, <2>3 DEF PacketsExact
  <2>7. UpExact => UpExact'
    BY <1>3, <2>3 DEF UpExact
  <2>8. ~conn'.recv_disallowed => ~conn.recv_disallowed
    BY <1>3
  <2>. QED  BY <1>1, <2>1, <2>2, <2>4, <2>5, <2>6, <2>7, <2>8 DEF Talking
<1>. QED  BY <1>2, <1>3

(* What the connection sends of itself is an answer.                       *)
LEMMA ControlAnswer ==
    ASSUME Shape, gen = 1, NEW op \in Ops \ {"REQUEST"}, NEW flags \in Flags
    PROVE  Control(op, flags) \in Answers
BY ControlPacket DEF Answers

(* Talking is kept by the application's calls that send nothing,           *)
LEMMA TalkingQuietCalls ==
    ASSUME Shape, Talking,
           \/ virtio_vsock_socket \/ ConnectDone \/ ConnectTimesOut
           \/ CloseDone \/ CloseTimesOut \/ \E n \in WriteLens : virtio_vsock_write(n)
    PROVE  Talking'
<1>1. UNCHANGED <<tq, gen, rx, host, bad>> /\ Holds(tq', Answers)
  BY DEF virtio_vsock_socket, ConnectDone, ConnectTimesOut, CloseDone, CloseTimesOut,
         virtio_vsock_write, hist, Talking, Wire
<1>2. CASE virtio_vsock_socket \/ CloseDone \/ CloseTimesOut
  <2>1. conn' \in {NoConn, Socket}
    BY <1>2 DEF virtio_vsock_socket, CloseDone, CloseTimesOut, remove_connection, Socket
  <2>2. conn'.state = "CLOSE"
    BY <2>1 DEF NoConn, Socket
  <2>. QED  BY <1>1, <2>2, TalkingKept
<1>3. CASE ConnectDone
  <2>1. /\ conn' = [conn EXCEPT !.used = conn.state = "ESTABLISHED"] /\ conn.state # "CONNECT"
        /\ UNCHANGED <<written, taken, dropped>>
    BY <1>3 DEF ConnectDone, hist
  <2>2. conn \in Conn
    BY ShapeParts DEF ConnOK
  <2>3. /\ conn'.state = conn.state /\ conn'.packets = conn.packets
        /\ conn'.tx_cnt = conn.tx_cnt /\ conn'.peer_fwd_cnt = conn.peer_fwd_cnt
        /\ conn'.peer_buf_alloc = conn.peer_buf_alloc
        /\ conn'.recv_disallowed = conn.recv_disallowed
    BY <2>1, <2>2 DEF Conn
  <2>. QED  BY <1>1, <2>1, <2>3, TalkingKept
<1>4. CASE ConnectTimesOut \/ \E n \in WriteLens : virtio_vsock_write(n)
  <2>1. UNCHANGED <<conn, written, taken, dropped>>
    BY <1>4 DEF ConnectTimesOut, virtio_vsock_write, hist
  <2>. QED  BY <1>1, <2>1, TalkingKept
<1>. QED  BY <1>2, <1>3, <1>4

(* The shutdown request is an answer.                                      *)
LEMMA SendShutdown ==
    ASSUME Shape, Talking, NEW f \in Flags, NEW r, r = send_control(conn, "SHUTDOWN", f).tq
    PROVE  /\ Holds(r, Answers)
           /\ \A a, b \in Nat : Stream(1, Offered(tq), a, b) => Stream(1, Offered(r), a, b)
<1>1. gen = 1 /\ Holds(tq, Answers) /\ Answers \in SUBSET Packet /\ 1 \in Nat
  BY DEF Talking, Wire, Answers
<1>2. "SHUTDOWN" \in Ops \ {"RW"} /\ "SHUTDOWN" \in Ops \ {"REQUEST"}
  BY DEF Ops
<1>3. Control("SHUTDOWN", f) \in Answers
  BY <1>1, <1>2, ControlAnswer
<1>. QED  BY <1>1, <1>2, <1>3, SendControl

(* by a shutdown,                                                          *)
LEMMA TalkingShutdown ==
    ASSUME Shape, Talking, NEW f \in Flags, virtio_vsock_shutdown(f)
    PROVE  Talking'
<1>1. /\ conn' = [conn EXCEPT !.recv_disallowed = conn.recv_disallowed \/ "RCV" \in f,
                              !.send_disallowed = conn.send_disallowed \/ "SEND" \in f]
      /\ tq' = send_control(conn, "SHUTDOWN", f).tq /\ conn.state = "ESTABLISHED"
      /\ UNCHANGED <<rx, host, bad, gen, written, taken, dropped>>
  BY DEF virtio_vsock_shutdown, Use
<1>2. conn \in Conn
  BY ShapeParts DEF ConnOK
<1>3. /\ conn'.state = conn.state /\ conn'.packets = conn.packets
      /\ conn'.tx_cnt = conn.tx_cnt /\ conn'.peer_fwd_cnt = conn.peer_fwd_cnt
      /\ conn'.peer_buf_alloc = conn.peer_buf_alloc
      /\ conn.recv_disallowed => conn'.recv_disallowed
  BY <1>1, <1>2 DEF Conn
<1>4. /\ Holds(tq', Answers)
      /\ \A a, b \in Nat : Stream(1, Offered(tq), a, b) => Stream(1, Offered(tq'), a, b)
  BY <1>1, SendShutdown
<1>. QED  BY <1>1, <1>3, <1>4, TalkingKept

(* by a close,                                                             *)
LEMMA TalkingClose ==
    ASSUME Shape, Talking, virtio_vsock_close
    PROVE  Talking'
<1>1. conn \in Conn /\ Holds(tq, Answers) /\ {"RCV", "SEND"} \in Flags
  BY ShapeParts DEF ConnOK, Flags, Talking, Wire
<1>2. /\ UNCHANGED <<rx, host, bad, gen>>
      /\ \/ tq' = tq
         \/ tq' = send_control(conn, "SHUTDOWN", {"RCV", "SEND"}).tq
      /\ conn' = [conn EXCEPT !.state = "CLOSING"] \/ conn' = NoConn
  BY DEF virtio_vsock_close, virtio_vsock_close_common, remove_connection
<1>3. conn'.state \in {"CLOSE", "CLOSING"}
  BY <1>1, <1>2 DEF NoConn, Conn
<1>4. /\ Holds(tq', Answers)
      /\ \A a, b \in Nat : Stream(1, Offered(tq), a, b) => Stream(1, Offered(tq'), a, b)
  BY <1>1, <1>2, SendShutdown
<1>. QED  BY <1>2, <1>3, <1>4, TalkingKept

(* by a reset of what was bad and the processing of the transmit queue,    *)
LEMMA TalkingTransmit ==
    ASSUME Shape, Talking, neglect_packet \/ PollTransmit
    PROVE  Talking'
<1>0. gen = 1 /\ Holds(tq, Answers) /\ Answers \in SUBSET Packet /\ 1 \in Nat /\ tq \in Queues
  BY ShapeParts DEF Talking, Wire, Answers
<1>1. UNCHANGED <<conn, rx, host, gen, written, taken, dropped>> /\ bad' \in {bad, NoPacket}
  BY DEF neglect_packet, PollTransmit, hist
<1>2. CASE neglect_packet
  <2>1. PICK p : p = [op |-> "RST", gen |-> bad.gen, first |-> 0, size |-> 0, flags |-> {},
                      fwd_cnt |-> 0, buf_alloc |-> 0]
    OBVIOUS
  <2>2. bad # NoPacket /\ tq' = copy_into_tq_or_add_to_pending(tq, p).tq
    BY <1>2, <2>1 DEF neglect_packet
  <2>3. bad.gen = 1 /\ bad.gen \in 0 .. MaxGen
    BY <2>2, ShapeParts DEF RestOK, Packet, Talking, Wire
  <2>4. p \in Packet /\ p.op = "RST" /\ p.gen = 1
    BY <2>1, <2>3, ResetPacket
  <2>5. p \in Answers
    BY <2>4 DEF Answers
  <2>6. /\ Holds(tq', Answers)
        /\ \A a, b \in Nat : Stream(1, Offered(tq), a, b) => Stream(1, Offered(tq'), a, b)
    BY <1>0, <2>2, <2>4, <2>5, ControlKept
  <2>. QED  BY <1>1, <2>6, TalkingKept
<1>3. CASE PollTransmit
  <2>1. tq' = send_pending_tq_control_packets(cleanup_tq(tq))
    BY <1>3 DEF PollTransmit
  <2>2. cleanup_tq(tq) \in Kept(tq) /\ cleanup_tq(tq) \in Queues
    BY <1>0, CleanupKept DEF Kept
  <2>3. tq' \in Kept(tq)
    BY <2>1, <2>2, SendPendingKept, KeptOn
  <2>4. /\ Holds(tq', Answers)
        /\ \A a, b \in Nat : Stream(1, Offered(tq), a, b) => Stream(1, Offered(tq'), a, b)
    BY <1>0, <2>3 DEF Kept
  <2>. QED  BY <1>1, <2>4, TalkingKept
<1>. QED  BY <1>2, <1>3

(* by a packet of a write: the credit it was cut to covers it,             *)
LEMMA CreditWrite ==
    ASSUME Shape, CreditExact, NEW size \in Nat, size > 0, size <= peer_free_space(conn),
           UNCHANGED <<rx, host>>, written' = written + size,
           conn' = [conn EXCEPT !.tx_cnt = Plus(conn.tx_cnt, size)]
    PROVE  CreditExact'
<1>0. /\ written \in Nat /\ conn \in Conn /\ host.consumed \in Nat /\ rx \in Seq(Packet)
      /\ HostBuf \in Nat /\ HostBuf < Mod /\ Mod \in Nat
  <2>1. written \in Nat /\ conn \in Conn /\ host \in Host /\ rx \in Seq(Packet)
    BY ShapeParts DEF RestOK, ConnOK, RxOK
  <2>2. host.consumed \in Nat
    BY <2>1 DEF Host
  <2>. QED  BY <2>1, <2>2, Constants
<1>1. conn.peer_fwd_cnt \in Nat /\ \A i \in DOMAIN rx : rx[i] \in Packet /\ rx[i].fwd_cnt \in Nat
  BY <1>0, ConnFields, PacketNumbers, CounterNat
<1>2. PICK o \in Nat : o = Lag(conn.peer_fwd_cnt) /\ o <= HostBuf
  BY <1>0, <1>1, MinusCounter DEF CreditExact, Lag
<1>3. Minus(conn.tx_cnt, conn.peer_fwd_cnt) = o
  BY <1>0, <1>1, <1>2, MinusOfCounter DEF CreditExact, Lag
<1>4. conn.peer_buf_alloc \in {0, HostBuf}
  BY DEF CreditExact
<1>5. o + size <= HostBuf
  BY <1>0, <1>2, <1>3, <1>4 DEF peer_free_space
<1>6. ASSUME NEW c \in Nat, Lag(c) <= o
      PROVE  Minus(written', c) = Lag(c) + size /\ Lag(c) \in Nat
  <2>1. Minus(written, c) \in Nat /\ Minus(written, c) <= o
    BY <1>0, <1>6, MinusCounter DEF Lag
  <2>2. Minus(written, c) + size < Mod
    BY <1>0, <1>2, <1>5, <2>1
  <2>. QED  BY <1>0, <2>1, <2>2, MinusMore DEF Lag
<1>7. /\ conn'.tx_cnt = Plus(conn.tx_cnt, size) /\ conn'.peer_fwd_cnt = conn.peer_fwd_cnt
      /\ conn'.peer_buf_alloc = conn.peer_buf_alloc
  BY <1>0 DEF Conn
<1>8. conn'.tx_cnt = written' % Mod
  BY <1>0, <1>7, ModStep DEF CreditExact, Plus
<1>9. Minus(written', conn.peer_fwd_cnt) = o + size
  BY <1>1, <1>2, <1>6
<1>10. \A i \in DOMAIN rx : /\ Minus(written', rx[i].fwd_cnt) = Lag(rx[i].fwd_cnt) + size
                            /\ Lag(rx[i].fwd_cnt) \in Nat
  BY <1>1, <1>2, <1>6 DEF CreditExact
<1>11. written' - host.consumed = (written - host.consumed) + size
  BY <1>0
<1>12. /\ Lag(conn.peer_fwd_cnt)' <= HostBuf
       /\ written' - host'.consumed <= Lag(conn.peer_fwd_cnt)'
  BY <1>0, <1>2, <1>5, <1>7, <1>9, <1>11 DEF CreditExact, Lag
<1>13. \A i \in DOMAIN rx : /\ Minus(written', rx[i].fwd_cnt) <= o + size
                            /\ written' - host.consumed <= Minus(written', rx[i].fwd_cnt)
  <2>1. ASSUME NEW i \in DOMAIN rx
        PROVE  /\ Minus(written', rx[i].fwd_cnt) <= o + size
               /\ written' - host.consumed <= Minus(written', rx[i].fwd_cnt)
    <3>1. PICK l \in Nat : l = Lag(rx[i].fwd_cnt) /\ Minus(written', rx[i].fwd_cnt) = l + size
      BY <1>10
    <3>2. l <= o /\ written - host.consumed <= l
      BY <1>2, <3>1 DEF CreditExact
    <3>. QED  BY <1>0, <1>2, <1>11, <3>1, <3>2
  <2>. QED  BY <2>1
<1>14. \A i, j \in DOMAIN rx :
          i < j => Minus(written', rx[j].fwd_cnt) <= Minus(written', rx[i].fwd_cnt)
  BY <1>0, <1>10 DEF CreditExact
<1>. QED  BY <1>4, <1>7, <1>8, <1>9, <1>12, <1>13, <1>14 DEF CreditExact, Lag

(* that it carries,                                                        *)
LEMMA TalkingWrite ==
    ASSUME Shape, Talking, WritePacket
    PROVE  Talking'
<1>0. /\ ConnOK /\ tq \in Queues /\ RestOK /\ AppShape
      /\ gen = 1 /\ Holds(tq, Answers) /\ Answers \in SUBSET Packet /\ 1 \in Nat
  BY ShapeParts DEF Talking, Wire, Answers
<1>1. PICK size : size = MinOf(MinOf(left, Payload), peer_free_space(conn))
  OBVIOUS
<1>2. PICK p : p = generate_packet(conn, "RW", written + 1, size, {})
  OBVIOUS
<1>3. PICK s : s = copy_into_tq_and_free(tq, p)
  OBVIOUS
<1>4. size \in Nat /\ size <= peer_free_space(conn) /\ p \in Packet
  BY <1>1, <1>2, WriteSize, Constants
<1>5. p.op = "RW" /\ p.gen = 1 /\ p.first = written + 1 /\ p.size = size /\ p.buf_alloc = BufAlloc
  BY <1>0, <1>2 DEF generate_packet
<1>6. apc = "writing" /\ UNCHANGED <<rx, host, bad, gen, taken, dropped>>
  BY DEF WritePacket
<1>7. \/ /\ s.sent /\ size > 0 /\ tq' = s.tq
         /\ conn' = [conn EXCEPT !.tx_cnt = Plus(conn.tx_cnt, size)]
         /\ written' = written + size
      \/ ~s.sent /\ tq' = s.tq /\ UNCHANGED <<conn, written>>
      \/ UNCHANGED <<conn, tq, written>>
  BY <1>1, <1>2, <1>3 DEF WritePacket
<1>8. conn.state = "ESTABLISHED"
  BY <1>0, <1>6 DEF AppShape
<1>9. CASE ~s.sent /\ tq' = s.tq /\ UNCHANGED <<conn, written>>
  <2>1. tq' \in Kept(tq)
    BY <1>0, <1>3, <1>4, <1>9, DataKept
  <2>2. /\ Holds(tq', Answers)
        /\ \A a, b \in Nat : Stream(1, Offered(tq), a, b) => Stream(1, Offered(tq'), a, b)
    BY <1>0, <2>1 DEF Kept
  <2>. QED  BY <1>6, <1>9, <2>2, TalkingKept
<1>10. CASE UNCHANGED <<conn, tq, written>>
  BY <1>0, <1>6, <1>10, TalkingKept
<1>11. CASE /\ s.sent /\ size > 0 /\ tq' = s.tq
            /\ conn' = [conn EXCEPT !.tx_cnt = Plus(conn.tx_cnt, size)]
            /\ written' = written + size
  <2>1. p \in Answers
    BY <1>4, <1>5 DEF Answers
  <2>2. Holds(tq', Answers)
    BY <1>0, <1>3, <1>4, <1>11, <2>1, DataKept
  <2>3. Wire'
    BY <1>6, <2>2 DEF Talking, Wire
  <2>4. /\ conn'.state = conn.state /\ conn'.packets = conn.packets
        /\ conn'.recv_disallowed = conn.recv_disallowed
    BY <1>0, <1>11 DEF ConnOK, Conn
  <2>5. CallExact' /\ Live' /\ Live
    BY <1>8, <2>4 DEF CallExact, Live
  <2>6. CreditExact => CreditExact'
    BY <1>4, <1>6, <1>11, CreditWrite
  <2>7. DownExact => DownExact'
    <3>1. host.received \in Nat /\ written \in Nat /\ host.consumed \in Nat
      BY <1>0 DEF RestOK, Host
    <3>2. Data(1, p) /\ p.first = written + 1
      BY <1>5 DEF Data
    <3>3. Stream(1, Offered(tq), host.received, written)
             => Stream(1, Offered(s.tq), host.received, written + p.size)
      BY <1>0, <1>3, <1>4, <1>11, <3>1, <3>2, DataKept
    <3>. QED  BY <1>4, <1>5, <1>6, <1>11, <3>1, <3>3 DEF DownExact
  <2>8. Accepted' = Accepted
    BY <1>6, <2>4 DEF Accepted
  <2>9. PacketsExact => PacketsExact'
    BY <1>6, <2>4, <2>8 DEF PacketsExact
  <2>10. UpExact => UpExact'
    BY <1>6, <2>8 DEF UpExact
  <2>. QED  BY <1>6, <2>3, <2>4, <2>5, <2>6, <2>7, <2>9, <2>10 DEF Talking
<1>. QED  BY <1>7, <1>9, <1>10, <1>11

(* The last byte of a connection's packets is the end of their stream.     *)
LEMMA AcceptedIs ==
    ASSUME NEW s \in Seq(Packet), NEW a \in Nat, NEW b \in Nat,
           AllData(1, s), Stream(1, s, a, b)
    PROVE  b = IF s = <<>> THEN a ELSE End(s[Len(s)])
<1>1. CASE s = <<>>
  <2>1. {i \in DOMAIN s : Data(1, s[i])} = {}
    BY <1>1
  <2>. QED  BY <1>1, <2>1 DEF Stream, Chain
<1>2. CASE s # <<>>
  <2>1. Len(s) \in Nat /\ Len(s) \in DOMAIN s /\ \A i \in DOMAIN s : i <= Len(s)
    BY <1>2
  <2>2. PICK D : D = {i \in DOMAIN s : Data(1, s[i])}
    OBVIOUS
  <2>3. D = DOMAIN s
    BY <2>2 DEF AllData
  <2>4. \A j \in D : (\A i \in D : i <= j) => End(s[j]) = b
    BY <2>2 DEF Stream, Chain
  <2>. QED  BY <1>2, <2>1, <2>3, <2>4
<1>. QED  BY <1>1, <1>2

(* It is a number.                                                         *)
LEMMA AcceptedNat ==
    ASSUME ConnOK, RestOK, PacketsExact
    PROVE  Accepted \in Nat /\ taken <= Accepted
<1>1. taken \in Nat /\ conn.packets \in Seq(Packet) /\ taken <= Accepted
  BY DEF ConnOK, RestOK, Unread, PacketsExact
<1>2. CASE conn.packets = <<>>
  BY <1>1, <1>2 DEF Accepted
<1>3. CASE conn.packets # <<>>
  <2>1. conn.packets[Len(conn.packets)] \in Packet
    BY <1>1, <1>3
  <2>2. Accepted \in Int
    BY <1>3, <2>1, PacketNumbers DEF Accepted, End
  <2>. QED  BY <1>1, <2>2
<1>. QED  BY <1>1, <1>2, <1>3

(* A read takes the bytes it returns off the front.                        *)
LEMMA ReadStream ==
    ASSUME Shape, PacketsExact, NEW n \in Nat, NEW r \in Leaves(conn.packets, n),
           r.count \in 0 .. n, Unread(r.packets),
           conn'.packets = r.packets, taken' = taken + (n - r.count)
    PROVE  /\ PacketsExact' /\ Accepted' = Accepted
           /\ taken \in Nat /\ taken' \in Nat /\ Accepted \in Nat
           /\ taken <= taken' /\ taken' <= Accepted
<1>0. ConnOK /\ RestOK /\ 1 \in Nat
  BY ShapeParts
<1>1. PICK a \in Nat : a = taken
  BY <1>0 DEF RestOK
<1>2. PICK b \in Nat : b = Accepted /\ a <= b
  BY <1>0, <1>1, AcceptedNat
<1>3. PICK t \in Nat : t = a + (n - r.count) /\ a <= t
  OBVIOUS
<1>4. AllData(1, conn.packets) /\ Stream(1, conn.packets, a, b)
  BY <1>1, <1>2 DEF PacketsExact
<1>5. AllData(1, r.packets) /\ Stream(1, r.packets, t, b) /\ t <= b
  BY <1>0, <1>2, <1>3, <1>4 DEF Leaves
<1>6. r.packets \in Seq(Packet)
  BY DEF Unread
<1>7. b = IF r.packets = <<>> THEN t ELSE End(r.packets[Len(r.packets)])
  BY <1>5, <1>6, AcceptedIs
<1>8. taken' = t
  BY <1>1, <1>3
<1>9. Accepted' = b
  BY <1>7, <1>8 DEF Accepted
<1>10. PacketsExact'
  BY <1>5, <1>8, <1>9 DEF PacketsExact
<1>. QED  BY <1>1, <1>2, <1>3, <1>5, <1>8, <1>9, <1>10

(* by a read,                                                              *)
LEMMA TalkingRead ==
    ASSUME Shape, Talking, NEW n \in ReadLens, virtio_vsock_read(n)
    PROVE  Talking'
<1>0. /\ ConnOK /\ tq \in Queues /\ RestOK
      /\ gen = 1 /\ Holds(tq, Answers) /\ Answers \in SUBSET Packet /\ 1 \in Nat
  BY ShapeParts DEF Talking, Wire, Answers
<1>1. PICK r \in Leaves(conn.packets, n) :
              /\ n \in Nat /\ r.count \in 0 .. n /\ Unread(r.packets)
              /\ Len(r.packets) <= Len(conn.packets)
              /\ conn' = [conn EXCEPT !.packets = r.packets,
                                      !.fwd_cnt = Plus(conn.fwd_cnt, n - r.count)]
              /\ conn' \in Conn /\ conn'.packets = r.packets /\ conn'.state = conn.state
              /\ conn'.fwd_cnt = Plus(conn.fwd_cnt, n - r.count)
              /\ conn'.open = conn.open /\ conn'.ported = conn.ported /\ conn'.used = conn.used
              /\ conn'.tx_cnt = conn.tx_cnt /\ conn'.peer_fwd_cnt = conn.peer_fwd_cnt
              /\ conn'.peer_buf_alloc = conn.peer_buf_alloc
              /\ conn'.recv_disallowed = conn.recv_disallowed
              /\ taken' = taken + (n - r.count)
              /\ \E p \in Packet :
                    /\ p.op = "CREDIT_UPDATE" /\ p.gen = gen /\ p.buf_alloc = BufAlloc
                    /\ p.fwd_cnt = conn'.fwd_cnt
                    /\ tq' = copy_into_tq_or_add_to_pending(tq, p).tq
  BY ReadCases, Zenon
<1>2. PICK p \in Packet :
         /\ p.op = "CREDIT_UPDATE" /\ p.gen = gen /\ p.buf_alloc = BufAlloc
         /\ tq' = copy_into_tq_or_add_to_pending(tq, p).tq
  BY <1>1
<1>3. /\ conn.state = "ESTABLISHED" /\ UNCHANGED <<rx, host, bad, gen, written, dropped>>
  BY DEF virtio_vsock_read, Use
<1>4. p \in Answers /\ p.op # "RW"
  BY <1>0, <1>2 DEF Answers
<1>5. /\ Holds(tq', Answers)
      /\ \A a, b \in Nat : Stream(1, Offered(tq), a, b) => Stream(1, Offered(tq'), a, b)
  BY <1>0, <1>2, <1>4, ControlKept
<1>6. Wire'
  BY <1>3, <1>5 DEF Talking, Wire
<1>7. CallExact' /\ Live' /\ Live
  BY <1>1, <1>3 DEF CallExact, Live
<1>8. CreditExact => CreditExact'
  BY <1>1, <1>3 DEF CreditExact, Lag
<1>9. DownExact => DownExact'
  <2>1. host.received \in Nat /\ written \in Nat
    BY <1>0 DEF RestOK, Host
  <2>. QED  BY <1>3, <1>5, <2>1 DEF DownExact
<1>10. ASSUME PacketsExact PROVE PacketsExact' /\ Accepted' = Accepted
  BY <1>1, <1>10, ReadStream
<1>11. PacketsExact /\ UpExact => UpExact'
  BY <1>3, <1>10 DEF UpExact
<1>. QED  BY <1>1, <1>3, <1>6, <1>7, <1>8, <1>9, <1>10, <1>11 DEF Talking

(* A lag is a number.                                                      *)
LEMMA LagNat ==
    ASSUME Shape, NEW c \in Nat
    PROVE  Lag(c) \in Nat /\ Lag(c) < Mod
<1>1. written \in Int /\ c \in Int
  BY ShapeParts DEF RestOK
<1>. QED  BY <1>1, MinusCounter DEF Lag

(* A packet taken off the receive queue brings its credit.                 *)
LEMMA CreditSeen ==
    ASSUME Shape, CreditExact, rx # <<>>, rx' = Tail(rx), UNCHANGED <<host, written>>,
           conn'.tx_cnt = conn.tx_cnt, conn'.peer_fwd_cnt = Head(rx).fwd_cnt,
           conn'.peer_buf_alloc = Head(rx).buf_alloc
    PROVE  CreditExact'
<1>1. RxOK /\ written \in Nat
  BY ShapeParts DEF RestOK
<1>2. PICK t : t = Tail(rx)
  OBVIOUS
<1>3. /\ Head(rx) = rx[1] /\ 1 \in DOMAIN rx
      /\ \A i \in DOMAIN t : i \in Nat /\ i + 1 \in DOMAIN rx /\ t[i] = rx[i + 1]
  BY <1>1, <1>2, RxTail
<1>4. \A i \in DOMAIN t : i >= 1
  BY <1>1, <1>2 DEF RxOK
<1>5. rx[1].buf_alloc = HostBuf /\ Lag(rx[1].fwd_cnt) <= Lag(conn.peer_fwd_cnt)
      /\ written - host.consumed <= Lag(rx[1].fwd_cnt)
  BY <1>3 DEF CreditExact
<1>6. PICK l \in Nat : l = Lag(conn.peer_fwd_cnt) /\ l <= HostBuf
  <2>1. conn.peer_fwd_cnt \in Nat
    BY ShapeParts, ConnFields, CounterNat DEF ConnOK
  <2>2. Lag(conn.peer_fwd_cnt) <= HostBuf
    BY DEF CreditExact
  <2>. QED  BY <2>1, <2>2, LagNat
<1>7. PICK k \in Nat : k = Lag(rx[1].fwd_cnt)
  <2>1. rx[1].fwd_cnt \in Nat
    BY <1>1, <1>3, PacketNumbers, CounterNat DEF RxOK
  <2>. QED  BY <2>1, LagNat
<1>8. Lag(rx[1].fwd_cnt) <= HostBuf
  BY <1>5, <1>6, <1>7, Constants
<1>9. ASSUME NEW i \in DOMAIN t
      PROVE  /\ t[i].buf_alloc = HostBuf /\ Lag(t[i].fwd_cnt) <= Lag(rx[1].fwd_cnt)
             /\ written - host.consumed <= Lag(t[i].fwd_cnt)
  <2>1. 1 < i + 1 /\ t[i] = rx[i + 1] /\ i + 1 \in DOMAIN rx
    BY <1>3, <1>4
  <2>. QED  BY <1>3, <2>1 DEF CreditExact
<1>10. ASSUME NEW i \in DOMAIN t, NEW j \in DOMAIN t, i < j
       PROVE  Lag(t[j].fwd_cnt) <= Lag(t[i].fwd_cnt)
  <2>1. i + 1 < j + 1 /\ i + 1 \in DOMAIN rx /\ j + 1 \in DOMAIN rx
    BY <1>3, <1>10
  <2>2. Lag(rx[j + 1].fwd_cnt) <= Lag(rx[i + 1].fwd_cnt)
    BY <2>1 DEF CreditExact
  <2>. QED  BY <1>3, <2>2
<1>11. conn.tx_cnt = written % Mod
  BY DEF CreditExact
<1>. QED  BY <1>2, <1>3, <1>5, <1>8, <1>9, <1>10, <1>11 DEF CreditExact, Lag

(* What a reply leaves of the connection.                                  *)
LEMMA RepliedConn ==
    ASSUME conn \in Conn, NEW p \in Packet, Replied(p)
    PROVE  /\ conn.state = "ESTABLISHED" /\ conn'.state = "ESTABLISHED"
           /\ conn'.tx_cnt = conn.tx_cnt /\ conn'.peer_fwd_cnt = p.fwd_cnt
           /\ conn'.peer_buf_alloc = p.buf_alloc /\ conn'.packets = conn.packets
           /\ conn'.fwd_cnt = conn.fwd_cnt
           /\ conn.recv_disallowed => conn'.recv_disallowed
<1>1. PICK c : c = Seen(p)
  OBVIOUS
<1>2. /\ c \in Conn /\ c.state = conn.state /\ c.tx_cnt = conn.tx_cnt /\ c.fwd_cnt = conn.fwd_cnt
      /\ c.recv_disallowed = conn.recv_disallowed /\ c.packets = conn.packets
      /\ c.peer_fwd_cnt = p.fwd_cnt /\ c.peer_buf_alloc = p.buf_alloc
  BY <1>1, SeenFields
<1>3. PICK s \in BOOLEAN, r \in BOOLEAN :
         /\ conn.recv_disallowed => r
         /\ conn' = [c EXCEPT !.send_disallowed = s, !.recv_disallowed = r]
  BY <1>1, Zenon DEF Replied
<1>4. conn.state = "ESTABLISHED"
  BY DEF Replied
<1>. QED  BY <1>2, <1>3, <1>4 DEF Conn

(* What the outcomes that keep the connection alive leave of it.           *)
LEMMA Alive ==
    ASSUME Shape, Talking, NEW p \in Packet, rx # <<>>, p = Head(rx), Live',
           \/ Ignored \/ Answered(p) \/ WasReset(p) \/ OnlySeen(p)
           \/ Queued(p) \/ Lost(p) \/ Replied(p)
    PROVE  /\ Live /\ conn'.state = "ESTABLISHED" /\ conn'.fwd_cnt = conn.fwd_cnt
           /\ conn'.tx_cnt = conn.tx_cnt /\ conn'.peer_fwd_cnt = p.fwd_cnt
           /\ conn'.peer_buf_alloc = p.buf_alloc
           /\ conn.recv_disallowed => conn'.recv_disallowed
           /\ \/ conn'.packets = conn.packets
              \/ Queued(p) /\ conn'.packets = Append(conn.packets, p)
<1>0. conn \in Conn /\ ConnShape
  BY ShapeParts DEF ConnOK
<1>1. PICK c : c = Seen(p)
  OBVIOUS
<1>2. /\ c \in Conn /\ c.state = conn.state /\ c.tx_cnt = conn.tx_cnt /\ c.fwd_cnt = conn.fwd_cnt
      /\ c.recv_disallowed = conn.recv_disallowed /\ c.packets = conn.packets
      /\ c.peer_fwd_cnt = p.fwd_cnt /\ c.peer_buf_alloc = p.buf_alloc
  BY <1>0, <1>1, SeenFields
<1>3. CASE Ignored
  <2>1. conn' = conn /\ conn.state = "CLOSE"
    BY <1>0, <1>3 DEF Ignored, ConnShape
  <2>. QED  BY <2>1 DEF Live
<1>4. CASE Answered(p)
  <2>1. conn' = [c EXCEPT !.state = "ESTABLISHED"] /\ conn.state = "CONNECT"
    BY <1>1, <1>4 DEF Answered
  <2>. QED  BY <1>2, <2>1 DEF Conn, Live
<1>5. CASE WasReset(p)
  <2>1. conn' = [c EXCEPT !.packets = <<>>, !.ported = FALSE, !.state = "CLOSE"]
    BY <1>1, <1>5 DEF WasReset, cleanup_connection
  <2>2. conn'.state = "CLOSE"
    BY <1>2, <2>1 DEF Conn
  <2>. QED  BY <2>2 DEF Live
<1>6. CASE OnlySeen(p)
  <2>1. conn' = c
    BY <1>1, <1>6 DEF OnlySeen
  <2>2. Live
    BY <1>2, <2>1 DEF Live
  <2>3. conn.state # "CONNECT"
    BY <1>6 DEF OnlySeen, Talking, CallExact
  <2>. QED  BY <1>2, <2>1, <2>2, <2>3 DEF Live
<1>7. CASE Queued(p)
  <2>1. conn' = [c EXCEPT !.packets = Append(conn.packets, p)] /\ conn.state = "ESTABLISHED"
    BY <1>1, <1>2, <1>7 DEF Queued
  <2>. QED  BY <1>2, <1>7, <2>1 DEF Conn, Live
<1>8. CASE Lost(p)
  <2>1. conn' = c /\ conn.state = "ESTABLISHED"
    BY <1>1, <1>8 DEF Lost
  <2>. QED  BY <1>2, <2>1 DEF Live
<1>9. CASE Replied(p)
  BY <1>0, <1>9, RepliedConn DEF Live
<1>. QED  BY <1>3, <1>4, <1>5, <1>6, <1>7, <1>8, <1>9

(* A packet that is queued continues the bytes before it.                  *)
LEMMA QueuedExact ==
    ASSUME Shape, PacketsExact, UpExact, rx # <<>>, Data(1, Head(rx)), rx' = Tail(rx),
           conn'.packets = Append(conn.packets, Head(rx)), UNCHANGED <<taken, host>>
    PROVE  PacketsExact' /\ UpExact'
<1>0. /\ ConnOK /\ RestOK /\ rx \in Seq(Packet) /\ conn.packets \in Seq(Packet) /\ taken \in Nat
  BY ShapeParts DEF RxOK, ConnOK, RestOK, Unread
<1>1. PICK b \in Nat : b = Accepted /\ taken <= b
  BY <1>0, AcceptedNat
<1>2. PICK S \in 0 .. MaxHost : Stream(1, rx, b, S) /\ b <= S /\ (host.open => S = host.sent)
  BY <1>1 DEF UpExact
<1>3. S \in Nat
  BY <1>2, Constants
<1>4. PICK p : p = Head(rx)
  OBVIOUS
<1>5. p \in Packet /\ p.first = b + 1 /\ b + p.size <= S /\ Stream(1, Tail(rx), b + p.size, S)
  BY <1>0, <1>1, <1>2, <1>3, <1>4, StreamTailData
<1>6. p.size \in Nat
  BY <1>5, PacketNumbers
<1>7. PICK t : t = Append(conn.packets, p)
  OBVIOUS
<1>8. /\ Len(t) = Len(conn.packets) + 1 /\ t # <<>> /\ t[Len(t)] = p
      /\ Len(conn.packets) \in Nat /\ DOMAIN t = 1 .. Len(conn.packets) + 1
      /\ DOMAIN conn.packets = 1 .. Len(conn.packets)
      /\ \A i \in 1 .. Len(conn.packets) : t[i] = conn.packets[i]
  <2>1. PICK s \in Seq(Packet) : s = conn.packets
    BY <1>0
  <2>2. t = Append(s, p) /\ t \in Seq(Packet)
    BY <1>5, <1>7, <2>1
  <2>3. /\ Len(t) = Len(s) + 1 /\ Len(s) \in Nat /\ DOMAIN t = 1 .. Len(s) + 1
        /\ DOMAIN s = 1 .. Len(s) /\ t[Len(s) + 1] = p /\ \A i \in 1 .. Len(s) : t[i] = s[i]
    BY <1>5, <2>2
  <2>4. t # <<>>
    <3>1. t = <<>> => Len(t) = 0
      OBVIOUS
    <3>. QED  BY <2>3, <3>1
  <2>. QED  BY <2>1, <2>3, <2>4
<1>9. Accepted' = b + p.size
  <2>1. Accepted' = End(p)
    BY <1>4, <1>7, <1>8 DEF Accepted
  <2>2. End(p) = (b + 1) + p.size - 1
    BY <1>5 DEF End
  <2>. QED  BY <1>1, <1>6, <2>1, <2>2
<1>10. Stream(1, t, taken, b + p.size)
  <2>1. Stream(1, conn.packets, taken, b)
    BY <1>1 DEF PacketsExact
  <2>. QED  BY <1>0, <1>1, <1>4, <1>5, <1>7, <2>1, StreamData
<1>11. AllData(1, t)
  <2>1. \A i \in DOMAIN t : i \in DOMAIN conn.packets \/ i = Len(t)
    BY <1>8
  <2>. QED  BY <1>4, <1>8, <2>1 DEF PacketsExact, AllData
<1>12. taken <= b + p.size
  BY <1>0, <1>1, <1>6
<1>13. PacketsExact'
  BY <1>4, <1>7, <1>9, <1>10, <1>11, <1>12 DEF PacketsExact
<1>14. UpExact'
  BY <1>2, <1>5, <1>9 DEF UpExact
<1>. QED  BY <1>13, <1>14

(* One that is not data leaves them as they are.                           *)
LEMMA OtherExact ==
    ASSUME Shape, PacketsExact, conn'.packets = conn.packets, taken' = taken
    PROVE  /\ PacketsExact'
           /\ UpExact /\ rx # <<>> /\ ~Data(1, Head(rx)) /\ rx' = Tail(rx) /\ host' = host
                 => UpExact'
<1>1. Accepted' = Accepted
  BY DEF Accepted
<1>2. PacketsExact'
  BY <1>1 DEF PacketsExact
<1>3. ASSUME UpExact, rx # <<>>, ~Data(1, Head(rx)), rx' = Tail(rx), host' = host
      PROVE  UpExact'
  <2>1. PICK b \in Nat : b = Accepted
    BY ShapeParts, AcceptedNat
  <2>2. PICK S \in 0 .. MaxHost : Stream(1, rx, b, S) /\ b <= S /\ (host.open => S = host.sent)
    BY <1>3, <2>1 DEF UpExact
  <2>3. S \in Nat /\ rx \in Seq(Packet)
    BY <2>2, Constants, ShapeParts DEF RxOK
  <2>4. Stream(1, Tail(rx), b, S)
    BY <1>3, <2>2, <2>3, StreamTailOther
  <2>. QED  BY <1>1, <1>3, <2>1, <2>2, <2>4 DEF UpExact
<1>. QED  BY <1>2, <1>3

(* What is queued is the packet.                                           *)
LEMMA QueuedPackets ==
    ASSUME conn \in Conn, NEW p \in Packet, Queued(p)
    PROVE  conn'.packets = Append(conn.packets, p)
<1>1. PICK c : c = Seen(p)
  OBVIOUS
<1>2. c \in Conn /\ c.packets = conn.packets
  BY <1>1, SeenFields
<1>3. conn' = [c EXCEPT !.packets = Append(conn.packets, p)]
  BY <1>1, <1>2 DEF Queued
<1>. QED  BY <1>2, <1>3 DEF Conn

(* by the processing of a packet,                                          *)
LEMMA TalkingProcess ==
    ASSUME Shape, Talking, process_packet
    PROVE  Talking'
<1>0. /\ ConnOK /\ tq \in Queues /\ RxOK /\ RestOK /\ ConnShape
      /\ gen = 1 /\ Holds(tq, Answers) /\ Answers \in SUBSET Packet /\ 1 \in Nat
  BY ShapeParts DEF Talking, Wire, Answers
<1>1. PICK p : p = Head(rx)
  OBVIOUS
<1>2. /\ rx # <<>> /\ rx' = Tail(rx) /\ p \in Packet
      /\ bad' \in {NoPacket, p}
      /\ UNCHANGED <<host, gen, written, taken>>
      /\ \/ Ignored \/ Answered(p) \/ WasReset(p) \/ OnlySeen(p)
         \/ Queued(p) \/ Lost(p) \/ Replied(p)
  BY <1>0, <1>1, ProcessCases DEF ConnOK, RxOK
<1>3. p = rx[1] /\ 1 \in DOMAIN rx /\ \A i \in DOMAIN rx' : i + 1 \in DOMAIN rx /\ rx'[i] = rx[i + 1]
  BY <1>0, <1>1, <1>2, RxTail
<1>4. /\ Holds(tq', Answers)
      /\ \A a, b \in Nat : Stream(1, Offered(tq), a, b) => Stream(1, Offered(tq'), a, b)
  <2>1. CASE tq' = tq
    BY <1>0, <2>1
  <2>2. ASSUME NEW op \in {"CREDIT_UPDATE", "RST"},
               tq' = copy_into_tq_or_add_to_pending(tq, Control(op, {})).tq
        PROVE  /\ Holds(tq', Answers)
               /\ \A a, b \in Nat : Stream(1, Offered(tq), a, b) => Stream(1, Offered(tq'), a, b)
    <3>1. op \in Ops \ {"REQUEST"} /\ op \in Ops /\ {} \in Flags /\ op # "RW"
      BY DEF Ops, Flags
    <3>2. Control(op, {}) \in Packet /\ Control(op, {}).op # "RW" /\ Control(op, {}) \in Answers
      BY <1>0, <3>1, ControlPacket, ControlAnswer
    <3>. QED  BY <1>0, <2>2, <3>2, ControlKept
  <2>3. \/ tq' = tq
        \/ \E op \in {"CREDIT_UPDATE", "RST"} :
              tq' = copy_into_tq_or_add_to_pending(tq, Control(op, {})).tq
    BY <1>2, Zenon DEF Ignored, Answered, WasReset, OnlySeen, Queued, Lost, Replied
  <2>. QED  BY <2>1, <2>2, <2>3
<1>5. Wire'
  BY <1>2, <1>3, <1>4 DEF Talking, Wire
<1>6. CASE ~Live'
  <2>1. CallExact'
    BY <1>6 DEF CallExact, Live
  <2>. QED  BY <1>5, <1>6, <2>1 DEF Talking
<1>7. CASE Live'
  <2>1. /\ Live /\ conn'.state = "ESTABLISHED"
        /\ conn'.tx_cnt = conn.tx_cnt /\ conn'.peer_fwd_cnt = p.fwd_cnt
        /\ conn'.peer_buf_alloc = p.buf_alloc
        /\ conn.recv_disallowed => conn'.recv_disallowed
        /\ \/ conn'.packets = conn.packets
           \/ Queued(p) /\ conn'.packets = Append(conn.packets, p)
    BY <1>1, <1>2, <1>7, Alive
  <2>2. CallExact'
    BY <2>1 DEF CallExact
  <2>3. CreditExact => CreditExact'
    BY <1>1, <1>2, <2>1, CreditSeen
  <2>4. DownExact => DownExact'
    <3>1. host.received \in Nat /\ written \in Nat
      BY <1>0 DEF RestOK, Host
    <3>. QED  BY <1>2, <1>4, <3>1 DEF DownExact
  <2>5. ASSUME ~dropped' PROVE PacketsExact' /\ (~conn'.recv_disallowed => UpExact')
    <3>1. ~dropped /\ ~Lost(p)
      <4>1. ~Lost(p)
        BY <2>5 DEF Lost
      <4>2. Replied(p) => dropped' = dropped
        BY Zenon DEF Replied
      <4>3. Ignored \/ Answered(p) \/ WasReset(p) \/ OnlySeen(p) \/ Queued(p)
               => dropped' = dropped
        BY DEF Ignored, Answered, WasReset, OnlySeen, Queued
      <4>4. dropped' = dropped
        BY <1>2, <4>1, <4>2, <4>3
      <4>. QED  BY <2>5, <4>1, <4>4
    <3>2. PacketsExact /\ (~conn.recv_disallowed => UpExact)
      BY <2>1, <3>1 DEF Talking
    <3>3. p.gen = 1
      BY <1>3 DEF Talking, Wire
    <3>4. CASE Queued(p) /\ conn'.packets = Append(conn.packets, p)
      <4>1. ~conn.recv_disallowed /\ p.op = "RW"
        BY <3>4 DEF Queued
      <4>2. Data(1, p)
        BY <3>3, <4>1 DEF Data
      <4>. QED  BY <1>1, <1>2, <3>2, <3>4, <4>1, <4>2, QueuedExact
    <3>5. CASE conn'.packets = conn.packets
      <4>1. PacketsExact'
        BY <1>2, <3>2, <3>5, OtherExact
      <4>2. ASSUME ~conn'.recv_disallowed PROVE UpExact'
        <5>1. ~conn.recv_disallowed
          BY <2>1, <4>2
        <5>2. CASE Queued(p)
          <6>1. conn'.packets = Append(conn.packets, p)
            BY <1>0, <1>2, <5>2, QueuedPackets DEF ConnOK
          <6>. QED  BY <3>4, <4>2, <5>2, <6>1
        <5>3. CASE ~Queued(p)
          <6>1. p.op # "RW"
            <7>1. Answered(p) \/ WasReset(p) \/ OnlySeen(p) \/ Replied(p) \/ Ignored
              BY <1>2, <3>1, <5>3
            <7>2. conn.state = "ESTABLISHED" => ~Ignored
              BY <1>0 DEF Ignored, ConnShape
            <7>3. conn.state = "CONNECT" => ~Ignored /\ ~OnlySeen(p)
              BY <1>0, <1>1 DEF Ignored, OnlySeen, ConnShape, Talking, CallExact
            <7>4. Replied(p) => p.op # "RW"
              BY Zenon DEF Replied
            <7>5. Answered(p) \/ WasReset(p) => p.op # "RW"
              BY DEF Answered, WasReset
            <7>6. conn.state = "ESTABLISHED" /\ OnlySeen(p) => p.op # "RW"
              BY <5>1 DEF OnlySeen
            <7>. QED  BY <2>1, <7>1, <7>2, <7>3, <7>4, <7>5, <7>6 DEF Live
          <6>2. ~Data(1, p)
            BY <6>1 DEF Data
          <6>. QED  BY <1>1, <1>2, <3>2, <3>5, <5>1, <6>2, OtherExact
        <5>. QED  BY <5>2, <5>3
      <4>. QED  BY <4>1, <4>2
    <3>. QED  BY <2>1, <3>4, <3>5
  <2>. QED  BY <1>2, <1>5, <2>1, <2>2, <2>3, <2>4, <2>5 DEF Talking
<1>. QED  BY <1>6, <1>7

(* The last packet of the receive queue carries the host's latest credit.  *)
LEMMA CreditAppend ==
    ASSUME Shape, CreditExact, DownExact, NEW p \in Packet, rx' = Append(rx, p),
           UNCHANGED <<conn, written>>, host'.consumed \in {host.consumed, host.received},
           p.buf_alloc = HostBuf, p.fwd_cnt = host'.consumed % Mod
    PROVE  CreditExact'
<1>0. /\ RxOK /\ host.consumed \in Nat /\ host.received \in Nat /\ written \in Nat
      /\ HostBuf \in Nat /\ HostBuf < Mod /\ Mod \in Nat
  <2>1. RxOK /\ host \in Host /\ written \in Nat
    BY ShapeParts DEF RestOK
  <2>2. host.consumed \in Nat /\ host.received \in Nat
    BY <2>1 DEF Host
  <2>. QED  BY <2>1, <2>2, Constants
<1>1. PICK t : t = Append(rx, p)
  OBVIOUS
<1>2. rx \in Seq(Packet)
  BY <1>0 DEF RxOK
<1>3. /\ DOMAIN rx = 1 .. Len(rx) /\ Len(rx) \in Nat /\ DOMAIN t = 1 .. Len(rx) + 1
      /\ t[Len(rx) + 1] = p /\ \A i \in 1 .. Len(rx) : t[i] = rx[i]
  BY <1>1, <1>2
<1>4. PICK l \in Nat : l = Lag(conn.peer_fwd_cnt) /\ l <= HostBuf
  <2>1. conn.peer_fwd_cnt \in Nat
    BY ShapeParts, ConnFields, CounterNat DEF ConnOK
  <2>2. Lag(conn.peer_fwd_cnt) <= HostBuf
    BY DEF CreditExact
  <2>. QED  BY <2>1, <2>2, LagNat
<1>5. PICK k \in Nat : k = host'.consumed /\ host.consumed <= k /\ k <= written
  BY <1>0 DEF DownExact
<1>6. written - host.consumed <= l
  BY <1>4 DEF CreditExact
<1>7. written - k <= l /\ written - k < Mod /\ written - k <= written - host.consumed
  BY <1>0, <1>4, <1>5, <1>6
<1>8. Lag(p.fwd_cnt) = written - k
  BY <1>0, <1>5, <1>7, MinusExact DEF Lag
<1>9. \A i \in DOMAIN rx : written - host.consumed <= Lag(rx[i].fwd_cnt) /\ Lag(rx[i].fwd_cnt) \in Nat
  <2>1. \A i \in DOMAIN rx : rx[i] \in Packet
    BY <1>2
  <2>2. \A i \in DOMAIN rx : rx[i].fwd_cnt \in Nat
    BY <2>1, PacketNumbers, CounterNat
  <2>. QED  BY <2>2, LagNat DEF CreditExact
<1>10. ASSUME NEW i \in DOMAIN rx PROVE Lag(p.fwd_cnt) <= Lag(rx[i].fwd_cnt)
  <2>1. PICK x \in Nat : x = Lag(rx[i].fwd_cnt) /\ written - host.consumed <= x
    BY <1>9
  <2>. QED  BY <1>0, <1>5, <1>7, <1>8, <2>1
<1>11. ASSUME NEW i \in DOMAIN t
       PROVE  /\ t[i].buf_alloc = HostBuf /\ Lag(t[i].fwd_cnt) <= Lag(conn.peer_fwd_cnt)
              /\ written - k <= Lag(t[i].fwd_cnt)
  <2>1. CASE i = Len(rx) + 1
    BY <1>0, <1>3, <1>4, <1>5, <1>7, <1>8, <2>1
  <2>2. CASE i \in DOMAIN rx
    <3>1. t[i] = rx[i]
      BY <1>3, <2>2
    <3>2. PICK x \in Nat : x = Lag(rx[i].fwd_cnt) /\ written - host.consumed <= x
      BY <1>9, <2>2
    <3>3. written - k <= x
      BY <1>0, <1>5, <1>7, <3>2
    <3>. QED  BY <2>2, <3>1, <3>2, <3>3 DEF CreditExact
  <2>. QED  BY <1>3, <2>1, <2>2
<1>12. ASSUME NEW i \in DOMAIN t, NEW j \in DOMAIN t, i < j
       PROVE  Lag(t[j].fwd_cnt) <= Lag(t[i].fwd_cnt)
  <2>1. i \in DOMAIN rx /\ t[i] = rx[i]
    BY <1>3, <1>12
  <2>2. CASE j = Len(rx) + 1
    BY <1>3, <1>10, <2>1, <2>2
  <2>3. CASE j \in DOMAIN rx
    <3>1. t[j] = rx[j]
      BY <1>3, <2>3
    <3>. QED  BY <1>12, <2>1, <2>3, <3>1 DEF CreditExact
  <2>. QED  BY <1>3, <2>2, <2>3
<1>13. /\ conn'.tx_cnt = written' % Mod /\ conn'.peer_buf_alloc \in {0, HostBuf}
       /\ Lag(conn.peer_fwd_cnt)' = Lag(conn.peer_fwd_cnt) /\ Lag(conn.peer_fwd_cnt) <= HostBuf
  BY DEF CreditExact, Lag
<1>14. written' - host'.consumed <= Lag(conn.peer_fwd_cnt)'
  BY <1>4, <1>5, <1>7, <1>13
<1>. QED  BY <1>1, <1>5, <1>11, <1>12, <1>13, <1>14 DEF CreditExact, Lag

(* A packet of the host that is not data adds no bytes,                    *)
LEMMA UpOther ==
    ASSUME Shape, PacketsExact, UpExact, NEW p \in Packet, ~Data(1, p),
           rx' = rx \/ rx' = Append(rx, p), UNCHANGED <<conn, taken>>,
           host'.open => host.open /\ host'.sent = host.sent
    PROVE  UpExact'
<1>1. PICK b \in Nat : b = Accepted
  BY ShapeParts, AcceptedNat
<1>2. PICK S \in 0 .. MaxHost : Stream(1, rx, b, S) /\ b <= S /\ (host.open => S = host.sent)
  BY <1>1 DEF UpExact
<1>3. S \in Nat /\ rx \in Seq(Packet)
  BY <1>2, Constants, ShapeParts DEF RxOK
<1>4. Stream(1, rx', b, S)
  BY <1>2, <1>3, StreamOther
<1>5. Accepted' = b
  BY <1>1 DEF Accepted
<1>. QED  BY <1>2, <1>4, <1>5 DEF UpExact

(* and one of data adds its own.                                           *)
LEMMA UpData ==
    ASSUME Shape, PacketsExact, UpExact, NEW p \in Packet, Data(1, p), rx' = Append(rx, p),
           UNCHANGED <<conn, taken>>, host.open, p.first = host.sent + 1,
           host'.sent = host.sent + p.size, host'.sent \in 0 .. MaxHost
    PROVE  UpExact'
<1>1. PICK b \in Nat : b = Accepted
  BY ShapeParts, AcceptedNat
<1>2. PICK S \in 0 .. MaxHost : Stream(1, rx, b, S) /\ b <= S /\ S = host.sent
  BY <1>1 DEF UpExact
<1>3. S \in Nat /\ rx \in Seq(Packet) /\ p.size \in Nat
  BY <1>2, Constants, PacketNumbers, ShapeParts DEF RxOK
<1>4. Stream(1, rx', b, S + p.size)
  BY <1>2, <1>3, StreamData
<1>5. Accepted' = b
  BY <1>1 DEF Accepted
<1>6. b <= S + p.size
  BY <1>2, <1>3
<1>. QED  BY <1>2, <1>4, <1>5, <1>6 DEF UpExact

(* by what the host sends of itself,                                       *)
LEMMA TalkingAppend ==
    ASSUME Shape, Talking, host.open, NEW p \in Packet, rx' = Append(rx, p),
           UNCHANGED <<conn, tq, bad, gen, written, taken, dropped>>, p.gen = host.gen,
           p.buf_alloc = HostBuf,
           host'.open => /\ host'.gen = host.gen /\ host'.buf_alloc = host.buf_alloc
                         /\ host'.received = host.received
                         /\ host'.consumed \in {host.consumed, host.received}
                         /\ p.fwd_cnt = host'.consumed % Mod,
           \/ p.op # "RW" /\ (host'.open => host'.sent = host.sent)
           \/ /\ p.op = "RW" /\ p.size > 0 /\ p.first = host.sent + 1
              /\ host'.sent = host.sent + p.size /\ host'.sent \in 0 .. MaxHost
    PROVE  Talking'
<1>0. RxOK /\ host \in Host /\ host.gen = 1
  BY ShapeParts DEF RestOK, Talking, Wire
<1>1. /\ DOMAIN rx = 1 .. Len(rx) /\ Len(rx) \in Nat /\ rx'[Len(rx) + 1] = p
      /\ \A i \in DOMAIN rx : rx'[i] = rx[i]
      /\ \A i \in DOMAIN rx' : i \in DOMAIN rx \/ i = Len(rx) + 1
      /\ rx' # <<>> /\ rx # <<>> => Head(rx') = Head(rx)
  BY <1>0, RxAppend
<1>2. Wire'
  BY <1>0, <1>1 DEF Talking, Wire
<1>3. CallExact'
  BY <1>1 DEF Talking, CallExact
<1>4. Live' = Live /\ Accepted' = Accepted /\ dropped' = dropped
  BY DEF Live, Accepted
<1>5. ASSUME Live, host'.open PROVE CreditExact' /\ DownExact'
  <2>1. CreditExact /\ DownExact
    BY <1>5 DEF Talking
  <2>2. CreditExact'
    BY <1>5, <2>1, CreditAppend
  <2>3. host'.consumed <= host'.received
    <3>1. host.received \in Nat
      BY <1>0 DEF Host
    <3>. QED  BY <1>5, <2>1, <3>1 DEF DownExact
  <2>. QED  BY <1>5, <2>1, <2>2, <2>3 DEF DownExact
<1>6. ASSUME Live, ~dropped PROVE PacketsExact' /\ (~conn'.recv_disallowed => UpExact')
  <2>1. PacketsExact /\ (~conn.recv_disallowed => UpExact)
    BY <1>6 DEF Talking
  <2>2. PacketsExact'
    BY <1>4, <2>1 DEF PacketsExact
  <2>3. CASE p.op # "RW" /\ (host'.open => host'.sent = host.sent)
    <3>1. ~Data(1, p)
      BY <2>3 DEF Data
    <3>. QED  BY <2>1, <2>2, <2>3, <3>1, UpOther
  <2>4. CASE /\ p.op = "RW" /\ p.first = host.sent + 1
             /\ host'.sent = host.sent + p.size /\ host'.sent \in 0 .. MaxHost
    <3>1. Data(1, p)
      BY <1>0, <2>4 DEF Data
    <3>. QED  BY <2>1, <2>2, <2>4, <3>1, UpData
  <2>. QED  BY <2>3, <2>4
<1>. QED  BY <1>2, <1>3, <1>4, <1>5, <1>6 DEF Talking

(* by its data, its credit updates and the rest,                           *)
LEMMA TalkingHost ==
    ASSUME Shape, Talking, (\E n \in HostSizes : HostSends(n)) \/ HostReads \/ HostExtra
    PROVE  Talking'
<1>0. host \in Host
  BY ShapeParts DEF RestOK
<1>1. /\ {"RW", "CREDIT_UPDATE", "CREDIT_REQUEST", "SHUTDOWN", "RST"} \subseteq Ops
      /\ {{}, {"RCV", "SEND"}} \subseteq Flags /\ 0 \in Nat /\ 0 \in 0 .. Payload
  BY Constants DEF Ops, Flags
<1>2. ASSUME NEW n \in HostSizes, HostSends(n) PROVE Talking'
  <2>1. /\ host.open /\ host.sent + n <= MaxHost
        /\ rx' = Append(rx, ToGuest(host, "RW", host.sent + 1, n, {}))
        /\ host' = [host EXCEPT !.sent = host.sent + n]
        /\ UNCHANGED <<conn, tq, bad, gen, written, taken, dropped>>
    BY <1>2 DEF HostSends, hist
  <2>2. n \in Nat /\ n > 0 /\ n \in 0 .. Payload
    BY VsockAssumption
  <2>3. host.sent + 1 \in Nat /\ host.sent + n \in 0 .. MaxHost
    <3>1. PICK s \in Nat : s = host.sent /\ s + n <= MaxHost
      BY <1>0, <2>1, Constants DEF Host
    <3>2. s + 1 \in Nat /\ s + n \in 0 .. MaxHost
      BY <2>2, <3>1, Constants
    <3>. QED  BY <3>1, <3>2
  <2>4. PICK p : p = ToGuest(host, "RW", host.sent + 1, n, {})
    OBVIOUS
  <2>5. /\ p \in Packet /\ p.op = "RW" /\ p.gen = host.gen /\ p.first = host.sent + 1
        /\ p.size = n /\ p.fwd_cnt = host.consumed % Mod /\ p.buf_alloc = HostBuf
    BY <1>0, <1>1, <2>2, <2>3, <2>4, ToGuestPacket
  <2>6. /\ host'.gen = host.gen /\ host'.buf_alloc = host.buf_alloc
        /\ host'.received = host.received /\ host'.consumed = host.consumed
        /\ host'.sent = host.sent + n
    BY <1>0, <2>1 DEF Host
  <2>. QED  BY <2>1, <2>2, <2>3, <2>4, <2>5, <2>6, TalkingAppend
<1>3. CASE HostReads
  <2>1. /\ host.open /\ host' = [host EXCEPT !.consumed = host.received]
        /\ rx' = Append(rx, ToGuest(host', "CREDIT_UPDATE", 0, 0, {}))
        /\ UNCHANGED <<conn, tq, bad, gen, written, taken, dropped>>
    BY <1>3 DEF HostReads, hist
  <2>2. /\ host' \in Host /\ host'.gen = host.gen /\ host'.buf_alloc = host.buf_alloc
        /\ host'.received = host.received /\ host'.consumed = host.received
        /\ host'.sent = host.sent
    BY <1>0, <2>1 DEF Host
  <2>3. PICK p : p = ToGuest(host', "CREDIT_UPDATE", 0, 0, {})
    OBVIOUS
  <2>4. /\ p \in Packet /\ p.op = "CREDIT_UPDATE" /\ p.gen = host'.gen
        /\ p.fwd_cnt = host'.consumed % Mod /\ p.buf_alloc = HostBuf
    BY <1>1, <2>2, <2>3, ToGuestPacket
  <2>. QED  BY <2>1, <2>2, <2>3, <2>4, TalkingAppend
<1>4. CASE HostExtra
  <2>1. /\ host.open /\ UNCHANGED <<conn, tq, bad, gen, written, taken, dropped>>
        /\ host' \in {host, [host EXCEPT !.closing = TRUE], NoHost}
    BY <1>4 DEF HostExtra
  <2>2. PICK op \in {"CREDIT_REQUEST", "SHUTDOWN", "RST"}, f \in {{}, {"RCV", "SEND"}} :
           rx' = Append(rx, ToGuest(host, op, 0, 0, f))
    BY <1>4 DEF HostExtra
  <2>3. PICK p : p = ToGuest(host, op, 0, 0, f)
    OBVIOUS
  <2>4. op \in Ops /\ f \in Flags /\ op # "RW"
    BY <1>1
  <2>5. /\ p \in Packet /\ p.op # "RW" /\ p.gen = host.gen
        /\ p.fwd_cnt = host.consumed % Mod /\ p.buf_alloc = HostBuf
    BY <1>0, <1>1, <2>3, <2>4, ToGuestPacket
  <2>6. host'.open => /\ host'.gen = host.gen /\ host'.buf_alloc = host.buf_alloc
                      /\ host'.received = host.received /\ host'.consumed = host.consumed
                      /\ host'.sent = host.sent
    BY <1>0, <2>1, NoHostOK DEF Host
  <2>. QED  BY <2>1, <2>2, <2>3, <2>5, <2>6, TalkingAppend
<1>. QED  BY <1>2, <1>3, <1>4

(* What the host does with a packet that is not a request.                 *)
LEMMA TakesCases ==
    ASSUME host \in Host, NEW in \in Packet, in.op # "REQUEST", HostReceives(in)
    PROVE  \/ /\ host.open /\ host'.open /\ rx' = rx /\ in.op # "RST"
              /\ host'.gen = host.gen /\ host'.sent = host.sent
              /\ host'.consumed = host.consumed
              /\ host'.fwd_cnt = in.fwd_cnt /\ host'.buf_alloc = in.buf_alloc
              /\ host'.received = host.received + (IF in.op = "RW" THEN in.size ELSE 0)
           \/ ~host'.open /\ (rx' = rx \/ rx' = Append(rx, Reset(in)))
<1>1. PICK h : h = [host EXCEPT !.fwd_cnt = in.fwd_cnt, !.buf_alloc = in.buf_alloc]
  OBVIOUS
<1>2. /\ h \in Host /\ h.open = host.open /\ h.gen = host.gen /\ h.sent = host.sent
      /\ h.received = host.received /\ h.consumed = host.consumed
      /\ h.fwd_cnt = in.fwd_cnt /\ h.buf_alloc = in.buf_alloc
  BY <1>1, HostCredits, Zenon
<1>8. host.received \in Nat
  BY DEF Host
<1>3. CASE ~host.open
  <2>1. rx' = (IF in.op = "RST" THEN rx ELSE Append(rx, Reset(in))) /\ UNCHANGED host
    BY <1>3 DEF HostReceives
  <2>. QED  BY <1>3, <2>1
<1>4. CASE host.open /\ in.op = "RST"
  <2>1. host' = NoHost /\ UNCHANGED rx
    BY <1>4 DEF HostReceives
  <2>. QED  BY <2>1, NoHostOK
<1>5. CASE host.open /\ in.op = "SHUTDOWN"
  <2>1. IF host.shut \cup in.flags = {"RCV", "SEND"}
        THEN host' = NoHost /\ rx' = Append(rx, Reset(in))
        ELSE host' = [h EXCEPT !.shut = h.shut \cup in.flags] /\ UNCHANGED rx
    BY <1>1, <1>5 DEF HostReceives
  <2>2. CASE host' = NoHost /\ rx' = Append(rx, Reset(in))
    BY <2>2, NoHostOK
  <2>3. CASE host' = [h EXCEPT !.shut = h.shut \cup in.flags] /\ UNCHANGED rx
    <3>1. /\ host'.open = h.open /\ host'.gen = h.gen /\ host'.sent = h.sent
          /\ host'.received = h.received /\ host'.consumed = h.consumed
          /\ host'.fwd_cnt = h.fwd_cnt /\ host'.buf_alloc = h.buf_alloc
      BY <1>2, <2>3 DEF Host
    <3>. QED  BY <1>2, <1>5, <1>8, <2>3, <3>1
  <2>. QED  BY <2>1, <2>2, <2>3
<1>6. CASE host.open /\ in.op = "RW"
  <2>1. host' = [h EXCEPT !.received = h.received + in.size] /\ UNCHANGED rx
    BY <1>1, <1>6 DEF HostReceives
  <2>2. /\ host'.open = h.open /\ host'.gen = h.gen /\ host'.sent = h.sent
        /\ host'.received = h.received + in.size /\ host'.consumed = h.consumed
        /\ host'.fwd_cnt = h.fwd_cnt /\ host'.buf_alloc = h.buf_alloc
    BY <1>2, <2>1 DEF Host
  <2>. QED  BY <1>2, <1>6, <1>8, <2>1, <2>2
<1>7. CASE host.open /\ in.op = "CREDIT_UPDATE"
  <2>1. host' = h /\ UNCHANGED rx
    BY <1>1, <1>7 DEF HostReceives
  <2>. QED  BY <1>2, <1>7, <1>8, <2>1
<1>. QED  BY <1>3, <1>4, <1>5, <1>6, <1>7 DEF HostReceives

(* and by the packets it takes.                                            *)
LEMMA TalkingTakes ==
    ASSUME Shape, Talking, HostTakes
    PROVE  Talking'
<1>0. /\ host \in Host /\ tq \in Queues /\ written \in Nat /\ RxOK
      /\ gen = 1 /\ Holds(tq, Answers) /\ Answers \in SUBSET Packet
  BY ShapeParts DEF RestOK, Talking, Wire, Answers
<1>1. PICK in : in = Head(tq.avail).packet
  OBVIOUS
<1>2. /\ tq.avail # <<>> /\ HostReceives(in)
      /\ tq' = [tq EXCEPT !.avail = Tail(tq.avail),
                          !.completed = Append(tq.completed, Head(tq.avail).id)]
      /\ UNCHANGED <<conn, bad, gen, written, taken, dropped>>
  BY <1>1 DEF HostTakes, hist
<1>3. tq'.avail = Tail(tq.avail) /\ in \in Packet /\ in \in Answers /\ Holds(tq', Answers)
  <2>1. /\ tq'.avail = Tail(tq.avail) /\ in \in Packet
        /\ \A C \in SUBSET Packet : Holds(tq, C) => in \in C /\ Holds(tq', C)
    BY <1>0, <1>1, <1>2, TakenQueue, ZenonT(60)
  <2>. QED  BY <1>0, <2>1
<1>4. in.gen = 1 /\ in.op # "REQUEST" /\ (in.op # "RST" => in.buf_alloc = BufAlloc)
  BY <1>3 DEF Answers
<1>5. \/ /\ host.open /\ host'.open /\ rx' = rx /\ in.op # "RST"
         /\ host'.gen = host.gen /\ host'.sent = host.sent
         /\ host'.consumed = host.consumed
         /\ host'.fwd_cnt = in.fwd_cnt /\ host'.buf_alloc = in.buf_alloc
         /\ host'.received = host.received + (IF in.op = "RW" THEN in.size ELSE 0)
      \/ ~host'.open /\ (rx' = rx \/ rx' = Append(rx, Reset(in)))
  BY <1>0, <1>2, <1>3, <1>4, TakesCases
<1>6. Reset(in) \in Packet /\ Reset(in).op = "RST" /\ Reset(in).gen = 1
  <2>1. in.gen \in 0 .. MaxGen
    BY <1>3 DEF Packet
  <2>. QED  BY <1>4, <2>1, ResetPacket DEF Reset
<1>7. /\ \A i \in DOMAIN rx' : (i \in DOMAIN rx /\ rx'[i] = rx[i]) \/ rx'[i] = Reset(in)
      /\ rx # <<>> => rx' # <<>> /\ Head(rx') = Head(rx)
  <2>1. CASE rx' = rx
    BY <2>1
  <2>2. CASE rx' = Append(rx, Reset(in))
    BY <1>0, <1>6, <2>2, RxAppend
  <2>. QED  BY <1>5, <2>1, <2>2
<1>8. Wire'
  <2>1. \A i \in DOMAIN rx' : rx'[i].gen = 1
    BY <1>6, <1>7 DEF Talking, Wire
  <2>2. host'.open => host'.gen = 1 /\ host'.buf_alloc = BufAlloc
    BY <1>4, <1>5 DEF Talking, Wire
  <2>. QED  BY <1>2, <1>3, <2>1, <2>2 DEF Talking, Wire
<1>9. CallExact'
  BY <1>2, <1>7 DEF Talking, CallExact
<1>10. Live' = Live /\ Accepted' = Accepted /\ dropped' = dropped
  BY <1>2 DEF Live, Accepted
<1>11. ASSUME Live, host'.open PROVE CreditExact' /\ DownExact'
  <2>1. CreditExact /\ DownExact
    BY <1>5, <1>11 DEF Talking
  <2>2. CreditExact'
    BY <1>2, <1>5, <1>11, <2>1 DEF CreditExact, Lag
  <2>3. PICK s : s = Offered(tq)
    OBVIOUS
  <2>4. s \in Seq(Packet) /\ s # <<>> /\ Head(s) = in /\ Offered(tq') = Tail(s)
    <3>1. tq.avail \in Seq(Desc)
      BY <1>0, QueueFields DEF Queues
    <3>. QED  BY <1>1, <1>2, <1>3, <2>3, <3>1, OfferedSeq, OfferedTail
  <2>5. host.received \in Nat /\ host.consumed \in Nat /\ in.size \in Nat
    BY <1>0, <1>3, PacketNumbers DEF Host
  <2>6. Stream(1, s, host.received, written) /\ host.consumed <= host.received
        /\ host.received <= written
    BY <2>1, <2>3 DEF DownExact
  <2>7. CASE in.op = "RW"
    <3>1. Data(1, Head(s))
      BY <1>4, <2>4, <2>7 DEF Data
    <3>2. /\ host.received + in.size <= written
          /\ Stream(1, Tail(s), host.received + in.size, written)
      BY <1>0, <2>4, <2>5, <2>6, <3>1, StreamTailData
    <3>3. host.consumed <= host.received + in.size
      BY <2>5, <2>6
    <3>4. host'.received = host.received + in.size /\ host'.consumed = host.consumed
      BY <1>5, <1>11, <2>7
    <3>. QED  BY <1>2, <2>2, <2>4, <3>2, <3>3, <3>4 DEF DownExact
  <2>8. CASE in.op # "RW"
    <3>1. ~Data(1, Head(s))
      BY <2>4, <2>8 DEF Data
    <3>2. Stream(1, Tail(s), host.received, written)
      BY <1>0, <2>4, <2>5, <2>6, <3>1, StreamTailOther
    <3>3. host'.received = host.received /\ host'.consumed = host.consumed
      BY <1>5, <1>11, <2>5, <2>8
    <3>. QED  BY <1>2, <2>2, <2>4, <2>6, <3>2, <3>3 DEF DownExact
  <2>. QED  BY <2>7, <2>8
<1>12. ASSUME Live, ~dropped PROVE PacketsExact' /\ (~conn'.recv_disallowed => UpExact')
  <2>1. PacketsExact /\ (~conn.recv_disallowed => UpExact)
    BY <1>12 DEF Talking
  <2>2. PacketsExact'
    BY <1>2, <1>10, <2>1 DEF PacketsExact
  <2>3. ~Data(1, Reset(in))
    BY <1>6 DEF Data
  <2>4. host'.open => host.open /\ host'.sent = host.sent
    BY <1>5
  <2>5. rx' = rx \/ rx' = Append(rx, Reset(in))
    BY <1>5
  <2>. QED  BY <1>2, <1>6, <2>1, <2>2, <2>3, <2>4, <2>5, UpOther
<1>. QED  BY <1>8, <1>9, <1>10, <1>11, <1>12 DEF Talking

------------------------------------------------------------------------------
(* Until the host has taken the request.                                   *)

(* A queue the device has nothing of has a free descriptor.                *)
LEMMA EmptyHasFree ==
    ASSUME NEW q \in Queues, q.avail = <<>>, q.completed = <<>>
    PROVE  HasFree(q)
<1>1. PICK n, l : FreeList(q.free, q.next, q.avail, q.completed, n, l)
  BY DEF Queues, Descriptors
<1>2. TqSize \in Nat \ {0}
  BY Constants
<1>3. n \in Nat /\ l \in [1 .. n -> 0 .. TqSize - 1] /\ n + 0 + 0 = TqSize
      /\ q.free = IF n = 0 THEN TqSize ELSE l[1]
  BY <1>1 DEF FreeList
<1>4. q.free \in 0 .. TqSize - 1
  BY <1>2, <1>3
<1>. QED  BY <1>2, <1>4 DEF HasFree

(* Calls that leave the queues alone.                                      *)
LEMMA PhaseKept ==
    ASSUME Before \/ Asking, UNCHANGED <<gen, tq, rx, host, bad, dropped>>,
           written' = 0, taken' = 0, conn' \in {NoConn, Socket} \/ conn' = conn
    PROVE  Before' \/ Asking'
BY DEF Before, Asking, Quiet

(* The connection before it is answered.                                   *)
LEMMA PhaseConn ==
    ASSUME Before \/ Asking
    PROVE  /\ conn \in {NoConn, Socket, Calling} /\ conn.state \in {"CLOSE", "CONNECT"}
           /\ ~conn.used /\ conn \in Conn
           /\ gen \in {0, 1} /\ Quiet /\ ~host.open
<1>1. /\ conn \in {NoConn, Socket, Calling} /\ gen \in {0, 1} /\ Quiet
  BY DEF Before, Asking
<1>. QED  BY <1>1, FreshConn, NoHostOK DEF Quiet

(* The application's calls then.                                           *)
LEMMA PhaseCalls ==
    ASSUME Shape, Before \/ Asking,
           \/ virtio_vsock_socket \/ ConnectDone \/ ConnectTimesOut
           \/ CloseDone \/ CloseTimesOut \/ virtio_vsock_close
    PROVE  Before' \/ Asking'
<1>1. /\ conn.state \in {"CLOSE", "CONNECT"} /\ ~conn.used /\ conn \in Conn
      /\ written = 0 /\ taken = 0
  BY PhaseConn DEF Quiet
<1>2. CASE ConnectDone
  <2>1. conn' = [conn EXCEPT !.used = conn.state = "ESTABLISHED"]
        /\ UNCHANGED <<tq, rx, host, bad, gen, written, taken, dropped>>
    BY <1>2 DEF ConnectDone, hist
  <2>2. conn' = conn
    BY <1>1, <2>1 DEF Conn
  <2>. QED  BY <1>1, <2>1, <2>2, PhaseKept
<1>3. CASE ConnectTimesOut
  BY <1>1, <1>3, PhaseKept DEF ConnectTimesOut, hist
<1>4. CASE virtio_vsock_socket
  <2>1. conn' = Socket /\ UNCHANGED <<tq, rx, host, bad, gen, written, taken, dropped>>
    BY <1>4 DEF virtio_vsock_socket, Socket, hist
  <2>. QED  BY <1>1, <2>1, PhaseKept
<1>5. CASE CloseDone \/ CloseTimesOut
  <2>1. /\ conn' = NoConn /\ written' = 0 /\ taken' = 0
        /\ UNCHANGED <<tq, rx, host, bad, gen, dropped>>
    BY <1>5 DEF CloseDone, CloseTimesOut, remove_connection
  <2>. QED  BY <2>1, PhaseKept
<1>6. CASE virtio_vsock_close
  <2>1. /\ conn' = NoConn /\ written' = 0 /\ taken' = 0
        /\ UNCHANGED <<tq, rx, host, bad, gen, dropped>>
    BY <1>1, <1>6 DEF virtio_vsock_close, virtio_vsock_close_common, remove_connection
  <2>. QED  BY <2>1, PhaseKept
<1>. QED  BY <1>2, <1>3, <1>4, <1>5, <1>6

(* The request is offered to the device at once.                           *)
LEMMA PhaseConnect ==
    ASSUME Shape, Before, virtio_vsock_connect
    PROVE  Asking'
<1>0. /\ tq \in Queues /\ gen = 0 /\ Quiet /\ conn \in {NoConn, Socket} /\ tq.avail = <<>>
      /\ tq.completed = <<>> /\ tq.pending = <<>>
  BY ShapeParts DEF Before, Quiet
<1>1. PICK p, s :
              /\ p \in Packet /\ p = [Control("REQUEST", {}) EXCEPT !.gen = gen + 1]
              /\ p.op = "REQUEST" /\ p.gen = gen + 1 /\ p.fwd_cnt = conn.fwd_cnt
              /\ s = copy_into_tq_or_add_to_pending(tq, p)
              /\ tq' = s.tq /\ gen' = gen + 1 /\ gen < MaxGen
              /\ conn' = [conn EXCEPT !.ported = TRUE,
                                      !.state = IF s.sent THEN "CONNECT" ELSE conn.state]
              /\ apc' = IF s.sent THEN "connecting" ELSE "idle"
  BY ConnectRequest, Zenon
<1>2. conn.open /\ UNCHANGED <<rx, host, bad, written, taken, dropped>>
  BY DEF virtio_vsock_connect
<1>3. conn = Socket
  BY <1>0, <1>2 DEF NoConn
<1>4. p = Request
  <2>1. conn.fwd_cnt = 0
    BY <1>3 DEF Socket, NoConn
  <2>2. Control("REQUEST", {}) = [op |-> "REQUEST", gen |-> gen, first |-> 0, size |-> 0,
                                  flags |-> {}, fwd_cnt |-> 0, buf_alloc |-> BufAlloc]
    BY <2>1 DEF Control
  <2>3. gen + 1 = 1
    BY <1>0
  <2>4. p = [Control("REQUEST", {}) EXCEPT !.gen = 1]
    BY <1>1, <2>3
  <2>. QED  BY <2>2, <2>4 DEF Request
<1>5. HasFree(tq)
  BY <1>0, EmptyHasFree
<1>6. PICK r : r = copy_into_tq_internal(tq, p)
  OBVIOUS
<1>7. /\ r.pending = <<>> /\ r.completed = <<>> /\ Len(r.avail) = 1
      /\ r.avail[1].packet = Request
  <2>0. tq \in Queues /\ HasFree(tq) /\ p \in Packet
    BY <1>0, <1>1, <1>5
  <2>1. /\ r.pending = tq.pending /\ r.completed = tq.completed
        /\ Len(r.avail) = Len(tq.avail) + 1 /\ r.avail[Len(r.avail)].packet = p
    BY <1>6, <2>0, CopyIntoTq
  <2>2. Len(tq.avail) = 0
    BY <1>0
  <2>. QED  BY <1>0, <1>4, <2>1, <2>2
<1>8. s.sent /\ s.tq = cleanup_tq(r)
  BY <1>1, <1>5, <1>6 DEF copy_into_tq_or_add_to_pending
<1>9. tq' = r
  BY <1>1, <1>7, <1>8, CleanupNothing
<1>10. conn' = Calling
  BY <1>1, <1>3, <1>8 DEF Calling, Socket, NoConn
<1>11. gen' = 1
  BY <1>0, <1>1
<1>. QED  BY <1>0, <1>2, <1>7, <1>9, <1>10, <1>11 DEF Asking, Quiet

(* The host accepts the request or resets it.                              *)
LEMMA PhaseTakes ==
    ASSUME Shape, Asking, HostTakes
    PROVE  Talking'
<1>0. /\ tq \in Queues /\ gen = 1 /\ Quiet /\ conn \in {NoConn, Socket, Calling}
      /\ Len(tq.avail) = 1 /\ tq.avail[1].packet = Request
      /\ rx = <<>> /\ host = NoHost /\ bad = NoPacket /\ written = 0 /\ taken = 0 /\ ~dropped
      /\ tq.pending = <<>>
  BY ShapeParts DEF Asking, Quiet
<1>1. /\ tq.avail # <<>> /\ HostReceives(Head(tq.avail).packet)
      /\ tq' = [tq EXCEPT !.avail = Tail(tq.avail),
                          !.completed = Append(tq.completed, Head(tq.avail).id)]
      /\ UNCHANGED <<conn, bad, gen, written, taken, dropped>>
  BY DEF HostTakes, hist
<1>2. /\ tq'.avail = Tail(tq.avail) /\ tq'.pending = <<>> /\ Head(tq.avail).packet = Request
      /\ Request \in Packet
  <2>1. /\ tq'.avail = Tail(tq.avail) /\ tq'.pending = tq.pending
        /\ Head(tq.avail).packet \in Packet /\ Head(tq.avail) = tq.avail[1]
    BY <1>0, <1>1, TakenQueue, Zenon
  <2>. QED  BY <1>0, <2>1
<1>3. HostReceives(Request)
  BY <1>1, <1>2
<1>4. PICK n : n = [NoHost EXCEPT !.open = TRUE, !.gen = 1, !.fwd_cnt = 0, !.buf_alloc = BufAlloc]
  OBVIOUS
<1>5. /\ Request.op = "REQUEST" /\ Request.gen = 1 /\ Request.fwd_cnt = 0
      /\ Request.buf_alloc = BufAlloc
  BY DEF Request
<1>6. \/ host' = n /\ rx' = Append(rx, ToGuest(n, "RESPONSE", 0, 0, {}))
      \/ host' = NoHost /\ rx' = Append(rx, Reset(Request))
  BY <1>0, <1>3, <1>4, <1>5, NoHostOK DEF HostReceives
<1>7. /\ n \in Host /\ n.open /\ n.gen = 1 /\ n.buf_alloc = BufAlloc /\ n.sent = 0
      /\ n.received = 0 /\ n.consumed = 0
  <2>1. 1 \in 0 .. MaxGen /\ 0 \in Counter
    BY <1>2, <1>5, Constants DEF Packet, Counter
  <2>. QED  BY <1>4, <2>1, NoHostOK DEF Host
<1>8. 0 % Mod = 0
  BY Constants, SmallCounter
<1>9. PICK p : /\ p \in Packet /\ p.gen = 1 /\ p.op \in {"RESPONSE", "RST"} /\ rx' = Append(rx, p)
               /\ host' = n \/ host' = NoHost
               /\ host' = n => p.fwd_cnt = 0 /\ p.buf_alloc = HostBuf
  <2>1. CASE host' = n /\ rx' = Append(rx, ToGuest(n, "RESPONSE", 0, 0, {}))
    <3>1. PICK p : p = ToGuest(n, "RESPONSE", 0, 0, {})
      OBVIOUS
    <3>2. "RESPONSE" \in Ops /\ {} \in Flags /\ 0 \in Nat /\ 0 \in 0 .. Payload
      BY Constants DEF Ops, Flags
    <3>3. /\ p \in Packet /\ p.gen = 1 /\ p.op = "RESPONSE" /\ p.fwd_cnt = 0
          /\ p.buf_alloc = HostBuf
      BY <1>7, <1>8, <3>1, <3>2, ToGuestPacket
    <3>. QED  BY <2>1, <3>1, <3>3
  <2>2. CASE host' = NoHost /\ rx' = Append(rx, Reset(Request))
    <3>1. Request.gen \in 0 .. MaxGen
      BY <1>2 DEF Packet
    <3>2. Reset(Request) \in Packet /\ Reset(Request).gen = 1 /\ Reset(Request).op = "RST"
      BY <1>5, <3>1, ResetPacket DEF Reset
    <3>3. host' # n
      BY <1>7, <2>2, NoHostOK
    <3>. QED  BY <2>2, <3>2, <3>3
  <2>. QED  BY <1>6, <2>1, <2>2
<1>10. /\ DOMAIN rx' = {1} /\ rx'[1] = p /\ rx' # <<>> /\ Head(rx') = p
  BY <1>0, <1>9
<1>11. tq'.avail = <<>>
  <2>1. tq.avail \in Seq(Desc)
    BY <1>0, QueueFields DEF Queues
  <2>2. PICK t : t = Tail(tq.avail)
    OBVIOUS
  <2>3. t \in Seq(Desc) /\ Len(t) = 0
    BY <1>0, <1>1, <2>1, <2>2
  <2>4. t = <<>>
    BY <2>3
  <2>. QED  BY <1>2, <2>2, <2>4
<1>12. Offered(tq') = <<>>
  BY <1>11 DEF Offered
<1>13. Wire'
  <2>1. Holds(tq', Answers)
    <3>1. \A i \in DOMAIN <<>> : FALSE
      OBVIOUS
    <3>2. tq'.avail = <<>> /\ tq'.pending = <<>>
      BY <1>2, <1>11
    <3>. QED  BY <3>1, <3>2, Zenon DEF Holds
  <2>2. host'.open => host'.gen = 1 /\ host'.buf_alloc = BufAlloc
    BY <1>7, <1>9, NoHostOK
  <2>. QED  BY <1>0, <1>1, <1>9, <1>10, <2>1, <2>2 DEF Wire
<1>14. CallExact'
  BY <1>0, <1>1, <1>9, <1>10, FreshConn DEF CallExact
<1>15. /\ conn' = conn /\ conn.packets = <<>> /\ conn.tx_cnt = 0 /\ conn.peer_fwd_cnt = 0
       /\ conn.peer_buf_alloc = 0 /\ written' = 0 /\ taken' = 0
  BY <1>0, <1>1, FreshConn
<1>16. ASSUME host'.open PROVE CreditExact' /\ DownExact'
  <2>1. host' = n
    BY <1>9, <1>16, NoHostOK
  <2>2. Minus(0, 0) = 0 /\ 0 - 0 = 0 /\ 0 <= HostBuf /\ 0 <= 0
    BY <1>8, Constants DEF Minus
  <2>3. CreditExact'
    BY <1>7, <1>8, <1>9, <1>10, <1>15, <2>1, <2>2 DEF CreditExact, Lag
  <2>4. DownExact'
    BY <1>7, <1>12, <1>15, <2>1, <2>2, StreamEmpty DEF DownExact
  <2>. QED  BY <2>3, <2>4
<1>17. Accepted' = 0
  BY <1>15 DEF Accepted
<1>18. PacketsExact'
  BY <1>15, <1>17, StreamEmpty DEF PacketsExact, AllData
<1>19. UpExact'
  <2>1. ~Data(1, p)
    BY <1>9 DEF Data
  <2>2. Stream(1, <<>>, 0, 0) /\ <<>> \in Seq(Packet)
    BY StreamEmpty
  <2>3. Stream(1, rx', 0, 0)
    BY <1>0, <1>9, <2>1, <2>2, StreamOther
  <2>4. host'.open => host'.sent = 0
    BY <1>7, <1>9, NoHostOK
  <2>5. 0 \in 0 .. MaxHost
    BY Constants
  <2>. QED  BY <1>17, <2>3, <2>4, <2>5 DEF UpExact
<1>. QED  BY <1>13, <1>14, <1>16, <1>18, <1>19 DEF Talking

(* The calls on an established socket.                                     *)
LEMMA CallsUse ==
    ASSUME NEW n, virtio_vsock_write(n) \/ virtio_vsock_read(n) \/ virtio_vsock_shutdown(n)
    PROVE  Use /\ UNCHANGED <<gen, rx>>
<1>1. virtio_vsock_write(n) => Use /\ UNCHANGED <<gen, rx>>
  BY DEF virtio_vsock_write
<1>2. virtio_vsock_read(n) => Use /\ UNCHANGED <<gen, rx>>
  BY DEF virtio_vsock_read
<1>3. virtio_vsock_shutdown(n) => Use /\ UNCHANGED <<gen, rx>>
  BY DEF virtio_vsock_shutdown
<1>. QED  BY <1>1, <1>2, <1>3

(* Nothing else happens before the request is taken.                       *)
LEMMA PhaseOthers ==
    ASSUME Shape, Before \/ Asking,
           \/ \E n \in WriteLens : virtio_vsock_write(n)
           \/ WritePacket \/ (\E n \in ReadLens : virtio_vsock_read(n))
           \/ (\E f \in Flags \ {{}} : virtio_vsock_shutdown(f))
           \/ process_packet \/ neglect_packet \/ PollTransmit
           \/ (\E n \in HostSizes : HostSends(n)) \/ HostReads \/ HostExtra
    PROVE  FALSE
<1>1. ~conn.used /\ ~host.open /\ Quiet /\ AppShape
  BY PhaseConn DEF Shape
<1>2. apc # "writing"
  BY <1>1 DEF AppShape
<1>3. ~Use
  BY <1>1 DEF Use
<1>4. ASSUME NEW n,
             virtio_vsock_write(n) \/ virtio_vsock_read(n) \/ virtio_vsock_shutdown(n)
      PROVE  FALSE
  BY <1>3, <1>4, CallsUse
<1>7. ~WritePacket
  BY <1>2 DEF WritePacket
<1>8. ~process_packet /\ ~neglect_packet /\ ~PollTransmit
  BY <1>1 DEF process_packet, neglect_packet, PollTransmit, Quiet
<1>9. ASSUME NEW n, HostSends(n) PROVE FALSE
  BY <1>1, <1>9 DEF HostSends
<1>10. ~HostReads /\ ~HostExtra
  BY <1>1 DEF HostReads, HostExtra
<1>. QED  BY <1>4, <1>7, <1>8, <1>9, <1>10

(* The first state is before the request.                                  *)
LEMMA OnceInit == Init => Once
BY DEF Init, Once, Before, Quiet

(* Only a connect starts an incarnation.                                   *)
LEMMA GenKept == Next /\ ~virtio_vsock_connect => gen' = gen
<1> SUFFICES ASSUME Next, ~virtio_vsock_connect PROVE gen' = gen
  OBVIOUS
<1>1. CASE Application
  <2>1. virtio_vsock_socket \/ ConnectDone \/ ConnectTimesOut \/ CloseDone \/ CloseTimesOut
           => gen' = gen
    BY DEF virtio_vsock_socket, ConnectDone, ConnectTimesOut, CloseDone, CloseTimesOut, hist
  <2>2. WritePacket \/ virtio_vsock_close => gen' = gen
    BY DEF WritePacket, virtio_vsock_close
  <2>. QED  BY <1>1, <2>1, <2>2, CallsUse DEF Application
<1>2. CASE ~Application
  BY <1>2 DEF Next, process_packet, neglect_packet, PollTransmit, HostTakes, HostSends,
        HostReads, HostExtra, hist
<1>. QED  BY <1>1, <1>2

(* Every step keeps the second part.                                       *)
LEMMA OnceNext == Shape /\ Once /\ [Next]_vars => Once'
<1> SUFFICES ASSUME Shape, Once, [Next]_vars, gen' <= 1 PROVE (Before \/ Asking \/ Talking)'
  BY DEF Once
<1>0. gen \in Nat
  BY ShapeParts, Constants DEF RestOK
<1>1. CASE UNCHANGED vars
  <2>1. UNCHANGED <<conn, tq, rx, host, bad, gen, written, taken, dropped>>
    BY <1>1 DEF vars, hist
  <2>2. Before \/ Asking \/ Talking
    BY <2>1 DEF Once
  <2>3. Before => Before'
    BY <2>1 DEF Before, Quiet
  <2>4. Asking => Asking'
    BY <2>1 DEF Asking, Quiet
  <2>5. Talking => Talking'
    <3>1. Talking => Holds(tq', Answers)
      BY <2>1 DEF Talking, Wire
    <3>. QED  BY <2>1, <3>1, TalkingKept
  <2>. QED  BY <2>2, <2>3, <2>4, <2>5
<1>2. CASE virtio_vsock_connect
  <2>1. gen' = gen + 1
    BY <1>2 DEF virtio_vsock_connect
  <2>2. gen = 0
    BY <1>0, <2>1
  <2>3. Before
    BY <2>2 DEF Once, Asking, Talking, Wire
  <2>. QED  BY <1>2, <2>3, PhaseConnect
<1>3. CASE /\ [Next]_vars /\ vars' # vars /\ ~virtio_vsock_connect
  <2>1. Next
    BY <1>3
  <2>2. gen' = gen
    BY <1>3, <2>1, GenKept
  <2>3. Before \/ Asking \/ Talking
    BY <2>2 DEF Once
  <2>4. CASE Talking
    <3>1. CASE Application
      <4>1. \A f \in Flags \ {{}} : f \in Flags
        OBVIOUS
      <4>. QED  BY <1>3, <2>4, <3>1, <4>1, TalkingQuietCalls, TalkingWrite, TalkingRead,
                   TalkingShutdown, TalkingClose DEF Application
    <3>2. CASE process_packet \/ neglect_packet \/ PollTransmit
      BY <2>4, <3>2, TalkingProcess, TalkingTransmit
    <3>3. CASE HostTakes \/ (\E n \in HostSizes : HostSends(n)) \/ HostReads \/ HostExtra
      BY <2>4, <3>3, TalkingTakes, TalkingHost
    <3>. QED  BY <2>1, <3>1, <3>2, <3>3 DEF Next
  <2>5. CASE Before \/ Asking
    <3>1. CASE HostTakes
      <4>1. ~Before
        BY <3>1 DEF HostTakes, Before
      <4>. QED  BY <2>5, <3>1, <4>1, PhaseTakes
    <3>2. CASE \/ virtio_vsock_socket \/ ConnectDone \/ ConnectTimesOut
               \/ CloseDone \/ CloseTimesOut \/ virtio_vsock_close
      BY <2>5, <3>2, PhaseCalls
    <3>3. CASE \/ \E n \in WriteLens : virtio_vsock_write(n)
               \/ WritePacket \/ (\E n \in ReadLens : virtio_vsock_read(n))
               \/ (\E f \in Flags \ {{}} : virtio_vsock_shutdown(f))
               \/ process_packet \/ neglect_packet \/ PollTransmit
               \/ (\E n \in HostSizes : HostSends(n)) \/ HostReads \/ HostExtra
      BY <2>5, <3>3, PhaseOthers
    <3>. QED  BY <1>3, <2>1, <3>1, <3>2, <3>3 DEF Next, Application
  <2>. QED  BY <2>3, <2>4, <2>5
<1>. QED  BY <1>1, <1>2, <1>3

(* virtio_vsock_write never has more on its way than the host has room     *)
(* for: over the whole life of the first connection, however its credit    *)
(* updates, resets and shutdowns cross with the writes and wherever the    *)
(* 32-bit counters wrap around.  A later incarnation may meet packets of   *)
(* an earlier one; the theorem is about the first.                         *)
THEOREM HostNeverOverrun == Spec => [](gen <= 1 => HostNotOverrun)
<1>1. Shape /\ Once => (gen <= 1 => HostNotOverrun)
  <2> SUFFICES ASSUME Shape, Once, gen <= 1, Together PROVE written - host.consumed <= HostBuf
    BY DEF HostNotOverrun
  <2>1. host.open /\ conn.state = "ESTABLISHED"
    BY DEF Together
  <2>2. Talking
    BY <2>1, PhaseConn DEF Once
  <2>3. CreditExact
    BY <2>1, <2>2 DEF Talking, Live
  <2>4. PICK l \in Nat : /\ l = Lag(conn.peer_fwd_cnt) /\ l <= HostBuf
                         /\ written - host.consumed <= l
    <3>1. conn.peer_fwd_cnt \in Nat
      BY ShapeParts, ConnFields, CounterNat DEF ConnOK
    <3>2. Lag(conn.peer_fwd_cnt) \in Nat
      BY <3>1, LagNat
    <3>. QED  BY <2>3, <3>2 DEF CreditExact
  <2>5. written \in Nat /\ host.consumed \in Nat
    BY ShapeParts DEF RestOK, Host
  <2>. QED  BY <2>4, <2>5, Constants
<1>. QED  BY <1>1, ShapeInit, ShapeNext, OnceInit, OnceNext, PTL DEF Spec

(* The bytes of the first connection arrive in order, each once, in both   *)
(* directions, through partial reads, writes cut short, pending packets    *)
(* and a full queue, as long as the packet ring has lost none.             *)
THEOREM BytesAlwaysInOrder == Spec => [](gen <= 1 /\ ~dropped => BytesInOrder)
<1>1. Shape /\ Once => (gen <= 1 /\ ~dropped => BytesInOrder)
  <2> SUFFICES ASSUME Shape, Once, gen <= 1, ~dropped, Together
               PROVE  /\ ~conn.recv_disallowed => /\ Chain(gen, conn.packets, taken, Accepted)
                                                  /\ Chain(gen, rx, Accepted, host.sent)
                      /\ Chain(gen, Offered(tq), host.received, written)
    BY DEF BytesInOrder
  <2>1. host.open /\ conn.state = "ESTABLISHED"
    BY DEF Together
  <2>2. Talking
    BY <2>1, PhaseConn DEF Once
  <2>3. gen = 1 /\ DownExact /\ PacketsExact /\ (~conn.recv_disallowed => UpExact)
    BY <2>1, <2>2 DEF Talking, Live, Wire
  <2>4. Chain(1, Offered(tq), host.received, written)
    BY <2>3 DEF DownExact, Stream
  <2>5. Chain(1, conn.packets, taken, Accepted)
    BY <2>3 DEF PacketsExact, Stream
  <2>6. UpExact => Chain(1, rx, Accepted, host.sent)
    BY <2>1 DEF UpExact, Stream
  <2>. QED  BY <2>3, <2>4, <2>5, <2>6
<1>. QED  BY <1>1, ShapeInit, ShapeNext, OnceInit, OnceNext, PTL DEF Spec

------------------------------------------------------------------------------
(* The third part is invariant: a host that keeps to the credit it is told *)
(* has no more than buf_alloc sent and not read.                           *)

(* A counter is at most what it counts.                                    *)
LEMMA CounterAtMost ==
    ASSUME NEW x \in Nat
    PROVE  x % Mod \in Nat /\ x % Mod <= x
<1>1. x % Mod \in Nat /\ x % Mod < Mod /\ Mod \in Nat
  BY Remainder, CounterNat, Constants
<1>2. CASE x < Mod
  BY <1>2, SmallCounter
<1>3. CASE ~(x < Mod)
  BY <1>1, <1>3
<1>. QED  BY <1>2, <1>3

(* What is reported to the host is at most what was read.                  *)
LEMMA CountedReads ==
    ASSUME Shape, ReadExact
    PROVE  taken \in Nat /\ conn.fwd_cnt \in Nat /\ conn.fwd_cnt <= taken
<1>1. taken \in Nat
  BY ShapeParts DEF RestOK
<1>2. taken % Mod \in Nat /\ taken % Mod <= taken
  BY <1>1, CounterAtMost
<1>. QED  BY <1>1, <1>2 DEF ReadExact

(* A step that touches nothing of what was read or sent.                   *)
LEMMA ReadKept ==
    ASSUME ReadExact, UNCHANGED <<host, taken>>, Holds(tq', Early(taken)),
           conn'.packets = conn.packets, conn'.fwd_cnt = conn.fwd_cnt
    PROVE  ReadExact'
<1>1. Accepted' = Accepted
  BY DEF Accepted
<1>. QED  BY <1>1 DEF ReadExact, SentExact

(* Bounded is kept by the application's calls that send nothing,           *)
LEMMA BoundQuietCalls ==
    ASSUME Shape, Bounded,
           \/ virtio_vsock_socket \/ ConnectDone \/ ConnectTimesOut
           \/ CloseDone \/ CloseTimesOut \/ \E n \in WriteLens : virtio_vsock_write(n)
    PROVE  Bounded'
<1>1. UNCHANGED <<tq, host, dropped>>
  BY DEF virtio_vsock_socket, ConnectDone, ConnectTimesOut, CloseDone, CloseTimesOut,
         virtio_vsock_write, hist
<1>2. CASE virtio_vsock_socket \/ CloseDone \/ CloseTimesOut
  <2>1. conn' \in {NoConn, Socket}
    BY <1>2 DEF virtio_vsock_socket, CloseDone, CloseTimesOut, remove_connection, Socket
  <2>2. ~Live'
    BY <2>1 DEF NoConn, Socket, Live
  <2>. QED  BY <2>2 DEF Bounded
<1>3. CASE ConnectDone \/ ConnectTimesOut \/ \E n \in WriteLens : virtio_vsock_write(n)
  <2>1. /\ \/ conn' = conn
           \/ conn' = [conn EXCEPT !.used = conn.state = "ESTABLISHED"]
        /\ taken' = taken
    BY <1>3 DEF ConnectDone, ConnectTimesOut, virtio_vsock_write, hist
  <2>2. conn \in Conn
    BY ShapeParts DEF ConnOK
  <2>3. /\ conn'.state = conn.state /\ conn'.packets = conn.packets
        /\ conn'.fwd_cnt = conn.fwd_cnt
    BY <2>1, <2>2 DEF Conn
  <2>4. ReadExact => Holds(tq', Early(taken))
    BY <1>1 DEF ReadExact
  <2>5. Live' = Live
    BY <2>3 DEF Live
  <2>. QED  BY <1>1, <2>1, <2>3, <2>4, <2>5, ReadKept DEF Bounded
<1>. QED  BY <1>2, <1>3

(* What is sent with the count of the bytes read is early enough.          *)
LEMMA SentEarly ==
    ASSUME Shape, NEW t \in Nat, conn.fwd_cnt <= t, Holds(tq, Early(t)),
           NEW op \in Ops \ {"RW"}, NEW flags \in Flags,
           NEW c, c.fwd_cnt = conn.fwd_cnt, NEW r, r = send_control(c, op, flags).tq
    PROVE  Holds(r, Early(t))
<1>1. Control(op, flags) \in Packet /\ Control(op, flags).fwd_cnt = conn.fwd_cnt
  BY ControlPacket
<1>2. Control(op, flags) \in Early(t) /\ Early(t) \in SUBSET Packet
  BY <1>1 DEF Early
<1>. QED  BY <1>2, SendControl

(* by a shutdown,                                                          *)
LEMMA BoundShutdown ==
    ASSUME Shape, Bounded, NEW f \in Flags, virtio_vsock_shutdown(f)
    PROVE  Bounded'
<1>1. /\ conn' = [conn EXCEPT !.recv_disallowed = conn.recv_disallowed \/ "RCV" \in f,
                              !.send_disallowed = conn.send_disallowed \/ "SEND" \in f]
      /\ tq' = send_control(conn, "SHUTDOWN", f).tq /\ conn.state = "ESTABLISHED"
      /\ UNCHANGED <<host, taken, dropped>>
  BY DEF virtio_vsock_shutdown, Use
<1>2. conn \in Conn
  BY ShapeParts DEF ConnOK
<1>3. conn'.packets = conn.packets /\ conn'.fwd_cnt = conn.fwd_cnt
  BY <1>1, <1>2 DEF Conn
<1>4. SUFFICES ASSUME ReadExact PROVE ReadExact'
  BY <1>1 DEF Bounded, Live
<1>5. /\ taken \in Nat /\ conn.fwd_cnt <= taken /\ Holds(tq, Early(taken))
      /\ "SHUTDOWN" \in Ops \ {"RW"}
  BY <1>4, CountedReads DEF ReadExact, Ops
<1>6. Holds(tq', Early(taken))
  BY <1>1, <1>5, SentEarly
<1>. QED  BY <1>1, <1>3, <1>4, <1>6, ReadKept

(* by a close,                                                             *)
LEMMA BoundClose ==
    ASSUME Shape, virtio_vsock_close
    PROVE  Bounded'
<1>1. conn' = [conn EXCEPT !.state = "CLOSING"] \/ conn' = NoConn
  BY DEF virtio_vsock_close, virtio_vsock_close_common, remove_connection
<1>2. conn \in Conn
  BY ShapeParts DEF ConnOK
<1>3. conn'.state \in {"CLOSE", "CLOSING"}
  BY <1>1, <1>2 DEF NoConn, Conn
<1>. QED  BY <1>3 DEF Bounded, Live

(* by a reset of what was bad and the processing of the transmit queue,    *)
LEMMA BoundTransmit ==
    ASSUME Shape, Bounded, neglect_packet \/ PollTransmit
    PROVE  Bounded'
<1>0. tq \in Queues /\ taken \in Nat /\ Early(taken) \in SUBSET Packet
  BY ShapeParts DEF RestOK, Early
<1>1. UNCHANGED <<conn, host, taken, dropped>>
  BY DEF neglect_packet, PollTransmit, hist
<1>2. ASSUME Holds(tq, Early(taken)) PROVE Holds(tq', Early(taken))
  <2>1. CASE neglect_packet
    <3>1. PICK p : p = [op |-> "RST", gen |-> bad.gen, first |-> 0, size |-> 0, flags |-> {},
                        fwd_cnt |-> 0, buf_alloc |-> 0]
      OBVIOUS
    <3>2. bad # NoPacket /\ tq' = copy_into_tq_or_add_to_pending(tq, p).tq
      BY <2>1, <3>1 DEF neglect_packet
    <3>3. bad.gen \in 0 .. MaxGen
      BY <3>2, ShapeParts DEF RestOK, Packet
    <3>4. p \in Packet /\ p.op # "RW" /\ p.fwd_cnt = 0
      BY <3>1, <3>3, ResetPacket
    <3>5. p \in Early(taken)
      BY <1>0, <3>4 DEF Early
    <3>. QED  BY <1>0, <1>2, <3>2, <3>4, <3>5, ControlKept
  <2>2. CASE PollTransmit
    <3>1. tq' = send_pending_tq_control_packets(cleanup_tq(tq))
      BY <2>2 DEF PollTransmit
    <3>2. cleanup_tq(tq) \in Kept(tq) /\ cleanup_tq(tq) \in Queues
      BY <1>0, CleanupKept DEF Kept
    <3>3. tq' \in Kept(tq)
      BY <3>1, <3>2, SendPendingKept, KeptOn
    <3>. QED  BY <1>0, <1>2, <3>3 DEF Kept
  <2>. QED  BY <2>1, <2>2
<1>3. ReadExact => ReadExact'
  <2>1. ReadExact => Holds(tq', Early(taken))
    BY <1>2 DEF ReadExact
  <2>. QED  BY <1>1, <2>1, ReadKept
<1>. QED  BY <1>1, <1>3 DEF Bounded, Live

(* by a packet of a write,                                                 *)
LEMMA BoundWrite ==
    ASSUME Shape, Bounded, WritePacket
    PROVE  Bounded'
<1>0. /\ ConnOK /\ tq \in Queues /\ AppShape /\ Early(taken) \in SUBSET Packet
  BY ShapeParts DEF Early
<1>1. PICK size : size = MinOf(MinOf(left, Payload), peer_free_space(conn))
  OBVIOUS
<1>2. PICK p : p = generate_packet(conn, "RW", written + 1, size, {})
  OBVIOUS
<1>3. PICK s : s = copy_into_tq_and_free(tq, p)
  OBVIOUS
<1>4. p \in Packet /\ p.fwd_cnt = conn.fwd_cnt
  BY <1>1, <1>2, WriteSize DEF generate_packet
<1>5. apc = "writing" /\ UNCHANGED <<host, taken, dropped>>
  BY DEF WritePacket
<1>6. /\ tq' \in {tq, s.tq}
      /\ conn' = conn \/ conn' = [conn EXCEPT !.tx_cnt = Plus(conn.tx_cnt, size)]
  BY <1>1, <1>2, <1>3 DEF WritePacket
<1>7. conn.state = "ESTABLISHED"
  BY <1>0, <1>5 DEF AppShape
<1>8. conn'.packets = conn.packets /\ conn'.fwd_cnt = conn.fwd_cnt
  BY <1>0, <1>6 DEF ConnOK, Conn
<1>9. SUFFICES ASSUME ReadExact PROVE ReadExact'
  BY <1>5, <1>7 DEF Bounded, Live
<1>10. Holds(tq, Early(taken)) /\ p \in Early(taken)
  BY <1>4, <1>9, CountedReads DEF ReadExact, Early
<1>11. Holds(s.tq, Early(taken))
  BY <1>0, <1>3, <1>4, <1>10, DataKept
<1>12. Holds(tq', Early(taken))
  BY <1>6, <1>10, <1>11
<1>. QED  BY <1>5, <1>8, <1>9, <1>12, ReadKept

(* by a read, which returns the credit for just what was copied,           *)
LEMMA BoundRead ==
    ASSUME Shape, Talking, Bounded, NEW n \in ReadLens, virtio_vsock_read(n)
    PROVE  Bounded'
<1>0. ConnOK /\ tq \in Queues /\ RestOK /\ host \in Host
  BY ShapeParts DEF RestOK
<1>1. PICK r \in Leaves(conn.packets, n) :
              /\ n \in Nat /\ r.count \in 0 .. n /\ Unread(r.packets)
              /\ Len(r.packets) <= Len(conn.packets)
              /\ conn' = [conn EXCEPT !.packets = r.packets,
                                      !.fwd_cnt = Plus(conn.fwd_cnt, n - r.count)]
              /\ conn' \in Conn /\ conn'.packets = r.packets /\ conn'.state = conn.state
              /\ conn'.fwd_cnt = Plus(conn.fwd_cnt, n - r.count)
              /\ conn'.open = conn.open /\ conn'.ported = conn.ported /\ conn'.used = conn.used
              /\ conn'.tx_cnt = conn.tx_cnt /\ conn'.peer_fwd_cnt = conn.peer_fwd_cnt
              /\ conn'.peer_buf_alloc = conn.peer_buf_alloc
              /\ conn'.recv_disallowed = conn.recv_disallowed
              /\ taken' = taken + (n - r.count)
              /\ \E p \in Packet :
                    /\ p.op = "CREDIT_UPDATE" /\ p.gen = gen /\ p.buf_alloc = BufAlloc
                    /\ p.fwd_cnt = conn'.fwd_cnt
                    /\ tq' = copy_into_tq_or_add_to_pending(tq, p).tq
  BY ReadCases, Zenon
<1>2. PICK p \in Packet :
         /\ p.op = "CREDIT_UPDATE" /\ p.fwd_cnt = conn'.fwd_cnt
         /\ tq' = copy_into_tq_or_add_to_pending(tq, p).tq
  BY <1>1
<1>3. /\ conn.state = "ESTABLISHED" /\ UNCHANGED <<host, dropped>>
  BY DEF virtio_vsock_read, Use
<1>4. SUFFICES ASSUME PacketsExact, ReadExact PROVE ReadExact'
  BY <1>3 DEF Talking, Bounded, Live
<1>5. /\ Accepted' = Accepted /\ taken \in Nat /\ taken' \in Nat /\ Accepted \in Nat
      /\ taken <= taken' /\ taken' <= Accepted
  BY <1>1, <1>4, ReadStream
<1>6. conn'.fwd_cnt = taken' % Mod
  <2>1. PICK k \in Nat : k = n - r.count
    BY <1>1
  <2>2. ((taken % Mod) + k) % Mod = (taken + k) % Mod
    <3>1. taken \in Int /\ k \in Int
      BY <1>5, <2>1
    <3>. QED  BY <3>1, ModStep
  <2>. QED  BY <1>1, <1>4, <2>1, <2>2 DEF ReadExact, Plus
<1>7. conn'.fwd_cnt <= taken'
  BY <1>5, <1>6, CounterAtMost
<1>8. Holds(tq', Early(taken'))
  <2>1. p \in Early(taken') /\ p.op # "RW" /\ Early(taken') \in SUBSET Packet
    BY <1>2, <1>7 DEF Early
  <2>2. \A q \in Packet : q.fwd_cnt <= taken => q.fwd_cnt <= taken'
    BY <1>5, PacketNumbers, CounterNat
  <2>3. Early(taken) \subseteq Early(taken')
    BY <2>2 DEF Early
  <2>4. Holds(tq, Early(taken'))
    BY <1>4, <2>3 DEF ReadExact, Holds
  <2>. QED  BY <1>0, <1>2, <2>1, <2>4, ControlKept
<1>9. SentExact => SentExact'
  <2>1. host.fwd_cnt \in Nat /\ host.sent \in Nat /\ host' = host
    BY <1>0, <1>3, CounterNat, Constants DEF Host
  <2>. QED  BY <1>5, <2>1, Constants DEF SentExact
<1>. QED  BY <1>3, <1>4, <1>6, <1>8, <1>9 DEF ReadExact

(* by the processing of a packet,                                          *)
LEMMA BoundProcess ==
    ASSUME Shape, Talking, Bounded, process_packet, Talking'
    PROVE  Bounded'
<1>0. /\ ConnOK /\ conn \in Conn /\ tq \in Queues /\ RxOK /\ RestOK /\ ConnShape
      /\ Early(taken) \in SUBSET Packet
  BY ShapeParts DEF Early, ConnOK
<1>1. PICK p : p = Head(rx)
  OBVIOUS
<1>2. /\ rx # <<>> /\ rx' = Tail(rx) /\ p \in Packet /\ UNCHANGED <<host, taken>>
      /\ \/ Ignored \/ Answered(p) \/ WasReset(p) \/ OnlySeen(p)
         \/ Queued(p) \/ Lost(p) \/ Replied(p)
  BY <1>0, <1>1, ProcessCases DEF RxOK
<1>3. ~dropped' => ~dropped
  <2>1. Replied(p) => dropped' = dropped
    BY Zenon DEF Replied
  <2>2. Ignored \/ Answered(p) \/ WasReset(p) \/ OnlySeen(p) \/ Queued(p) => dropped' = dropped
    BY DEF Ignored, Answered, WasReset, OnlySeen, Queued
  <2>3. Lost(p) => dropped'
    BY DEF Lost
  <2>. QED  BY <1>2, <2>1, <2>2, <2>3
<1>4. SUFFICES ASSUME Live', ~dropped' PROVE ReadExact'
  BY DEF Bounded
<1>5. /\ Live /\ conn'.fwd_cnt = conn.fwd_cnt
      /\ \/ conn'.packets = conn.packets
         \/ Queued(p) /\ conn'.packets = Append(conn.packets, p)
  BY <1>1, <1>2, <1>4, Alive
<1>6. ReadExact
  BY <1>3, <1>4, <1>5 DEF Bounded
<1>7. Holds(tq', Early(taken))
  <2>1. Holds(tq, Early(taken)) /\ conn.fwd_cnt <= taken
    BY <1>6, CountedReads DEF ReadExact
  <2>2. ASSUME NEW op \in {"CREDIT_UPDATE", "RST"},
               tq' = copy_into_tq_or_add_to_pending(tq, Control(op, {})).tq
        PROVE  Holds(tq', Early(taken))
    <3>1. op \in Ops /\ {} \in Flags /\ op # "RW"
      BY DEF Ops, Flags
    <3>2. /\ Control(op, {}) \in Packet /\ Control(op, {}).op # "RW"
          /\ Control(op, {}).fwd_cnt = conn.fwd_cnt
      BY <3>1, ControlPacket
    <3>3. Control(op, {}) \in Early(taken)
      BY <2>1, <3>2 DEF Early
    <3>. QED  BY <1>0, <2>1, <2>2, <3>2, <3>3, ControlKept
  <2>3. \/ tq' = tq
        \/ \E op \in {"CREDIT_UPDATE", "RST"} :
              tq' = copy_into_tq_or_add_to_pending(tq, Control(op, {})).tq
    BY <1>2, Zenon DEF Ignored, Answered, WasReset, OnlySeen, Queued, Lost, Replied
  <2>. QED  BY <2>1, <2>2, <2>3
<1>8. CASE conn'.packets = conn.packets
  BY <1>2, <1>5, <1>6, <1>7, <1>8, ReadKept
<1>9. CASE Queued(p)
  <2>1. ~conn'.recv_disallowed
    BY <1>0, <1>9 DEF Queued, Seen, Conn
  <2>2. UpExact'
    BY <1>4, <2>1 DEF Talking
  <2>3. host'.open => Accepted' <= host'.sent
    BY <2>2 DEF UpExact
  <2>4. SentExact /\ host'.open => SentExact'
    BY <1>2, <2>3 DEF SentExact
  <2>. QED  BY <1>2, <1>5, <1>6, <1>7, <2>4 DEF ReadExact
<1>. QED  BY <1>5, <1>8, <1>9

(* by what the host sends within the credit it was told,                   *)
LEMMA CreditFits ==
    ASSUME Shape, PacketsExact, SentExact, host.buf_alloc = BufAlloc,
           NEW n \in Nat, n <= HostCredit, host.sent < Mod
    PROVE  host.sent + n <= taken + BufAlloc
<1>0. ConnOK /\ RestOK /\ host \in Host
  BY ShapeParts DEF RestOK
<1>1. PICK s \in Nat : s = host.sent /\ s < Mod
  BY <1>0, Constants DEF Host
<1>2. PICK f \in Nat : f = host.fwd_cnt /\ f < Mod
  BY <1>0, CounterNat DEF Host
<1>3. PICK b \in Nat : b = Accepted /\ taken <= b
  BY <1>0, AcceptedNat
<1>4. PICK a \in Nat : a = taken
  BY <1>0 DEF RestOK
<1>5. b <= s /\ f <= a
  BY <1>1, <1>2, <1>3, <1>4 DEF SentExact
<1>6. f <= s /\ s - f < Mod
  BY <1>1, <1>2, <1>3, <1>4, <1>5, Constants
<1>7. Minus(s, f) = s - f
  <2>1. f % Mod = f
    BY <1>2, SmallCounter
  <2>2. Minus(s, f % Mod) = s - f
    BY <1>1, <1>2, <1>6, MinusExact
  <2>. QED  BY <2>1, <2>2
<1>8. n <= BufAlloc - (s - f)
  BY <1>1, <1>2, <1>7 DEF HostCredit
<1>9. s + n <= a + BufAlloc
  BY <1>5, <1>8, Constants
<1>. QED  BY <1>1, <1>4, <1>9

(* of whatever size, by its reads and by what else it sends,               *)
LEMMA BoundHost ==
    ASSUME Shape, Talking, Bounded,
           (\E n \in HostSizes : HostSends(n)) \/ HostReads \/ HostExtra
    PROVE  Bounded'
<1>0. host \in Host
  BY ShapeParts DEF RestOK
<1>1. UNCHANGED <<conn, tq, taken, dropped>> /\ host.open
  BY DEF HostSends, HostReads, HostExtra, hist
<1>2. Accepted' = Accepted
  BY <1>1 DEF Accepted
<1>3. SUFFICES ASSUME Live, ~dropped, ReadExact, PacketsExact, host'.open PROVE SentExact'
  BY <1>1 DEF Bounded, ReadExact, Talking, Live
<1>4. SentExact /\ host.buf_alloc = BufAlloc
  BY <1>1, <1>3 DEF ReadExact, Talking, Wire
<1>5. ASSUME NEW n \in HostSizes, HostSends(n) PROVE SentExact'
  <2>1. n <= HostCredit /\ host' = [host EXCEPT !.sent = host.sent + n]
    BY <1>5 DEF HostSends
  <2>2. n \in Nat /\ n > 0
    BY VsockAssumption
  <2>3. PICK s \in Nat : s = host.sent
    BY <1>0, Constants DEF Host
  <2>4. host'.fwd_cnt = host.fwd_cnt /\ host'.sent = s + n
    BY <1>0, <2>1, <2>3 DEF Host
  <2>5. s < Mod => s + n <= taken + BufAlloc
    BY <1>3, <1>4, <2>1, <2>2, <2>3, CreditFits
  <2>6. host'.sent < Mod => host'.sent <= taken + BufAlloc
    BY <2>2, <2>3, <2>4, <2>5, Constants
  <2>7. Accepted <= host'.sent
    <3>1. Accepted \in Nat
      BY <1>3, AcceptedNat, ShapeParts
    <3>. QED  BY <1>4, <2>2, <2>3, <2>4, <3>1 DEF SentExact
  <2>. QED  BY <1>1, <1>2, <1>4, <2>4, <2>6, <2>7 DEF SentExact
<1>6. CASE HostReads
  <2>1. host' = [host EXCEPT !.consumed = host.received]
    BY <1>6 DEF HostReads
  <2>2. host'.fwd_cnt = host.fwd_cnt /\ host'.sent = host.sent
    BY <1>0, <2>1 DEF Host
  <2>. QED  BY <1>1, <1>2, <1>4, <2>2 DEF SentExact
<1>7. CASE HostExtra
  <2>1. host' \in {host, [host EXCEPT !.closing = TRUE], NoHost}
    BY <1>7 DEF HostExtra
  <2>2. host'.fwd_cnt = host.fwd_cnt /\ host'.sent = host.sent
    BY <1>0, <1>3, <2>1, NoHostOK DEF Host
  <2>. QED  BY <1>1, <1>2, <1>4, <2>2 DEF SentExact
<1>. QED  BY <1>5, <1>6, <1>7

(* The host knows what the last packet it took has told it, and starts a   *)
(* stream with a request only.                                             *)
LEMMA HostSees ==
    ASSUME host \in Host, NEW in \in Packet, HostReceives(in), host'.open
    PROVE  /\ host'.fwd_cnt = in.fwd_cnt
           /\ \/ host.open /\ host'.sent = host.sent
              \/ ~host.open /\ in.op = "REQUEST" /\ host'.sent = 0
<1>1. PICK h : h = [host EXCEPT !.fwd_cnt = in.fwd_cnt, !.buf_alloc = in.buf_alloc]
  OBVIOUS
<1>2. h \in Host /\ h.fwd_cnt = in.fwd_cnt /\ h.sent = host.sent
  BY <1>1, HostCredits, Zenon
<1>3. CASE ~host.open /\ in.op = "REQUEST"
  <2>1. PICK n : n = [NoHost EXCEPT !.open = TRUE, !.gen = in.gen,
                                    !.fwd_cnt = in.fwd_cnt, !.buf_alloc = in.buf_alloc]
    OBVIOUS
  <2>2. n.fwd_cnt = in.fwd_cnt /\ n.sent = 0
    BY <2>1 DEF NoHost
  <2>3. host' = n \/ host' = host
    BY <1>3, <2>1 DEF HostReceives
  <2>. QED  BY <1>3, <2>2, <2>3
<1>4. CASE ~host.open /\ in.op # "REQUEST"
  <2>1. host' = host
    BY <1>4 DEF HostReceives
  <2>. QED  BY <1>4, <2>1
<1>5. CASE host.open
  <2>1. \/ host' = NoHost \/ host' = h \/ host' = [h EXCEPT !.shut = h.shut \cup in.flags]
        \/ host' = [h EXCEPT !.received = h.received + in.size]
    BY <1>1, <1>5 DEF HostReceives
  <2>. QED  BY <1>2, <1>5, <2>1, NoHostOK DEF Host
<1>. QED  BY <1>3, <1>4, <1>5

(* and by the packets it takes, of which the request is the first.         *)
LEMMA BoundTakes ==
    ASSUME Shape, Asking \/ Talking, Bounded, HostTakes
    PROVE  Bounded'
<1>0. /\ host \in Host /\ tq \in Queues /\ Early(taken) \in SUBSET Packet /\ taken \in Nat
  BY ShapeParts DEF RestOK, Early
<1>1. PICK in : in = Head(tq.avail).packet
  OBVIOUS
<1>2. /\ tq.avail # <<>> /\ HostReceives(in)
      /\ tq' = [tq EXCEPT !.avail = Tail(tq.avail),
                          !.completed = Append(tq.completed, Head(tq.avail).id)]
      /\ UNCHANGED <<conn, taken, dropped>>
  BY <1>1 DEF HostTakes, hist
<1>3. /\ in \in Packet
      /\ \A C \in SUBSET Packet : Holds(tq, C) => in \in C /\ Holds(tq', C)
  BY <1>0, <1>1, <1>2, TakenQueue, ZenonT(60)
<1>4. Accepted' = Accepted
  BY <1>2 DEF Accepted
<1>5. SUFFICES ASSUME Live, ReadExact PROVE ReadExact'
  BY <1>2 DEF Bounded, Live
<1>6. in.fwd_cnt <= taken /\ Holds(tq', Early(taken))
  BY <1>0, <1>3, <1>5 DEF ReadExact, Early
<1>7. ASSUME host'.open PROVE SentExact'
  <2>1. /\ host'.fwd_cnt = in.fwd_cnt
        /\ \/ host.open /\ host'.sent = host.sent
           \/ ~host.open /\ in.op = "REQUEST" /\ host'.sent = 0
    BY <1>0, <1>2, <1>3, <1>7, HostSees
  <2>2. CASE host.open
    BY <1>2, <1>4, <1>5, <1>6, <2>1, <2>2 DEF ReadExact, SentExact
  <2>3. CASE Asking /\ host'.sent = 0
    <3>1. conn \in {NoConn, Socket, Calling} /\ taken = 0
      BY <2>3 DEF Asking, Quiet
    <3>2. conn.packets = <<>>
      BY <3>1, FreshConn
    <3>3. Accepted = 0
      BY <3>1, <3>2 DEF Accepted
    <3>. QED  BY <1>2, <1>4, <1>6, <2>1, <2>3, <3>1, <3>3, Constants DEF SentExact
  <2>4. CASE Talking /\ in.op = "REQUEST"
    <3>1. Holds(tq, Answers) /\ Answers \in SUBSET Packet
      BY <2>4 DEF Talking, Wire, Answers
    <3>2. in \in Answers
      BY <1>3, <3>1
    <3>. QED  BY <2>4, <3>2 DEF Answers
  <2>. QED  BY <2>1, <2>2, <2>3, <2>4
<1>. QED  BY <1>2, <1>5, <1>6, <1>7 DEF ReadExact

(* The third part holds before the host has taken the request,             *)
LEMMA PhaseBounded ==
    ASSUME Shape', (Before \/ Asking)'
    PROVE  Bounded'
<1>1. CASE Before'
  <2>1. conn' \in {NoConn, Socket}
    BY <1>1 DEF Before
  <2>. QED  BY <2>1 DEF Bounded, Live, NoConn, Socket
<1>2. CASE Asking'
  <2>1. /\ gen' = 1 /\ host' = NoHost /\ taken' = 0 /\ tq'.pending = <<>>
        /\ conn' \in {NoConn, Socket, Calling}
        /\ Len(tq'.avail) = 1 /\ tq'.avail[1].packet = Request
    BY <1>2 DEF Asking, Quiet
  <2>2. conn'.fwd_cnt = taken' % Mod
    <3>1. conn'.fwd_cnt = 0
      BY <2>1, FreshConn
    <3>2. 0 % Mod = 0
      BY SmallCounter, Constants
    <3>. QED  BY <2>1, <3>1, <3>2
  <2>3. Holds(tq', Early(0))
    <3>1. tq' \in TxQueue /\ 1 \in 0 .. MaxGen
      BY <2>1 DEF Shape, TypeOK
    <3>2. tq'.avail \in Seq(Desc)
      BY <3>1, QueueFields
    <3>3. \A i \in DOMAIN tq'.avail : i = 1
      BY <2>1, <3>2
    <3>4. Request \in Packet /\ Request.fwd_cnt = 0
      <4>1. 0 \in Counter /\ 0 \in 0 .. Payload /\ {} \in Flags /\ "REQUEST" \in Ops
        BY Constants DEF Counter, Flags, Ops
      <4>. QED  BY <3>1, <4>1 DEF Request, Packet
    <3>5. Request \in Early(0)
      BY <3>4 DEF Early
    <3>. QED  BY <2>1, <3>3, <3>5 DEF Holds
  <2>4. ~host'.open
    BY <2>1, NoHostOK
  <2>. QED  BY <2>1, <2>2, <2>3, <2>4 DEF Bounded, ReadExact
<1>. QED  BY <1>1, <1>2

(* at the beginning                                                        *)
LEMMA CreditKeptInit == Init => CreditKept
BY DEF Init, CreditKept, Bounded, Live, NoConn

(* and after every step.                                                   *)
LEMMA CreditKeptNext == Shape /\ Once /\ CreditKept /\ [Next]_vars => CreditKept'
<1> SUFFICES ASSUME Shape, Once, CreditKept, [Next]_vars, gen' <= 1 PROVE Bounded'
  BY DEF CreditKept
<1>0. gen \in Nat /\ Shape' /\ Once'
  <2>1. gen \in 0 .. MaxGen
    BY ShapeParts DEF RestOK
  <2>. QED  BY <2>1, Constants, ShapeNext, OnceNext
<1>1. CASE UNCHANGED vars
  <2>1. UNCHANGED <<conn, tq, host, taken, dropped, gen>>
    BY <1>1 DEF vars, hist
  <2>2. Bounded
    BY <2>1 DEF CreditKept
  <2>3. Accepted' = Accepted
    BY <2>1 DEF Accepted
  <2>. QED  BY <2>1, <2>2, <2>3 DEF Bounded, ReadExact, SentExact, Live
<1>2. CASE virtio_vsock_connect
  <2>1. gen = 0
    BY <1>0, <1>2 DEF virtio_vsock_connect
  <2>2. Before
    BY <2>1 DEF Once, Asking, Talking, Wire
  <2>3. Asking'
    BY <1>2, <2>2, PhaseConnect
  <2>. QED  BY <1>0, <2>3, PhaseBounded
<1>3. CASE Next /\ ~virtio_vsock_connect
  <2>1. gen' = gen
    BY <1>3, GenKept
  <2>2. Bounded /\ (Before \/ Asking \/ Talking)
    BY <2>1 DEF CreditKept, Once
  <2>3. (Before \/ Asking \/ Talking)'
    BY <1>0 DEF Once
  <2>4. CASE (Before \/ Asking)'
    BY <1>0, <2>4, PhaseBounded
  <2>5. CASE Talking' /\ Talking
    <3>1. CASE Application
      <4>1. \A f \in Flags \ {{}} : f \in Flags
        OBVIOUS
      <4>. QED  BY <1>3, <2>2, <2>5, <3>1, <4>1, BoundQuietCalls, BoundWrite, BoundRead,
                   BoundShutdown, BoundClose DEF Application
    <3>2. CASE process_packet \/ neglect_packet \/ PollTransmit
      BY <2>2, <2>5, <3>2, BoundProcess, BoundTransmit
    <3>3. CASE HostTakes \/ (\E n \in HostSizes : HostSends(n)) \/ HostReads \/ HostExtra
      BY <2>2, <2>5, <3>3, BoundTakes, BoundHost
    <3>. QED  BY <1>3, <3>1, <3>2, <3>3 DEF Next
  <2>6. CASE Before \/ Asking
    <3>1. CASE HostTakes
      <4>1. Asking
        <5>1. Before => tq.avail = <<>>
          BY DEF Before
        <5>. QED  BY <2>6, <3>1, <5>1 DEF HostTakes
      <4>. QED  BY <2>2, <3>1, <4>1, BoundTakes
    <3>2. CASE \/ virtio_vsock_socket \/ ConnectDone \/ ConnectTimesOut
               \/ CloseDone \/ CloseTimesOut \/ virtio_vsock_close
      <4>1. (Before \/ Asking)'
        BY <2>6, <3>2, PhaseCalls
      <4>. QED  BY <2>4, <4>1
    <3>3. CASE \/ \E n \in WriteLens : virtio_vsock_write(n)
               \/ WritePacket \/ (\E n \in ReadLens : virtio_vsock_read(n))
               \/ (\E f \in Flags \ {{}} : virtio_vsock_shutdown(f))
               \/ process_packet \/ neglect_packet \/ PollTransmit
               \/ (\E n \in HostSizes : HostSends(n)) \/ HostReads \/ HostExtra
      BY <2>6, <3>3, PhaseOthers
    <3>. QED  BY <1>3, <3>1, <3>2, <3>3 DEF Next, Application
  <2>. QED  BY <2>2, <2>3, <2>4, <2>5, <2>6
<1>. QED  BY <1>1, <1>2, <1>3

(* The credit virtio_vsock_read returns keeps the host within buf_alloc:   *)
(* whatever the sizes of its packets, however many credit updates are kept *)
(* pending, overtaken or refused, the first connection never has more sent *)
(* to it and not read than the guest has announced, until a packet is lost *)
(* in the packet ring or the counters wrap around.                         *)
THEOREM GuestNeverOverrun == Spec => [](gen <= 1 /\ ~dropped => GuestNotOverrun)
<1>1. Shape /\ Once /\ CreditKept => (gen <= 1 /\ ~dropped => GuestNotOverrun)
  <2> SUFFICES ASSUME Shape, Once, CreditKept, gen <= 1, ~dropped, Together, host.sent < Mod
               PROVE  host.sent - taken <= BufAlloc
    BY DEF GuestNotOverrun
  <2>1. host.open /\ Live
    BY DEF Together, Live
  <2>2. host.sent <= taken + BufAlloc
    BY <2>1 DEF CreditKept, Bounded, ReadExact, SentExact
  <2>3. host.sent \in Nat /\ taken \in Nat
    BY ShapeParts, Constants DEF RestOK, Host
  <2>. QED  BY <2>2, <2>3, Constants
<1>. QED  BY <1>1, ShapeInit, ShapeNext, OnceInit, OnceNext, CreditKeptInit, CreditKeptNext,
             PTL DEF Spec
==============================================================================

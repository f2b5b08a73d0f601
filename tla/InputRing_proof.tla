--------------------------- MODULE InputRing_proof ---------------------------
(***************************************************************************)
(* What InputRing promises, for every capacity, index range and number of  *)
(* events, motions and mask requests.                                      *)
(*                                                                         *)
(* The ring: that slots are whole and that it is a queue needs to know     *)
(* where the input thread is with the event it stores.  The slot it writes *)
(* is none of the pending ones, because it found room and the game only    *)
(* makes more; that the slots of pending events are distinct, also when    *)
(* the indices have wrapped, is arithmetic on remainders (the lemmas at    *)
(* the start), which needs the capacity to divide the range of the indices.*)
(*                                                                         *)
(* The motion slot: the reader's copy is good if the sequence number is    *)
(* unchanged, so the invariant says what it has copied in that case.  That *)
(* the sequence number only grows needs that one thread writes at a time,  *)
(* which the code does not enforce: it holds until a second mask request.  *)
(***************************************************************************)
EXTENDS InputRing, SequenceTheorems, TLAPS

(* Division with remainder.                                                *)
LEMMA Remainder ==
    ASSUME NEW a \in Int, NEW m \in Int, m > 0
    PROVE  a % m \in 0 .. m - 1 /\ a \div m \in Int /\ a = m * (a \div m) + (a % m)
<1>1. a % m \in 0 .. m - 1
  OBVIOUS
<1>2. a \div m \in Int
  OBVIOUS
<1>3. a = m * (a \div m) + (a % m)
  OBVIOUS
<1>. QED  BY <1>1, <1>2, <1>3

(* The remainder is the only one in its range.                             *)
LEMMA RemainderUnique ==
    ASSUME NEW m \in Int, m > 0, NEW a \in Int, NEW q \in Int, NEW r \in 0 .. m - 1, a = m * q + r
    PROVE  a % m = r
<1>1. PICK p \in Int, t \in 0 .. m - 1 : a = m * p + t /\ t = a % m
  BY Remainder
<1>2. m * (q - p) = t - r
  BY <1>1
<1>3. CASE q - p >= 1
  <2>1. m * (q - p) >= m
    BY <1>3
  <2>. QED  BY <1>1, <1>2, <2>1
<1>4. CASE q - p <= -1
  <2>1. m * (p - q) >= m
    BY <1>4
  <2>2. m * (p - q) = r - t
    BY <1>1
  <2>. QED  BY <1>1, <2>1, <2>2
<1>5. CASE q = p
  <2>1. m * (q - p) = 0
    BY <1>5
  <2>2. t = r
    BY <1>2, <2>1
  <2>. QED  BY <1>1, <2>2
<1>. QED  BY <1>3, <1>4, <1>5

(* A multiple of the divisor does not change the remainder.                *)
LEMMA AddMultiple ==
    ASSUME NEW m \in Int, m > 0, NEW a \in Int, NEW b \in Int, NEW k \in Int, b = a + m * k
    PROVE  b % m = a % m
<1>1. PICK q \in Int, r \in 0 .. m - 1 : a = m * q + r /\ r = a % m
  BY Remainder
<1>2. m * (q + k) = m * q + m * k
  OBVIOUS
<1>3. b = m * (q + k) + r /\ q + k \in Int
  BY <1>1, <1>2
<1>. QED  BY <1>1, <1>3, RemainderUnique

(* Numbers less than the divisor apart have different remainders: events   *)
(* that are in the ring together are in different slots.                   *)
LEMMA DistinctSlots ==
    ASSUME NEW m \in Int, m > 0, NEW a \in Int, NEW b \in Int, a < b, b < a + m
    PROVE  a % m # b % m
<1> SUFFICES ASSUME a % m = b % m PROVE FALSE
  OBVIOUS
<1>1. PICK p \in Int, r \in 0 .. m - 1 : a = m * p + r /\ r = a % m
  BY Remainder
<1>2. PICK q \in Int, t \in 0 .. m - 1 : b = m * q + t /\ t = b % m
  BY Remainder
<1>3. m * (q - p) = b - a
  BY <1>1, <1>2
<1>4. CASE q - p >= 1
  <2>1. m * (q - p) >= m
    BY <1>4
  <2>. QED  BY <1>3, <2>1
<1>5. CASE q - p <= 0
  <2>1. m * (p - q) >= 0
    BY <1>5
  <2>2. m * (p - q) = a - b
    BY <1>1, <1>2
  <2>. QED  BY <2>1, <2>2
<1>. QED  BY <1>4, <1>5

(* The wrap of the free-running indices keeps the slot, since the ring's   *)
(* capacity divides their range.                                           *)
LEMMA WrapKeepsSlot ==
    ASSUME NEW a \in Int, NEW i \in Int
    PROVE  ((a % Mod) + i) % Cap = (a + i) % Cap
<1> USE RingAssumption
<1>1. PICK q \in Int, r \in 0 .. Mod - 1 : a = Mod * q + r /\ r = a % Mod
  BY Remainder
<1>2. PICK j \in Int : Mod = Cap * j
  <2>1. Mod = Cap * (Mod \div Cap) + (Mod % Cap) /\ Mod \div Cap \in Int
    BY Remainder
  <2>2. Cap * (Mod \div Cap) \in Int
    BY <2>1
  <2>3. Mod = Cap * (Mod \div Cap)
    BY <2>1, <2>2
  <2>. QED  BY <2>1, <2>3
<1>3. PICK y \in Int, k \in Int : y = Mod * q /\ k = j * q /\ y = Cap * k
  <2>1. Mod * q \in Int /\ j * q \in Int
    OBVIOUS
  <2>2. Mod * q = Cap * (j * q)
    BY <1>2
  <2>. QED  BY <2>1, <2>2
<1>4. a + i = (r + i) + y
  BY <1>1, <1>3
<1>5. a + i = (r + i) + Cap * k
  BY <1>3, <1>4
<1>6. r + i \in Int /\ a + i \in Int /\ Cap \in Int /\ Cap > 0
  OBVIOUS
<1>7. (a + i) % Cap = (r + i) % Cap
  BY <1>5, <1>6, AddMultiple
<1>. QED  BY <1>1, <1>7

(* Indices of the ring, and the number of events between them.             *)
LEMMA Distance ==
    ASSUME NEW h \in 0 .. Mod - 1, NEW t \in 0 .. Mod - 1
    PROVE  /\ Minus(t, h) \in 0 .. Mod - 1
           /\ t % Cap = (h + Minus(t, h)) % Cap
           /\ Minus(t, h) = 0 <=> h = t
           /\ \E q \in Int : t - h = Mod * q + Minus(t, h)
<1>0. Mod \in Int /\ Mod > 0
  BY RingAssumption
<1>1. PICK q \in Int, n \in 0 .. Mod - 1 : t - h = Mod * q + n /\ n = (t - h) % Mod
  <2>1. t - h \in Int
    BY <1>0
  <2>. QED  BY <1>0, <2>1, Remainder
<1>2. -q \in Int /\ h + n \in Int /\ h + n = Mod * (-q) + t
  <2>1. Mod * (-q) = -(Mod * q) /\ Mod * q \in Int
    BY <1>0
  <2>. QED  BY <1>0, <1>1, <2>1
<1>3. (h + n) % Mod = t
  BY <1>0, <1>2, RemainderUnique
<1>4. t % Cap = (h + n) % Cap
  <2>1. (((h + n) % Mod) + 0) % Cap = (h + n + 0) % Cap
    BY <1>2, WrapKeepsSlot
  <2>2. t + 0 = t /\ h + n + 0 = h + n
    BY <1>0, <1>2
  <2>. QED  BY <1>3, <2>1, <2>2
<1>5. h % Mod = h
  BY <1>0
<1>6. n = 0 => h = t
  <2>1. n = 0 => h + n = h
    BY <1>0
  <2>. QED  BY <1>3, <1>5, <2>1
<1>7. h = t => n = 0
  BY <1>0, <1>1
<1>. QED  BY <1>1, <1>4, <1>6, <1>7 DEF Minus

(* Publishing one event.                                                   *)
LEMMA PublishDistance ==
    ASSUME NEW h \in 0 .. Mod - 1, NEW t \in 0 .. Mod - 1, Minus(t, h) < Cap
    PROVE  Plus1(t) \in 0 .. Mod - 1 /\ Minus(Plus1(t), h) = Minus(t, h) + 1
<1>0. Mod \in Int /\ Mod > 0 /\ Cap \in Int /\ Mod > Cap
  BY RingAssumption
<1>1. PICK n \in 0 .. Mod - 1 : n = Minus(t, h) /\ \E q \in Int : t - h = Mod * q + n
  BY Distance
<1>2. PICK q \in Int, x \in Int : x = Mod * q /\ t - h = x + n
  <2>1. PICK q \in Int : t - h = Mod * q + n
    BY <1>1
  <2>2. Mod * q \in Int
    BY <1>0
  <2>. QED  BY <2>1, <2>2
<1>3. t + 1 \in Int
  BY <1>0
<1>4. PICK p \in Int, u \in 0 .. Mod - 1 : t + 1 = Mod * p + u /\ u = Plus1(t)
  BY <1>0, <1>3, Remainder DEF Plus1
<1>5. PICK y \in Int : y = Mod * p /\ t + 1 = y + u
  BY <1>0, <1>4
<1>6. Mod * (q - p) = x - y /\ q - p \in Int
  BY <1>0, <1>2, <1>5
<1>7. u - h = (x - y) + (n + 1) /\ u - h \in Int /\ n + 1 \in 0 .. Mod - 1
  BY <1>0, <1>1, <1>2, <1>5
<1>8. u - h = Mod * (q - p) + (n + 1)
  BY <1>6, <1>7
<1>9. (u - h) % Mod = n + 1
  BY <1>0, <1>6, <1>7, <1>8, RemainderUnique
<1>. QED  BY <1>1, <1>4, <1>9 DEF Minus

(* Taking one event.                                                       *)
LEMMA TakeDistance ==
    ASSUME NEW h \in 0 .. Mod - 1, NEW t \in 0 .. Mod - 1, Minus(t, h) > 0
    PROVE  /\ Plus1(h) \in 0 .. Mod - 1 /\ Minus(t, Plus1(h)) = Minus(t, h) - 1
           /\ \A i \in Int : (Plus1(h) + i) % Cap = (h + 1 + i) % Cap
<1>0. Mod \in Int /\ Mod > 0
  BY RingAssumption
<1>1. PICK n \in 0 .. Mod - 1 : n = Minus(t, h) /\ \E q \in Int : t - h = Mod * q + n
  BY Distance
<1>2. PICK q \in Int, x \in Int : x = Mod * q /\ t - h = x + n
  <2>1. PICK q \in Int : t - h = Mod * q + n
    BY <1>1
  <2>2. Mod * q \in Int
    BY <1>0
  <2>. QED  BY <2>1, <2>2
<1>3. h + 1 \in Int
  BY <1>0
<1>4. PICK p \in Int, u \in 0 .. Mod - 1 : h + 1 = Mod * p + u /\ u = Plus1(h)
  BY <1>0, <1>3, Remainder DEF Plus1
<1>5. PICK y \in Int : y = Mod * p /\ h + 1 = y + u
  BY <1>0, <1>4
<1>6. Mod * (q + p) = x + y /\ q + p \in Int
  BY <1>0, <1>2, <1>5
<1>7. t - u = (x + y) + (n - 1) /\ t - u \in Int /\ n - 1 \in 0 .. Mod - 1
  BY <1>0, <1>1, <1>2, <1>5
<1>8. t - u = Mod * (q + p) + (n - 1)
  BY <1>6, <1>7
<1>9. (t - u) % Mod = n - 1
  BY <1>0, <1>6, <1>7, <1>8, RemainderUnique
<1>10. \A i \in Int : (Plus1(h) + i) % Cap = (h + 1 + i) % Cap
  BY <1>3, WrapKeepsSlot DEF Plus1
<1>. QED  BY <1>1, <1>4, <1>9, <1>10 DEF Minus

------------------------------------------------------------------------------
(* Published events.                                                       *)
Filled == Minus(tail, head)

(* Where the input thread is with a key or button event, a motion.         *)
Offering == {"event", "lo", "hi", "publish"}
Moving   == {"m_load", "m_odd", "m_lo", "m_hi", "m_even", "m_serial"}

(* What the types need: numbers follow each other.                         *)
Bounds ==
    /\ dropped + (IF hpc["input"] \in Offering THEN 1 ELSE 0) <= events
    /\ serial = motions - (IF hpc["input"] \in Moving THEN 1 ELSE 0)
    /\ gpc \in {"ring", "lo", "hi", "serial", "r_serial", "r_seq", "r_lo", "r_hi", "r_seq2",
                "r_serial2"} => try < Attempts
    /\ gpc \in {"hi", "take"} => glo \in 0 .. MaxEvents
    /\ gpc \in {"r_hi", "r_seq2", "r_serial2", "motion"} => glo \in Motions
    /\ gpc \in {"r_seq2", "r_serial2", "motion"} => ghi \in Motions

(* The input thread's side of the ring.                                    *)
RingExact ==
    /\ Filled <= Cap
    /\ hpc["input"] \in {"lo", "hi", "publish"} => Filled < Cap
    /\ hpc["input"] \in {"hi", "publish"} => lo[tail % Cap] = events
    /\ hpc["input"] = "publish" => hi[tail % Cap] = events
    /\ hpc["input"] \in Offering => events # 0
    /\ \A k \in 0 .. Filled - 1 : lo[(head + k) % Cap] = hi[(head + k) % Cap]

(* The game's side.                                                        *)
CopyExact ==
    /\ gpc \in {"lo", "hi", "take"} => Filled > 0
    /\ gpc \in {"hi", "take"} => glo = lo[head % Cap]
    /\ gpc = "take" => glo = ghi

(* The motion slot holds the motion of the serial or the one after it, and *)
(* so does a copy made under an unchanged serial.                          *)
MotionNumbers ==
    /\ hpc["input"] \in Moving => wval["input"] = motions
    /\ motionLo > 0 => motionLo = serial + (IF hpc["input"] \in {"m_hi", "m_even", "m_serial"}
                                            THEN 1 ELSE 0)
    /\ wval["listener"] <= 0
    /\ gserial <= serial
    /\ gpc \in {"r_hi", "r_seq2", "r_serial2"} /\ serial = gserial /\ glo > 0
          => glo \in {gserial, gserial + 1}
    /\ gpc = "motion" /\ glo > 0 => glo \in {gserial, gserial + 1}
    /\ MotionCurrent

(* The listener writes the motion slot, or will once the request gets      *)
(* through.                                                                *)
Seeding ==
    \/ hpc["listener"] \in {"query", "m_load", "m_odd", "m_lo", "m_hi", "m_even"}
    \/ mask = "on" /\ (~applied \/ hpc["listener"] = "apply")

(* The first request that switches input on seeds the slot before any      *)
(* motion is received.                                                     *)
OneWriter ==
    masks <= 1 =>
        /\ masks = 0 => mask # "on" /\ ~enabled /\ hpc["input"] = "idle"
        /\ Seeding => ~enabled /\ hpc["input"] = "idle"
        /\ hpc["listener"] \notin {"idle", "apply"} => applied

(* The sequence lock.                                                      *)
SeqLock ==
    masks <= 1 =>
        /\ \A w \in Writers :
              /\ hpc[w] = "m_odd" => seq = wseq[w]
              /\ hpc[w] \in {"m_lo", "m_hi", "m_even"} => seq = wseq[w] + 1 /\ seq % 2 = 1
              /\ hpc[w] = "m_hi" => motionLo = wval[w]
              /\ hpc[w] = "m_even" => motionLo = wval[w] /\ motionHi = wval[w]
        /\ (\A w \in Writers : hpc[w] \notin {"m_lo", "m_hi", "m_even"})
              => seq % 2 = 0 /\ motionLo = motionHi
        /\ gseq <= seq
        /\ gpc \in {"r_lo", "r_hi", "r_seq2"} => gseq % 2 = 0
        /\ gpc \in {"r_hi", "r_seq2"} /\ seq = gseq => glo = motionLo
        /\ gpc = "r_seq2" /\ seq = gseq => ghi = motionHi
        /\ gpc \in {"r_serial2", "motion"} => glo = ghi
        /\ MotionWhole

IInv == TypeOK /\ Bounds /\ RingExact /\ CopyExact /\ MotionNumbers /\ OneWriter /\ SeqLock

(* Nothing is published when the ring is set up.                           *)
LEMMA InitInv == Init => IInv
<1> SUFFICES ASSUME Init PROVE IInv
  OBVIOUS
<1> USE RingAssumption DEF Init
<1>1. Filled = 0
  BY Distance DEF Filled
<1>2. TypeOK
  <2>1. hpc \in [Writers -> HostPc] /\ gpc \in GamePc
    BY DEF HostPc, GamePc
  <2>2. 0 \in Motions /\ 0 \in 0 .. MaxEvents /\ 0 \in 0 .. MaxMotions
    BY DEF Motions
  <2>3. head \in 0 .. Mod - 1 /\ tail \in 0 .. Mod - 1 /\ try \in 0 .. Attempts
        /\ masks \in 0 .. MaxMasks
    OBVIOUS
  <2>4. lo \in [Slots -> 0 .. MaxEvents] /\ hi \in [Slots -> 0 .. MaxEvents]
    BY <2>2
  <2>5. wseq \in [Writers -> Nat] /\ wval \in [Writers -> Motions]
    BY <2>2
  <2>6. motionOut \in [lo : Motions, hi : Motions, serial : 0 .. MaxMotions]
    BY <2>2
  <2>7. enabled \in BOOLEAN /\ applied \in BOOLEAN
    BY Zenon
  <2>8. 0 \in Nat /\ 0 \in Int
    OBVIOUS
  <2>. QED  BY <2>1, <2>2, <2>3, <2>4, <2>5, <2>6, <2>7, <2>8, Zenon DEF TypeOK
<1>3. Bounds
  <2>1. hpc["input"] = "idle"
    BY DEF Writers
  <2>2. hpc["input"] \notin Offering /\ hpc["input"] \notin Moving
    BY <2>1 DEF Offering, Moving
  <2>3. dropped + 0 <= events /\ serial = motions - 0
    OBVIOUS
  <2>. QED  BY <2>2, <2>3, Zenon DEF Bounds
<1>4. RingExact /\ CopyExact
  BY <1>1 DEF RingExact, CopyExact, Writers, Offering
<1>5. MotionNumbers
  BY DEF MotionNumbers, MotionCurrent, Writers, Moving
<1>6. OneWriter /\ SeqLock
  BY DEF OneWriter, Seeding, SeqLock, MotionWhole, Writers
<1>. QED  BY <1>2, <1>3, <1>4, <1>5, <1>6 DEF IInv

(* update_shared_motion loads the sequence number.                         *)
LEMMA MotionLoadInv ==
    ASSUME IInv, NEW w \in Writers, MotionLoad(w)
    PROVE  IInv'
<1> USE RingAssumption DEF IInv, ring, motion, writer, game, HostStep, MotionLoad
<1>1. TypeOK'
  <2>1. hpc' \in [Writers -> HostPc]
    BY DEF TypeOK, HostPc, Writers
  <2>2. wseq' \in [Writers -> Nat]
    BY DEF TypeOK
  <2>. QED  BY <2>1, <2>2 DEF TypeOK
<1>2. Bounds'
  BY DEF Bounds, TypeOK, Writers, Offering, Moving
<1>3. RingExact'
  BY DEF RingExact, Filled, TypeOK, Writers, Offering
<1>4. CopyExact'
  BY DEF CopyExact, Filled
<1>5. MotionNumbers'
  BY DEF MotionNumbers, MotionCurrent, TypeOK, Writers, Moving, Motions, Bounds
<1>6. OneWriter'
  BY DEF OneWriter, Seeding, TypeOK, Writers
<1>7. SeqLock'
  BY DEF SeqLock, OneWriter, Seeding, MotionWhole, TypeOK, Writers
<1>. QED  BY <1>1, <1>2, <1>3, <1>4, <1>5, <1>6, <1>7

(* It is odd while the slot is written.                                    *)
LEMMA MotionOddInv ==
    ASSUME IInv, NEW w \in Writers, MotionOdd(w)
    PROVE  IInv'
<1> USE RingAssumption DEF IInv, ring, motion, writer, game, HostStep, MotionOdd
<1>1. TypeOK'
  <2>1. hpc' \in [Writers -> HostPc]
    BY DEF TypeOK, HostPc, Writers
  <2>2. seq' \in Nat
    BY DEF TypeOK
  <2>. QED  BY <2>1, <2>2 DEF TypeOK
<1>2. Bounds'
  BY DEF Bounds, TypeOK, Writers, Offering, Moving
<1>3. RingExact'
  BY DEF RingExact, Filled, TypeOK, Writers, Offering
<1>4. CopyExact'
  BY DEF CopyExact, Filled
<1>5. MotionNumbers'
  BY DEF MotionNumbers, MotionCurrent, TypeOK, Writers, Moving, Motions, Bounds
<1>6. OneWriter'
  BY DEF OneWriter, Seeding, TypeOK, Writers
<1>7. SeqLock'
  BY DEF SeqLock, OneWriter, Seeding, MotionWhole, TypeOK, Writers
<1>. QED  BY <1>1, <1>2, <1>3, <1>4, <1>5, <1>6, <1>7

(* The first half of the motion.                                           *)
LEMMA MotionLoInv ==
    ASSUME IInv, NEW w \in Writers, MotionLo(w)
    PROVE  IInv'
<1> USE RingAssumption DEF IInv, ring, motion, writer, game, HostStep, MotionLo
<1>1. TypeOK'
  <2>1. hpc' \in [Writers -> HostPc]
    BY DEF TypeOK, HostPc, Writers
  <2>2. motionLo' \in Motions
    BY DEF TypeOK
  <2>. QED  BY <2>1, <2>2 DEF TypeOK
<1>2. Bounds'
  BY DEF Bounds, TypeOK, Writers, Offering, Moving
<1>3. RingExact'
  BY DEF RingExact, Filled, TypeOK, Writers, Offering
<1>4. CopyExact'
  BY DEF CopyExact, Filled
<1>5. MotionNumbers'
  BY DEF MotionNumbers, MotionCurrent, TypeOK, Writers, Moving, Motions, Bounds
<1>6. OneWriter'
  BY DEF OneWriter, Seeding, TypeOK, Writers
<1>7. SeqLock'
  BY DEF SeqLock, OneWriter, Seeding, MotionWhole, TypeOK, Writers
<1>. QED  BY <1>1, <1>2, <1>3, <1>4, <1>5, <1>6, <1>7

(* The second half.                                                        *)
LEMMA MotionHiInv ==
    ASSUME IInv, NEW w \in Writers, MotionHi(w)
    PROVE  IInv'
<1> USE RingAssumption DEF IInv, ring, motion, writer, game, HostStep, MotionHi
<1>1. TypeOK'
  <2>1. hpc' \in [Writers -> HostPc]
    BY DEF TypeOK, HostPc, Writers
  <2>2. motionHi' \in Motions
    BY DEF TypeOK
  <2>. QED  BY <2>1, <2>2 DEF TypeOK
<1>2. Bounds'
  BY DEF Bounds, TypeOK, Writers, Offering, Moving
<1>3. RingExact'
  BY DEF RingExact, Filled, TypeOK, Writers, Offering
<1>4. CopyExact'
  BY DEF CopyExact, Filled
<1>5. MotionNumbers'
  BY DEF MotionNumbers, MotionCurrent, TypeOK, Writers, Moving, Motions, Bounds
<1>6. OneWriter'
  BY DEF OneWriter, Seeding, TypeOK, Writers
<1>7. SeqLock'
  BY DEF SeqLock, OneWriter, Seeding, MotionWhole, TypeOK, Writers
<1>. QED  BY <1>1, <1>2, <1>3, <1>4, <1>5, <1>6, <1>7

(* The sequence number is even again, and greater.                         *)
LEMMA MotionEvenInv ==
    ASSUME IInv, NEW w \in Writers, MotionEven(w)
    PROVE  IInv'
<1> USE RingAssumption DEF IInv, ring, motion, writer, game, HostStep, MotionEven
<1>1. TypeOK'
  <2>1. hpc' \in [Writers -> HostPc]
    BY DEF TypeOK, HostPc, Writers
  <2>2. seq' \in Nat
    BY DEF TypeOK
  <2>. QED  BY <2>1, <2>2 DEF TypeOK
<1>2. Bounds'
  BY DEF Bounds, TypeOK, Writers, Offering, Moving
<1>3. RingExact'
  BY DEF RingExact, Filled, TypeOK, Writers, Offering
<1>4. CopyExact'
  BY DEF CopyExact, Filled
<1>5. MotionNumbers'
  BY DEF MotionNumbers, MotionCurrent, TypeOK, Writers, Moving, Motions, Bounds
<1>6. OneWriter'
  BY DEF OneWriter, Seeding, TypeOK, Writers
<1>7. SeqLock'
  BY DEF SeqLock, OneWriter, Seeding, MotionWhole, TypeOK, Writers
<1>. QED  BY <1>1, <1>2, <1>3, <1>4, <1>5, <1>6, <1>7

(* The motion is announced.                                                *)
LEMMA MotionSerialInv ==
    ASSUME IInv, MotionSerial
    PROVE  IInv'
<1> USE RingAssumption DEF IInv, ring, motion, writer, game, HostStep, MotionSerial
<1>1. TypeOK'
  <2>1. hpc' \in [Writers -> HostPc]
    BY DEF TypeOK, HostPc, Writers
  <2>2. serial' \in 0 .. MaxMotions
    BY DEF TypeOK, Bounds, Moving
  <2>. QED  BY <2>1, <2>2 DEF TypeOK
<1>2. Bounds'
  BY DEF Bounds, TypeOK, Writers, Offering, Moving
<1>3. RingExact'
  BY DEF RingExact, Filled, TypeOK, Writers, Offering
<1>4. CopyExact'
  BY DEF CopyExact, Filled
<1>5. MotionNumbers'
  BY DEF MotionNumbers, MotionCurrent, TypeOK, Writers, Moving, Motions, Bounds
<1>6. OneWriter'
  BY DEF OneWriter, Seeding, TypeOK, Writers
<1>7. SeqLock'
  BY DEF SeqLock, OneWriter, Seeding, MotionWhole, TypeOK, Writers
<1>. QED  BY <1>1, <1>2, <1>3, <1>4, <1>5, <1>6, <1>7

(* The slot the input thread writes is not one of the pending ones.        *)
LEMMA TailSlotFree ==
    ASSUME IInv, Filled < Cap, NEW k \in 0 .. Filled - 1
    PROVE  (head + k) % Cap # tail % Cap
<1>1. head \in 0 .. Mod - 1 /\ tail \in 0 .. Mod - 1
  BY DEF IInv, TypeOK
<1>2. tail % Cap = (head + Filled) % Cap /\ Filled \in 0 .. Mod - 1
  BY <1>1, Distance DEF Filled
<1>3. /\ head + k \in Int /\ head + Filled \in Int /\ head + k < head + Filled
      /\ head + Filled < (head + k) + Cap
  BY <1>1, <1>2, RingAssumption
<1>4. (head + k) % Cap # (head + Filled) % Cap
  BY <1>3, DistinctSlots, RingAssumption
<1>. QED  BY <1>2, <1>4

(* Indices select slots.                                                   *)
LEMMA SlotRange ==
    ASSUME TypeOK
    PROVE  /\ head \in Int /\ tail \in Int /\ Filled \in Nat
           /\ head % Cap \in Slots /\ tail % Cap \in Slots
           /\ \A k \in Int : (head + k) % Cap \in Slots
<1>1. head \in 0 .. Mod - 1 /\ tail \in 0 .. Mod - 1
  BY DEF TypeOK
<1>2. head \in Int /\ tail \in Int /\ Cap \in Int /\ Cap > 0
  BY <1>1, RingAssumption
<1>3. \A a \in Int : a % Cap \in Slots
  BY <1>2, Remainder DEF Slots
<1>4. Filled \in Nat
  BY <1>1, Distance DEF Filled
<1>5. \A k \in Int : head + k \in Int
  BY <1>2
<1>. QED  BY <1>2, <1>3, <1>4, <1>5

(* The input thread takes up a key or button event.                        *)
LEMMA ReceiveEventInv ==
    ASSUME IInv, ReceiveEvent
    PROVE  IInv'
<1> USE RingAssumption DEF IInv, ring, motion, writer, game, HostStep, ReceiveEvent
<1>1. TypeOK'
  <2>1. hpc' \in [Writers -> HostPc]
    BY DEF TypeOK, HostPc, Writers
  <2>2. events' \in 0 .. MaxEvents
    BY DEF TypeOK
  <2>. QED  BY <2>1, <2>2 DEF TypeOK
<1>2. Bounds'
  BY DEF Bounds, TypeOK, Writers, Offering, Moving
<1>3. RingExact'
  BY DEF RingExact, Filled, TypeOK, Writers, Offering
<1>4. CopyExact'
  BY DEF CopyExact, Filled
<1>5. MotionNumbers'
  BY DEF MotionNumbers, MotionCurrent, TypeOK, Writers, Moving, Motions, Bounds
<1>6. OneWriter'
  BY DEF OneWriter, Seeding, TypeOK, Writers
<1>7. SeqLock'
  BY DEF SeqLock, OneWriter, Seeding, MotionWhole, TypeOK, Writers
<1>. QED  BY <1>1, <1>2, <1>3, <1>4, <1>5, <1>6, <1>7

(* The input thread takes up a motion.                                     *)
LEMMA ReceiveMotionInv ==
    ASSUME IInv, ReceiveMotion
    PROVE  IInv'
<1> USE RingAssumption DEF IInv, ring, motion, writer, game, HostStep, ReceiveMotion
<1>1. TypeOK'
  <2>1. hpc' \in [Writers -> HostPc]
    BY DEF TypeOK, HostPc, Writers
  <2>2. motions' \in 0 .. MaxMotions
    BY DEF TypeOK
  <2>3. wval' \in [Writers -> Motions]
    BY DEF TypeOK, Motions, Writers
  <2>. QED  BY <2>1, <2>2, <2>3 DEF TypeOK
<1>2. Bounds'
  BY DEF Bounds, TypeOK, Writers, Offering, Moving
<1>3. RingExact'
  BY DEF RingExact, Filled, TypeOK, Writers, Offering
<1>4. CopyExact'
  BY DEF CopyExact, Filled
<1>5. MotionNumbers'
  BY DEF MotionNumbers, MotionCurrent, TypeOK, Writers, Moving, Motions, Bounds
<1>6. OneWriter'
  BY DEF OneWriter, Seeding, TypeOK, Writers
<1>7. SeqLock'
  BY DEF SeqLock, OneWriter, Seeding, MotionWhole, TypeOK, Writers
<1>. QED  BY <1>1, <1>2, <1>3, <1>4, <1>5, <1>6, <1>7

(* It finds room, or drops the event.                                      *)
LEMMA CheckFullInv ==
    ASSUME IInv, CheckFull
    PROVE  IInv'
<1> USE RingAssumption DEF IInv, ring, motion, writer, game, HostStep, CheckFull, CheckFullAt
<1>1. TypeOK'
  <2>1. hpc' \in [Writers -> HostPc]
    BY DEF TypeOK, HostPc, Writers
  <2>2. dropped' \in 0 .. MaxEvents
    BY DEF TypeOK, Bounds, Offering
  <2>. QED  BY <2>1, <2>2 DEF TypeOK
<1>2. Bounds'
  BY DEF Bounds, TypeOK, Writers, Offering, Moving
<1>3. RingExact'
  BY DEF RingExact, Filled, TypeOK, Writers, Offering
<1>4. CopyExact'
  BY DEF CopyExact, Filled
<1>5. MotionNumbers'
  BY DEF MotionNumbers, MotionCurrent, TypeOK, Writers, Moving, Motions, Bounds
<1>6. OneWriter'
  BY DEF OneWriter, Seeding, TypeOK, Writers
<1>7. SeqLock'
  BY DEF SeqLock, OneWriter, Seeding, MotionWhole, TypeOK, Writers
<1>. QED  BY <1>1, <1>2, <1>3, <1>4, <1>5, <1>6, <1>7

(* The first half of the event, in a slot that is not pending.             *)
LEMMA StoreLoInv ==
    ASSUME IInv, StoreLo
    PROVE  IInv'
<1> USE RingAssumption DEF IInv, ring, motion, writer, game, HostStep, StoreLo
<1>a. tail % Cap \in Slots /\ Filled < Cap /\ Filled \in Nat
  BY SlotRange DEF RingExact
<1>b. \A k \in 0 .. Filled - 1 : (head + k) % Cap # tail % Cap /\ (head + k) % Cap \in Slots
  BY <1>a, TailSlotFree, SlotRange
<1>c. Filled > 0 => head % Cap # tail % Cap
  <2>1. Filled > 0 => (head + 0) % Cap # tail % Cap
    BY <1>b, Distance DEF Filled, TypeOK
  <2>. QED  BY <2>1 DEF TypeOK
<1>d. head % Cap \in Slots
  BY SlotRange
<1>1. TypeOK'
  <2>1. hpc' \in [Writers -> HostPc]
    BY DEF TypeOK, HostPc, Writers
  <2>2. lo' \in [Slots -> 0 .. MaxEvents]
    BY <1>a DEF TypeOK
  <2>. QED  BY <2>1, <2>2 DEF TypeOK
<1>2. Bounds'
  BY DEF Bounds, TypeOK, Writers, Offering, Moving
<1>3. RingExact'
  <2>1. \A k \in 0 .. Filled - 1 : lo'[(head + k) % Cap] = lo[(head + k) % Cap]
    BY <1>b DEF TypeOK
  <2>2. lo'[tail % Cap] = events
    BY <1>a DEF TypeOK
  <2>3. hpc'["input"] = "hi" /\ Filled' = Filled
    BY DEF TypeOK, Writers, Filled
  <2>. QED  BY <1>a, <2>1, <2>2, <2>3 DEF RingExact, Offering
<1>4. CopyExact'
  <2>1. Filled > 0 => lo'[head % Cap] = lo[head % Cap]
    BY <1>c, <1>d DEF TypeOK
  <2>. QED  BY <2>1 DEF CopyExact, Filled
<1>5. MotionNumbers'
  BY DEF MotionNumbers, MotionCurrent, TypeOK, Writers, Moving, Motions, Bounds
<1>6. OneWriter'
  BY DEF OneWriter, Seeding, TypeOK, Writers
<1>7. SeqLock'
  BY DEF SeqLock, OneWriter, Seeding, MotionWhole, TypeOK, Writers
<1>. QED  BY <1>1, <1>2, <1>3, <1>4, <1>5, <1>6, <1>7

(* The second half.                                                        *)
LEMMA StoreHiInv ==
    ASSUME IInv, StoreHi
    PROVE  IInv'
<1> USE RingAssumption DEF IInv, ring, motion, writer, game, HostStep, StoreHi
<1>a. tail % Cap \in Slots /\ Filled < Cap /\ Filled \in Nat
  BY SlotRange DEF RingExact
<1>b. \A k \in 0 .. Filled - 1 : (head + k) % Cap # tail % Cap /\ (head + k) % Cap \in Slots
  BY <1>a, TailSlotFree, SlotRange
<1>1. TypeOK'
  <2>1. hpc' \in [Writers -> HostPc]
    BY DEF TypeOK, HostPc, Writers
  <2>2. hi' \in [Slots -> 0 .. MaxEvents]
    BY <1>a DEF TypeOK
  <2>. QED  BY <2>1, <2>2 DEF TypeOK
<1>2. Bounds'
  BY DEF Bounds, TypeOK, Writers, Offering, Moving
<1>3. RingExact'
  <2>1. \A k \in 0 .. Filled - 1 : hi'[(head + k) % Cap] = hi[(head + k) % Cap]
    BY <1>b DEF TypeOK
  <2>2. hi'[tail % Cap] = events
    BY <1>a DEF TypeOK
  <2>3. hpc'["input"] = "publish" /\ Filled' = Filled
    BY DEF TypeOK, Writers, Filled
  <2>. QED  BY <1>a, <2>1, <2>2, <2>3 DEF RingExact, Offering
<1>4. CopyExact'
  BY DEF CopyExact, Filled
<1>5. MotionNumbers'
  BY DEF MotionNumbers, MotionCurrent, TypeOK, Writers, Moving, Motions, Bounds
<1>6. OneWriter'
  BY DEF OneWriter, Seeding, TypeOK, Writers
<1>7. SeqLock'
  BY DEF SeqLock, OneWriter, Seeding, MotionWhole, TypeOK, Writers
<1>. QED  BY <1>1, <1>2, <1>3, <1>4, <1>5, <1>6, <1>7

(* The store of tail makes the written slot the last pending one.          *)
LEMMA PublishTailInv ==
    ASSUME IInv, PublishTail
    PROVE  IInv'
<1> USE RingAssumption DEF IInv, ring, motion, writer, game, HostStep, PublishTail
<1>a. Filled < Cap /\ Filled \in Nat /\ head \in Int
  BY Distance DEF RingExact, Filled, TypeOK
<1>b. Plus1(tail) \in 0 .. Mod - 1 /\ Filled' = Filled + 1
  BY <1>a, PublishDistance DEF Filled, TypeOK
<1>c. tail % Cap = (head + Filled) % Cap
  BY Distance DEF Filled, TypeOK
<1>d. hpc'["input"] = "idle"
  BY DEF TypeOK, Writers
<1>1. TypeOK'
  <2>1. hpc' \in [Writers -> HostPc]
    BY DEF TypeOK, HostPc, Writers
  <2>2. tail' \in 0 .. Mod - 1
    BY <1>b
  <2>. QED  BY <2>1, <2>2 DEF TypeOK
<1>2. Bounds'
  BY DEF Bounds, TypeOK, Writers, Offering, Moving
<1>3. RingExact'
  <2>1. ASSUME NEW k \in 0 .. Filled PROVE lo[(head + k) % Cap] = hi[(head + k) % Cap]
    <3>1. CASE k = Filled
      BY <1>c, <3>1 DEF RingExact
    <3>2. CASE k \in 0 .. Filled - 1
      BY <3>2 DEF RingExact
    <3>. QED  BY <1>a, <3>1, <3>2
  <2>2. Filled' <= Cap /\ 0 .. Filled' - 1 = 0 .. Filled
    BY <1>a, <1>b
  <2>. QED  BY <1>d, <2>1, <2>2 DEF RingExact, Offering
<1>4. CopyExact'
  BY <1>a, <1>b DEF CopyExact
<1>5. MotionNumbers'
  BY DEF MotionNumbers, MotionCurrent, TypeOK, Writers, Moving, Motions, Bounds
<1>6. OneWriter'
  BY DEF OneWriter, Seeding, TypeOK, Writers
<1>7. SeqLock'
  BY DEF SeqLock, OneWriter, Seeding, MotionWhole, TypeOK, Writers
<1>. QED  BY <1>1, <1>2, <1>3, <1>4, <1>5, <1>6, <1>7

(* A mask request, and its retry.                                          *)
LEMMA MaskInv ==
    ASSUME IInv, (\E m \in {"on", "off"} : SetMask(m)) \/ RetryMask \/ ApplyFails \/ ApplyMask
    PROVE  IInv'
<1> USE RingAssumption DEF IInv, ring, motion, writer, game, HostStep, SetMask, RetryMask, ApplyFails, ApplyMask
<1>1. TypeOK'
  <2>1. hpc' \in [Writers -> HostPc]
    BY DEF TypeOK, HostPc, Writers
  <2>2. mask' \in {"none", "on", "off"}
    BY DEF TypeOK
  <2>3. masks' \in 0 .. MaxMasks
    BY DEF TypeOK
  <2>4. applied' \in BOOLEAN
    BY DEF TypeOK
  <2>. QED  BY <2>1, <2>2, <2>3, <2>4 DEF TypeOK
<1>2. Bounds'
  BY DEF Bounds, TypeOK, Writers, Offering, Moving
<1>3. RingExact'
  BY DEF RingExact, Filled, TypeOK, Writers, Offering
<1>4. CopyExact'
  BY DEF CopyExact, Filled
<1>5. MotionNumbers'
  BY DEF MotionNumbers, MotionCurrent, TypeOK, Writers, Moving, Motions, Bounds
<1>6. OneWriter'
  BY DEF OneWriter, Seeding, TypeOK, Writers
<1>7. SeqLock'
  BY DEF SeqLock, OneWriter, Seeding, MotionWhole, TypeOK, Writers
<1>. QED  BY <1>1, <1>2, <1>3, <1>4, <1>5, <1>6, <1>7

(* The seed is no motion of the input thread.                              *)
LEMMA QueryPointerInv ==
    ASSUME IInv, QueryPointer
    PROVE  IInv'
<1> USE RingAssumption DEF IInv, ring, motion, writer, game, HostStep, QueryPointer
<1>1. TypeOK'
  <2>1. hpc' \in [Writers -> HostPc]
    BY DEF TypeOK, HostPc, Writers
  <2>2. wval' \in [Writers -> Motions]
    BY DEF TypeOK, Motions, Writers
  <2>. QED  BY <2>1, <2>2 DEF TypeOK
<1>2. Bounds'
  BY DEF Bounds, TypeOK, Writers, Offering, Moving
<1>3. RingExact'
  BY DEF RingExact, Filled, TypeOK, Writers, Offering
<1>4. CopyExact'
  BY DEF CopyExact, Filled
<1>5. MotionNumbers'
  BY DEF MotionNumbers, MotionCurrent, TypeOK, Writers, Moving, Motions, Bounds
<1>6. OneWriter'
  BY DEF OneWriter, Seeding, TypeOK, Writers
<1>7. SeqLock'
  BY DEF SeqLock, OneWriter, Seeding, MotionWhole, TypeOK, Writers
<1>. QED  BY <1>1, <1>2, <1>3, <1>4, <1>5, <1>6, <1>7

(* The transport is switched after the seed.                               *)
LEMMA StoreEnabledInv ==
    ASSUME IInv, StoreEnabled
    PROVE  IInv'
<1> USE RingAssumption DEF IInv, ring, motion, writer, game, HostStep, StoreEnabled
<1>1. TypeOK'
  <2>1. hpc' \in [Writers -> HostPc]
    BY DEF TypeOK, HostPc, Writers
  <2>2. enabled' \in BOOLEAN
    BY DEF TypeOK
  <2>. QED  BY <2>1, <2>2 DEF TypeOK
<1>2. Bounds'
  BY DEF Bounds, TypeOK, Writers, Offering, Moving
<1>3. RingExact'
  BY DEF RingExact, Filled, TypeOK, Writers, Offering
<1>4. CopyExact'
  BY DEF CopyExact, Filled
<1>5. MotionNumbers'
  BY DEF MotionNumbers, MotionCurrent, TypeOK, Writers, Moving, Motions, Bounds
<1>6. OneWriter'
  BY DEF OneWriter, Seeding, TypeOK, Writers
<1>7. SeqLock'
  BY DEF SeqLock, OneWriter, Seeding, MotionWhole, TypeOK, Writers
<1>. QED  BY <1>1, <1>2, <1>3, <1>4, <1>5, <1>6, <1>7

(* The game starts a call, or an ordinary event ends one.                  *)
LEMMA GameCallInv ==
    ASSUME IInv, CallNext \/ CallPeek \/ CallQuery \/ OrdinaryEvent
    PROVE  IInv'
<1> USE RingAssumption DEF IInv, ring, motion, writer, game, GameStep, CallNext, CallPeek, CallQuery, OrdinaryEvent
<1>1. TypeOK'
  <2>1. gpc' \in GamePc
    BY DEF TypeOK, GamePc
  <2>2. mode' \in {"next", "peek", "query"}
    BY DEF TypeOK
  <2>. QED  BY <2>1, <2>2 DEF TypeOK
<1>2. Bounds'
  BY DEF Bounds, TypeOK, Writers, Offering, Moving
<1>3. RingExact'
  BY DEF RingExact, Filled, TypeOK, Writers, Offering
<1>4. CopyExact'
  BY DEF CopyExact, Filled
<1>5. MotionNumbers'
  BY DEF MotionNumbers, MotionCurrent, TypeOK, Writers, Moving, Motions, Bounds
<1>6. OneWriter'
  BY DEF OneWriter, Seeding, TypeOK, Writers
<1>7. SeqLock'
  BY DEF SeqLock, OneWriter, Seeding, MotionWhole, TypeOK, Writers
<1>. QED  BY <1>1, <1>2, <1>3, <1>4, <1>5, <1>6, <1>7

(* Its looks at enabled and at the serial.                                 *)
LEMMA CheckEnabledInv ==
    ASSUME IInv, CheckEnabled \/ LoadSerial
    PROVE  IInv'
<1> USE RingAssumption DEF IInv, ring, motion, writer, game, GameStep, CheckEnabled, LoadSerial, FallBack
<1>1. TypeOK'
  <2>1. gpc' \in GamePc
    BY DEF TypeOK, GamePc
  <2>2. try' \in 0 .. Attempts
    BY DEF TypeOK
  <2>. QED  BY <2>1, <2>2 DEF TypeOK
<1>2. Bounds'
  BY DEF Bounds, TypeOK, Writers, Offering, Moving
<1>3. RingExact'
  BY DEF RingExact, Filled, TypeOK, Writers, Offering
<1>4. CopyExact'
  BY DEF CopyExact, Filled
<1>5. MotionNumbers'
  BY DEF MotionNumbers, MotionCurrent, TypeOK, Writers, Moving, Motions, Bounds
<1>6. OneWriter'
  BY DEF OneWriter, Seeding, TypeOK, Writers
<1>7. SeqLock'
  BY DEF SeqLock, OneWriter, Seeding, MotionWhole, TypeOK, Writers
<1>. QED  BY <1>1, <1>2, <1>3, <1>4, <1>5, <1>6, <1>7

(* A tail that differs from head means a published event.                  *)
LEMMA LoadTailInv ==
    ASSUME IInv, LoadTail
    PROVE  IInv'
<1> USE RingAssumption DEF IInv, ring, motion, writer, game, GameStep, LoadTail
<1>1. TypeOK'
  <2>1. gpc' \in GamePc
    BY DEF TypeOK, GamePc
  <2>. QED  BY <2>1 DEF TypeOK
<1>2. Bounds'
  BY DEF Bounds, TypeOK, Writers, Offering, Moving
<1>3. RingExact'
  BY DEF RingExact, Filled, TypeOK, Writers, Offering
<1>4. CopyExact'
  <2>1. head # tail => Filled > 0
    BY Distance DEF Filled, TypeOK
  <2>. QED  BY <2>1 DEF CopyExact, Filled
<1>5. MotionNumbers'
  BY DEF MotionNumbers, MotionCurrent, TypeOK, Writers, Moving, Motions, Bounds
<1>6. OneWriter'
  BY DEF OneWriter, Seeding, TypeOK, Writers
<1>7. SeqLock'
  BY DEF SeqLock, OneWriter, Seeding, MotionWhole, TypeOK, Writers
<1>. QED  BY <1>1, <1>2, <1>3, <1>4, <1>5, <1>6, <1>7

(* Copying the first half.                                                 *)
LEMMA CopyLoInv ==
    ASSUME IInv, CopyLo
    PROVE  IInv'
<1> USE RingAssumption DEF IInv, ring, motion, writer, game, GameStep, CopyLo
<1>a. head % Cap \in Slots
  BY SlotRange
<1>b. lo[head % Cap] \in 0 .. MaxEvents
  BY <1>a DEF TypeOK
<1>1. TypeOK'
  <2>1. gpc' \in GamePc
    BY DEF TypeOK, GamePc
  <2>2. glo' \in Int
    BY <1>b
  <2>. QED  BY <2>1, <2>2 DEF TypeOK
<1>2. Bounds'
  BY <1>b DEF Bounds, TypeOK, Writers, Offering, Moving
<1>3. RingExact'
  BY DEF RingExact, Filled, TypeOK, Writers, Offering
<1>4. CopyExact'
  BY DEF CopyExact, Filled
<1>5. MotionNumbers'
  BY DEF MotionNumbers, MotionCurrent, TypeOK, Writers, Moving, Motions, Bounds
<1>6. OneWriter'
  BY DEF OneWriter, Seeding, TypeOK, Writers
<1>7. SeqLock'
  BY DEF SeqLock, OneWriter, Seeding, MotionWhole, TypeOK, Writers
<1>. QED  BY <1>1, <1>2, <1>3, <1>4, <1>5, <1>6, <1>7

(* Copying the second half, which agrees with the first.                   *)
LEMMA CopyHiInv ==
    ASSUME IInv, CopyHi
    PROVE  IInv'
<1> USE RingAssumption DEF IInv, ring, motion, writer, game, GameStep, CopyHi
<1>a. head % Cap \in Slots /\ Filled \in Nat /\ head + 0 = head
  BY SlotRange
<1>b. hi[head % Cap] \in 0 .. MaxEvents
  BY <1>a DEF TypeOK
<1>c. hi[head % Cap] = lo[head % Cap]
  <2>1. 0 \in 0 .. Filled - 1
    BY <1>a DEF CopyExact
  <2>2. lo[(head + 0) % Cap] = hi[(head + 0) % Cap]
    BY <2>1 DEF RingExact
  <2>. QED  BY <1>a, <2>2
<1>1. TypeOK'
  <2>1. gpc' \in GamePc
    BY DEF TypeOK, GamePc
  <2>2. ghi' \in Int
    BY <1>b
  <2>. QED  BY <2>1, <2>2 DEF TypeOK
<1>2. Bounds'
  BY DEF Bounds, TypeOK, Writers, Offering, Moving
<1>3. RingExact'
  BY DEF RingExact, Filled, TypeOK, Writers, Offering
<1>4. CopyExact'
  BY <1>c DEF CopyExact, Filled
<1>5. MotionNumbers'
  BY DEF MotionNumbers, MotionCurrent, TypeOK, Writers, Moving, Motions, Bounds
<1>6. OneWriter'
  BY DEF OneWriter, Seeding, TypeOK, Writers
<1>7. SeqLock'
  BY DEF SeqLock, OneWriter, Seeding, MotionWhole, TypeOK, Writers
<1>. QED  BY <1>1, <1>2, <1>3, <1>4, <1>5, <1>6, <1>7

(* The store of head gives the slot back.                                  *)
LEMMA StoreHeadInv ==
    ASSUME IInv, StoreHead
    PROVE  IInv'
<1> USE RingAssumption DEF IInv, ring, motion, writer, game, GameStep, StoreHead
<1>a. Filled > 0 /\ Filled \in Nat /\ head \in Int
  BY SlotRange DEF CopyExact
<1>b. /\ Plus1(head) \in 0 .. Mod - 1 /\ Filled' = Filled - 1
      /\ \A i \in Int : (head' + i) % Cap = (head + 1 + i) % Cap
  BY <1>a, TakeDistance DEF Filled, TypeOK
<1>1. TypeOK'
  <2>1. gpc' \in GamePc
    BY DEF TypeOK, GamePc
  <2>2. head' \in 0 .. Mod - 1
    BY <1>b
  <2>3. out' \in 0 .. MaxEvents
    BY DEF Bounds
  <2>. QED  BY <2>1, <2>2, <2>3 DEF TypeOK
<1>2. Bounds'
  BY DEF Bounds, TypeOK, Writers, Offering, Moving
<1>3. RingExact'
  <2>1. ASSUME NEW k \in 0 .. Filled' - 1 PROVE lo[(head' + k) % Cap] = hi[(head' + k) % Cap]
    <3>1. k + 1 \in 0 .. Filled - 1 /\ k \in Int
      BY <1>a, <1>b
    <3>2. lo[(head + (k + 1)) % Cap] = hi[(head + (k + 1)) % Cap]
      BY <3>1 DEF RingExact
    <3>3. head + 1 + k = head + (k + 1)
      BY <1>a, <3>1
    <3>. QED  BY <1>b, <3>1, <3>2, <3>3
  <2>2. Filled' <= Cap /\ Filled' < Filled
    BY <1>a, <1>b DEF RingExact
  <2>. QED  BY <1>a, <1>b, <2>1, <2>2 DEF RingExact, Offering
<1>4. CopyExact'
  BY DEF CopyExact
<1>5. MotionNumbers'
  BY DEF MotionNumbers, MotionCurrent, TypeOK, Writers, Moving, Motions, Bounds
<1>6. OneWriter'
  BY DEF OneWriter, Seeding, TypeOK, Writers
<1>7. SeqLock'
  BY DEF SeqLock, OneWriter, Seeding, MotionWhole, TypeOK, Writers
<1>. QED  BY <1>1, <1>2, <1>3, <1>4, <1>5, <1>6, <1>7

(* read_shared_motion loads the serial.                                    *)
LEMMA ReadSerialInv ==
    ASSUME IInv, ReadSerial
    PROVE  IInv'
<1> USE RingAssumption DEF IInv, ring, motion, writer, game, GameStep, ReadSerial
<1>1. TypeOK'
  <2>1. gpc' \in GamePc
    BY DEF TypeOK, GamePc
  <2>2. gserial' \in 0 .. MaxMotions
    BY DEF TypeOK
  <2>. QED  BY <2>1, <2>2 DEF TypeOK
<1>2. Bounds'
  BY DEF Bounds, TypeOK, Writers, Offering, Moving
<1>3. RingExact'
  BY DEF RingExact, Filled, TypeOK, Writers, Offering
<1>4. CopyExact'
  BY DEF CopyExact, Filled
<1>5. MotionNumbers'
  BY DEF MotionNumbers, MotionCurrent, TypeOK, Writers, Moving, Motions, Bounds
<1>6. OneWriter'
  BY DEF OneWriter, Seeding, TypeOK, Writers
<1>7. SeqLock'
  BY DEF SeqLock, OneWriter, Seeding, MotionWhole, TypeOK, Writers
<1>. QED  BY <1>1, <1>2, <1>3, <1>4, <1>5, <1>6, <1>7

(* It loads the sequence number, and goes on if it is even.                *)
LEMMA ReadSeqInv ==
    ASSUME IInv, ReadSeq
    PROVE  IInv'
<1> USE RingAssumption DEF IInv, ring, motion, writer, game, ReadSeq, NextTry, FallBack
<1>1. TypeOK'
  <2>1. gpc' \in GamePc
    BY DEF TypeOK, GamePc
  <2>2. gseq' \in Nat
    BY DEF TypeOK
  <2>3. try' \in 0 .. Attempts
    BY DEF TypeOK, Bounds
  <2>. QED  BY <2>1, <2>2, <2>3 DEF TypeOK
<1>2. Bounds'
  BY DEF Bounds, TypeOK, Writers, Offering, Moving
<1>3. RingExact'
  BY DEF RingExact, Filled, TypeOK, Writers, Offering
<1>4. CopyExact'
  BY DEF CopyExact, Filled
<1>5. MotionNumbers'
  BY DEF MotionNumbers, MotionCurrent, TypeOK, Writers, Moving, Motions, Bounds
<1>6. OneWriter'
  BY DEF OneWriter, Seeding, TypeOK, Writers
<1>7. SeqLock'
  BY DEF SeqLock, OneWriter, Seeding, MotionWhole, TypeOK, Writers
<1>. QED  BY <1>1, <1>2, <1>3, <1>4, <1>5, <1>6, <1>7

(* It copies the first half.                                               *)
LEMMA ReadLoInv ==
    ASSUME IInv, ReadLo
    PROVE  IInv'
<1> USE RingAssumption DEF IInv, ring, motion, writer, game, GameStep, ReadLo
<1>1. TypeOK'
  <2>1. gpc' \in GamePc
    BY DEF TypeOK, GamePc
  <2>2. glo' \in Int
    BY DEF TypeOK, Motions
  <2>. QED  BY <2>1, <2>2 DEF TypeOK
<1>2. Bounds'
  BY DEF Bounds, TypeOK, Writers, Offering, Moving
<1>3. RingExact'
  BY DEF RingExact, Filled, TypeOK, Writers, Offering
<1>4. CopyExact'
  BY DEF CopyExact, Filled
<1>5. MotionNumbers'
  BY DEF MotionNumbers, MotionCurrent, TypeOK, Writers, Moving, Motions, Bounds
<1>6. OneWriter'
  BY DEF OneWriter, Seeding, TypeOK, Writers
<1>7. SeqLock'
  BY DEF SeqLock, OneWriter, Seeding, MotionWhole, TypeOK, Writers
<1>. QED  BY <1>1, <1>2, <1>3, <1>4, <1>5, <1>6, <1>7

(* It copies the second half.                                              *)
LEMMA ReadHiInv ==
    ASSUME IInv, ReadHi
    PROVE  IInv'
<1> USE RingAssumption DEF IInv, ring, motion, writer, game, GameStep, ReadHi
<1>1. TypeOK'
  <2>1. gpc' \in GamePc
    BY DEF TypeOK, GamePc
  <2>2. ghi' \in Int
    BY DEF TypeOK, Motions
  <2>. QED  BY <2>1, <2>2 DEF TypeOK
<1>2. Bounds'
  BY DEF Bounds, TypeOK, Writers, Offering, Moving
<1>3. RingExact'
  BY DEF RingExact, Filled, TypeOK, Writers, Offering
<1>4. CopyExact'
  BY DEF CopyExact, Filled
<1>5. MotionNumbers'
  BY DEF MotionNumbers, MotionCurrent, TypeOK, Writers, Moving, Motions, Bounds
<1>6. OneWriter'
  BY DEF OneWriter, Seeding, TypeOK, Writers
<1>7. SeqLock'
  BY DEF SeqLock, OneWriter, Seeding, MotionWhole, TypeOK, Writers
<1>. QED  BY <1>1, <1>2, <1>3, <1>4, <1>5, <1>6, <1>7

(* It compares the sequence number and the serial.                         *)
LEMMA ReadAgainInv ==
    ASSUME IInv, ReadSeqAgain \/ ReadSerialAgain
    PROVE  IInv'
<1> USE RingAssumption DEF IInv, ring, motion, writer, game, ReadSeqAgain, ReadSerialAgain, NextTry, FallBack
<1>1. TypeOK'
  <2>1. gpc' \in GamePc
    BY DEF TypeOK, GamePc
  <2>2. try' \in 0 .. Attempts
    BY DEF TypeOK, Bounds
  <2>. QED  BY <2>1, <2>2 DEF TypeOK
<1>2. Bounds'
  BY DEF Bounds, TypeOK, Writers, Offering, Moving
<1>3. RingExact'
  BY DEF RingExact, Filled, TypeOK, Writers, Offering
<1>4. CopyExact'
  BY DEF CopyExact, Filled
<1>5. MotionNumbers'
  BY DEF MotionNumbers, MotionCurrent, TypeOK, Writers, Moving, Motions, Bounds
<1>6. OneWriter'
  BY DEF OneWriter, Seeding, TypeOK, Writers
<1>7. SeqLock'
  BY DEF SeqLock, OneWriter, Seeding, MotionWhole, TypeOK, Writers
<1>. QED  BY <1>1, <1>2, <1>3, <1>4, <1>5, <1>6, <1>7

(* It returns the motion.                                                  *)
LEMMA UseMotionInv ==
    ASSUME IInv, UseMotion
    PROVE  IInv'
<1> USE RingAssumption DEF IInv, ring, motion, writer, game, GameStep, UseMotion, FallBack
<1>1. TypeOK'
  <2>1. gpc' \in GamePc
    BY DEF TypeOK, GamePc
  <2>2. consumed' \in 0 .. MaxMotions
    BY DEF TypeOK
  <2>3. motionOut' \in [lo : Motions, hi : Motions, serial : 0 .. MaxMotions]
    BY DEF TypeOK, Bounds
  <2>. QED  BY <2>1, <2>2, <2>3 DEF TypeOK
<1>2. Bounds'
  BY DEF Bounds, TypeOK, Writers, Offering, Moving
<1>3. RingExact'
  BY DEF RingExact, Filled, TypeOK, Writers, Offering
<1>4. CopyExact'
  BY DEF CopyExact, Filled
<1>5. MotionNumbers'
  BY DEF MotionNumbers, MotionCurrent, TypeOK, Writers, Moving, Motions, Bounds
<1>6. OneWriter'
  BY DEF OneWriter, Seeding, TypeOK, Writers
<1>7. SeqLock'
  BY DEF SeqLock, OneWriter, Seeding, MotionWhole, TypeOK, Writers
<1>. QED  BY <1>1, <1>2, <1>3, <1>4, <1>5, <1>6, <1>7

(* Every step keeps the invariant.                                         *)
LEMMA NextInv == IInv /\ [Next]_vars => IInv'
<1> SUFFICES ASSUME IInv, [Next]_vars PROVE IInv'
  OBVIOUS
<1>1. CASE UNCHANGED vars
  <2> USE <1>1 DEF IInv, vars, ring, motion, writer, game
  <2>1. TypeOK' /\ Bounds'
    BY DEF TypeOK, Bounds
  <2>2. RingExact' /\ CopyExact'
    BY DEF RingExact, CopyExact, Filled
  <2>3. MotionNumbers' /\ OneWriter' /\ SeqLock'
    BY DEF MotionNumbers, MotionCurrent, OneWriter, Seeding, SeqLock, MotionWhole
  <2>. QED  BY <2>1, <2>2, <2>3
<1>2. ASSUME NEW w \in Writers, UpdateSharedMotion(w) PROVE IInv'
  BY <1>2, MotionLoadInv, MotionOddInv, MotionLoInv, MotionHiInv, MotionEvenInv
     DEF UpdateSharedMotion
<1>3. CASE InputThread
  BY <1>2, <1>3, ReceiveEventInv, ReceiveMotionInv, CheckFullInv, StoreLoInv, StoreHiInv,
     PublishTailInv, MotionSerialInv DEF InputThread, Writers
<1>4. CASE ListenerThread
  BY <1>2, <1>4, MaskInv, QueryPointerInv, StoreEnabledInv DEF ListenerThread, Writers
<1>5. CASE PeekSharedInput
  BY <1>5, CheckEnabledInv, LoadTailInv, CopyLoInv, CopyHiInv, StoreHeadInv, ReadSerialInv,
     ReadSeqInv, ReadLoInv, ReadHiInv, ReadAgainInv, UseMotionInv DEF PeekSharedInput
<1>6. CASE Game
  BY <1>5, <1>6, GameCallInv DEF Game
<1>. QED  BY <1>1, <1>3, <1>4, <1>6 DEF Next

(* The invariant holds of every run.                                       *)
THEOREM Invariance == Spec => []IInv
BY InitInv, NextInv, PTL DEF Spec

------------------------------------------------------------------------------
(* The variables keep their types.                                         *)
THEOREM TypeCorrect == Spec => []TypeOK
<1>1. IInv => TypeOK
  BY DEF IInv
<1>. QED  BY <1>1, Invariance, PTL

(* The pending events as a sequence.                                       *)
PendingExact ==
    /\ Pending \in Seq(0 .. MaxEvents) /\ Len(Pending) = Filled
    /\ \A i \in 1 .. Filled : Pending[i] = lo[(head + i - 1) % Cap]

(* It has one element for each published slot.                             *)
LEMMA PendingSeq == TypeOK => PendingExact
<1> SUFFICES ASSUME TypeOK PROVE PendingExact
  OBVIOUS
<1>1. Filled \in Nat /\ head \in Int
  BY SlotRange
<1>2. ASSUME NEW i \in 1 .. Filled PROVE lo[(head + i - 1) % Cap] \in 0 .. MaxEvents
  <2>1. i - 1 \in Int /\ head + i - 1 = head + (i - 1)
    BY <1>1
  <2>2. (head + (i - 1)) % Cap \in Slots
    BY <2>1, SlotRange
  <2>. QED  BY <2>1, <2>2 DEF TypeOK
<1> DEFINE e(i) == lo[(head + i - 1) % Cap]
<1>3. Pending = [i \in 1 .. Filled |-> e(i)]
  BY DEF Pending, Filled
<1>4. \A i \in 1 .. Filled : e(i) \in 0 .. MaxEvents
  BY <1>2
<1> HIDE DEF e
<1>5. [i \in 1 .. Filled |-> e(i)] \in Seq(0 .. MaxEvents)
  BY <1>1, <1>4
<1>6. Len([i \in 1 .. Filled |-> e(i)]) = Filled
  BY <1>1
<1>7. \A i \in 1 .. Filled : Pending[i] = e(i)
  BY <1>3
<1>. QED  BY <1>3, <1>5, <1>6, <1>7 DEF PendingExact, e

(* Neither side ever sees half of an event, for every capacity and across  *)
(* the wrap of the indices.                                                *)
THEOREM EventsAlwaysWhole == Spec => []EventsWhole
<1>1. IInv => EventsWhole
  <2> SUFFICES ASSUME IInv PROVE EventsWhole
    OBVIOUS
  <2>1. Filled \in Nat /\ head \in Int
    BY SlotRange DEF IInv
  <2>2. DOMAIN Pending = 1 .. Filled
    BY DEF Pending, Filled
  <2>3. ASSUME NEW i \in 1 .. Filled
        PROVE  lo[(head + i - 1) % Cap] = hi[(head + i - 1) % Cap]
    <3>1. i - 1 \in 0 .. Filled - 1 /\ head + i - 1 = head + (i - 1)
      BY <2>1
    <3>. QED  BY <3>1 DEF IInv, RingExact
  <2>. QED  BY <2>2, <2>3 DEF EventsWhole, IInv, CopyExact
<1>. QED  BY <1>1, Invariance, PTL

(* A motion accepted with a serial is the motion of that serial or the     *)
(* next, whoever else writes the slot.                                     *)
THEOREM MotionAlwaysCurrent == Spec => []MotionCurrent
<1>1. IInv => MotionCurrent
  BY DEF IInv, MotionNumbers
<1>. QED  BY <1>1, Invariance, PTL

(* Until a second request that switches input on, which can make both host *)
(* threads write the slot at once, the sequence lock lets no mixture of    *)
(* two motions through.                                                    *)
THEOREM MotionWholeUntilRemasked == Spec => []MotionWhole
<1>1. IInv => MotionWhole
  BY DEF IInv, SeqLock, MotionWhole
<1>. QED  BY <1>1, Invariance, PTL

------------------------------------------------------------------------------
(* The refinement of InputQueue, step by step.                             *)

(* The event the queue is offered.                                         *)
Offered == IF hpc["input"] \in Offering THEN events ELSE 0

(* A step that leaves the published slots and the offer alone is none of   *)
(* the queue's.                                                            *)
LEMMA QueueStutters ==
    ASSUME UNCHANGED <<head, tail, lo, events, dropped, out>>, UNCHANGED Offered
    PROVE  UNCHANGED Queue!qvars
<1>1. Pending' = Pending
  BY DEF Pending
<1>. QED  BY <1>1 DEF Queue!qvars, Offered, Offering

(* The stores into the slot at tail are invisible.                         *)
LEMMA StoreSimulates ==
    ASSUME IInv, StoreLo \/ StoreHi
    PROVE  UNCHANGED Queue!qvars
<1> USE DEF IInv, HostStep, motion, game
<1>1. Offered' = Offered
  BY DEF StoreLo, StoreHi, TypeOK, Writers, Offered, Offering
<1>2. CASE StoreHi
  BY <1>1, <1>2, QueueStutters DEF StoreHi
<1>3. CASE StoreLo
  <2>1. Filled < Cap /\ Filled \in Nat /\ head \in Int /\ Filled' = Filled /\ head' = head
    BY <1>3, SlotRange DEF RingExact, StoreLo, Filled
  <2>2. ASSUME NEW i \in 1 .. Filled
        PROVE  lo'[(head + i - 1) % Cap] = lo[(head + i - 1) % Cap]
    <3>1. i - 1 \in 0 .. Filled - 1 /\ head + i - 1 = head + (i - 1) /\ i - 1 \in Int
      BY <2>1
    <3>2. (head + (i - 1)) % Cap # tail % Cap /\ (head + (i - 1)) % Cap \in Slots
      BY <2>1, <3>1, TailSlotFree, SlotRange
    <3>. QED  BY <1>3, <3>1, <3>2 DEF StoreLo, TypeOK
  <2>3. Pending' = Pending
    BY <2>1, <2>2 DEF Pending, Filled
  <2>. QED  BY <1>1, <1>3, <2>3 DEF StoreLo, Queue!qvars, Offered, Offering
<1>. QED  BY <1>2, <1>3

(* An event that is received is offered; without room it is turned down.   *)
LEMMA OfferSimulates ==
    ASSUME IInv, ReceiveEvent \/ CheckFull
    PROVE  [Queue!QNext]_(Queue!qvars)
<1> USE DEF IInv, HostStep, ring, motion, game
<1>1. CASE ReceiveEvent
  <2>1. Offered = 0 /\ Offered' = events' /\ events' = events + 1
    BY <1>1 DEF ReceiveEvent, TypeOK, Writers, Offered, Offering
  <2>2. Pending' = Pending
    BY <1>1 DEF ReceiveEvent, Pending
  <2>3. Queue!Offer
    BY <1>1, <2>1, <2>2 DEF ReceiveEvent, Queue!Offer, Offered, Offering
  <2>. QED  BY <2>3 DEF Queue!QNext
<1>2. CASE CheckFull
  <2>1. CASE Minus(tail, head) < Cap
    <3>1. UNCHANGED Offered
      BY <1>2, <2>1, SlotRange, RingAssumption
         DEF CheckFull, CheckFullAt, TypeOK, Writers, Offered, Offering, Filled
    <3>2. UNCHANGED <<head, tail, lo, events, dropped, out>>
      BY <1>2, <2>1, SlotRange, RingAssumption DEF CheckFull, CheckFullAt, Filled
    <3>. QED  BY <3>1, <3>2, QueueStutters
  <2>2. CASE ~(Minus(tail, head) < Cap)
    <3>1. Offered # 0 /\ Offered' = 0 /\ dropped' = dropped + 1
      BY <1>2, <2>2 DEF CheckFull, CheckFullAt, TypeOK, Writers, Offered, Offering, RingExact
    <3>2. Len(Pending) = Cap
      BY <2>2, PendingSeq, SlotRange, RingAssumption DEF RingExact, PendingExact, Filled
    <3>3. Pending' = Pending
      BY <1>2 DEF CheckFull, CheckFullAt, Pending
    <3>4. Queue!TurnDown
      BY <1>2, <3>1, <3>2, <3>3 DEF CheckFull, CheckFullAt, Queue!TurnDown, Offered, Offering
    <3>. QED  BY <3>4 DEF Queue!QNext
  <2>. QED  BY <2>1, <2>2
<1>. QED  BY <1>1, <1>2

(* The store of tail accepts the offered event at the end of the queue.    *)
LEMMA PublishSimulates ==
    ASSUME IInv, IInv', PublishTail
    PROVE  Queue!QNext
<1> USE DEF IInv, HostStep, motion, game
<1>1. Filled < Cap /\ Filled \in Nat /\ head \in Int /\ head' = head /\ lo' = lo
  BY SlotRange DEF RingExact, PublishTail
<1>2. Filled' = Filled + 1
  BY <1>1, PublishDistance DEF PublishTail, Filled, TypeOK
<1>3. tail % Cap = (head + Filled) % Cap /\ lo[tail % Cap] = events
  BY Distance DEF Filled, TypeOK, RingExact, PublishTail
<1>4. PendingExact /\ PendingExact'
  <2>1. (TypeOK => PendingExact)'
    BY PendingSeq, PTL
  <2>. QED  BY <2>1, PendingSeq
<1>5. Offered = events /\ Offered' = 0 /\ events # 0 /\ events \in 0 .. MaxEvents
  BY DEF PublishTail, TypeOK, Writers, Offered, Offering, RingExact
<1>6. Pending' = Append(Pending, events)
  <2>1. /\ Pending \in Seq(0 .. MaxEvents) /\ Len(Pending) = Filled
        /\ Pending' \in Seq(0 .. MaxEvents) /\ Len(Pending') = Filled + 1
    BY <1>2, <1>4 DEF PendingExact
  <2>2. /\ Append(Pending, events) \in Seq(0 .. MaxEvents)
        /\ Len(Append(Pending, events)) = Filled + 1
        /\ \A i \in 1 .. Filled : Append(Pending, events)[i] = Pending[i]
        /\ Append(Pending, events)[Filled + 1] = events
    BY <1>5, <2>1, AppendProperties
  <2>3. ASSUME NEW i \in 1 .. Filled + 1 PROVE Pending'[i] = Append(Pending, events)[i]
    <3>1. Pending'[i] = lo[(head + i - 1) % Cap]
      BY <1>1, <1>2, <1>4 DEF PendingExact
    <3>2. CASE i \in 1 .. Filled
      BY <1>4, <2>2, <3>1, <3>2 DEF PendingExact
    <3>3. CASE i = Filled + 1
      <4>1. head + i - 1 = head + Filled
        BY <1>1, <3>3
      <4>. QED  BY <1>3, <2>2, <3>1, <3>3, <4>1
    <3>4. i \in 1 .. Filled \/ i = Filled + 1
      BY <1>1
    <3>. QED  BY <3>2, <3>3, <3>4
  <2>. QED  BY <2>1, <2>2, <2>3, SeqEqual
<1>7. Queue!Accept
  BY <1>1, <1>4, <1>5, <1>6 DEF PublishTail, Queue!Accept, Offered, Offering, PendingExact
<1>. QED  BY <1>7 DEF Queue!QNext

(* The store of head delivers the first event.                             *)
LEMMA TakeSimulates ==
    ASSUME IInv, IInv', StoreHead
    PROVE  Queue!QNext
<1> USE DEF IInv, GameStep, motion, writer
<1>1. Filled > 0 /\ Filled \in Nat /\ head \in Int /\ lo' = lo
  BY SlotRange DEF CopyExact, StoreHead
<1>2. /\ Filled' = Filled - 1 /\ head' \in Int
      /\ \A i \in Int : (head' + i) % Cap = (head + 1 + i) % Cap
  BY <1>1, TakeDistance, RingAssumption DEF StoreHead, Filled, TypeOK
<1>3. PendingExact /\ PendingExact'
  <2>1. (TypeOK => PendingExact)'
    BY PendingSeq, PTL
  <2>. QED  BY <2>1, PendingSeq
<1>4. /\ Pending \in Seq(0 .. MaxEvents) /\ Len(Pending) = Filled /\ Pending # <<>>
      /\ Pending' \in Seq(0 .. MaxEvents) /\ Len(Pending') = Filled - 1
  BY <1>1, <1>2, <1>3, EmptySeq DEF PendingExact
<1>5. /\ Tail(Pending) \in Seq(0 .. MaxEvents) /\ Len(Tail(Pending)) = Filled - 1
      /\ \A i \in 1 .. Filled - 1 : Tail(Pending)[i] = Pending[i + 1]
  BY <1>4, HeadTailProperties
<1>6. ASSUME NEW i \in 1 .. Filled - 1 PROVE Pending'[i] = Tail(Pending)[i]
  <2>1. Pending'[i] = lo[(head' + i - 1) % Cap]
    BY <1>1, <1>2, <1>3 DEF PendingExact
  <2>2. i - 1 \in Int /\ head' + i - 1 = head' + (i - 1) /\ head + 1 + (i - 1) = head + (i + 1) - 1
    BY <1>1, <1>2
  <2>3. Pending'[i] = lo[(head + (i + 1) - 1) % Cap]
    BY <1>2, <2>1, <2>2
  <2>4. i + 1 \in 1 .. Filled
    BY <1>1
  <2>. QED  BY <1>3, <1>5, <2>3, <2>4 DEF PendingExact
<1>7. Pending' = Tail(Pending)
  BY <1>4, <1>5, <1>6, SeqEqual
<1>8. out' = Head(Pending)
  <2>1. Pending[1] = lo[(head + 1 - 1) % Cap] /\ head + 1 - 1 = head
    BY <1>1, <1>3 DEF PendingExact
  <2>2. out' = lo[head % Cap]
    BY DEF StoreHead, CopyExact
  <2>. QED  BY <1>4, <2>1, <2>2
<1>9. Queue!Deliver
  BY <1>4, <1>7, <1>8 DEF StoreHead, Queue!Deliver
<1>. QED  BY <1>9 DEF Queue!QNext

(* No other step of the two host threads or of the game is one of the      *)
(* queue's.                                                                *)
LEMMA OthersStutter ==
    ASSUME IInv,
           \/ \E w \in Writers : UpdateSharedMotion(w)
           \/ ReceiveMotion \/ MotionSerial
           \/ (\E m \in {"on", "off"} : SetMask(m)) \/ RetryMask \/ ApplyFails \/ ApplyMask
           \/ QueryPointer \/ StoreEnabled
           \/ CallNext \/ CallPeek \/ CallQuery \/ OrdinaryEvent
           \/ CheckEnabled \/ LoadTail \/ CopyLo \/ CopyHi \/ LoadSerial \/ ReadSerial
           \/ ReadSeq \/ ReadLo \/ ReadHi \/ ReadSeqAgain \/ ReadSerialAgain \/ UseMotion
    PROVE  UNCHANGED Queue!qvars
<1> USE DEF ring, motion, writer, game
<1>1. UNCHANGED <<head, tail, lo, events, dropped, out>>
  BY DEF UpdateSharedMotion, MotionLoad, MotionOdd, MotionLo, MotionHi, MotionEven,
         ReceiveMotion, MotionSerial, SetMask, RetryMask, ApplyFails, ApplyMask, QueryPointer,
         StoreEnabled, CallNext, CallPeek, CallQuery, OrdinaryEvent, CheckEnabled, LoadTail,
         CopyLo, CopyHi, LoadSerial, ReadSerial, ReadSeq, ReadLo, ReadHi, ReadSeqAgain,
         ReadSerialAgain, UseMotion
<1>2. hpc' = hpc \/ \E w \in Writers, to \in HostPc \ Offering :
                       hpc[w] \notin Offering /\ hpc' = [hpc EXCEPT ![w] = to]
  BY DEF UpdateSharedMotion, MotionLoad, MotionOdd, MotionLo, MotionHi, MotionEven,
         ReceiveMotion, MotionSerial, SetMask, RetryMask, ApplyFails, ApplyMask, QueryPointer,
         StoreEnabled, CallNext, CallPeek, CallQuery, OrdinaryEvent, CheckEnabled, LoadTail,
         CopyLo, CopyHi, LoadSerial, ReadSerial, ReadSeq, ReadLo, ReadHi, ReadSeqAgain,
         ReadSerialAgain, UseMotion, HostStep, Writers, HostPc, Offering
<1>3. UNCHANGED Offered
  BY <1>1, <1>2 DEF IInv, TypeOK, Offered, Writers
<1>. QED  BY <1>1, <1>3, QueueStutters

(* Every step of the transport is a step of the queue or stutters.         *)
LEMMA StepSimulates == IInv /\ IInv' /\ [Next]_vars => [Queue!QNext]_(Queue!qvars)
<1> SUFFICES ASSUME IInv, IInv', [Next]_vars PROVE [Queue!QNext]_(Queue!qvars)
  OBVIOUS
<1>1. CASE UNCHANGED vars
  <2>1. UNCHANGED <<head, tail, lo, events, dropped, out>> /\ UNCHANGED Offered
    BY <1>1 DEF vars, ring, writer, game, Offered
  <2>. QED  BY <2>1, QueueStutters
<1>2. CASE InputThread
  BY <1>2, OfferSimulates, StoreSimulates, PublishSimulates, OthersStutter
     DEF InputThread, Writers
<1>3. CASE ListenerThread
  BY <1>3, OthersStutter DEF ListenerThread, Writers
<1>4. CASE Game
  BY <1>4, TakeSimulates, OthersStutter DEF Game, PeekSharedInput
<1>. QED  BY <1>1, <1>2, <1>3, <1>4 DEF Next

(* An empty ring is an empty queue.                                        *)
LEMMA InitSimulates == Init => Queue!QInit
<1> SUFFICES ASSUME Init PROVE Queue!QInit
  OBVIOUS
<1>1. TypeOK /\ Filled = 0
  BY InitInv, Distance DEF IInv, Init, Filled, TypeOK
<1>2. Pending = <<>>
  BY <1>1, PendingSeq, EmptySeq DEF PendingExact
<1>3. hpc["input"] = "idle"
  BY DEF Init, Writers
<1>. QED  BY <1>2, <1>3 DEF Init, Queue!QInit

(* The shared ring implements the bounded queue, for every capacity that   *)
(* divides the range of the indices: each accepted event reaches the game  *)
(* once and in order, and one is dropped only while the ring is full.      *)
THEOREM RingRefinesQueue == Spec => RingImplementsQueue
<1>1. Spec => Init /\ [][Next]_vars /\ []IInv
  BY Invariance, PTL DEF Spec
<1>. QED  BY <1>1, InitSimulates, StepSimulates, PTL DEF RingImplementsQueue, Queue!QSpec
==============================================================================

----------------------- MODULE ScrollbackRing_proofs ------------------------
(***************************************************************************)
(* What the scrollback ring promises, for every capacity, every cap on the *)
(* markers and every sequence of writes, resizes and upgrades: the bytes   *)
(* read back are the newest ones, the markers ascend under the cap, and    *)
(* the published size is the one the PTY has.                              *)
(***************************************************************************)
EXTENDS ScrollbackRing, FiniteSetTheorems, SequenceTheorems, TLAPS

----------------------------------------------------------------------------
(* Arithmetic modulo the capacity, for the two laps a write can span. *)

LEMMA CapacityPositive == Capacity \in Nat \ {0}
  BY RingAssumption

LEMMA ModBelow ==
    ASSUME NEW a \in 0 .. Capacity - 1 PROVE a % Capacity = a
  BY CapacityPositive
LEMMA ModAbove ==
    ASSUME NEW a \in Capacity .. 2 * Capacity - 1
    PROVE  a % Capacity = a - Capacity
  BY CapacityPositive
LEMMA ModNegative ==
    ASSUME NEW a \in -Capacity .. -1 PROVE a % Capacity = a + Capacity
  BY CapacityPositive
LEMMA ModRange ==
    ASSUME NEW a \in Int PROVE a % Capacity \in 0 .. Capacity - 1
  BY CapacityPositive

(* A position moved forward by at most, or back by at most, one lap. *)
LEMMA Forward ==
    ASSUME NEW p \in 0 .. Capacity - 1, NEW n \in 0 .. Capacity
    PROVE  (p + n) % Capacity =
              IF p + n < Capacity THEN p + n ELSE p + n - Capacity
  <1>1. CASE p + n < Capacity
    <2>1. p + n \in 0 .. Capacity - 1
      BY <1>1, CapacityPositive
    <2> QED
      BY <1>1, <2>1, ModBelow
  <1>2. CASE p + n >= Capacity
    <2>1. p + n \in Capacity .. 2 * Capacity - 1
      BY <1>2, CapacityPositive
    <2>2. ~(p + n < Capacity)
      BY <1>2, CapacityPositive
    <2>3. (p + n) % Capacity = (p + n) - Capacity
      BY <2>1, ModAbove
    <2> QED
      BY <1>2, <2>3, CapacityPositive
  <1> QED
    BY <1>1, <1>2, CapacityPositive

LEMMA Back ==
    ASSUME NEW p \in 0 .. Capacity - 1, NEW j \in 0 .. Capacity
    PROVE  (p - j) % Capacity = IF p >= j THEN p - j ELSE p - j + Capacity
  <1>1. CASE p >= j
    <2>1. p - j \in 0 .. Capacity - 1
      BY <1>1, CapacityPositive
    <2> QED
      BY <1>1, <2>1, ModBelow
  <1>2. CASE p < j
    <2>1. p - j \in -Capacity .. -1
      BY <1>2, CapacityPositive
    <2>2. ~(p >= j)
      BY <1>2, CapacityPositive
    <2> QED
      BY <2>1, <2>2, ModNegative
  <1> QED
    BY <1>1, <1>2, CapacityPositive

(* The slot of age j after a write of n bytes: one of the bytes written, ... *)
LEMMA SlotNew ==
    ASSUME NEW p \in 0 .. Capacity - 1, NEW n \in 0 .. Capacity - 1,
           NEW j \in 1 .. n,
           NEW s, s = (((p + n) % Capacity) - j) % Capacity
    PROVE  s \in 0 .. Capacity - 1 /\ (s - p) % Capacity = n - j
  <1> DEFINE q == (p + n) % Capacity
  <1>0. n \in 0 .. Capacity /\ j \in 0 .. Capacity /\ Capacity \in Nat \ {0}
    BY CapacityPositive
  <1>1. q = IF p + n < Capacity THEN p + n ELSE p + n - Capacity
    BY <1>0, Forward
  <1>2. q \in 0 .. Capacity - 1
    BY <1>0, <1>1
  <1>3. s = IF q >= j THEN q - j ELSE q - j + Capacity
    BY <1>0, <1>2, Back
  <1> HIDE DEF q
  <1>4. s \in 0 .. Capacity - 1
    BY <1>0, <1>2, <1>3
  <1>5. s - p = n - j \/ s - p = n - j - Capacity
    BY <1>0, <1>1, <1>2, <1>3, <1>4
  <1>6. CASE s - p = n - j
    <2>1. s - p \in 0 .. Capacity - 1
      BY <1>0, <1>6
    <2> QED
      BY <1>4, <1>6, <2>1, ModBelow
  <1>7. CASE s - p = n - j - Capacity
    <2>1. s - p \in -Capacity .. -1
      BY <1>0, <1>7
    <2>2. (s - p) % Capacity = (s - p) + Capacity
      BY <2>1, ModNegative
    <2> QED
      BY <1>0, <1>4, <1>7, <2>2
  <1> QED
    BY <1>5, <1>6, <1>7

(* ... or the slot of age j - n before it, which the write leaves alone. *)
LEMMA SlotOld ==
    ASSUME NEW p \in 0 .. Capacity - 1, NEW n \in 0 .. Capacity - 1,
           NEW j \in n + 1 .. Capacity,
           NEW s, s = (((p + n) % Capacity) - j) % Capacity
    PROVE  /\ s \in 0 .. Capacity - 1
           /\ s = (p - (j - n)) % Capacity
           /\ ~((s - p) % Capacity < n)
  <1> DEFINE q == (p + n) % Capacity
             i == j - n
  <1>0. n \in 0 .. Capacity /\ j \in 0 .. Capacity /\ Capacity \in Nat \ {0}
        /\ i \in 1 .. Capacity /\ i = j - n /\ i \in 0 .. Capacity
    BY CapacityPositive
  <1>1. q = IF p + n < Capacity THEN p + n ELSE p + n - Capacity
    BY <1>0, Forward
  <1>2. q \in 0 .. Capacity - 1
    BY <1>0, <1>1
  <1>3. s = IF q >= j THEN q - j ELSE q - j + Capacity
    BY <1>0, <1>2, Back
  <1>4. (p - i) % Capacity = IF p >= i THEN p - i ELSE p - i + Capacity
    BY <1>0, Back
  <1> HIDE DEF q, i
  <1>5. s \in 0 .. Capacity - 1
    BY <1>0, <1>2, <1>3
  <1>6. s = (p - i) % Capacity
    BY <1>0, <1>1, <1>2, <1>3, <1>4
  <1>7. s - p = -i \/ s - p = Capacity - i
    BY <1>0, <1>4, <1>6
  <1>8. (s - p) % Capacity = Capacity - i
    <2>1. CASE s - p = -i
      <3>1. s - p \in -Capacity .. -1
        BY <1>0, <2>1
      <3>2. (s - p) % Capacity = (s - p) + Capacity
        BY <3>1, ModNegative
      <3> QED
        BY <1>0, <1>5, <2>1, <3>2
    <2>2. CASE s - p = Capacity - i
      <3>1. s - p \in 0 .. Capacity - 1
        BY <1>0, <2>2
      <3> QED
        BY <2>2, <3>1, ModBelow
    <2> QED
      BY <1>7, <2>1, <2>2
  <1> QED
    BY <1>0, <1>5, <1>6, <1>8 DEF i

(* The k-th byte read is the one of age len + 1 - k. *)
LEMMA SlotRead ==
    ASSUME NEW p \in 0 .. Capacity - 1, NEW n \in 0 .. Capacity,
           NEW k \in 1 .. n
    PROVE  (((p - n) % Capacity) + k - 1) % Capacity = (p - (n + 1 - k)) % Capacity
  <1> DEFINE start == (p - n) % Capacity
             j == n + 1 - k
             m == k - 1
  <1>0. /\ Capacity \in Nat \ {0} /\ j \in 0 .. Capacity /\ j = n + 1 - k
        /\ m \in 0 .. Capacity /\ m = k - 1
    BY CapacityPositive
  <1>1. start = IF p >= n THEN p - n ELSE p - n + Capacity
    BY Back
  <1>2. start \in 0 .. Capacity - 1
    BY <1>0, <1>1
  <1>3. (start + m) % Capacity =
           IF start + m < Capacity THEN start + m ELSE start + m - Capacity
    BY <1>0, <1>2, Forward
  <1>4. (p - j) % Capacity = IF p >= j THEN p - j ELSE p - j + Capacity
    BY <1>0, Back
  <1>5. start + m = start + k - 1
    BY <1>0, <1>2
  <1> HIDE DEF start, j, m
  <1>6. (start + m) % Capacity = (p - j) % Capacity
    BY <1>0, <1>1, <1>2, <1>3, <1>4
  <1> QED
    BY <1>0, <1>5, <1>6 DEF start, j

----------------------------------------------------------------------------
(* The bytes of the ring *)

(* The byte of age j stands j slots behind the write position. *)
Ages(r, N) ==
    /\ r.len = Lower(N, Capacity)
    /\ \A j \in 1 .. r.len : r.buf[(r.writePos - j) % Capacity] = N + 1 - j

LEMMA NewType == New \in Rings
  BY CapacityPositive DEF New, Rings, Slots

LEMMA RingFields ==
    ASSUME NEW r \in Rings
    PROVE  /\ r.buf \in [Slots -> Nat] /\ r.writePos \in 0 .. Capacity - 1
           /\ r.len \in 0 .. Capacity /\ r.total \in Nat
           /\ r.markers \in Seq(Markers)
  BY DEF Rings, Slots

LEMMA WriteLong ==
    ASSUME NEW r \in Rings, NEW data \in Seq(Nat), Len(data) >= Capacity
    PROVE  /\ Write(r, data).buf =
                [i \in Slots |-> data[Len(data) - Capacity + i + 1]]
           /\ Write(r, data).writePos = 0 /\ Write(r, data).len = Capacity
  BY DEF Write, Rings

LEMMA WriteShort ==
    ASSUME NEW r \in Rings, NEW data \in Seq(Nat), ~(Len(data) >= Capacity)
    PROVE  /\ Write(r, data).buf =
                [i \in Slots |->
                   IF (i - r.writePos) % Capacity < Len(data)
                   THEN data[((i - r.writePos) % Capacity) + 1] ELSE r.buf[i]]
           /\ Write(r, data).writePos = (r.writePos + Len(data)) % Capacity
           /\ Write(r, data).len = Lower(r.len + Len(data), Capacity)
  BY DEF Write, Rings

LEMMA WriteRest ==
    ASSUME NEW r \in Rings, NEW data \in Seq(Nat)
    PROVE  /\ Write(r, data).markers = r.markers
           /\ Write(r, data).total = r.total + Len(data)
           /\ Write(r, data).evictions = r.evictions
           /\ Write(r, data).cappedHead = r.cappedHead
           /\ Write(r, data) =
                [buf |-> Write(r, data).buf, writePos |-> Write(r, data).writePos,
                 len |-> Write(r, data).len, total |-> r.total + Len(data),
                 markers |-> r.markers, evictions |-> r.evictions,
                 cappedHead |-> r.cappedHead]
  <1>1. CASE Len(data) >= Capacity
    BY <1>1 DEF Write, Rings
  <1>2. CASE ~(Len(data) >= Capacity)
    BY <1>2 DEF Write, Rings
  <1> QED
    BY <1>1, <1>2

LEMMA WriteType ==
    ASSUME NEW r \in Rings, NEW data \in Seq(Nat)
    PROVE  Write(r, data) \in Rings
  <1> DEFINE w == Write(r, data)
  <1>0. Len(data) \in Nat /\ Capacity \in Nat \ {0}
    BY CapacityPositive
  <1>1. w.buf \in [Slots -> Nat] /\ w.writePos \in Slots /\ w.len \in 0 .. Capacity
    <2>1. CASE Len(data) >= Capacity
      <3>1. \A i \in Slots : data[Len(data) - Capacity + i + 1] \in Nat
        <4> SUFFICES ASSUME NEW i \in Slots
                     PROVE  data[Len(data) - Capacity + i + 1] \in Nat
          OBVIOUS
        <4>1. Len(data) - Capacity + i + 1 \in 1 .. Len(data)
          BY <1>0, <2>1 DEF Slots
        <4> QED
          BY <4>1
      <3>2. 0 \in Slots /\ Capacity \in 0 .. Capacity
        BY <1>0 DEF Slots
      <3>3. [i \in Slots |-> data[Len(data) - Capacity + i + 1]] \in [Slots -> Nat]
        BY <3>1
      <3> QED
        BY <2>1, <3>2, <3>3, WriteLong
    <2>2. CASE ~(Len(data) >= Capacity)
      <3>1. ASSUME NEW i \in Slots
            PROVE  (IF (i - r.writePos) % Capacity < Len(data)
                    THEN data[((i - r.writePos) % Capacity) + 1]
                    ELSE r.buf[i]) \in Nat
        <4>1. i - r.writePos \in Int
          BY RingFields DEF Slots
        <4>2. (i - r.writePos) % Capacity \in 0 .. Capacity - 1
          BY <4>1, ModRange
        <4>3. r.buf[i] \in Nat
          BY RingFields
        <4> HIDE DEF Rings
        <4> QED
          BY <1>0, <4>2, <4>3
      <3>2. r.writePos + Len(data) \in Int
        BY <1>0, RingFields
      <3>3. (r.writePos + Len(data)) % Capacity \in Slots
        BY <3>2, ModRange DEF Slots
      <3>4. Lower(r.len + Len(data), Capacity) \in 0 .. Capacity
        BY <1>0, RingFields DEF Lower
      <3> QED
        BY <2>2, <3>1, <3>3, <3>4, WriteShort
    <2> QED
      BY <2>1, <2>2
  <1>2. r.total + Len(data) \in Nat
    BY <1>0, RingFields
  <1>3. r.markers \in Seq(Markers) /\ r.evictions \in Nat
        /\ r.cappedHead \in Sizes \cup {None}
    BY DEF Rings
  <1>4. w = [buf |-> w.buf, writePos |-> w.writePos,
             len |-> w.len, total |-> r.total + Len(data),
             markers |-> r.markers, evictions |-> r.evictions,
             cappedHead |-> r.cappedHead]
    BY WriteRest
  <1> HIDE DEF w
  <1>5. w \in Rings
    BY <1>1, <1>2, <1>3, <1>4 DEF Rings
  <1> QED
    BY <1>5 DEF w

LEMMA WriteAges ==
    ASSUME NEW r \in Rings, NEW N \in Nat, NEW data \in Seq(Nat), Len(data) > 0,
           \A k \in 1 .. Len(data) : data[k] = N + k, Ages(r, N)
    PROVE  Ages(Write(r, data), N + Len(data))
  <1> DEFINE w == Write(r, data)
  <1>0. Capacity \in Nat \ {0}
    BY CapacityPositive
  <1>1. PICK n \in Nat \ {0} : n = Len(data)
    OBVIOUS
  <1>2. \A k \in 1 .. n : data[k] = N + k
    BY <1>1
  <1>3. CASE n >= Capacity
    <2>1. w.len = Capacity /\ w.writePos = 0
          /\ w.buf = [i \in Slots |-> data[n - Capacity + i + 1]]
      BY <1>1, <1>3, WriteLong
    <2>2. ASSUME NEW j \in 1 .. Capacity
          PROVE  w.buf[(0 - j) % Capacity] = N + n + 1 - j
      <3>1. 0 - j \in -Capacity .. -1
        BY <1>0
      <3>2. (0 - j) % Capacity = 0 - j + Capacity
        BY <3>1, ModNegative
      <3>3. 0 - j + Capacity \in Slots
        BY <1>0 DEF Slots
      <3>4. n - Capacity + (0 - j + Capacity) + 1 = n - j + 1
            /\ n - j + 1 \in 1 .. n
        BY <1>0, <1>3
      <3>5. w.buf[0 - j + Capacity] = data[n - j + 1]
        BY <2>1, <3>3, <3>4
      <3>6. data[n - j + 1] = N + (n - j + 1)
        BY <1>2, <3>4
      <3>7. N + (n - j + 1) = N + n + 1 - j
        BY <1>0
      <3> QED
        BY <3>2, <3>5, <3>6, <3>7
    <2>3. Lower(N + n, Capacity) = Capacity
      BY <1>0, <1>3 DEF Lower
    <2>4. \A j \in 1 .. w.len :
             w.buf[(w.writePos - j) % Capacity] = N + n + 1 - j
      BY <2>1, <2>2
    <2> QED
      BY <1>1, <2>1, <2>3, <2>4 DEF Ages
  <1>4. CASE ~(n >= Capacity)
    <2>1. PICK p \in 0 .. Capacity - 1 : p = r.writePos
      BY RingFields
    <2>2. PICK l \in 0 .. Capacity : l = r.len
      BY RingFields
    <2>3. l = Lower(N, Capacity)
          /\ \A j \in 1 .. l : r.buf[(p - j) % Capacity] = N + 1 - j
      BY <2>1, <2>2 DEF Ages
    <2>4. /\ w.len = Lower(l + n, Capacity)
          /\ w.writePos = (p + n) % Capacity
          /\ w.buf = [i \in Slots |->
                        IF (i - p) % Capacity < n
                        THEN data[((i - p) % Capacity) + 1] ELSE r.buf[i]]
      <3>1. ~(Len(data) >= Capacity)
        BY <1>1, <1>4
      <3>2. /\ Len(data) = n /\ r.writePos = p /\ r.len = l
        BY <1>1, <2>1, <2>2
      <3>3. /\ w.buf = [i \in Slots |->
                          IF (i - r.writePos) % Capacity < Len(data)
                          THEN data[((i - r.writePos) % Capacity) + 1] ELSE r.buf[i]]
            /\ w.writePos = (r.writePos + Len(data)) % Capacity
            /\ w.len = Lower(r.len + Len(data), Capacity)
        BY <3>1, WriteShort
      <3> QED
        BY ONLY <3>2, <3>3
    <2>5. /\ Lower(l + n, Capacity) = Lower(N + n, Capacity)
          /\ Lower(l + n, Capacity) \in 0 .. Capacity
          /\ Lower(l + n, Capacity) <= l + n
      BY <1>0, <2>3 DEF Lower
    <2>6. n \in 0 .. Capacity - 1
      BY <1>0, <1>4
    <2>7. ASSUME NEW j \in 1 .. Lower(l + n, Capacity)
          PROVE  w.buf[(((p + n) % Capacity) - j) % Capacity] = N + n + 1 - j
      <3>0. j \in 1 .. Capacity /\ j <= l + n
        BY <1>0, <2>5
      <3>1. PICK s : s = (((p + n) % Capacity) - j) % Capacity
        OBVIOUS
      <3>2. CASE j <= n
        <4>0. j \in 1 .. n
          BY <3>0, <3>2
        <4>1. s \in 0 .. Capacity - 1 /\ (s - p) % Capacity = n - j
          BY <2>6, <3>1, <4>0, SlotNew
        <4>2. n - j < n /\ n - j + 1 \in 1 .. n
          BY <4>0
        <4>3. w.buf[s] = data[n - j + 1]
          BY <2>4, <4>1, <4>2 DEF Slots
        <4>4. data[n - j + 1] = N + (n - j + 1)
          BY <1>2, <4>2
        <4> QED
          BY <3>0, <3>1, <4>3, <4>4
      <3>3. CASE j > n
        <4>0. j \in n + 1 .. Capacity
          BY <1>0, <3>0, <3>3
        <4>1. /\ s \in 0 .. Capacity - 1
              /\ s = (p - (j - n)) % Capacity
              /\ ~((s - p) % Capacity < n)
          BY <2>6, <3>1, <4>0, SlotOld
        <4>2. j - n \in 1 .. l
          BY <3>0, <3>3, <4>0
        <4>3. w.buf[s] = r.buf[s]
          BY <2>4, <4>1 DEF Slots
        <4>4. r.buf[s] = N + 1 - (j - n)
          BY <2>3, <4>1, <4>2
        <4>5. N + 1 - (j - n) = N + n + 1 - j
          BY <3>0
        <4> QED
          BY <3>1, <4>3, <4>4, <4>5
      <3> QED
        BY <3>0, <3>2, <3>3
    <2> QED
      BY <1>1, <2>4, <2>5, <2>7 DEF Ages
  <1> QED
    BY <1>3, <1>4

(* Reading walks from the oldest byte, which stands len slots behind. *)
LEMMA ReadAges ==
    ASSUME NEW r \in Rings, NEW N \in Nat, Ages(r, N)
    PROVE  ReadAll(r) = [k \in 1 .. r.len |-> N - r.len + k]
  <1>1. PICK p \in 0 .. Capacity - 1 : p = r.writePos
    BY RingFields
  <1>2. PICK n \in 0 .. Capacity : n = r.len
    BY RingFields
  <1>3. \A j \in 1 .. n : r.buf[(p - j) % Capacity] = N + 1 - j
    BY <1>1, <1>2 DEF Ages
  <1>4. ASSUME NEW k \in 1 .. n
        PROVE  r.buf[(((p - n) % Capacity) + k - 1) % Capacity] = N - n + k
    <2>1. n + 1 - k \in 1 .. n /\ N + 1 - (n + 1 - k) = N - n + k
      BY CapacityPositive
    <2>2. (((p - n) % Capacity) + k - 1) % Capacity = (p - (n + 1 - k)) % Capacity
      BY SlotRead
    <2> QED
      BY <1>3, <2>1, <2>2
  <1>5. ReadAll(r) = [k \in 1 .. n |->
                        r.buf[(((p - n) % Capacity) + k - 1) % Capacity]]
    BY <1>1, <1>2 DEF ReadAll
  <1> QED
    BY <1>2, <1>4, <1>5

(* capture and load_snapshot keep every retained byte. *)
LEMMA LoadAges ==
    ASSUME NEW r \in Rings, NEW N \in Nat, Ages(r, N)
    PROVE  /\ LoadSnapshot(ReadAll(r)) \in Rings
           /\ LoadSnapshot(ReadAll(r)).markers = <<>>
           /\ Ages(LoadSnapshot(ReadAll(r)), N)
  <1>0. Capacity \in Nat \ {0}
    BY CapacityPositive
  <1>1. PICK n \in 0 .. Capacity : n = r.len
    BY RingFields
  <1>2. n = Lower(N, Capacity) /\ n <= N
    BY <1>0, <1>1 DEF Ages, Lower
  <1>3. PICK data : data = ReadAll(r)
    OBVIOUS
  <1>4. data = [k \in 1 .. n |-> N - n + k]
    BY <1>1, <1>3, ReadAges
  <1>5. /\ data \in Seq(Nat) /\ Len(data) = n
        /\ \A k \in 1 .. n : data[k] = (N - n) + k
    BY <1>2, <1>4
  <1> DEFINE w == Write(New, data)
  <1>6. w \in Rings /\ w.markers = <<>>
    BY <1>5, NewType, WriteType, WriteRest DEF New
  <1>7. CASE n = 0
    <2>1. w.len = 0
      <3>1. ~(Len(data) >= Capacity)
        BY <1>0, <1>5, <1>7
      <3>2. w.len = Lower(New.len + Len(data), Capacity)
        BY <1>5, <3>1, NewType, WriteShort
      <3>3. New.len = 0
        BY DEF New
      <3> QED
        BY <1>0, <1>5, <1>7, <3>2, <3>3 DEF Lower
    <2> HIDE DEF w
    <2>2. Ages(w, N)
      BY <1>2, <1>7, <2>1 DEF Ages
    <2> QED
      BY <1>3, <1>6, <2>2 DEF LoadSnapshot, w
  <1>8. CASE n > 0
    <2>1. CASE n >= Capacity
      <3>1. w.len = Capacity /\ w.writePos = 0
            /\ w.buf = [i \in Slots |-> data[n - Capacity + i + 1]]
        BY <1>5, <2>1, NewType, WriteLong
      <3>2. ASSUME NEW j \in 1 .. Capacity
            PROVE  w.buf[(0 - j) % Capacity] = N + 1 - j
        <4>1. 0 - j \in -Capacity .. -1
          BY <1>0
        <4>2. (0 - j) % Capacity = 0 - j + Capacity
          BY <4>1, ModNegative
        <4>3. 0 - j + Capacity \in Slots
          BY <1>0 DEF Slots
        <4>4. n - Capacity + (0 - j + Capacity) + 1 = n - j + 1
              /\ n - j + 1 \in 1 .. n
          BY <1>0, <2>1
        <4>5. w.buf[0 - j + Capacity] = data[n - j + 1]
          BY <3>1, <4>3, <4>4
        <4>6. data[n - j + 1] = (N - n) + (n - j + 1)
          BY <1>5, <4>4
        <4>7. (N - n) + (n - j + 1) = N + 1 - j
          BY <1>0
        <4> QED
          BY <4>2, <4>5, <4>6, <4>7
      <3>3. Lower(N, Capacity) = Capacity
        BY <1>0, <1>2, <2>1
      <3>4. \A j \in 1 .. w.len : w.buf[(w.writePos - j) % Capacity] = N + 1 - j
        BY <3>1, <3>2
      <3>5. Ages(w, N)
        BY <3>1, <3>3, <3>4 DEF Ages
      <3> QED
        BY <1>3, <1>6, <3>5 DEF LoadSnapshot
    <2>2. CASE ~(n >= Capacity)
      <3>1. /\ w.len = n /\ w.writePos = (0 + n) % Capacity
            /\ w.buf = [i \in Slots |->
                          IF (i - 0) % Capacity < n
                          THEN data[((i - 0) % Capacity) + 1] ELSE New.buf[i]]
        <4>1. New.writePos = 0 /\ New.len = 0 /\ Lower(0 + n, Capacity) = n
          BY <1>0, <2>2 DEF New, Lower
        <4> QED
          BY <1>5, <2>2, <4>1, NewType, WriteShort
      <3>2. 0 \in 0 .. Capacity - 1 /\ n \in 0 .. Capacity - 1
        BY <1>0, <2>2
      <3>3. ASSUME NEW j \in 1 .. n
            PROVE  w.buf[(((0 + n) % Capacity) - j) % Capacity] = N + 1 - j
        <4>1. PICK s : s = (((0 + n) % Capacity) - j) % Capacity
          OBVIOUS
        <4>2. s \in 0 .. Capacity - 1 /\ (s - 0) % Capacity = n - j
          BY <3>2, <4>1, SlotNew
        <4>3. n - j < n /\ n - j + 1 \in 1 .. n
          BY <1>0
        <4>4. w.buf[s] = data[n - j + 1]
          BY <3>1, <4>2, <4>3 DEF Slots
        <4>5. data[n - j + 1] = (N - n) + (n - j + 1)
          BY <1>5, <4>3
        <4>6. (N - n) + (n - j + 1) = N + 1 - j
          BY <1>0
        <4> QED
          BY <4>1, <4>4, <4>5, <4>6
      <3> QED
        BY <1>2, <1>3, <1>6, <3>1, <3>3 DEF LoadSnapshot, Ages
    <2> QED
      BY <2>1, <2>2
  <1> QED
    BY <1>7, <1>8

----------------------------------------------------------------------------
(* The markers of the ring *)

Ordered(r) == Len(r.markers) <= MaxDimMarkers /\ Ascending(r.markers, r.total)

LEMMA MarkerFields ==
    ASSUME NEW ms \in Seq(Markers), NEW k \in 1 .. Len(ms)
    PROVE  ms[k] \in Markers /\ ms[k].offset \in Nat /\ ms[k].dims \in Sizes
  <1>1. ms[k] \in Markers
    OBVIOUS
  <1> QED
    BY <1>1 DEF Markers

(* Dropping markers at the front keeps the rest ascending. *)
LEMMA DropFront ==
    ASSUME NEW ms \in Seq(Markers), NEW total \in Nat, Ascending(ms, total),
           NEW d \in 0 .. Len(ms)
    PROVE  /\ SubSeq(ms, d + 1, Len(ms)) \in Seq(Markers)
           /\ Len(SubSeq(ms, d + 1, Len(ms))) = Len(ms) - d
           /\ Ascending(SubSeq(ms, d + 1, Len(ms)), total)
  <1> DEFINE t == SubSeq(ms, d + 1, Len(ms))
  <1>0. Len(ms) \in Nat
    OBVIOUS
  <1>1. Len(t) = Len(ms) - d /\ \A k \in 1 .. Len(ms) - d : t[k] = ms[k + d]
    BY <1>0
  <1>2. t \in Seq(Markers)
    BY <1>0
  <1> HIDE DEF t
  <1>3. \A k \in 1 .. Len(t) : t[k].offset <= total
    BY <1>0, <1>1 DEF Ascending
  <1>4. ASSUME NEW k \in 1 .. Len(t) - 1
        PROVE  t[k].offset < t[k + 1].offset
    <2>1. k + d \in 1 .. Len(ms) - 1 /\ (k + 1) + d = (k + d) + 1
          /\ k \in 1 .. Len(ms) - d /\ k + 1 \in 1 .. Len(ms) - d
      BY <1>0, <1>1
    <2>2. t[k] = ms[k + d] /\ t[k + 1] = ms[(k + d) + 1]
      BY <1>1, <2>1
    <2> QED
      BY <2>1, <2>2 DEF Ascending
  <1> QED
    BY <1>1, <1>2, <1>3, <1>4 DEF Ascending, t

LEMMA StaleRange ==
    ASSUME NEW r \in Rings, Len(r.markers) > 0
    PROVE  Stale(r) \in 0 .. Len(r.markers) - 1
  <1>1. PICK n \in Nat \ {0} : n = Len(r.markers)
    BY RingFields
  <1> DEFINE S == { k \in 1 .. Len(r.markers) - 1 :
                      r.markers[k + 1].offset <= OldestOffset(r) }
  <1>2. S \subseteq 1 .. n - 1
    BY <1>1
  <1>3. IsFiniteSet(1 .. n - 1) /\ Cardinality(1 .. n - 1) = n - 1
    <2>1. 1 \in Int /\ n - 1 \in Int
      OBVIOUS
    <2>2. Cardinality(1 .. n - 1) = IF 1 > n - 1 THEN 0 ELSE (n - 1) - 1 + 1
      BY <2>1, FS_Interval, Zenon
    <2>3. IsFiniteSet(1 .. n - 1)
      BY <2>1, FS_Interval, Zenon
    <2> QED
      BY <2>2, <2>3
  <1>4. Cardinality(S) <= n - 1 /\ Cardinality(S) \in Nat
    BY <1>2, <1>3, FS_Subset, FS_CardinalityType
  <1> QED
    BY <1>1, <1>4 DEF Stale

LEMMA PruneOrdered ==
    ASSUME NEW r \in Rings, Ascending(r.markers, r.total)
    PROVE  /\ PruneDimMarkers(r) \in Rings
           /\ Len(PruneDimMarkers(r).markers) <= Len(r.markers)
           /\ Ascending(PruneDimMarkers(r).markers, r.total)
           /\ PruneDimMarkers(r) =
                [r EXCEPT !.markers = PruneDimMarkers(r).markers]
  <1> DEFINE ms == r.markers
             d == Stale(r)
             t == SubSeq(ms, d + 1, Len(ms))
  <1>0. ms \in Seq(Markers) /\ r.total \in Nat
    BY RingFields
  <1>1. PruneDimMarkers(r) = [r EXCEPT !.markers = t]
    BY DEF PruneDimMarkers
  <1>2. t \in Seq(Markers) /\ Len(t) <= Len(ms) /\ Ascending(t, r.total)
    <2>1. CASE Len(ms) > 0
      <3>1. d \in 0 .. Len(ms)
        BY <1>0, <2>1, StaleRange
      <3> QED
        BY <1>0, <3>1, DropFront
    <2>2. CASE Len(ms) = 0
      <3>1. ms = <<>>
        BY <1>0, <2>2
      <3>2. Stale(r) = 0
        <4>1. { k \in 1 .. Len(r.markers) - 1 :
                  r.markers[k + 1].offset <= OldestOffset(r) } = {}
          BY <2>2
        <4> QED
          BY <4>1, FS_EmptySet DEF Stale
      <3>3. d \in 0 .. Len(ms)
        BY <2>2, <3>2
      <3> QED
        BY <1>0, <3>3, DropFront
    <2> QED
      BY <1>0, <2>1, <2>2
  <1> HIDE DEF t, d
  <1>3. [r EXCEPT !.markers = t] \in Rings /\ [r EXCEPT !.markers = t].markers = t
    BY <1>2 DEF Rings
  <1> QED
    BY <1>1, <1>2, <1>3

LEMMA CapOrdered ==
    ASSUME NEW r \in Rings, Ascending(r.markers, r.total)
    PROVE  /\ EnforceDimMarkerCap(r) \in Rings
           /\ EnforceDimMarkerCap(r).total = r.total
           /\ EnforceDimMarkerCap(r).buf = r.buf
           /\ EnforceDimMarkerCap(r).len = r.len
           /\ EnforceDimMarkerCap(r).writePos = r.writePos
           /\ Ordered(EnforceDimMarkerCap(r))
  <1> DEFINE ms == r.markers
             e == EnforceDimMarkerCap(r)
  <1>0. /\ ms \in Seq(Markers) /\ r.total \in Nat /\ Len(ms) \in Nat
        /\ MaxDimMarkers \in Nat \ {0}
    BY RingFields, RingAssumption
  <1>1. PICK over \in Int : over = Len(ms) - MaxDimMarkers
    BY <1>0
  <1>2. CASE over <= 0
    <2>1. e = r
      BY <1>1, <1>2 DEF EnforceDimMarkerCap
    <2>2. Len(ms) <= MaxDimMarkers
      BY <1>0, <1>1, <1>2
    <2> QED
      BY <2>1, <2>2 DEF Ordered
  <1>3. CASE ~(over <= 0)
    <2>1. e = [r EXCEPT !.markers = SubSeq(ms, over + 1, Len(ms)),
                        !.evictions = r.evictions + over,
                        !.cappedHead = ms[over].dims]
      BY <1>1, <1>3 DEF EnforceDimMarkerCap, Rings
    <2>2. over \in 1 .. Len(ms) /\ over \in 0 .. Len(ms)
          /\ Len(ms) - over = MaxDimMarkers
      BY <1>0, <1>1, <1>3
    <2>3. PICK t : t = SubSeq(ms, over + 1, Len(ms))
      OBVIOUS
    <2>4. t \in Seq(Markers) /\ Len(t) = MaxDimMarkers /\ Ascending(t, r.total)
      BY <1>0, <2>2, <2>3, DropFront
    <2>5. ms[over].dims \in Sizes
      BY <1>0, <2>2, MarkerFields
    <2>6. r.evictions + over \in Nat
      BY <2>2 DEF Rings
    <2>7. e = [r EXCEPT !.markers = t, !.evictions = r.evictions + over,
                        !.cappedHead = ms[over].dims]
      BY <2>1, <2>3
    <2> HIDE DEF e
    <2>8. e \in Rings /\ e.markers = t /\ e.total = r.total
          /\ e.buf = r.buf /\ e.len = r.len /\ e.writePos = r.writePos
      BY <2>4, <2>5, <2>6, <2>7 DEF Rings
    <2> QED
      BY <1>0, <2>4, <2>8 DEF Ordered, e
  <1> QED
    BY <1>2, <1>3

LEMMA MarkerOrdered ==
    ASSUME NEW r \in Rings, NEW d \in Sizes, Ordered(r)
    PROVE  /\ WriteResizeMarker(r, d) \in Rings
           /\ WriteResizeMarker(r, d).total = r.total
           /\ WriteResizeMarker(r, d).buf = r.buf
           /\ WriteResizeMarker(r, d).len = r.len
           /\ WriteResizeMarker(r, d).writePos = r.writePos
           /\ Ordered(WriteResizeMarker(r, d))
  <1> DEFINE ms == r.markers
             w == WriteResizeMarker(r, d)
  <1>0. /\ ms \in Seq(Markers) /\ r.total \in Nat
        /\ Ascending(ms, r.total) /\ Len(ms) <= MaxDimMarkers
    BY RingFields DEF Ordered
  <1>1. PICK n \in Nat : n = Len(ms)
    BY <1>0
  <1>2. CASE n > 0 /\ ms[n].offset = r.total
    <2>1. PICK t : t = [ms EXCEPT ![n].dims = d]
      OBVIOUS
    <2>2. w = [r EXCEPT !.markers = t]
      BY <1>1, <1>2, <2>1 DEF WriteResizeMarker, Rings
    <2>3. /\ t \in Seq(Markers) /\ Len(t) = n
          /\ \A k \in 1 .. n : t[k].offset = ms[k].offset
      <3>1. n \in 1 .. Len(ms) /\ ms[n] \in Markers
        BY <1>0, <1>1, <1>2, MarkerFields
      <3>2. PICK m : m = [ms[n] EXCEPT !.dims = d]
        OBVIOUS
      <3>3. m \in Markers /\ m.offset = ms[n].offset
        BY <3>1, <3>2 DEF Markers
      <3>4. t = [ms EXCEPT ![n] = m]
        BY <2>1, <3>2
      <3> QED
        BY <1>0, <1>1, <3>1, <3>3, <3>4
    <2>4. Ascending(t, r.total)
      BY <1>0, <1>1, <2>3 DEF Ascending
    <2> HIDE DEF w
    <2>5. w \in Rings /\ w.markers = t /\ w.total = r.total
          /\ w.buf = r.buf /\ w.len = r.len /\ w.writePos = r.writePos
      BY <2>2, <2>3 DEF Rings
    <2> QED
      BY <1>0, <1>1, <2>3, <2>4, <2>5 DEF Ordered, w
  <1>3. CASE ~(n > 0 /\ ms[n].offset = r.total)
    <2>1. PICK m : m = [offset |-> r.total, dims |-> d]
      OBVIOUS
    <2>2. PICK a : a = [r EXCEPT !.markers = Append(ms, m)]
      OBVIOUS
    <2>3. m \in Markers /\ m.offset = r.total
      BY <1>0, <2>1 DEF Markers
    <2>4. /\ Append(ms, m) \in Seq(Markers) /\ Len(Append(ms, m)) = n + 1
          /\ \A k \in 1 .. n : Append(ms, m)[k] = ms[k]
          /\ Append(ms, m)[n + 1] = m
      BY <1>0, <1>1, <2>3
    <2>5. a \in Rings /\ a.markers = Append(ms, m) /\ a.total = r.total
          /\ a.buf = r.buf /\ a.len = r.len /\ a.writePos = r.writePos
      BY <2>2, <2>4 DEF Rings
    <2>6. \A k \in 1 .. n : ms[k].offset \in Nat
      BY <1>0, <1>1, MarkerFields
    <2>7. Ascending(Append(ms, m), r.total)
      <3>1. PICK t : t = Append(ms, m)
        OBVIOUS
      <3>2. ASSUME NEW k \in 1 .. n + 1 PROVE t[k].offset <= r.total
        BY <1>0, <1>1, <2>3, <2>4, <3>1 DEF Ascending
      <3>3. ASSUME NEW k \in 1 .. n PROVE t[k].offset < t[k + 1].offset
        <4>1. CASE k < n
          <5>1. k \in 1 .. n - 1 /\ k + 1 \in 1 .. n
            BY <4>1
          <5> QED
            BY <1>0, <1>1, <2>4, <3>1, <5>1 DEF Ascending
        <4>2. CASE k = n
          <5>1. ms[n].offset <= r.total /\ ms[n].offset # r.total
                /\ ms[n].offset \in Nat
            BY <1>0, <1>1, <1>3, <2>6, <4>2 DEF Ascending
          <5>2. t[k] = ms[n] /\ t[k + 1] = m
            BY <2>4, <3>1, <4>2
          <5> QED
            BY <1>0, <2>3, <5>1, <5>2
        <4> QED
          BY <4>1, <4>2
      <3>4. Len(t) = n + 1
        BY <2>4, <3>1
      <3> QED
        BY <3>1, <3>2, <3>3, <3>4 DEF Ascending
    <2>8. PICK q : q = PruneDimMarkers(a)
      OBVIOUS
    <2>9. q \in Rings /\ Ascending(q.markers, r.total)
          /\ q = [a EXCEPT !.markers = q.markers]
      BY <2>5, <2>7, <2>8, PruneOrdered
    <2>10. q.total = r.total /\ q.buf = r.buf /\ q.len = r.len
           /\ q.writePos = r.writePos
      BY <2>5, <2>9 DEF Rings
    <2>11. w = EnforceDimMarkerCap(q)
      BY <1>1, <1>3, <2>1, <2>2, <2>8 DEF WriteResizeMarker, Rings
    <2> HIDE DEF w
    <2>12. w \in Rings /\ w.total = r.total /\ w.buf = r.buf /\ w.len = r.len
           /\ w.writePos = r.writePos /\ Ordered(w)
      BY <2>9, <2>10, <2>11, CapOrdered
    <2> QED
      BY <2>12 DEF w
  <1> QED
    BY <1>2, <1>3

LEMMA AttributeOrdered ==
    ASSUME NEW r \in Rings, NEW d \in Sizes, NEW N \in Nat, NEW data \in Seq(Nat),
           Len(data) > 0, \A k \in 1 .. Len(data) : data[k] = N + k,
           Ordered(r), Ages(r, N)
    PROVE  /\ AttributeWrite(r, d, data) \in Rings
           /\ Ordered(AttributeWrite(r, d, data))
           /\ Ages(AttributeWrite(r, d, data), N + Len(data))
  <1>1. PICK m : m = IF LastEffectiveDims(r) # d THEN WriteResizeMarker(r, d) ELSE r
    OBVIOUS
  <1>2. m \in Rings /\ Ordered(m) /\ m.buf = r.buf /\ m.len = r.len
        /\ m.writePos = r.writePos
    BY <1>1, MarkerOrdered
  <1>3. Ages(m, N)
    BY <1>2 DEF Ages
  <1>4. AttributeWrite(r, d, data) = Write(m, data)
    BY <1>1 DEF AttributeWrite
  <1>5. PICK w : w = Write(m, data)
    OBVIOUS
  <1>6. w \in Rings /\ w.markers = m.markers /\ w.total = m.total + Len(data)
    BY <1>2, <1>5, WriteType, WriteRest
  <1>7. Ages(w, N + Len(data))
    BY <1>2, <1>3, <1>5, WriteAges
  <1>8. Ordered(w)
    <2>1. m.total \in Nat /\ m.markers \in Seq(Markers) /\ Len(data) \in Nat
      BY <1>2, RingFields
    <2>2. \A k \in 1 .. Len(m.markers) : m.markers[k].offset \in Nat
      BY <2>1, MarkerFields
    <2> QED
      BY <1>2, <1>6, <2>1, <2>2 DEF Ordered, Ascending
  <1> QED
    BY <1>4, <1>5, <1>6, <1>7, <1>8

----------------------------------------------------------------------------
(* The specification *)

(* The invariant the theorems rest on: the bytes by age (ReadIsSuffix says *)
(* nothing about the write position), the ordered markers, the sizes.      *)
RingInv ==
    /\ TypeOK
    /\ Ages(ring, Len(log))
    /\ MarkersOrdered
    /\ PublishedIsReal
    /\ dims = IF resizing = None THEN size ELSE resizing
    /\ size = pty

LEMMA InitRingInv == Init => RingInv
  <1> SUFFICES ASSUME Init PROVE RingInv
    OBVIOUS
  <1>1. PICK s \in Sizes : NewPane(s)
    BY DEF Init
  <1>2. Ordered(New) /\ Ages(New, 0)
    BY CapacityPositive, RingAssumption DEF New, Ordered, Ascending, Ages, Lower
  <1>3. WriteResizeMarker(New, s) \in Rings /\ Ordered(WriteResizeMarker(New, s))
        /\ WriteResizeMarker(New, s).buf = New.buf
        /\ WriteResizeMarker(New, s).len = New.len
        /\ WriteResizeMarker(New, s).writePos = New.writePos
    BY <1>1, <1>2, NewType, MarkerOrdered
  <1>4. ring \in Rings /\ Ordered(ring) /\ Ages(ring, 0)
    BY <1>1, <1>2, <1>3 DEF NewPane, Ages
  <1>5. log = <<>> /\ Len(log) = 0
    BY DEF Init
  <1> QED
    BY <1>1, <1>4, <1>5, RingAssumption
    DEF Init, NewPane, RingInv, TypeOK, MarkersOrdered, Ordered, PublishedIsReal

LEMMA NextRingInv == RingInv /\ [Next]_vars => RingInv'
  <1> SUFFICES ASSUME RingInv, [Next]_vars PROVE RingInv'
    OBVIOUS
  <1>0. /\ ring \in Rings /\ Ordered(ring) /\ Ages(ring, Len(log))
        /\ None \notin Sizes /\ Len(log) \in Nat /\ log \in Seq(Sizes)
    BY RingAssumption DEF RingInv, TypeOK, MarkersOrdered, Ordered
  <1>1. CASE ReadChunk
    <2>1. PICK n \in 1 .. Lower(MaxChunk, MaxBytes - Len(log)) :
             reader' = [n |-> n, dims |-> dims]
      BY <1>1 DEF ReadChunk
    <2>2. Lower(MaxChunk, MaxBytes - Len(log)) \in Int
      BY <1>0, RingAssumption DEF Lower
    <2>3. n \in Nat \ {0}
      BY <2>1, <2>2
    <2>4. reader' \in [n : Nat \ {0}, dims : Sizes]
      BY <2>1, <2>3 DEF RingInv, TypeOK
    <2> QED
      BY <1>1, <2>4
      DEF ReadChunk, RingInv, TypeOK, Ages, MarkersOrdered, PublishedIsReal
  <1>2. CASE CaptureChunk
    <2>1. reader.n \in Nat \ {0} /\ reader.dims \in Sizes
      BY <1>2 DEF CaptureChunk, RingInv, TypeOK
    <2>2. PICK n \in Nat \ {0} : n = reader.n
      BY <2>1
    <2>3. PICK data : data = [k \in 1 .. n |-> Len(log) + k]
      OBVIOUS
    <2>4. /\ data \in Seq(Nat) /\ Len(data) = n /\ Len(data) > 0
          /\ \A k \in 1 .. Len(data) : data[k] = Len(log) + k
      BY <1>0, <2>3
    <2>5. ring' = AttributeWrite(ring, reader.dims, data)
      BY <1>2, <2>2, <2>3 DEF CaptureChunk
    <2>6. ring' \in Rings /\ Ordered(ring') /\ Ages(ring', Len(log) + n)
      <3>1. PICK N \in Nat : N = Len(log)
        BY <1>0
      <3>2. PICK d \in Sizes : d = reader.dims
        BY <2>1
      <3>3. PICK r \in Rings : r = ring
        BY <1>0
      <3>4. Ordered(r) /\ Ages(r, N) /\ \A k \in 1 .. Len(data) : data[k] = N + k
        BY <1>0, <2>4, <3>1, <3>3
      <3>5. /\ AttributeWrite(r, d, data) \in Rings
            /\ Ordered(AttributeWrite(r, d, data))
            /\ Ages(AttributeWrite(r, d, data), N + Len(data))
        BY <2>4, <3>4, AttributeOrdered, Zenon
      <3> QED
        BY <2>4, <2>5, <3>1, <3>2, <3>3, <3>5, Zenon
    <2>7. PICK ext : ext = [k \in 1 .. n |-> reader.dims]
      OBVIOUS
    <2>8. ext \in Seq(Sizes) /\ Len(ext) = n
      BY <2>1, <2>7
    <2>9. log' = log \o ext
      BY <1>2, <2>2, <2>7 DEF CaptureChunk
    <2>10. log' \in Seq(Sizes) /\ Len(log') = Len(log) + n
      <3>1. PICK g \in Seq(Sizes) : g = log
        BY <1>0
      <3>2. g \o ext \in Seq(Sizes) /\ Len(g \o ext) = Len(g) + Len(ext)
        BY <2>8, ConcatProperties
      <3> QED
        BY <2>8, <2>9, <3>1, <3>2, Zenon
    <2> QED
      BY <1>2, <2>6, <2>10
      DEF CaptureChunk, RingInv, TypeOK, MarkersOrdered, Ordered, PublishedIsReal
  <1>3. CASE \E d \in Sizes : ResizePublish(d)
    BY <1>0, <1>3
    DEF ResizePublish, RingInv, TypeOK, Ages, MarkersOrdered, PublishedIsReal
  <1>4. CASE ResizeDone
    <2>1. resizing \in Sizes /\ ring' = WriteResizeMarker(ring, resizing)
          /\ UNCHANGED log
      BY <1>4 DEF ResizeDone, RingInv, TypeOK
    <2>2. ring' \in Rings /\ Ordered(ring') /\ ring'.buf = ring.buf
          /\ ring'.len = ring.len /\ ring'.writePos = ring.writePos
      BY <1>0, <2>1, MarkerOrdered
    <2>3. Ages(ring, Len(log))'
      BY <1>0, <2>1, <2>2 DEF Ages
    <2> QED
      BY <1>0, <1>4, <2>1, <2>2, <2>3
      DEF ResizeDone, RingInv, TypeOK, MarkersOrdered, Ordered, PublishedIsReal
  <1>5. CASE ResizeFailed
    BY <1>0, <1>5
    DEF ResizeFailed, RingInv, TypeOK, Ages, MarkersOrdered, PublishedIsReal
  <1>6. CASE Upgrade
    <2>1. ring' = LoadSnapshot(ReadAll(ring)) /\ UNCHANGED log
      BY <1>6 DEF Upgrade
    <2>2. ring' \in Rings /\ ring'.markers = <<>> /\ Ages(ring', Len(log))
      BY <1>0, <2>1, LoadAges
    <2>3. Ordered(ring')
      BY <2>2, RingAssumption DEF Ordered, Ascending
    <2> QED
      BY <1>0, <1>6, <2>1, <2>2, <2>3
      DEF Upgrade, RingInv, TypeOK, MarkersOrdered, Ordered, PublishedIsReal
  <1>7. CASE UNCHANGED vars
    BY <1>7
    DEF vars, RingInv, TypeOK, Ages, MarkersOrdered, PublishedIsReal
  <1> QED
    BY <1>1, <1>2, <1>3, <1>4, <1>5, <1>6, <1>7 DEF Next

LEMMA RingInvAlways == Spec => []RingInv
  BY InitRingInv, NextRingInv, PTL DEF Spec

(* What read_all returns is the newest min(written, Capacity) bytes, oldest *)
(* first, for every capacity, chunk length and number of laps, and a hot    *)
(* upgrade (capture, load_snapshot) keeps them all.                         *)
THEOREM ReadAllIsTheNewestBytes == Spec => []ReadIsSuffix
  <1>1. RingInv => ReadIsSuffix
    <2> SUFFICES ASSUME RingInv PROVE ReadIsSuffix
      OBVIOUS
    <2>1. ring \in Rings /\ Len(log) \in Nat /\ Ages(ring, Len(log))
      BY DEF RingInv, TypeOK
    <2>2. ring.len = Lower(Len(log), Capacity)
      BY <2>1 DEF Ages
    <2>3. ReadAll(ring) = [k \in 1 .. ring.len |-> Len(log) - ring.len + k]
      BY <2>1, ReadAges
    <2> QED
      BY <2>2, <2>3 DEF ReadIsSuffix
  <1> QED
    BY <1>1, RingInvAlways, PTL

(* The marker queue stays within MAX_DIM_MARKERS and strictly ascending     *)
(* through coalescing, pruning and cap eviction.                            *)
THEOREM MarkersStayOrdered == Spec => []MarkersOrdered
  <1>1. RingInv => MarkersOrdered
    BY DEF RingInv
  <1> QED
    BY <1>1, RingInvAlways, PTL

(* A resize, refused or not, leaves the published size equal to the size    *)
(* the PTY has.                                                             *)
THEOREM PublishedSizeIsReal == Spec => []PublishedIsReal
  <1>1. RingInv => PublishedIsReal
    BY DEF RingInv
  <1> QED
    BY <1>1, RingInvAlways, PTL
=============================================================================

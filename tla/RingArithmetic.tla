--------------------------- MODULE RingArithmetic ---------------------------
(***************************************************************************)
(* What the proofs about rings need of the modulo, with which the drivers  *)
(* of kernel/virtio.c and kernel/virtio_net.c reduce 16-bit indices to     *)
(* slots, and of buffers that circulate between two rings, as those of the *)
(* keyboard and of the network card do.                                    *)
(***************************************************************************)
EXTENDS Integers, FiniteSets, FiniteSetTheorems, TLAPS

LEMMA ModRange ==
    ASSUME NEW V \in Nat \ {0}, NEW x \in Nat
    PROVE  x % V \in 0 .. V - 1
  BY SMT

LEMMA ModSmall ==
    ASSUME NEW V \in Nat \ {0}, NEW x \in 0 .. V - 1
    PROVE  x % V = x
  BY SMT

LEMMA QuotientAndRest ==
    ASSUME NEW V \in Nat \ {0}, NEW x \in Nat
    PROVE  \E q \in Nat, r \in 0 .. V - 1 : x = V * q + r /\ x % V = r
<1>1. x = V * (x \div V) + (x % V) /\ x \div V \in Nat /\ x % V \in 0 .. V - 1
  BY SMT
<1>2. QED
  BY <1>1, Zenon

LEMMA RestIsUnique ==
    ASSUME NEW V \in Nat \ {0}, NEW q \in Nat, NEW r \in 0 .. V - 1
    PROVE  (V * q + r) % V = r
  BY SMT

LEMMA ModSucc ==
    ASSUME NEW V \in Nat \ {0}, NEW x \in Nat
    PROVE  (x + 1) % V = IF x % V = V - 1 THEN 0 ELSE (x % V) + 1
<1>1. PICK q \in Nat, r \in 0 .. V - 1 : x = V * q + r /\ x % V = r
  BY QuotientAndRest
<1>2. CASE r = V - 1
  <2>1. x + 1 = V * (q + 1) + 0
    BY <1>1, <1>2
  <2>2. (V * (q + 1) + 0) % V = 0
    BY RestIsUnique
  <2>3. QED
    BY <1>1, <1>2, <2>1, <2>2
<1>3. CASE r # V - 1
  <2>1. x + 1 = V * q + (r + 1) /\ r + 1 \in 0 .. V - 1
    BY <1>1, <1>3
  <2>2. (V * q + (r + 1)) % V = r + 1
    BY <2>1, RestIsUnique
  <2>3. QED
    BY <1>1, <1>3, <2>1, <2>2
<1>4. QED
  BY <1>2, <1>3

\* Reducing first by a multiple of V changes nothing: the slot of an index that wraps
\* at 2^16 is the slot of the index that does not.
LEMMA ModOfSum ==
    ASSUME NEW V \in Nat \ {0}, NEW I \in Nat \ {0}, I % V = 0, NEW x \in Nat, NEW k \in Nat
    PROVE  ((x % I) + k) % V = (x + k) % V
<1>1. PICK q \in Nat, r \in 0 .. I - 1 : x = I * q + r /\ x % I = r
  BY QuotientAndRest
<1>2. PICK m \in Nat, z \in 0 .. V - 1 : I = V * m + z /\ I % V = z
  BY QuotientAndRest
<1>3. PICK p \in Nat, s \in 0 .. V - 1 : r + k = V * p + s /\ (r + k) % V = s
  <2>1. r + k \in Nat
    OBVIOUS
  <2>2. QED
    BY <2>1, QuotientAndRest
<1>4. I * q = V * (m * q)
  <2>1. I = V * m
    BY <1>2
  <2>2. (V * m) * q = V * (m * q)
    OBVIOUS
  <2>3. QED
    BY <2>1, <2>2
<1>5. x + k = V * (m * q + p) + s
  <2>1. V * (m * q + p) = V * (m * q) + V * p
    OBVIOUS
  <2>2. x + k = V * (m * q) + (r + k)
    BY <1>1, <1>4
  <2>3. QED
    BY <1>3, <2>1, <2>2
<1>6. (V * (m * q + p) + s) % V = s
  <2>1. m * q + p \in Nat
    OBVIOUS
  <2>2. QED
    BY <2>1, RestIsUnique
<1>7. QED
  BY <1>1, <1>3, <1>5, <1>6

LEMMA ModOfMod ==
    ASSUME NEW V \in Nat \ {0}, NEW I \in Nat \ {0}, I % V = 0, NEW x \in Nat
    PROVE  (x % I) % V = x % V
<1>1. ((x % I) + 0) % V = (x + 0) % V
  <2>1. 0 \in Nat
    OBVIOUS
  <2>2. \A k \in Nat : ((x % I) + k) % V = (x + k) % V
    BY ModOfSum
  <2>3. QED
    BY <2>1, <2>2, Zenon
<1>2. x % I \in Nat
  BY ModRange
<1> DEFINE y == x % I
<1>3. y + 0 = y /\ x + 0 = x
  <2> HIDE DEF y
  <2>1. y \in Nat
    BY <1>2 DEF y
  <2>2. QED
    BY <2>1
<1>4. (y + 0) % V = (x + 0) % V
  BY <1>1
<1> HIDE DEF y
<1>5. y % V = x % V
  BY <1>3, <1>4
<1>6. QED
  BY <1>5 DEF y

\* Indices less than V apart have slots of their own.
LEMMA SlotsDiffer ==
    ASSUME NEW V \in Nat \ {0}, NEW x \in Nat, NEW d \in 1 .. V - 1
    PROVE  (x + d) % V # x % V
<1>1. PICK q \in Nat, r \in 0 .. V - 1 : x = V * q + r /\ x % V = r
  BY QuotientAndRest
<1>2. CASE r + d < V
  <2>1. x + d = V * q + (r + d) /\ r + d \in 0 .. V - 1
    BY <1>1, <1>2
  <2>2. (V * q + (r + d)) % V = r + d
    BY <2>1, RestIsUnique
  <2>3. QED
    BY <1>1, <2>1, <2>2
<1>3. CASE r + d >= V
  <2>1. x + d = V * (q + 1) + (r + d - V) /\ r + d - V \in 0 .. V - 1
    BY <1>1, <1>3
  <2>2. q + 1 \in Nat
    OBVIOUS
  <2>3. (V * (q + 1) + (r + d - V)) % V = r + d - V
    BY <2>1, <2>2, RestIsUnique, Zenon
  <2>4. QED
    BY <1>1, <2>1, <2>3
<1>4. QED
  BY <1>2, <1>3

(***************************************************************************)
(* The window of a ring of V slots that begins at index i and is n entries *)
(* long: its k-th entry, the buffers it names, and that it names none      *)
(* twice.                                                                  *)
(***************************************************************************)
SlotOf(V, x) == x % V

Buffers(V) == 0 .. V - 1

Ring(V) == [0 .. V - 1 -> Buffers(V)]

At(V, ring, i, k) == ring[SlotOf(V, i + k)]

Put(V, ring, x, d) == [ring EXCEPT ![SlotOf(V, x)] = d]

Window(V, ring, i, n) == {At(V, ring, i, k) : k \in 0 .. n - 1}

NoneTwice(V, ring, i, n) ==
    \A k, l \in 0 .. n - 1 : k # l => At(V, ring, i, k) # At(V, ring, i, l)

\* Once round the index, the slot is the same.
LEMMA SlotOncemore ==
    ASSUME NEW V \in Nat \ {0}, NEW I \in Nat \ {0}, SlotOf(V, I) = 0, NEW x \in Nat
    PROVE  SlotOf(V, x + I) = SlotOf(V, x)
<1>1. PICK q \in Nat, r \in 0 .. V - 1 : x = V * q + r /\ x % V = r
  BY QuotientAndRest
<1>2. PICK m \in Nat, z \in 0 .. V - 1 : I = V * m + z /\ I % V = z
  BY QuotientAndRest
<1>3. I = V * m
  BY <1>2 DEF SlotOf
<1>4. x + I = V * (q + m) + r /\ q + m \in Nat
  <2>1. V * (q + m) = V * q + V * m
    OBVIOUS
  <2>2. QED
    BY <1>1, <1>3, <2>1
<1>5. (V * (q + m) + r) % V = r
  BY <1>4, RestIsUnique, Zenon
<1>6. QED
  BY <1>1, <1>4, <1>5 DEF SlotOf

(***************************************************************************)
(* Indices of a ring: 0 .. I - 1, of which many stand for each of its V    *)
(* slots.                                                                  *)
(***************************************************************************)
\* How far index i is ahead of index j, over the wrap.
Distance(I, i, j) == SlotOf(I, i + I - j)

LEMMA NextIndexValue ==
    ASSUME NEW I \in Nat \ {0}, NEW i \in 0 .. I - 1
    PROVE  /\ SlotOf(I, i + 1) = IF i + 1 = I THEN 0 ELSE i + 1
           /\ SlotOf(I, i + 1) \in 0 .. I - 1
<1>1. i % I = i
  BY ModSmall
<1>2. (i + 1) % I = IF i % I = I - 1 THEN 0 ELSE (i % I) + 1
  <2>1. i \in Nat
    OBVIOUS
  <2>2. QED
    BY <2>1, ModSucc
<1>3. SlotOf(I, i + 1) = IF i = I - 1 THEN 0 ELSE i + 1
  BY <1>1, <1>2 DEF SlotOf
<1>4. QED
  BY <1>3

LEMMA DistanceValue ==
    ASSUME NEW I \in Nat \ {0}, NEW i \in 0 .. I - 1, NEW j \in 0 .. I - 1
    PROVE  Distance(I, i, j) = IF i >= j THEN i - j ELSE i + I - j
<1>1. CASE i >= j
  <2>1. i + I - j = I * 1 + (i - j) /\ i - j \in 0 .. I - 1
    BY <1>1
  <2>2. 1 \in Nat
    OBVIOUS
  <2>3. (I * 1 + (i - j)) % I = i - j
    BY <2>1, <2>2, RestIsUnique, Zenon
  <2>4. QED
    BY <1>1, <2>1, <2>3 DEF Distance, SlotOf
<1>2. CASE i < j
  <2>1. i + I - j \in 0 .. I - 1
    BY <1>2
  <2>2. (i + I - j) % I = i + I - j
    BY <2>1, ModSmall
  <2>3. QED
    BY <1>2, <2>2 DEF Distance, SlotOf
<1>3. QED
  BY <1>1, <1>2

\* The slot at a distance from one index is the slot of the other.
LEMMA DistanceReaches ==
    ASSUME NEW V \in Nat \ {0}, NEW I \in Nat \ {0}, SlotOf(V, I) = 0,
           NEW i \in 0 .. I - 1, NEW j \in 0 .. I - 1
    PROVE  SlotOf(V, j + Distance(I, i, j)) = SlotOf(V, i)
<1>1. i \in Nat /\ j \in Nat
  OBVIOUS
<1>2. SlotOf(V, i + I) = SlotOf(V, i)
  BY <1>1, SlotOncemore
<1>3. j + Distance(I, i, j) = i \/ j + Distance(I, i, j) = i + I
  BY <1>1, DistanceValue
<1>4. QED
  BY <1>2, <1>3

LEMMA DistanceSteps ==
    ASSUME NEW I \in Nat \ {0}, NEW i \in 0 .. I - 1, NEW j \in 0 .. I - 1
    PROVE  /\ Distance(I, i, j) + 1 < I => Distance(I, SlotOf(I, i + 1), j) = Distance(I, i, j) + 1
           /\ i # j => /\ Distance(I, i, j) > 0
                       /\ Distance(I, i, SlotOf(I, j + 1)) = Distance(I, i, j) - 1
           /\ i = j => Distance(I, i, j) = 0
<1> DEFINE k == SlotOf(I, i + 1)
           l == SlotOf(I, j + 1)
<1>1. /\ k = (IF i + 1 = I THEN 0 ELSE i + 1) /\ k \in 0 .. I - 1
      /\ l = (IF j + 1 = I THEN 0 ELSE j + 1) /\ l \in 0 .. I - 1
  BY NextIndexValue
<1> HIDE DEF k, l
<1>2. /\ Distance(I, i, j) = IF i >= j THEN i - j ELSE i + I - j
      /\ Distance(I, k, j) = IF k >= j THEN k - j ELSE k + I - j
      /\ Distance(I, i, l) = IF i >= l THEN i - l ELSE i + I - l
  BY <1>1, DistanceValue
<1>3. QED
  BY <1>1, <1>2 DEF k, l

(***************************************************************************)
(* Windows.                                                                *)
(***************************************************************************)
\* The first entry leaves a window.
LEMMA WindowDrop ==
    ASSUME NEW V \in Nat \ {0}, NEW ring, NEW i \in Nat, NEW n \in Nat \ {0},
           NoneTwice(V, ring, i, n)
    PROVE  /\ Window(V, ring, i, n) = {At(V, ring, i, 0)} \cup Window(V, ring, i + 1, n - 1)
           /\ At(V, ring, i, 0) \notin Window(V, ring, i + 1, n - 1)
           /\ NoneTwice(V, ring, i + 1, n - 1)
<1>1. \A k \in 0 .. n - 2 : At(V, ring, i + 1, k) = At(V, ring, i, k + 1)
  <2>1. \A k \in 0 .. n - 2 : (i + 1) + k = i + (k + 1)
    OBVIOUS
  <2>2. QED
    BY <2>1 DEF At
<1>2. /\ 0 \in 0 .. n - 1 /\ n - 1 - 1 = n - 2
      /\ \A k \in 0 .. n - 2 : k + 1 \in 0 .. n - 1 /\ k + 1 # 0
      /\ \A k \in 0 .. n - 1 : k # 0 => k - 1 \in 0 .. n - 2 /\ (k - 1) + 1 = k
      /\ \A k, l \in 0 .. n - 2 : k # l => k + 1 # l + 1
  OBVIOUS
<1>3. ASSUME NEW b
      PROVE  b \in Window(V, ring, i, n)
               <=> b = At(V, ring, i, 0) \/ b \in Window(V, ring, i + 1, n - 1)
  <2>1. b \in Window(V, ring, i + 1, n - 1)
          <=> \E k \in 0 .. n - 2 : b = At(V, ring, i, k + 1)
    BY <1>1, <1>2 DEF Window
  <2>2. b \in Window(V, ring, i, n) <=> \E k \in 0 .. n - 1 : b = At(V, ring, i, k)
    BY DEF Window
  <2>3. QED
    BY <1>2, <2>1, <2>2
<1>4. At(V, ring, i, 0) \notin Window(V, ring, i + 1, n - 1)
  <2>1. SUFFICES ASSUME NEW k \in 0 .. n - 2, At(V, ring, i, 0) = At(V, ring, i, k + 1)
                 PROVE  FALSE
    BY <1>1, <1>2 DEF Window
  <2>2. QED
    BY <1>2, <2>1 DEF NoneTwice
<1>5. NoneTwice(V, ring, i + 1, n - 1)
  BY <1>1, <1>2 DEF NoneTwice
<1>6. QED
  BY <1>3, <1>4, <1>5

\* The slot behind a window that leaves room in the ring can be written; the window
\* can then be extended over it.
LEMMA WindowAdd ==
    ASSUME NEW V \in Nat \ {0}, NEW ring \in Ring(V),
           NEW i \in Nat, NEW n \in 0 .. V - 1, NEW d \in Buffers(V),
           NoneTwice(V, ring, i, n),
           NEW new, new = Put(V, ring, i + n, d)
    PROVE  /\ new \in Ring(V)
           /\ At(V, new, i, n) = d
           /\ \A k \in 0 .. n - 1 : At(V, new, i, k) = At(V, ring, i, k)
           /\ Window(V, new, i, n) = Window(V, ring, i, n)
           /\ NoneTwice(V, new, i, n)
<1> DEFINE s == SlotOf(V, i + n)
<1>a. new = [ring EXCEPT ![s] = d]
  BY DEF Put
<1>1. s \in 0 .. V - 1
  <2>1. i + n \in Nat
    OBVIOUS
  <2>2. QED
    BY <2>1, ModRange DEF SlotOf
<1>2. ASSUME NEW k \in 0 .. n - 1
      PROVE  SlotOf(V, i + k) # s /\ SlotOf(V, i + k) \in 0 .. V - 1
  <2>1. i + k \in Nat /\ n - k \in 1 .. V - 1 /\ (i + k) + (n - k) = i + n
    OBVIOUS
  <2>2. SlotOf(V, (i + k) + (n - k)) # SlotOf(V, i + k)
    BY <2>1, SlotsDiffer, Zenon DEF SlotOf
  <2>3. SlotOf(V, i + k) \in 0 .. V - 1
    BY <2>1, ModRange DEF SlotOf
  <2>4. QED
    BY <2>1, <2>2, <2>3
<1> HIDE DEF s
<1>3. new \in Ring(V) /\ new[s] = d
  BY <1>a, <1>1 DEF Ring
<1>4. \A k \in 0 .. n - 1 : At(V, new, i, k) = At(V, ring, i, k)
  BY <1>a, <1>2 DEF At, Ring
<1>5. At(V, new, i, n) = d
  BY <1>3 DEF At, s
<1>6. Window(V, new, i, n) = Window(V, ring, i, n) /\ NoneTwice(V, new, i, n)
  BY <1>4 DEF Window, NoneTwice
<1>7. QED
  BY <1>3, <1>4, <1>5, <1>6

LEMMA WindowGrow ==
    ASSUME NEW V \in Nat \ {0}, NEW ring \in Ring(V),
           NEW i \in Nat, NEW n \in Nat,
           NoneTwice(V, ring, i, n), At(V, ring, i, n) \notin Window(V, ring, i, n)
    PROVE  /\ Window(V, ring, i, n + 1) = Window(V, ring, i, n) \cup {At(V, ring, i, n)}
           /\ NoneTwice(V, ring, i, n + 1)
<1>1. \A k : k \in 0 .. (n + 1) - 1 <=> k \in 0 .. n - 1 \/ k = n
  OBVIOUS
<1>2. QED
  BY <1>1 DEF Window, NoneTwice

LEMMA SlotWraps ==
    ASSUME NEW V \in Nat \ {0}, NEW I \in Nat \ {0}, SlotOf(V, I) = 0,
           NEW x \in Nat, NEW k \in Nat
    PROVE  SlotOf(V, SlotOf(I, x) + k) = SlotOf(V, x + k)
<1>1. I % V = 0
  BY DEF SlotOf
<1>2. ((x % I) + k) % V = (x + k) % V
  BY <1>1, ModOfSum
<1>3. QED
  BY <1>2, Zenon DEF SlotOf

\* A window does not change when its index wraps.
LEMMA WindowWraps ==
    ASSUME NEW V \in Nat \ {0}, NEW I \in Nat \ {0}, SlotOf(V, I) = 0,
           NEW ring, NEW i \in Nat, NEW n \in Nat
    PROVE  /\ Window(V, ring, SlotOf(I, i), n) = Window(V, ring, i, n)
           /\ NoneTwice(V, ring, SlotOf(I, i), n) <=> NoneTwice(V, ring, i, n)
           /\ \A k \in Nat : At(V, ring, SlotOf(I, i), k) = At(V, ring, i, k)
<1>1. \A k \in Nat : At(V, ring, SlotOf(I, i), k) = At(V, ring, i, k)
  <2>1. \A k \in Nat : SlotOf(V, SlotOf(I, i) + k) = SlotOf(V, i + k)
    BY SlotWraps
  <2>2. QED
    BY <2>1, Zenon DEF At
<1>2. \A k \in 0 .. n - 1 : k \in Nat
  OBVIOUS
<1>3. QED
  BY <1>1, <1>2 DEF Window, NoneTwice

(***************************************************************************)
(* Each of the buffers 0 .. V - 1 has one owner: the window of the         *)
(* available ring, the device, the window of the used ring, or the driver. *)
(***************************************************************************)
Apart(A, B, C, D) ==
    /\ A \cap B = {} /\ A \cap C = {} /\ A \cap D = {}
    /\ B \cap C = {} /\ B \cap D = {} /\ C \cap D = {}

Owners(V, avail, i, a, held, used, j, n, hand) ==
    LET A == Window(V, avail, i, a)
        U == Window(V, used, j, n)
    IN  /\ NoneTwice(V, avail, i, a) /\ NoneTwice(V, used, j, n)
        /\ Apart(A, held, U, hand)
        /\ A \cup held \cup U \cup hand = Buffers(V)
        /\ a + Cardinality(held) + n + Cardinality(hand) = V

LEMMA OwnersCount ==
    ASSUME NEW V \in Nat \ {0}, NEW avail, NEW i, NEW a \in Nat, NEW held, NEW used, NEW j,
           NEW n \in Nat, NEW hand, Owners(V, avail, i, a, held, used, j, n, hand)
    PROVE  /\ IsFiniteSet(held) /\ IsFiniteSet(hand)
           /\ Cardinality(held) \in Nat /\ Cardinality(hand) \in Nat
           /\ a + Cardinality(held) + n + Cardinality(hand) = V
<1>1. IsFiniteSet(Buffers(V))
  BY FS_Interval DEF Buffers
<1>2. held \in SUBSET Buffers(V) /\ hand \in SUBSET Buffers(V)
  BY DEF Owners
<1>3. IsFiniteSet(held) /\ IsFiniteSet(hand)
  BY <1>1, <1>2, FS_Subset
<1>4. QED
  BY <1>3, FS_CardinalityType DEF Owners

\* The device takes the first available buffer.
LEMMA DeviceTakesFirst ==
    ASSUME NEW V \in Nat \ {0}, NEW avail, NEW i \in Nat, NEW a \in Nat, NEW held, NEW used,
           NEW j, NEW n \in Nat, NEW hand, a > 0,
           Owners(V, avail, i, a, held, used, j, n, hand)
    PROVE  Owners(V, avail, i + 1, a - 1, held \cup {At(V, avail, i, 0)}, used, j, n, hand)
<1> DEFINE d  == At(V, avail, i, 0)
           A  == Window(V, avail, i, a)
           A2 == Window(V, avail, i + 1, a - 1)
           U  == Window(V, used, j, n)
<1>1. A = {d} \cup A2 /\ d \notin A2 /\ NoneTwice(V, avail, i + 1, a - 1)
  BY WindowDrop DEF Owners
<1>2. /\ NoneTwice(V, used, j, n) /\ Apart(A, held, U, hand)
      /\ A \cup held \cup U \cup hand = Buffers(V)
  BY DEF Owners
<1>3. a + Cardinality(held) + n + Cardinality(hand) = V /\ IsFiniteSet(held)
      /\ Cardinality(held) \in Nat /\ Cardinality(hand) \in Nat
  BY OwnersCount
<1> HIDE DEF d, A, A2, U
<1>4. d \notin held
  BY <1>1, <1>2 DEF Apart
<1>5. Cardinality(held \cup {d}) = Cardinality(held) + 1
  BY <1>3, <1>4, FS_AddElement
<1>6. Apart(A2, held \cup {d}, U, hand) /\ A2 \cup (held \cup {d}) \cup U \cup hand = Buffers(V)
  BY <1>1, <1>2 DEF Apart
<1>7. (a - 1) + Cardinality(held \cup {d}) + n + Cardinality(hand) = V
  BY <1>3, <1>5
<1>8. QED
  BY <1>1, <1>2, <1>6, <1>7 DEF Owners, A2, U, d

\* The device returns a buffer that it has.
LEMMA DeviceReturns ==
    ASSUME NEW V \in Nat \ {0}, NEW avail, NEW i, NEW a \in Nat, NEW held,
           NEW used \in Ring(V), NEW j \in Nat, NEW n \in Nat, NEW hand,
           NEW d \in Buffers(V), d \in held,
           Owners(V, avail, i, a, held, used, j, n, hand)
    PROVE  /\ Owners(V, avail, i, a, held \ {d}, Put(V, used, j + n, d), j, n + 1, hand)
           /\ At(V, Put(V, used, j + n, d), j, n) = d
           /\ \A k \in 0 .. n - 1 : At(V, Put(V, used, j + n, d), j, k) = At(V, used, j, k)
           /\ n < V
<1> DEFINE new == Put(V, used, j + n, d)
           A  == Window(V, avail, i, a)
           U  == Window(V, used, j, n)
           U2 == Window(V, new, j, n + 1)
<1>1. /\ NoneTwice(V, avail, i, a) /\ NoneTwice(V, used, j, n) /\ Apart(A, held, U, hand)
      /\ A \cup held \cup U \cup hand = Buffers(V)
  BY DEF Owners
<1>2. a + Cardinality(held) + n + Cardinality(hand) = V /\ IsFiniteSet(held)
      /\ Cardinality(held) \in Nat /\ Cardinality(hand) \in Nat
  BY OwnersCount
<1>3. Cardinality(held \ {d}) = Cardinality(held) - 1 /\ Cardinality(held \ {d}) \in Nat
  BY <1>2, FS_RemoveElement, FS_CardinalityType
<1>4. n < V /\ n \in 0 .. V - 1
  BY <1>2, <1>3
<1>5. d \in Buffers(V) /\ d \notin U
  BY <1>1 DEF Apart
<1>6. /\ At(V, new, j, n) = d /\ Window(V, new, j, n) = U /\ NoneTwice(V, new, j, n)
      /\ new \in Ring(V)
      /\ \A k \in 0 .. n - 1 : At(V, new, j, k) = At(V, used, j, k)
  <2> DEFINE x == new
  <2>1. x = Put(V, used, j + n, d)
    OBVIOUS
  <2> HIDE DEF x
  <2>2. /\ At(V, x, j, n) = d /\ Window(V, x, j, n) = U /\ NoneTwice(V, x, j, n)
        /\ x \in Ring(V)
        /\ \A k \in 0 .. n - 1 : At(V, x, j, k) = At(V, used, j, k)
    BY <1>1, <1>4, <1>5, <2>1, WindowAdd
  <2>3. QED
    BY <2>2 DEF x
<1> HIDE DEF new
<1>7. U2 = U \cup {d} /\ NoneTwice(V, new, j, n + 1)
  <2>1. At(V, new, j, n) \notin Window(V, new, j, n)
    BY <1>5, <1>6
  <2>2. QED
    BY <1>6, <2>1, WindowGrow
<1> HIDE DEF A, U, U2
<1>8. /\ Apart(A, held \ {d}, U2, hand)
      /\ A \cup (held \ {d}) \cup U2 \cup hand = Buffers(V)
  BY <1>1, <1>5, <1>7 DEF Apart
<1> DEFINE c == Cardinality(held \ {d})
<1>9. a + c + (n + 1) + Cardinality(hand) = V
  <2>1. c = Cardinality(held) - 1
    BY <1>3
  <2> HIDE DEF c
  <2>2. QED
    BY <1>2, <2>1
<1>10. QED
  BY <1>1, <1>4, <1>6, <1>7, <1>8, <1>9 DEF Owners, A, U2, new

\* The driver takes the oldest used buffer in its hand.
LEMMA DriverTakesOldest ==
    ASSUME NEW V \in Nat \ {0}, NEW avail, NEW i, NEW a \in Nat, NEW held, NEW used,
           NEW j \in Nat, NEW n \in Nat, n > 0,
           Owners(V, avail, i, a, held, used, j, n, {})
    PROVE  Owners(V, avail, i, a, held, used, j + 1, n - 1, {At(V, used, j, 0)})
<1> DEFINE d  == At(V, used, j, 0)
           A  == Window(V, avail, i, a)
           U  == Window(V, used, j, n)
           U2 == Window(V, used, j + 1, n - 1)
<1>1. U = {d} \cup U2 /\ d \notin U2 /\ NoneTwice(V, used, j + 1, n - 1)
  <2>1. n \in Nat \ {0} /\ NoneTwice(V, used, j, n)
    BY DEF Owners
  <2>2. QED
    BY <2>1, WindowDrop
<1>2. /\ NoneTwice(V, avail, i, a) /\ Apart(A, held, U, {})
      /\ A \cup held \cup U \cup {} = Buffers(V)
  BY DEF Owners
<1>3. a + Cardinality(held) + n + Cardinality({}) = V /\ Cardinality(held) \in Nat
  BY OwnersCount
<1>4. Cardinality({}) = 0 /\ Cardinality({d}) = 1
  BY FS_EmptySet, FS_Singleton
<1> HIDE DEF d, A, U, U2
<1>5. /\ Apart(A, held, U2, {d})
      /\ A \cup held \cup U2 \cup {d} = Buffers(V)
  BY <1>1, <1>2 DEF Apart
<1>6. a + Cardinality(held) + (n - 1) + Cardinality({d}) = V
  BY <1>3, <1>4
<1>7. QED
  BY <1>1, <1>2, <1>5, <1>6 DEF Owners, A, U2, d

\* It writes the buffer behind the available ones,
LEMMA DriverGivesBack ==
    ASSUME NEW V \in Nat \ {0}, NEW avail \in Ring(V), NEW i \in Nat,
           NEW a \in Nat, NEW held, NEW used, NEW j, NEW n \in Nat, NEW d \in Buffers(V),
           Owners(V, avail, i, a, held, used, j, n, {d})
    PROVE  /\ Owners(V, Put(V, avail, i + a, d), i, a, held, used, j, n, {d})
           /\ At(V, Put(V, avail, i + a, d), i, a) = d
<1> DEFINE new == Put(V, avail, i + a, d)
<1>n. new = Put(V, avail, i + a, d)
  OBVIOUS
<1> HIDE DEF new
<1>1. a + Cardinality(held) + n + Cardinality({d}) = V /\ Cardinality(held) \in Nat
  BY OwnersCount
<1>2. Cardinality({d}) = 1
  BY FS_Singleton
<1>3. a \in 0 .. V - 1 /\ d \in Buffers(V) /\ NoneTwice(V, avail, i, a)
  <2>1. a < V
    BY <1>1, <1>2
  <2>2. d \in Buffers(V) /\ NoneTwice(V, avail, i, a)
    BY Zenon DEF Owners
  <2>3. QED
    BY <2>1, <2>2
<1>4. /\ At(V, new, i, a) = d /\ Window(V, new, i, a) = Window(V, avail, i, a)
      /\ NoneTwice(V, new, i, a) /\ new \in Ring(V)
  BY <1>3, <1>n, WindowAdd
<1>5. Owners(V, new, i, a, held, used, j, n, {d})
  BY <1>4 DEF Owners
<1>6. QED
  BY <1>4, <1>5 DEF new

\* and makes it available.
LEMMA DriverPublishes ==
    ASSUME NEW V \in Nat \ {0}, NEW avail \in Ring(V), NEW i \in Nat,
           NEW a \in Nat, NEW held, NEW used, NEW j, NEW n \in Nat, NEW d \in Buffers(V),
           At(V, avail, i, a) = d,
           Owners(V, avail, i, a, held, used, j, n, {d})
    PROVE  Owners(V, avail, i, a + 1, held, used, j, n, {}) /\ a < V
<1> DEFINE A  == Window(V, avail, i, a)
           A2 == Window(V, avail, i, a + 1)
           U  == Window(V, used, j, n)
<1>1. /\ NoneTwice(V, avail, i, a) /\ NoneTwice(V, used, j, n) /\ Apart(A, held, U, {d})
      /\ A \cup held \cup U \cup {d} = Buffers(V)
  BY DEF Owners
<1>2. a + Cardinality(held) + n + Cardinality({d}) = V /\ Cardinality(held) \in Nat
  BY OwnersCount
<1>3. Cardinality({}) = 0 /\ Cardinality({d}) = 1
  BY FS_EmptySet, FS_Singleton
<1>4. d \notin A
  BY <1>1 DEF Apart
<1>5. A2 = A \cup {d} /\ NoneTwice(V, avail, i, a + 1)
  BY <1>1, <1>4, WindowGrow
<1> HIDE DEF A, A2, U
<1>6. Apart(A2, held, U, {}) /\ A2 \cup held \cup U \cup {} = Buffers(V)
  BY <1>1, <1>5 DEF Apart
<1>7. (a + 1) + Cardinality(held) + n + Cardinality({}) = V /\ a < V
  BY <1>2, <1>3
<1>8. QED
  BY <1>1, <1>5, <1>6, <1>7 DEF Owners, A2, U

\* Indices wrap without anyone losing a buffer.
LEMMA OwnersWrap ==
    ASSUME NEW V \in Nat \ {0}, NEW I \in Nat \ {0}, SlotOf(V, I) = 0,
           NEW avail, NEW i \in Nat, NEW a \in Nat, NEW held, NEW used, NEW j \in Nat,
           NEW n \in Nat, NEW hand
    PROVE  /\ Owners(V, avail, SlotOf(I, i), a, held, used, j, n, hand)
                <=> Owners(V, avail, i, a, held, used, j, n, hand)
           /\ Owners(V, avail, i, a, held, used, SlotOf(I, j), n, hand)
                <=> Owners(V, avail, i, a, held, used, j, n, hand)
<1>1. /\ Window(V, avail, SlotOf(I, i), a) = Window(V, avail, i, a)
      /\ NoneTwice(V, avail, SlotOf(I, i), a) <=> NoneTwice(V, avail, i, a)
  BY WindowWraps
<1>2. /\ Window(V, used, SlotOf(I, j), n) = Window(V, used, j, n)
      /\ NoneTwice(V, used, SlotOf(I, j), n) <=> NoneTwice(V, used, j, n)
  BY WindowWraps
<1>3. QED
  BY <1>1, <1>2, Zenon DEF Owners
=============================================================================

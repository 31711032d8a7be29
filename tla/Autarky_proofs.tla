--------------------------- MODULE Autarky_proofs ---------------------------
(***************************************************************************)
(* The receive ring of the network card under contracts that poll it, for  *)
(* every number of buffers and width of the indices, every contract and    *)
(* every traffic: each buffer has one owner, and polls return the volumes  *)
(* of the packets in the order of their arrival.  The evaluator keeps its  *)
(* types for every contract, gets further with each of its steps, which it *)
(* cannot do for ever, and ends in what the rules of evaluate derive,      *)
(* which is one thing only.                                                *)
(***************************************************************************)
EXTENDS AutarkyRules, RingArithmetic, WellFoundedInduction

V == QUEUE_SIZE

LEMMA NetSizes ==
    /\ V \in Nat \ {0} /\ NET_INDEX \in Nat \ {0} /\ NET_INDEX > V
    /\ SlotOf(V, NET_INDEX) = 0 /\ V = QUEUE_SIZE /\ NetSlot = Buffers(V)
    /\ Ring(V) = [NetSlot -> NetSlot] /\ NetSlot = 0 .. V - 1
    /\ 0 \in NetSlot /\ 0 \in NetIndex /\ V \in NetIndex
    /\ BUFFER_SIZE \in Nat
    /\ \A i : i \in NetIndex => i \in Nat /\ i \in 0 .. NET_INDEX - 1
<1>1. /\ QUEUE_SIZE \in Nat \ {0} /\ NET_INDEX \in Nat /\ NET_INDEX > QUEUE_SIZE
      /\ NET_INDEX % QUEUE_SIZE = 0 /\ BUFFER_SIZE \in Nat
  BY NetAssumption
<1>2. QED
  BY <1>1 DEF V, SlotOf, NetSlot, Buffers, Ring, NetIndex

LEMMA NextIndexIs ==
    ASSUME NEW i \in NetIndex
    PROVE  NextIndex(i) \in NetIndex /\ NextIndex(i) = SlotOf(NET_INDEX, i + 1)
BY NetSizes, NextIndexValue DEF NextIndex, SlotOf, NetIndex

LEMMA NetAheadIs ==
    ASSUME NEW i \in NetIndex, NEW j \in NetIndex
    PROVE  /\ NetAhead(i, j) \in Nat
           /\ NetAhead(i, j) < NET_INDEX
           /\ SlotOf(V, j + NetAhead(i, j)) = SlotOf(V, i)
           /\ SlotOf(V, i) \in NetSlot
<1>1. NetAhead(i, j) = Distance(NET_INDEX, i, j)
  BY DEF NetAhead, Distance, SlotOf
<1>2. /\ NET_INDEX \in Nat \ {0} /\ V \in Nat \ {0} /\ SlotOf(V, NET_INDEX) = 0
      /\ i \in 0 .. NET_INDEX - 1 /\ j \in 0 .. NET_INDEX - 1 /\ i \in Nat
      /\ NetSlot = 0 .. V - 1
  BY NetSizes
<1>3. Distance(NET_INDEX, i, j) = IF i >= j THEN i - j ELSE i + NET_INDEX - j
  BY <1>2, DistanceValue
<1>4. SlotOf(V, j + Distance(NET_INDEX, i, j)) = SlotOf(V, i)
  BY <1>2, DistanceReaches
<1>5. SlotOf(V, i) \in NetSlot
  BY <1>2, ModRange DEF SlotOf
<1>6. QED
  BY <1>1, <1>2, <1>3, <1>4, <1>5

LEMMA NetAheadSteps ==
    ASSUME NEW i \in NetIndex, NEW j \in NetIndex
    PROVE  /\ NetAhead(i, j) + 1 < NET_INDEX => NetAhead(NextIndex(i), j) = NetAhead(i, j) + 1
           /\ i # j => NetAhead(i, j) > 0 /\ NetAhead(i, NextIndex(j)) = NetAhead(i, j) - 1
           /\ i = j => NetAhead(i, j) = 0
<1>1. \A k, l : NetAhead(k, l) = Distance(NET_INDEX, k, l)
  BY DEF NetAhead, Distance, SlotOf
<1>2. NET_INDEX \in Nat \ {0} /\ i \in 0 .. NET_INDEX - 1 /\ j \in 0 .. NET_INDEX - 1
  BY NetSizes
<1>3. NextIndex(i) = SlotOf(NET_INDEX, i + 1) /\ NextIndex(j) = SlotOf(NET_INDEX, j + 1)
  BY DEF NextIndex, SlotOf
<1>4. QED
  BY <1>1, <1>2, <1>3, DistanceSteps

(***************************************************************************)
(* The number that is read behind a tag.                                   *)
(***************************************************************************)
LEMMA LeastNumber ==
    ASSUME NEW T \in SUBSET Nat, T # {}
    PROVE  \E x \in T : \A y \in T : x <= y
<1> DEFINE Below == OpToRel(<, Nat)
<1>1. IsWellFoundedOn(Below, Nat)
  BY NatLessThanWellFounded, Zenon
<1>2. \A x \in Nat, y \in Nat : x < y => <<x, y>> \in Below
  BY DEF OpToRel
<1> HIDE DEF Below
<1>3. PICK x \in T : \A y \in T : ~(<<y, x>> \in Below)
  BY <1>1, WFMin
<1>4. \A y \in T : y \in Nat /\ x \in Nat /\ ~(y < x)
  BY <1>2, <1>3
<1>5. QED
  BY <1>4

LEMMA UpFrom ==
    ASSUME NEW t \in Nat, NEW S, t \in S, \A m \in Nat : m >= t /\ m \in S => m + 1 \in S
    PROVE  \A m \in Nat : m >= t => m \in S
<1> DEFINE T == {m \in Nat : m >= t /\ m \notin S}
<1>1. SUFFICES ASSUME T # {}
               PROVE  FALSE
  OBVIOUS
<1>2. PICK x \in T : \A y \in T : x <= y
  <2>1. T \in SUBSET Nat
    OBVIOUS
  <2> HIDE DEF T
  <2>2. QED
    BY <1>1, <2>1, LeastNumber
<1>3. x \in Nat /\ x >= t /\ x \notin S /\ x # t
  BY <1>2
<1>4. x - 1 \in Nat /\ x - 1 >= t /\ (x - 1) + 1 = x /\ ~(x <= x - 1)
  BY <1>3
<1>5. x - 1 \notin T
  <2> HIDE DEF T
  <2>1. QED
    BY <1>2, <1>4
<1>6. x - 1 \in S
  BY <1>4, <1>5
<1>7. QED
  BY <1>3, <1>4, <1>6

\* cells t + 1 .. e of a row are digits, and no more follow.
EndsAt(row, t, e) ==
    /\ e \in t .. Len(row)
    /\ \A i \in t + 1 .. e : row[i] \in Digit
    /\ e < Len(row) => row[e + 1] \notin Digit

LEMMA DigitsEndIs ==
    ASSUME NEW row, Len(row) \in Nat, NEW t \in 1 .. Len(row)
    PROVE  EndsAt(row, t, DigitsEnd(row, t))
<1> DEFINE T == {i \in t + 1 .. Len(row) : row[i] \notin Digit}
<1>1. T \in SUBSET Nat
  OBVIOUS
<1>2. CASE T = {}
  <2>1. EndsAt(row, t, Len(row))
    BY <1>2 DEF EndsAt
  <2>2. QED
    BY <2>1 DEF EndsAt, DigitsEnd
<1>3. CASE T # {}
  <2>1. PICK x \in T : \A y \in T : x <= y
    <3> HIDE DEF T
    <3>1. QED
      BY <1>1, <1>3, LeastNumber
  <2>2. EndsAt(row, t, x - 1)
    <3>1. x \in t + 1 .. Len(row) /\ row[x] \notin Digit /\ (x - 1) + 1 = x
      BY <2>1
    <3>2. \A i \in t + 1 .. x - 1 : i \in t + 1 .. Len(row) /\ ~(x <= i)
      BY <3>1
    <3>3. \A i \in t + 1 .. x - 1 : row[i] \in Digit
      BY <2>1, <3>2
    <3>4. x - 1 \in t .. Len(row)
      BY <3>1
    <3>5. QED
      BY <3>1, <3>3, <3>4 DEF EndsAt
  <2>3. QED
    BY <2>2 DEF EndsAt, DigitsEnd
<1>4. QED
  BY <1>2, <1>3

\* Two rows that agree as far as a character that is no digit end at the same cell.
LEMMA SameEnd ==
    ASSUME NEW row, NEW other, Len(row) \in Nat, Len(other) \in Nat,
           NEW t \in 1 .. Len(row), Len(row) <= Len(other),
           \A i \in 1 .. Len(row) : other[i] = row[i],
           NEW z \in t + 1 .. Len(row), row[z] \notin Digit
    PROVE  DigitsEnd(other, t) = DigitsEnd(row, t) /\ DigitsEnd(row, t) < Len(row)
<1> DEFINE e == DigitsEnd(row, t)
           f == DigitsEnd(other, t)
<1>1. EndsAt(row, t, e) /\ EndsAt(other, t, f)
  BY DigitsEndIs
<1> HIDE DEF e, f
<1>2. e \in t .. Len(row) /\ f \in t .. Len(other)
  BY <1>1 DEF EndsAt
<1>3. e < z
  <2>1. SUFFICES ASSUME ~(e < z)
                 PROVE  FALSE
    OBVIOUS
  <2>2. z \in t + 1 .. e
    BY <1>2, <2>1
  <2>3. QED
    BY <1>1, <2>2 DEF EndsAt
<1>4. f < z
  <2>1. SUFFICES ASSUME ~(f < z)
                 PROVE  FALSE
    OBVIOUS
  <2>2. z \in t + 1 .. f /\ z \in 1 .. Len(row)
    BY <1>2, <2>1
  <2>3. QED
    BY <1>1, <2>2 DEF EndsAt
<1>5. ~(e < f)
  <2>1. SUFFICES ASSUME e < f
                 PROVE  FALSE
    OBVIOUS
  <2>2. e + 1 \in t + 1 .. f /\ e + 1 \in 1 .. Len(row) /\ e < Len(row)
    BY <1>2, <1>3, <2>1
  <2>3. row[e + 1] \notin Digit /\ other[e + 1] \in Digit /\ other[e + 1] = row[e + 1]
    BY <1>1, <2>2 DEF EndsAt
  <2>4. QED
    BY <2>3
<1>6. ~(f < e)
  <2>1. SUFFICES ASSUME f < e
                 PROVE  FALSE
    OBVIOUS
  <2>2. f + 1 \in t + 1 .. e /\ f + 1 \in 1 .. Len(row) /\ f < Len(other)
    BY <1>2, <1>3, <2>1
  <2>3. row[f + 1] \in Digit /\ other[f + 1] \notin Digit /\ other[f + 1] = row[f + 1]
    BY <1>1, <2>2 DEF EndsAt
  <2>4. QED
    BY <2>3
<1>7. e = f /\ e < Len(row)
  BY <1>2, <1>3, <1>5, <1>6
<1>8. QED
  BY <1>7 DEF e, f

\* What the digits behind cell t amount to, up to each of the cells t .. m.
IsSum(f, row, t, m) == f = [e \in t .. m |-> IF e = t THEN 0 ELSE Trunc32(f[e - 1] * 10 + row[e])]

LEMMA SumExists ==
    ASSUME NEW row, NEW t \in Nat, NEW m \in Nat, m >= t
    PROVE  \E f : IsSum(f, row, t, m)
<1> DEFINE S == {n \in Nat : \E f : IsSum(f, row, t, n)}
<1>1. t \in S
  <2>1. IsSum([e \in t .. t |-> 0], row, t, t)
    BY DEF IsSum
  <2>2. QED
    BY <2>1
<1>2. ASSUME NEW n \in Nat, n >= t, n \in S
      PROVE  n + 1 \in S
  <2>1. PICK g : IsSum(g, row, t, n)
    BY <1>2
  <2> DEFINE h == [e \in t .. n + 1 |-> IF e = n + 1 THEN Trunc32(g[n] * 10 + row[n + 1])
                                         ELSE g[e]]
  <2>2. ASSUME NEW e \in t .. n + 1
        PROVE  h[e] = IF e = t THEN 0 ELSE Trunc32(h[e - 1] * 10 + row[e])
    <3>1. CASE e = n + 1
      <4>1. e # t /\ e - 1 = n /\ n \in t .. n + 1 /\ n # n + 1
        BY <1>2, <3>1
      <4>2. h[e - 1] = g[n] /\ h[e] = Trunc32(g[n] * 10 + row[n + 1])
        BY <3>1, <4>1
      <4>3. QED
        BY <3>1, <4>1, <4>2
    <3>2. CASE e # n + 1
      <4>1. e \in t .. n /\ h[e] = g[e]
        BY <3>2
      <4>2. g[e] = IF e = t THEN 0 ELSE Trunc32(g[e - 1] * 10 + row[e])
        BY <2>1, <4>1 DEF IsSum
      <4>3. e # t => e - 1 \in t .. n + 1 /\ e - 1 # n + 1
        BY <4>1
      <4>4. e # t => h[e - 1] = g[e - 1]
        BY <4>3
      <4>5. QED
        BY <4>1, <4>2, <4>4
    <3>3. QED
      BY <3>1, <3>2
  <2>3. IsSum(h, row, t, n + 1)
    BY <2>2 DEF IsSum
  <2>4. QED
    BY <2>3
<1> HIDE DEF S
<1>3. \A n \in Nat : n >= t => n \in S
  BY <1>1, <1>2, UpFrom
<1>4. QED
  BY <1>3 DEF S

LEMMA NumberIs ==
    ASSUME NEW row, Len(row) \in Nat, NEW t \in 1 .. Len(row)
    PROVE  \E f : IsSum(f, row, t, Len(row)) /\ Number(row, t) = f[DigitsEnd(row, t)]
<1> DEFINE sum == CHOOSE f : IsSum(f, row, t, Len(row))
<1>1. IsSum(sum, row, t, Len(row))
  <2>1. t \in Nat /\ Len(row) >= t
    OBVIOUS
  <2>2. \E f : IsSum(f, row, t, Len(row))
    BY <2>1, SumExists
  <2>3. QED
    BY <2>2
<1>2. Number(row, t) = sum[DigitsEnd(row, t)]
  BY DEF Number, IsSum
<1>3. QED
  BY <1>1, <1>2

LEMMA Trunc32IsInt32 == 0 \in Int32 /\ \A x \in Int : Trunc32(x) \in Int32
<1>1. HALF32 \in Nat \ {0}
  BY NetAssumption
<1>2. ASSUME NEW x \in Int
      PROVE  Trunc32(x) \in Int32
  <2>1. 2 * HALF32 \in Nat \ {0} /\ x + HALF32 \in Int
    BY <1>1
  <2>2. (x + HALF32) % (2 * HALF32) \in 0 .. 2 * HALF32 - 1
    BY <2>1
  <2>3. QED
    BY <1>1, <2>2 DEF Trunc32, Int32
<1>3. QED
  BY <1>1, <1>2 DEF Int32

LEMMA SumIsInt ==
    ASSUME NEW row, NEW t \in Nat, NEW m \in Nat, NEW f, IsSum(f, row, t, m),
           NEW e \in t .. m, \A i \in t + 1 .. e : row[i] \in Digit
    PROVE  f[e] \in Int32
<1> DEFINE S == {n \in Nat : n <= e => f[n] \in Int32}
<1>1. \A n \in t .. m : f[n] = IF n = t THEN 0 ELSE Trunc32(f[n - 1] * 10 + row[n])
  BY DEF IsSum
<1>2. t \in S
  <2>1. t \in t .. m /\ 0 \in Int32
    BY Trunc32IsInt32
  <2>2. QED
    BY <1>1, <2>1
<1>3. ASSUME NEW n \in Nat, n >= t, n \in S
      PROVE  n + 1 \in S
  <2>1. SUFFICES ASSUME n + 1 <= e
                 PROVE  f[n + 1] \in Int32
    OBVIOUS
  <2>2. n + 1 \in t .. m /\ n + 1 # t /\ (n + 1) - 1 = n /\ n + 1 \in t + 1 .. e /\ n <= e
    BY <1>3, <2>1
  <2>3. f[n + 1] = Trunc32(f[n] * 10 + row[n + 1]) /\ row[n + 1] \in Nat
    BY <1>1, <2>2 DEF Digit
  <2>4. f[n] \in Int32
    BY <1>3, <2>2
  <2>5. f[n] * 10 + row[n + 1] \in Int
    BY <2>3, <2>4 DEF Int32
  <2>6. QED
    BY <2>3, <2>5, Trunc32IsInt32
<1> HIDE DEF S
<1>4. \A n \in Nat : n >= t => n \in S
  BY <1>2, <1>3, UpFrom
<1>5. QED
  BY <1>4 DEF S

LEMMA SameSum ==
    ASSUME NEW row, NEW other, NEW t \in Nat, NEW m \in Nat, NEW k \in Nat,
           NEW f, IsSum(f, row, t, m), NEW g, IsSum(g, other, t, k),
           NEW e \in t .. m, e <= k, \A i \in t + 1 .. e : other[i] = row[i]
    PROVE  g[e] = f[e]
<1> DEFINE S == {n \in Nat : n <= e => g[n] = f[n]}
<1>1. /\ \A n \in t .. m : f[n] = IF n = t THEN 0 ELSE Trunc32(f[n - 1] * 10 + row[n])
      /\ \A n \in t .. k : g[n] = IF n = t THEN 0 ELSE Trunc32(g[n - 1] * 10 + other[n])
  BY DEF IsSum
<1>2. t \in S
  <2>1. t \in t .. m /\ t \in t .. k
    OBVIOUS
  <2>2. QED
    BY <1>1, <2>1
<1>3. ASSUME NEW n \in Nat, n >= t, n \in S
      PROVE  n + 1 \in S
  <2>1. SUFFICES ASSUME n + 1 <= e
                 PROVE  g[n + 1] = f[n + 1]
    OBVIOUS
  <2>2. /\ n + 1 \in t .. m /\ n + 1 \in t .. k /\ n + 1 # t /\ (n + 1) - 1 = n
        /\ n + 1 \in t + 1 .. e /\ n <= e
    BY <1>3, <2>1
  <2>3. /\ f[n + 1] = Trunc32(f[n] * 10 + row[n + 1])
        /\ g[n + 1] = Trunc32(g[n] * 10 + other[n + 1])
    BY <1>1, <2>2
  <2>4. g[n] = f[n] /\ other[n + 1] = row[n + 1]
    BY <1>3, <2>2
  <2>5. QED
    BY <2>3, <2>4
<1> HIDE DEF S
<1>4. \A n \in Nat : n >= t => n \in S
  BY <1>2, <1>3, UpFrom
<1>5. QED
  BY <1>4 DEF S

LEMMA NumberIsInt ==
    ASSUME NEW row, Len(row) \in Nat, NEW t \in 1 .. Len(row)
    PROVE  Number(row, t) \in Int32
<1>1. PICK f : IsSum(f, row, t, Len(row)) /\ Number(row, t) = f[DigitsEnd(row, t)]
  BY NumberIs
<1> DEFINE e == DigitsEnd(row, t)
<1>2. e \in t .. Len(row) /\ \A i \in t + 1 .. e : row[i] \in Digit
  BY DigitsEndIs DEF EndsAt
<1> HIDE DEF e
<1>3. f[e] \in Int32
  <2>1. t \in Nat
    OBVIOUS
  <2>2. QED
    BY <1>1, <1>2, <2>1, SumIsInt
<1>4. QED
  BY <1>1, <1>3 DEF e

LEMMA SameNumber ==
    ASSUME NEW row, NEW other, Len(row) \in Nat, Len(other) \in Nat,
           NEW t \in 1 .. Len(row), Len(row) <= Len(other),
           \A i \in 1 .. Len(row) : other[i] = row[i],
           NEW z \in t + 1 .. Len(row), row[z] \notin Digit
    PROVE  Number(other, t) = Number(row, t)
<1> DEFINE e == DigitsEnd(row, t)
<1>1. DigitsEnd(other, t) = e /\ e < Len(row)
  BY SameEnd
<1>2. e \in t .. Len(row)
  BY DigitsEndIs DEF EndsAt
<1>3. PICK f : IsSum(f, row, t, Len(row)) /\ Number(row, t) = f[e]
  BY NumberIs
<1>4. PICK g : IsSum(g, other, t, Len(other)) /\ Number(other, t) = g[DigitsEnd(other, t)]
  <2>1. t \in 1 .. Len(other)
    OBVIOUS
  <2>2. QED
    BY <2>1, NumberIs
<1> HIDE DEF e
<1>5. /\ t \in Nat /\ e <= Len(other)
      /\ \A i \in t + 1 .. e : other[i] = row[i]
  <2>1. \A i \in t + 1 .. e : i \in 1 .. Len(row)
    BY <1>2
  <2>2. t \in Nat /\ e <= Len(other)
    BY <1>2
  <2>3. QED
    BY <2>1, <2>2
<1>6. g[e] = f[e]
  BY <1>2, <1>3, <1>4, <1>5, SameSum
<1>7. QED
  BY <1>1, <1>3, <1>4, <1>6

(***************************************************************************)
(* The volume.                                                             *)
(***************************************************************************)
LEMMA FirstTag ==
    ASSUME NEW row, NEW n \in Nat, \E t \in 1 .. n : row[t] = TAG
    PROVE  \E t \in 1 .. n : row[t] = TAG /\ \A i \in 1 .. t - 1 : row[i] # TAG
<1> DEFINE T == {t \in 1 .. n : row[t] = TAG}
<1>1. T \in SUBSET Nat /\ T # {}
  OBVIOUS
<1> HIDE DEF T
<1>2. PICK x \in T : \A y \in T : x <= y
  BY <1>1, LeastNumber
<1>3. x \in 1 .. n /\ row[x] = TAG
  BY <1>2 DEF T
<1>4. \A i \in 1 .. x - 1 : i \in 1 .. n /\ ~(x <= i)
  BY <1>3
<1>5. \A i \in 1 .. x - 1 : row[i] # TAG
  BY <1>2, <1>4 DEF T
<1>6. QED
  BY <1>3, <1>5

LEMMA VolumeIsInt ==
    ASSUME NEW row, Len(row) \in Nat, NEW n \in 0 .. Len(row)
    PROVE  Volume(row, n) \in Int32
<1>1. CASE \E t \in 1 .. n : row[t] = TAG
  <2> DEFINE First(t) == row[t] = TAG /\ \A i \in 1 .. t - 1 : row[i] # TAG
             x == CHOOSE t \in 1 .. n : First(t)
  <2>1. x \in 1 .. n
    <3>1. n \in Nat
      OBVIOUS
    <3>2. \E t \in 1 .. n : First(t)
      BY <1>1, <3>1, FirstTag
    <3>3. QED
      BY <3>2
  <2>2. Volume(row, n) = Number(row, x)
    BY <1>1 DEF Volume
  <2> HIDE DEF x
  <2>3. x \in 1 .. Len(row)
    BY <2>1
  <2>4. QED
    BY <2>2, <2>3, NumberIsInt
<1>2. CASE ~ \E t \in 1 .. n : row[t] = TAG
  BY <1>2, Trunc32IsInt32 DEF Volume
<1>3. QED
  BY <1>1, <1>2

\* A buffer that begins with a packet whose volume is terminated has the packet's
\* volume, whatever is left in the cells behind it.
LEMMA VolumeOfPacket ==
    ASSUME NEW packet, NEW buffer, Len(packet) \in Nat, Len(buffer) \in Nat,
           Len(packet) <= Len(buffer),
           \A i \in 1 .. Len(packet) : buffer[i] = packet[i], Terminated(packet)
    PROVE  Volume(buffer, Len(packet)) = Volume(packet, Len(packet))
<1> DEFINE n == Len(packet)
           First(row, t) == row[t] = TAG /\ \A i \in 1 .. t - 1 : row[i] # TAG
<1>1. CASE \E t \in 1 .. n : packet[t] = TAG
  <2>1. \A t \in 1 .. n : First(buffer, t) <=> First(packet, t)
    <3>1. \A t \in 1 .. n : \A i \in 1 .. t - 1 : i \in 1 .. n
      OBVIOUS
    <3>2. QED
      BY <3>1
  <2> DEFINE x == CHOOSE t \in 1 .. n : First(packet, t)
             y == CHOOSE t \in 1 .. n : First(buffer, t)
  <2>2. x \in 1 .. n /\ First(packet, x) /\ n \in Nat
    BY <1>1, FirstTag
  <2>3. y = x
    <3> HIDE DEF First
    <3>1. \A t : (t \in 1 .. n /\ First(buffer, t)) <=> (t \in 1 .. n /\ First(packet, t))
      BY <2>1
    <3>2. QED
      BY <3>1, Zenon
  <2>4. Volume(packet, n) = Number(packet, x) /\ Volume(buffer, n) = Number(buffer, y)
    BY <1>1 DEF Volume
  <2> HIDE DEF x, y
  <2>5. PICK z \in x + 1 .. Len(packet) : packet[z] \notin Digit
    BY <2>2 DEF Terminated
  <2>6. Number(buffer, x) = Number(packet, x)
    BY <2>2, <2>5, SameNumber
  <2>7. QED
    BY <2>3, <2>4, <2>6
<1>2. CASE ~ \E t \in 1 .. n : packet[t] = TAG
  BY <1>2 DEF Volume
<1>3. QED
  BY <1>1, <1>2

(***************************************************************************)
(* The inductive invariant.  With a card, the buffers circulate and the    *)
(* entries of rx_used that wait name them in the order of the packets;     *)
(* without one, nothing moves.                                             *)
(***************************************************************************)
Out     == NetAhead(rx_avail.idx, card_idx)
Filled  == NetAhead(rx_used.idx, last_used_idx)
UsedIds == [s \in NetSlot |-> rx_used.ring[s].id]
UsedEntry(x) == rx_used.ring[SlotOf(V, x)]

Circulate ==
    /\ FirstUnpolled <= Filled
    /\ Owners(V, rx_avail.ring, card_idx, Out, card_held,
              UsedIds, last_used_idx + FirstUnpolled, Filled - FirstUnpolled, NetInHand)
    /\ net_pc = "publish" => At(V, rx_avail.ring, card_idx, Out) = desc_id

\* Buffer d has the packet in its first len cells.
Contains(d, len, packet) ==
    len = Len(packet) /\ \A i \in 1 .. Len(packet) : rx_buffers[d][i] = packet[i]

Waiting ==
    /\ Len(polled) + Filled = Len(arrived)
    /\ \A k \in Nat : FirstUnpolled <= k /\ k < Filled =>
            Contains(UsedEntry(last_used_idx + k).id, UsedEntry(last_used_idx + k).len,
                     arrived[Len(polled) + 1 + k])
    /\ net_pc = "parse" => Contains(desc_id, pkt_len, arrived[Len(polled) + 1])

Answered ==
    \A n \in 1 .. Len(polled) :
        Terminated(arrived[n]) => polled[n] = Volume(arrived[n], Len(arrived[n]))

NoCard ==
    /\ rx_avail.idx = 0 /\ card_idx = 0 /\ card_held = {} /\ net_pc = "idle"
    /\ arrived = << >> /\ polled = << >>

IInv ==
    /\ NetTypeOK
    /\ net_base => Circulate /\ Waiting /\ Answered
    /\ ~net_base => NoCard

LEMMA NetFacts ==
    ASSUME NetTypeOK
    PROVE  /\ rx_avail.idx \in NetIndex /\ rx_used.idx \in NetIndex
           /\ last_used_idx \in NetIndex /\ card_idx \in NetIndex
           /\ last_used_idx \in Nat /\ card_idx \in Nat
           /\ rx_avail.ring \in Ring(V) /\ UsedIds \in Ring(V) /\ desc_id \in Buffers(V)
           /\ Out \in Nat /\ Filled \in Nat
           /\ FirstUnpolled \in {0, 1}
           /\ Len(polled) \in Nat /\ Len(arrived) \in Nat
           /\ \A x \in Nat : SlotOf(V, x) \in NetSlot
<1>1. rx_avail.idx \in NetIndex /\ rx_used.idx \in NetIndex
      /\ last_used_idx \in NetIndex /\ card_idx \in NetIndex
  BY DEF NetTypeOK
<1>2. Out \in Nat /\ Filled \in Nat
  BY <1>1, NetAheadIs DEF Out, Filled
<1>3. rx_avail.ring \in Ring(V) /\ desc_id \in Buffers(V)
  BY NetSizes DEF NetTypeOK
<1>4. UsedIds \in Ring(V)
  BY NetSizes DEF NetTypeOK, UsedIds
<1>5. Len(polled) \in Nat /\ Len(arrived) \in Nat
  BY DEF NetTypeOK
<1>6. \A x \in Nat : SlotOf(V, x) \in NetSlot
  BY NetSizes, ModRange DEF SlotOf
<1>7. QED
  BY <1>1, <1>2, <1>3, <1>4, <1>5, <1>6, NetSizes DEF FirstUnpolled

LEMMA InitInvariant == Init => IInv
<1> SUFFICES ASSUME Init
             PROVE  IInv
  OBVIOUS
<1>1. NetInit
  BY DEF Init
<1>2. NetTypeOK
  <2>1. rx_buffers \in [NetSlot -> [1 .. BUFFER_SIZE -> Cell]]
    BY <1>1 DEF NetInit, Cell
  <2>2. rx_avail \in [ring : [NetSlot -> NetSlot], idx : NetIndex]
    BY <1>1, NetSizes DEF NetInit
  <2>3. rx_used \in [ring : [NetSlot -> [id : NetSlot, len : 0 .. BUFFER_SIZE]], idx : NetIndex]
    BY <1>1, NetSizes DEF NetInit
  <2>4. arrived \in Seq(Packet) /\ polled \in Seq(Int32)
    BY <1>1 DEF NetInit
  <2>5. /\ net_base \in BOOLEAN /\ last_used_idx = 0 /\ card_idx = 0 /\ net_pc = "idle"
        /\ desc_id = 0 /\ pkt_len = 0 /\ volume = 0 /\ card_held = {}
    BY <1>1 DEF NetInit
  <2>6. 0 \in NetIndex /\ 0 \in NetSlot /\ 0 \in 0 .. BUFFER_SIZE /\ 0 \in Int32
    BY NetSizes, Trunc32IsInt32
  <2>7. QED
    BY <2>6, <2>5, <2>3, <2>2, <2>4, <2>1 DEF NetTypeOK
<1>3. ASSUME net_base
      PROVE  Circulate /\ Waiting /\ Answered
  <2>1. /\ net_pc = "idle" /\ rx_avail.idx = V /\ card_idx = 0 /\ rx_used.idx = 0
        /\ last_used_idx = 0 /\ card_held = {} /\ rx_avail.ring = [s \in NetSlot |-> s]
        /\ arrived = << >> /\ polled = << >> /\ NetInHand = {} /\ FirstUnpolled = 0
    BY <1>1, <1>3 DEF NetInit, V, NetInHand, FirstUnpolled
  <2>2. Out = V /\ Filled = 0
    <3>1. Distance(NET_INDEX, V, 0) = V /\ Distance(NET_INDEX, 0, 0) = 0
      BY NetSizes, DistanceValue
    <3>2. QED
      BY <2>1, <3>1 DEF Out, Filled, NetAhead, Distance, SlotOf
  <2>3. \A k \in 0 .. V - 1 : At(V, rx_avail.ring, 0, k) = k
    <3>1. SUFFICES ASSUME NEW k \in 0 .. V - 1
                   PROVE  At(V, rx_avail.ring, 0, k) = k
      OBVIOUS
    <3>2. 0 + k = k /\ k % V = k /\ k \in NetSlot
      <4>1. V \in Nat \ {0} /\ NetSlot = 0 .. V - 1
        BY NetSizes
      <4>2. k % V = k
        BY <4>1, ModSmall
      <4>3. QED
        BY <4>1, <4>2
    <3>3. QED
      BY <2>1, <3>2 DEF At, SlotOf
  <2>4. Window(V, rx_avail.ring, 0, V) = Buffers(V) /\ NoneTwice(V, rx_avail.ring, 0, V)
    BY <2>3 DEF Window, NoneTwice, Buffers
  <2>5. Window(V, UsedIds, 0, 0) = {} /\ NoneTwice(V, UsedIds, 0, 0)
    BY DEF Window, NoneTwice
  <2>6. Owners(V, rx_avail.ring, 0, V, {}, UsedIds, 0, 0, {})
    <3>1. Cardinality({}) = 0 /\ V \in Nat
      BY FS_EmptySet, NetSizes
    <3>2. V + Cardinality({}) + 0 + Cardinality({}) = V
      BY <3>1
    <3>3. QED
      BY <2>4, <2>5, <3>2 DEF Owners, Apart
  <2>7. Circulate
    <3>1. last_used_idx + FirstUnpolled = 0 /\ Filled - FirstUnpolled = 0
      BY <2>1, <2>2
    <3>2. QED
      BY <2>1, <2>2, <2>6, <3>1 DEF Circulate
  <2>8. Waiting
    <3>1. Len(polled) = 0 /\ Len(arrived) = 0
      BY <2>1
    <3>2. \A k \in Nat : ~(k < Filled)
      BY <2>2
    <3>3. QED
      BY <2>1, <2>2, <3>1, <3>2 DEF Waiting
  <2>9. Answered
    BY <2>1 DEF Answered
  <2>10. QED
    BY <2>7, <2>8, <2>9
<1>4. ~net_base => NoCard
  BY <1>1 DEF NetInit, NoCard
<1>5. QED
  BY <1>2, <1>3, <1>4 DEF IInv

(***************************************************************************)
(* Types.                                                                  *)
(***************************************************************************)
\* What a step does to the ring.
NetStep ==
    \/ NetPollUsed \/ NetParse \/ NetGiveBack \/ NetPublish
    \/ CardTakes \/ \E d \in NetSlot, packet \in Packet : CardFills(d, packet)
    \/ UNCHANGED netVars

LEMMA StepIsNetStep == [Next]_vars => NetStep
BY DEF Next, MachineStep, NetStep, vars, EvalLiteral, EvalVar, EvalLambda, EvalOperands,
       EvalPollNothing, NetPollNothing, EvalPoll, EvalPollReturns, NextOperand, BodyReturns,
       ApplyArithmetic, ArithmeticPanics, ApplyRelation, Construct, Apply, Match, Let, LetRec,
       Unpack, Fault, Commit, ExecuteUnparsed, Execute, CardStep

LEMMA PacketFacts ==
    ASSUME NEW packet \in Packet
    PROVE  /\ Len(packet) \in 0 .. BUFFER_SIZE /\ Len(packet) \in Nat
           /\ \A i \in 1 .. Len(packet) : packet[i] \in Cell
<1>1. packet \in Seq(Cell) /\ Len(packet) <= BUFFER_SIZE
  BY NetAssumption
<1>2. QED
  BY <1>1, NetSizes

LEMMA RowFacts ==
    ASSUME NetTypeOK, NEW d \in NetSlot
    PROVE  Len(rx_buffers[d]) = BUFFER_SIZE
<1>1. rx_buffers[d] \in [1 .. BUFFER_SIZE -> Cell]
  BY DEF NetTypeOK
<1>2. QED
  BY <1>1, NetSizes

LEMMA StepKeepsNetTypes ==
    ASSUME NetTypeOK, NetStep
    PROVE  NetTypeOK'
<1>1. CASE NetPollUsed
  <2>1. OldestSlot \in NetSlot
    BY NetFacts, NetSizes DEF OldestSlot, SlotOf
  <2>2. rx_used.ring[OldestSlot] \in [id : NetSlot, len : 0 .. BUFFER_SIZE]
    BY <2>1 DEF NetTypeOK
  <2>3. QED
    BY <1>1, <2>2 DEF NetPollUsed, netCardVars, NetTypeOK
<1>2. CASE NetParse
  <2>1. desc_id \in NetSlot /\ pkt_len \in 0 .. BUFFER_SIZE
    BY DEF NetTypeOK
  <2>2. Volume(rx_buffers[desc_id], pkt_len) \in Int32
    <3>1. Len(rx_buffers[desc_id]) = BUFFER_SIZE
      BY <2>1, RowFacts
    <3>2. QED
      BY <2>1, <3>1, NetSizes, VolumeIsInt
  <2>3. NextIndex(last_used_idx) \in NetIndex
    BY NextIndexIs DEF NetTypeOK
  <2>4. volume' \in Int32 /\ polled' \in Seq(Int32)
    BY <1>2, <2>2 DEF NetParse, NetTypeOK
  <2>5. QED
    BY <1>2, <2>3, <2>4 DEF NetParse, netCardVars, NetTypeOK
<1>3. CASE NetGiveBack
  <2>1. rx_avail' = [rx_avail EXCEPT !.ring = [rx_avail.ring EXCEPT
                                                 ![rx_avail.idx % QUEUE_SIZE] = desc_id]]
    BY <1>3 DEF NetGiveBack
  <2>2. [rx_avail.ring EXCEPT ![rx_avail.idx % QUEUE_SIZE] = desc_id] \in [NetSlot -> NetSlot]
    BY DEF NetTypeOK
  <2>3. rx_avail' \in [ring : [NetSlot -> NetSlot], idx : NetIndex]
    BY <2>1, <2>2 DEF NetTypeOK
  <2>4. QED
    BY <1>3, <2>3 DEF NetGiveBack, netCardVars, NetTypeOK
<1>4. CASE NetPublish
  <2>1. NextIndex(rx_avail.idx) \in NetIndex
    BY NetFacts, NextIndexIs
  <2>2. rx_avail' \in [ring : [NetSlot -> NetSlot], idx : NetIndex]
    BY <1>4, <2>1 DEF NetPublish, NetTypeOK
  <2>3. QED
    BY <1>4, <2>2 DEF NetPublish, netCardVars, NetTypeOK
<1>5. CASE CardTakes
  <2>1. NextIndex(card_idx) \in NetIndex /\ card_idx % QUEUE_SIZE \in NetSlot
    BY NetFacts, NextIndexIs, NetSizes DEF SlotOf
  <2>2. rx_avail.ring[card_idx % QUEUE_SIZE] \in NetSlot
    BY <2>1 DEF NetTypeOK
  <2>3. QED
    BY <1>5, <2>1, <2>2 DEF CardTakes, netDriverVars, NetTypeOK
<1>6. ASSUME NEW d \in NetSlot, NEW packet \in Packet, CardFills(d, packet)
      PROVE  NetTypeOK'
  <2>1. NextIndex(rx_used.idx) \in NetIndex
    BY NetFacts, NextIndexIs
  <2>2. rx_buffers' \in [NetSlot -> [1 .. BUFFER_SIZE -> Cell]]
    <3> DEFINE row == [i \in 1 .. BUFFER_SIZE |-> IF i <= Len(packet) THEN packet[i]
                                                  ELSE rx_buffers[d][i]]
    <3>1. row \in [1 .. BUFFER_SIZE -> Cell]
      <4>1. rx_buffers[d] \in [1 .. BUFFER_SIZE -> Cell]
        BY DEF NetTypeOK
      <4>2. \A i \in 1 .. BUFFER_SIZE : i <= Len(packet) => i \in 1 .. Len(packet)
        BY PacketFacts
      <4>3. \A i \in 1 .. BUFFER_SIZE : i <= Len(packet) => packet[i] \in Cell
        BY <4>2, PacketFacts
      <4>4. QED
        BY <4>1, <4>3
    <3>2. rx_buffers' = [rx_buffers EXCEPT ![d] = row]
      BY <1>6 DEF CardFills
    <3> HIDE DEF row
    <3>3. QED
      BY <3>1, <3>2 DEF NetTypeOK
  <2>3. rx_used' \in [ring : [NetSlot -> [id : NetSlot, len : 0 .. BUFFER_SIZE]], idx : NetIndex]
    <3> DEFINE entry == [id |-> d, len |-> Len(packet)]
               ring == [rx_used.ring EXCEPT ![rx_used.idx % QUEUE_SIZE] = entry]
    <3>1. entry \in [id : NetSlot, len : 0 .. BUFFER_SIZE]
      BY PacketFacts
    <3>2. rx_used' = [ring |-> ring, idx |-> NextIndex(rx_used.idx)]
      BY <1>6 DEF CardFills
    <3>3. rx_used.ring \in [NetSlot -> [id : NetSlot, len : 0 .. BUFFER_SIZE]]
      BY DEF NetTypeOK
    <3> HIDE DEF entry
    <3>4. ring \in [NetSlot -> [id : NetSlot, len : 0 .. BUFFER_SIZE]]
      BY <3>1, <3>3
    <3> HIDE DEF ring
    <3>5. QED
      BY <2>1, <3>2, <3>4
  <2>4. arrived' \in Seq(Packet) /\ card_held' \subseteq NetSlot
    BY <1>6 DEF CardFills, NetTypeOK
  <2>5. QED
    BY <1>6, <2>2, <2>3, <2>4 DEF CardFills, netDriverVars, NetTypeOK
<1>7. CASE UNCHANGED netVars
  BY <1>7 DEF netVars, netDriverVars, netCardVars, NetTypeOK
<1>8. QED
  BY <1>1, <1>2, <1>3, <1>4, <1>5, <1>6, <1>7 DEF NetStep

(***************************************************************************)
(* Who has the buffers, and what is in those that wait.                    *)
(***************************************************************************)
LEMMA UsedKeeps ==
    ASSUME IInv, NetPollUsed
    PROVE  Circulate' /\ Waiting' /\ Answered'
<1>1. /\ net_pc = "idle" /\ net_pc' = "parse" /\ net_base /\ rx_used.idx # last_used_idx
      /\ desc_id' = rx_used.ring[OldestSlot].id /\ pkt_len' = rx_used.ring[OldestSlot].len
      /\ rx_avail' = rx_avail /\ rx_used' = rx_used /\ last_used_idx' = last_used_idx
      /\ card_idx' = card_idx /\ card_held' = card_held /\ rx_buffers' = rx_buffers
      /\ arrived' = arrived /\ polled' = polled
  BY DEF NetPollUsed, netCardVars
<1>2. NetTypeOK /\ Circulate /\ Waiting /\ Answered
  BY <1>1 DEF IInv
<1>3. /\ FirstUnpolled = 0 /\ FirstUnpolled' = 1 /\ Out' = Out /\ Filled' = Filled
      /\ UsedIds' = UsedIds /\ NetInHand = {} /\ NetInHand' = {desc_id'}
  BY <1>1 DEF FirstUnpolled, Out, Filled, UsedIds, NetInHand
<1>4. /\ Filled \in Nat /\ Filled > 0 /\ Out \in Nat /\ last_used_idx \in Nat /\ card_idx \in Nat
      /\ V \in Nat \ {0}
  BY <1>1, <1>2, NetFacts, NetAheadSteps, NetSizes DEF Filled
<1>5. last_used_idx + 0 = last_used_idx /\ Filled - 0 = Filled
  BY <1>4
<1>6. Owners(V, rx_avail.ring, card_idx, Out, card_held, UsedIds, last_used_idx, Filled, {})
  BY <1>2, <1>3, <1>5 DEF Circulate
<1>7. UsedEntry(last_used_idx) = rx_used.ring[OldestSlot] /\ OldestSlot \in NetSlot
  <2>1. SlotOf(V, last_used_idx) \in NetSlot
    BY <1>2, <1>4, NetFacts
  <2>2. QED
    BY <2>1, NetSizes DEF UsedEntry, SlotOf, OldestSlot
<1>8. At(V, UsedIds, last_used_idx, 0) = desc_id'
  BY <1>1, <1>5, <1>7, NetSizes DEF At, SlotOf, OldestSlot, UsedIds
<1>9. Owners(V, rx_avail.ring, card_idx, Out, card_held, UsedIds, last_used_idx + 1,
             Filled - 1, {desc_id'})
  <2>1. Owners(V, rx_avail.ring, card_idx, Out, card_held, UsedIds, last_used_idx + 1,
               Filled - 1, {At(V, UsedIds, last_used_idx, 0)})
    BY <1>4, <1>6, DriverTakesOldest
  <2>2. QED
    BY <1>8, <2>1
<1>10. Circulate'
  BY <1>1, <1>3, <1>4, <1>9 DEF Circulate
<1>11. Waiting'
  <2>1. \A k \in Nat : 1 <= k => 0 <= k
    OBVIOUS
  <2>2. \A k : UsedEntry(last_used_idx + k)' = UsedEntry(last_used_idx + k)
    BY <1>1 DEF UsedEntry
  <2>3. \A k \in Nat : 1 <= k /\ k < Filled =>
            Contains(UsedEntry(last_used_idx + k).id, UsedEntry(last_used_idx + k).len,
                     arrived[Len(polled) + 1 + k])
    BY <1>2, <1>3, <2>1 DEF Waiting
  <2>4. Contains(desc_id', pkt_len', arrived[Len(polled) + 1])
    <3>1. Len(polled) + 1 + 0 = Len(polled) + 1 /\ 0 \in Nat /\ 0 <= 0 /\ 0 < Filled
      BY <1>2, <1>4, NetFacts
    <3>2. Contains(UsedEntry(last_used_idx + 0).id, UsedEntry(last_used_idx + 0).len,
                   arrived[Len(polled) + 1 + 0])
      BY <1>2, <1>3, <3>1 DEF Waiting
    <3>3. QED
      BY <1>1, <1>5, <1>7, <3>1, <3>2
  <2>5. QED
    BY <1>1, <1>2, <1>3, <2>3, <2>4 DEF Waiting, Contains, UsedEntry
<1>12. Answered'
  BY <1>1, <1>2 DEF Answered
<1>13. QED
  BY <1>10, <1>11, <1>12

LEMMA ParseKeeps ==
    ASSUME IInv, NetParse
    PROVE  Circulate' /\ Waiting' /\ Answered'
<1>1. /\ net_pc = "parse" /\ net_pc' = "give_back" /\ last_used_idx' = NextIndex(last_used_idx)
      /\ polled' = Append(polled, Volume(rx_buffers[desc_id], pkt_len))
      /\ desc_id' = desc_id /\ rx_avail' = rx_avail /\ rx_used' = rx_used
      /\ card_idx' = card_idx /\ card_held' = card_held /\ rx_buffers' = rx_buffers
      /\ arrived' = arrived
  BY DEF NetParse, netCardVars
<1>2. NetTypeOK /\ Circulate /\ Waiting /\ Answered
  BY <1>1 DEF IInv, NoCard
<1>3. /\ FirstUnpolled = 1 /\ FirstUnpolled' = 0 /\ Out' = Out /\ UsedIds' = UsedIds
      /\ NetInHand' = NetInHand
  BY <1>1 DEF FirstUnpolled, Out, UsedIds, NetInHand
<1>4. /\ Filled \in Nat /\ Filled >= 1 /\ Out \in Nat /\ last_used_idx \in Nat /\ card_idx \in Nat
      /\ V \in Nat \ {0} /\ NET_INDEX \in Nat \ {0} /\ SlotOf(V, NET_INDEX) = 0
      /\ Len(polled) \in Nat /\ Len(arrived) \in Nat
  BY <1>2, <1>3, NetFacts, NetSizes DEF Circulate
<1>5. Filled' = Filled - 1
  <2>1. rx_used.idx # last_used_idx
    BY <1>2, <1>4, NetFacts, NetAheadSteps DEF Filled
  <2>2. QED
    BY <1>1, <1>2, <2>1, NetFacts, NetAheadSteps DEF Filled
<1>6. last_used_idx' = SlotOf(NET_INDEX, last_used_idx + 1) /\ last_used_idx' \in Nat
  BY <1>1, <1>2, NetFacts, NextIndexIs, NetSizes
<1>7. Owners(V, rx_avail.ring, card_idx, Out, card_held, UsedIds, last_used_idx',
             Filled - 1, NetInHand)
  <2> DEFINE j == last_used_idx + 1
             n == Filled - 1
  <2>1. j \in Nat /\ n \in Nat
    BY <1>4
  <2>2. Owners(V, rx_avail.ring, card_idx, Out, card_held, UsedIds, j, n, NetInHand)
    BY <1>2, <1>3 DEF Circulate
  <2> HIDE DEF j, n
  <2>3. Owners(V, rx_avail.ring, card_idx, Out, card_held, UsedIds, SlotOf(NET_INDEX, j), n,
               NetInHand)
    BY <1>4, <2>1, <2>2, OwnersWrap
  <2>4. QED
    BY <1>6, <2>3 DEF j, n
<1>8. Circulate'
  <2>1. last_used_idx' + 0 = last_used_idx'
    <3>1. \A x \in Nat : x + 0 = x
      OBVIOUS
    <3>2. QED
      BY <1>6, <3>1, Zenon
  <2>2. (Filled - 1) - 0 = Filled - 1 /\ 0 <= Filled - 1
    BY <1>4
  <2>3. QED
    BY <1>1, <1>3, <1>5, <1>7, <2>1, <2>2 DEF Circulate
<1>9. Len(polled') = Len(polled) + 1 /\ polled'[Len(polled) + 1] = Volume(rx_buffers[desc_id], pkt_len)
      /\ \A n \in 1 .. Len(polled) : polled'[n] = polled[n]
  BY <1>1, <1>2 DEF NetTypeOK
<1>10. Waiting'
  <2>1. ASSUME NEW k \in Nat, k < Filled - 1
        PROVE  Contains(UsedEntry(last_used_idx' + k).id, UsedEntry(last_used_idx' + k).len,
                        arrived[Len(polled') + 1 + k])
    <3>1. /\ k + 1 \in Nat /\ 1 <= k + 1 /\ k + 1 < Filled
          /\ last_used_idx + (k + 1) = (last_used_idx + 1) + k
          /\ Len(polled') + 1 + k = Len(polled) + 1 + (k + 1)
      <4>1. \A x, y \in Nat : x + (y + 1) = (x + 1) + y /\ (x + 1) + 1 + y = x + 1 + (y + 1)
        OBVIOUS
      <4>2. Len(polled') = Len(polled) + 1
        BY <1>9
      <4>3. Filled \in Nat /\ last_used_idx \in Nat /\ Len(polled) \in Nat
        BY <1>4
      <4>4. k + 1 \in Nat /\ 1 <= k + 1 /\ k + 1 < Filled
        BY <2>1, <4>3
      <4>5. QED
        BY <4>1, <4>2, <4>3, <4>4
    <3>2. SlotOf(V, last_used_idx' + k) = SlotOf(V, (last_used_idx + 1) + k)
      <4> DEFINE x == last_used_idx + 1
      <4>1. x \in Nat
        BY <1>4
      <4> HIDE DEF x
      <4>2. SlotOf(V, SlotOf(NET_INDEX, x) + k) = SlotOf(V, x + k)
        BY <1>4, <4>1, SlotWraps
      <4>3. QED
        BY <1>6, <4>2 DEF x
    <3>3. UsedEntry(last_used_idx' + k) = UsedEntry(last_used_idx + (k + 1))
      BY <3>1, <3>2 DEF UsedEntry
    <3>4. Contains(UsedEntry(last_used_idx + (k + 1)).id, UsedEntry(last_used_idx + (k + 1)).len,
                   arrived[Len(polled) + 1 + (k + 1)])
      BY <1>2, <1>3, <3>1 DEF Waiting
    <3>5. QED
      BY <3>1, <3>3, <3>4
  <2>2. Len(polled') + Filled' = Len(arrived)
    BY <1>2, <1>4, <1>5, <1>9 DEF Waiting
  <2>3. QED
    BY <1>1, <1>3, <1>5, <2>1, <2>2 DEF Waiting, Contains, UsedEntry
<1>11. Answered'
  <2> DEFINE n == Len(polled) + 1
             packet == arrived[n]
             buffer == rx_buffers[desc_id]
  <2>1. pkt_len = Len(packet) /\ \A i \in 1 .. Len(packet) : buffer[i] = packet[i]
    BY <1>1, <1>2 DEF Waiting, Contains
  <2>2. packet \in Packet /\ Len(buffer) = BUFFER_SIZE
    <3>1. n \in 1 .. Len(arrived)
      BY <1>2, <1>4 DEF Waiting
    <3>2. arrived \in Seq(Packet) /\ desc_id \in NetSlot
      BY <1>2 DEF NetTypeOK
    <3>3. packet \in Packet
      BY <3>1, <3>2
    <3>4. QED
      BY <1>2, <3>2, <3>3, RowFacts
  <2>3. Len(packet) \in Nat /\ Len(packet) <= BUFFER_SIZE /\ BUFFER_SIZE \in Nat
    BY <2>2, PacketFacts, NetSizes
  <2> HIDE DEF packet, buffer
  <2>4. Terminated(packet) => Volume(buffer, pkt_len) = Volume(packet, Len(packet))
    BY <2>1, <2>2, <2>3, VolumeOfPacket
  <2>5. ASSUME NEW m \in 1 .. Len(polled'), Terminated(arrived[m])
        PROVE  polled'[m] = Volume(arrived[m], Len(arrived[m]))
    <3>1. CASE m = n
      BY <1>9, <2>4, <2>5, <3>1 DEF packet, buffer
    <3>2. CASE m # n
      <4>1. m \in 1 .. Len(polled)
        BY <1>4, <1>9, <3>2
      <4>2. QED
        BY <1>2, <1>9, <2>5, <4>1 DEF Answered
    <3>3. QED
      BY <3>1, <3>2
  <2>6. QED
    BY <1>1, <2>5 DEF Answered
<1>12. QED
  BY <1>8, <1>10, <1>11

LEMMA GiveBackKeeps ==
    ASSUME IInv, NetGiveBack
    PROVE  Circulate' /\ Waiting' /\ Answered'
<1>1. /\ net_pc = "give_back" /\ net_pc' = "publish" /\ last_used_idx' = last_used_idx
      /\ rx_avail' = [rx_avail EXCEPT !.ring[rx_avail.idx % QUEUE_SIZE] = desc_id]
      /\ desc_id' = desc_id /\ rx_used' = rx_used /\ polled' = polled
      /\ card_idx' = card_idx /\ card_held' = card_held /\ rx_buffers' = rx_buffers
      /\ arrived' = arrived
  BY DEF NetGiveBack, netCardVars
<1>2. NetTypeOK /\ Circulate /\ Waiting /\ Answered
  BY <1>1 DEF IInv, NoCard
<1>3. rx_avail'.ring = [rx_avail.ring EXCEPT ![rx_avail.idx % QUEUE_SIZE] = desc_id]
      /\ rx_avail'.idx = rx_avail.idx
  BY <1>1, <1>2 DEF NetTypeOK
<1>4. /\ FirstUnpolled = 0 /\ FirstUnpolled' = 0 /\ Out' = Out /\ UsedIds' = UsedIds
      /\ NetInHand' = NetInHand /\ NetInHand = {desc_id} /\ Filled' = Filled
  BY <1>1, <1>3 DEF FirstUnpolled, Out, UsedIds, NetInHand, Filled
<1>5. /\ Filled \in Nat /\ Out \in Nat /\ last_used_idx \in Nat /\ card_idx \in Nat
      /\ V \in Nat \ {0} /\ rx_avail.ring \in Ring(V) /\ desc_id \in Buffers(V)
  BY <1>2, NetFacts, NetSizes
<1>6. last_used_idx + 0 = last_used_idx /\ Filled - 0 = Filled
  BY <1>5
<1>7. rx_avail'.ring = Put(V, rx_avail.ring, card_idx + Out, desc_id)
  <2>1. SlotOf(V, card_idx + Out) = SlotOf(V, rx_avail.idx)
    BY <1>2, NetFacts, NetAheadIs DEF Out
  <2>2. QED
    BY <1>3, <2>1, NetSizes DEF Put, SlotOf
<1>8. Owners(V, rx_avail.ring, card_idx, Out, card_held, UsedIds, last_used_idx, Filled, {desc_id})
  BY <1>2, <1>4, <1>6 DEF Circulate
<1>9. /\ Owners(V, rx_avail'.ring, card_idx, Out, card_held, UsedIds, last_used_idx, Filled,
                {desc_id})
      /\ At(V, rx_avail'.ring, card_idx, Out) = desc_id
  <2>1. /\ Owners(V, Put(V, rx_avail.ring, card_idx + Out, desc_id), card_idx, Out, card_held,
                  UsedIds, last_used_idx, Filled, {desc_id})
        /\ At(V, Put(V, rx_avail.ring, card_idx + Out, desc_id), card_idx, Out) = desc_id
    BY <1>5, <1>8, DriverGivesBack
  <2>2. QED
    BY <1>7, <2>1
<1>10. Circulate'
  BY <1>1, <1>2, <1>4, <1>6, <1>9 DEF Circulate
<1>11. Waiting'
  BY <1>1, <1>2, <1>4 DEF Waiting, Contains, UsedEntry
<1>12. Answered'
  BY <1>1, <1>2 DEF Answered
<1>13. QED
  BY <1>10, <1>11, <1>12

LEMMA PublishKeeps ==
    ASSUME IInv, NetPublish
    PROVE  Circulate' /\ Waiting' /\ Answered'
<1>1. /\ net_pc = "publish" /\ net_pc' = "idle" /\ last_used_idx' = last_used_idx
      /\ rx_avail' = [rx_avail EXCEPT !.idx = NextIndex(@)]
      /\ desc_id' = desc_id /\ rx_used' = rx_used /\ polled' = polled
      /\ card_idx' = card_idx /\ card_held' = card_held /\ rx_buffers' = rx_buffers
      /\ arrived' = arrived
  BY DEF NetPublish, netCardVars
<1>2. NetTypeOK /\ Circulate /\ Waiting /\ Answered
  BY <1>1 DEF IInv, NoCard
<1>3. rx_avail'.ring = rx_avail.ring /\ rx_avail'.idx = NextIndex(rx_avail.idx)
  BY <1>1, <1>2 DEF NetTypeOK
<1>4. /\ FirstUnpolled = 0 /\ FirstUnpolled' = 0 /\ UsedIds' = UsedIds
      /\ NetInHand' = {} /\ NetInHand = {desc_id} /\ Filled' = Filled
  BY <1>1 DEF FirstUnpolled, UsedIds, NetInHand, Filled
<1>5. /\ Filled \in Nat /\ Out \in Nat /\ last_used_idx \in Nat /\ card_idx \in Nat
      /\ V \in Nat \ {0} /\ rx_avail.ring \in Ring(V) /\ desc_id \in Buffers(V)
  BY <1>2, NetFacts, NetSizes
<1>6. last_used_idx + 0 = last_used_idx /\ Filled - 0 = Filled
  BY <1>5
<1>7. /\ Owners(V, rx_avail.ring, card_idx, Out, card_held, UsedIds, last_used_idx, Filled,
                {desc_id})
      /\ At(V, rx_avail.ring, card_idx, Out) = desc_id
  BY <1>1, <1>2, <1>4, <1>6 DEF Circulate
<1>8. /\ Owners(V, rx_avail.ring, card_idx, Out + 1, card_held, UsedIds, last_used_idx, Filled, {})
      /\ Out < V
  BY <1>5, <1>7, DriverPublishes
<1>9. Out' = Out + 1
  <2>1. Out + 1 < NET_INDEX
    BY <1>5, <1>8, NetSizes
  <2>2. QED
    BY <1>1, <1>2, <1>3, <2>1, NetFacts, NetAheadSteps DEF Out
<1>10. Circulate'
  BY <1>1, <1>2, <1>3, <1>4, <1>6, <1>8, <1>9 DEF Circulate
<1>11. Waiting'
  BY <1>1, <1>2, <1>4 DEF Waiting, Contains, UsedEntry
<1>12. Answered'
  BY <1>1, <1>2 DEF Answered
<1>13. QED
  BY <1>10, <1>11, <1>12

LEMMA TakesKeeps ==
    ASSUME IInv, CardTakes
    PROVE  IF net_base THEN Circulate' /\ Waiting' /\ Answered' ELSE FALSE
<1>1. /\ card_idx # rx_avail.idx /\ card_idx' = NextIndex(card_idx)
      /\ card_held' = card_held \cup {rx_avail.ring[card_idx % QUEUE_SIZE]}
      /\ net_pc' = net_pc /\ last_used_idx' = last_used_idx /\ rx_avail' = rx_avail
      /\ desc_id' = desc_id /\ pkt_len' = pkt_len /\ rx_used' = rx_used /\ polled' = polled
      /\ rx_buffers' = rx_buffers /\ arrived' = arrived
  BY DEF CardTakes, netDriverVars
<1>2. net_base
  BY <1>1 DEF IInv, NoCard
<1>3. NetTypeOK /\ Circulate /\ Waiting /\ Answered
  BY <1>2 DEF IInv
<1>4. FirstUnpolled' = FirstUnpolled /\ UsedIds' = UsedIds /\ NetInHand' = NetInHand
      /\ Filled' = Filled
  BY <1>1 DEF FirstUnpolled, UsedIds, NetInHand, Filled
<1>5. Out \in Nat /\ Out > 0 /\ Out' = Out - 1
  BY <1>1, <1>3, NetFacts, NetAheadSteps DEF Out
<1> DEFINE j == last_used_idx + FirstUnpolled
           n == Filled - FirstUnpolled
<1>6. /\ V \in Nat \ {0} /\ card_idx \in Nat /\ j \in Nat /\ n \in Nat
      /\ NET_INDEX \in Nat \ {0} /\ SlotOf(V, NET_INDEX) = 0
  <2>1. /\ card_idx \in Nat /\ last_used_idx \in Nat /\ Filled \in Nat /\ FirstUnpolled \in {0, 1}
        /\ FirstUnpolled <= Filled
    BY <1>3, NetFacts DEF Circulate
  <2>2. QED
    BY <2>1, NetSizes
<1>7. Owners(V, rx_avail.ring, card_idx, Out, card_held, UsedIds, j, n, NetInHand)
  BY <1>3 DEF Circulate
<1>8. card_held' = card_held \cup {At(V, rx_avail.ring, card_idx, 0)}
  <2>1. card_idx + 0 = card_idx
    BY <1>6
  <2>2. QED
    BY <1>1, <2>1, NetSizes DEF At, SlotOf
<1> HIDE DEF j, n
<1>9. Owners(V, rx_avail.ring, card_idx + 1, Out - 1, card_held', UsedIds, j, n, NetInHand)
  <2>1. Owners(V, rx_avail.ring, card_idx + 1, Out - 1,
               card_held \cup {At(V, rx_avail.ring, card_idx, 0)}, UsedIds, j, n, NetInHand)
    BY <1>5, <1>6, <1>7, DeviceTakesFirst
  <2>2. QED
    BY <1>8, <2>1
<1>10. Owners(V, rx_avail.ring, card_idx', Out - 1, card_held', UsedIds, j, n, NetInHand)
  <2>1. card_idx' = SlotOf(NET_INDEX, card_idx + 1)
    BY <1>1, <1>3, NetFacts, NextIndexIs
  <2> DEFINE i == card_idx + 1
             a == Out - 1
  <2>2. i \in Nat /\ a \in Nat
    BY <1>5, <1>6
  <2>3. Owners(V, rx_avail.ring, i, a, card_held', UsedIds, j, n, NetInHand)
    BY <1>9
  <2> HIDE DEF i, a
  <2>4. Owners(V, rx_avail.ring, SlotOf(NET_INDEX, i), a, card_held', UsedIds, j, n, NetInHand)
    BY <1>6, <2>2, <2>3, OwnersWrap
  <2>5. QED
    BY <2>1, <2>4 DEF i, a
<1>11. net_pc = "publish" => At(V, rx_avail.ring, card_idx', Out - 1) = desc_id
  <2>1. SlotOf(V, card_idx' + Out') = SlotOf(V, rx_avail.idx)
    BY <1>1, <1>3, NetFacts, NextIndexIs, NetAheadIs DEF Out
  <2>2. SlotOf(V, card_idx + Out) = SlotOf(V, rx_avail.idx)
    BY <1>3, NetFacts, NetAheadIs DEF Out
  <2>3. QED
    BY <1>3, <1>5, <2>1, <2>2 DEF Circulate, At
<1>12. Circulate'
  BY <1>1, <1>3, <1>4, <1>5, <1>10, <1>11 DEF Circulate, j, n
<1>13. Waiting'
  BY <1>1, <1>3, <1>4 DEF Waiting, Contains, UsedEntry
<1>14. Answered'
  BY <1>1, <1>3 DEF Answered
<1>15. QED
  BY <1>2, <1>12, <1>13, <1>14

\* The card never fills a buffer that the poll has in its hand or that waits to be polled.
LEMMA FillsApart ==
    ASSUME IInv, net_base, NEW d \in card_held
    PROVE  /\ ~(net_pc = "parse" /\ d = desc_id)
           /\ \A k \in Nat : FirstUnpolled <= k /\ k < Filled =>
                UsedEntry(last_used_idx + k).id # d
<1>1. NetTypeOK /\ Circulate
  BY DEF IInv
<1> DEFINE j == last_used_idx + FirstUnpolled
           n == Filled - FirstUnpolled
<1>2. Apart(Window(V, rx_avail.ring, card_idx, Out), card_held, Window(V, UsedIds, j, n), NetInHand)
  BY <1>1 DEF Circulate, Owners
<1>3. d \notin NetInHand /\ d \notin Window(V, UsedIds, j, n)
  BY <1>2 DEF Apart
<1>4. ASSUME NEW k \in Nat, FirstUnpolled <= k, k < Filled
      PROVE  UsedEntry(last_used_idx + k).id \in Window(V, UsedIds, j, n)
  <2>1. /\ FirstUnpolled \in {0, 1} /\ last_used_idx \in Nat /\ Filled \in Nat
        /\ \A x \in Nat : SlotOf(V, x) \in NetSlot
    BY <1>1, NetFacts
  <2>2. /\ k - FirstUnpolled \in 0 .. n - 1 /\ j + (k - FirstUnpolled) = last_used_idx + k
        /\ last_used_idx + k \in Nat
    BY <1>4, <2>1
  <2>3. At(V, UsedIds, j, k - FirstUnpolled) = UsedEntry(last_used_idx + k).id
    BY <2>1, <2>2 DEF At, UsedIds, UsedEntry
  <2> HIDE DEF j, n
  <2>4. QED
    BY <2>2, <2>3 DEF Window
<1>5. QED
  BY <1>3, <1>4 DEF NetInHand

LEMMA FillsKeeps ==
    ASSUME IInv, NEW d \in NetSlot, NEW packet \in Packet, CardFills(d, packet)
    PROVE  IF net_base THEN Circulate' /\ Waiting' /\ Answered' ELSE FALSE
<1> DEFINE entry == [id |-> d, len |-> Len(packet)]
<1>1. /\ d \in card_held /\ card_held' = card_held \ {d}
      /\ rx_buffers' = [rx_buffers EXCEPT ![d] =
            [i \in 1 .. BUFFER_SIZE |-> IF i <= Len(packet) THEN packet[i] ELSE @[i]]]
      /\ rx_used' = [ring |-> [rx_used.ring EXCEPT ![rx_used.idx % QUEUE_SIZE] = entry],
                     idx |-> NextIndex(rx_used.idx)]
      /\ net_pc' = net_pc /\ last_used_idx' = last_used_idx /\ rx_avail' = rx_avail
      /\ desc_id' = desc_id /\ pkt_len' = pkt_len /\ polled' = polled /\ card_idx' = card_idx
      /\ arrived' = Append(arrived, packet)
  BY DEF CardFills, netDriverVars
<1>2. net_base
  BY <1>1 DEF IInv, NoCard
<1>3. NetTypeOK /\ Circulate /\ Waiting /\ Answered
  BY <1>2 DEF IInv
<1>4. FirstUnpolled' = FirstUnpolled /\ NetInHand' = NetInHand /\ Out' = Out
  BY <1>1 DEF FirstUnpolled, NetInHand, Out
<1> DEFINE s == SlotOf(V, rx_used.idx)
<1>5. /\ rx_used'.ring = [rx_used.ring EXCEPT ![s] = entry]
      /\ rx_used'.idx = NextIndex(rx_used.idx) /\ s \in NetSlot
  <2>1. rx_used.idx % QUEUE_SIZE = s
    BY NetSizes DEF SlotOf
  <2>2. s \in NetSlot
    BY <1>3, NetFacts, NetAheadIs
  <2>3. QED
    BY <1>1, <2>1, <2>2
<1> HIDE DEF s
<1>6. /\ DOMAIN rx_used.ring = NetSlot /\ rx_used'.ring[s] = entry
      /\ \A x \in NetSlot : x # s => rx_used'.ring[x] = rx_used.ring[x]
  <2>1. rx_used.ring \in [NetSlot -> [id : NetSlot, len : 0 .. BUFFER_SIZE]]
    BY <1>3 DEF NetTypeOK
  <2> HIDE DEF entry
  <2>2. QED
    BY <1>5, <2>1
<1> DEFINE j == last_used_idx + FirstUnpolled
           n == Filled - FirstUnpolled
<1>7. /\ V \in Nat \ {0} /\ card_idx \in Nat /\ Out \in Nat /\ UsedIds \in Ring(V)
      /\ j \in Nat /\ n \in Nat /\ d \in Buffers(V) /\ Filled \in Nat /\ FirstUnpolled \in {0, 1}
      /\ last_used_idx \in Nat /\ Len(polled) \in Nat /\ Len(arrived) \in Nat
  <2>1. /\ card_idx \in Nat /\ Out \in Nat /\ UsedIds \in Ring(V) /\ Filled \in Nat
        /\ FirstUnpolled \in {0, 1} /\ last_used_idx \in Nat /\ FirstUnpolled <= Filled
        /\ Len(polled) \in Nat /\ Len(arrived) \in Nat
    BY <1>3, NetFacts DEF Circulate
  <2>2. j \in Nat /\ n \in Nat
    BY <2>1
  <2>3. QED
    BY <2>1, <2>2, NetSizes
<1>8. SlotOf(V, last_used_idx + Filled) = s
  BY <1>3, NetFacts, NetAheadIs DEF Filled, s
<1>9. UsedIds' = Put(V, UsedIds, j + n, d)
  <2>1. j + n = last_used_idx + Filled
    BY <1>7
  <2>2. UsedIds' = [x \in NetSlot |-> IF x = s THEN d ELSE rx_used.ring[x].id]
    BY <1>6 DEF UsedIds
  <2>3. QED
    BY <1>8, <2>1, <2>2 DEF Put, UsedIds
<1>10. Owners(V, rx_avail.ring, card_idx, Out, card_held, UsedIds, j, n, NetInHand)
  BY <1>3 DEF Circulate
<1>11. /\ Owners(V, rx_avail.ring, card_idx, Out, card_held \ {d}, UsedIds', j, n + 1, NetInHand)
       /\ n < V
  <2> HIDE DEF j, n
  <2>1. /\ Owners(V, rx_avail.ring, card_idx, Out, card_held \ {d}, Put(V, UsedIds, j + n, d),
                  j, n + 1, NetInHand)
        /\ n < V
    BY <1>1, <1>7, <1>10, DeviceReturns
  <2>2. QED
    BY <1>9, <2>1
<1>12. Filled < V
  <2> HIDE DEF j, n
  <2>1. /\ Cardinality(NetInHand) \in Nat
        /\ Out + Cardinality(card_held \ {d}) + (n + 1) + Cardinality(NetInHand) = V
        /\ Cardinality(card_held \ {d}) \in Nat
    <3>1. n + 1 \in Nat
      BY <1>7
    <3>2. Owners(V, rx_avail.ring, card_idx, Out, card_held \ {d}, UsedIds', j, n + 1, NetInHand)
      BY <1>11
    <3>3. QED
      BY <1>7, <3>1, <3>2, OwnersCount
  <2>2. FirstUnpolled <= Cardinality(NetInHand)
    <3>1. Cardinality({desc_id}) = 1 /\ Cardinality({}) = 0
      BY FS_Singleton, FS_EmptySet
    <3>2. QED
      BY <3>1 DEF FirstUnpolled, NetInHand
  <2>3. n + FirstUnpolled < V
    BY <1>7, <2>1, <2>2
  <2>4. QED
    BY <1>7, <2>3 DEF n
<1>13. Filled' = Filled + 1
  <2>1. Filled + 1 < NET_INDEX
    BY <1>7, <1>12, NetSizes
  <2>2. rx_used.idx' = NextIndex(rx_used.idx)
    BY <1>5
  <2>3. QED
    BY <1>1, <1>3, <2>1, <2>2, NetFacts, NetAheadSteps DEF Filled
<1>14. Circulate'
  <2>1. FirstUnpolled <= Filled + 1 /\ (Filled + 1) - FirstUnpolled = n + 1
    BY <1>3, <1>7 DEF Circulate
  <2>2. Owners(V, rx_avail.ring, card_idx, Out, card_held', UsedIds',
               last_used_idx + FirstUnpolled, (Filled + 1) - FirstUnpolled, NetInHand)
    BY <1>1, <1>11, <2>1
  <2>3. QED
    BY <1>1, <1>3, <1>4, <1>13, <2>1, <2>2 DEF Circulate
<1>15. /\ Len(arrived') = Len(arrived) + 1 /\ arrived'[Len(arrived) + 1] = packet
       /\ \A m \in 1 .. Len(arrived) : arrived'[m] = arrived[m]
  BY <1>1, <1>3 DEF NetTypeOK
<1>16. Len(arrived) = Len(polled) + Filled
  BY <1>3 DEF Waiting
<1>17. Waiting'
  <2>1. \A b \in NetSlot : b # d => rx_buffers'[b] = rx_buffers[b]
    BY <1>1, <1>3 DEF NetTypeOK
  <2>2. \A i \in 1 .. Len(packet) : rx_buffers'[d][i] = packet[i]
    <3>1. rx_buffers'[d] = [i \in 1 .. BUFFER_SIZE |-> IF i <= Len(packet) THEN packet[i]
                                                       ELSE rx_buffers[d][i]]
      BY <1>1, <1>3 DEF NetTypeOK
    <3>2. \A i \in 1 .. Len(packet) : i \in 1 .. BUFFER_SIZE /\ i <= Len(packet)
      BY PacketFacts, NetSizes
    <3>3. QED
      BY <3>1, <3>2
  <2>3. ASSUME NEW k \in Nat, FirstUnpolled <= k, k < Filled + 1
        PROVE  Contains(UsedEntry(last_used_idx + k).id, UsedEntry(last_used_idx + k).len,
                        arrived[Len(polled) + 1 + k])'
    <3>1. CASE k = Filled
      <4>1. UsedEntry(last_used_idx + k)' = entry
        BY <1>1, <1>6, <1>8, <3>1 DEF UsedEntry
      <4>2. Len(polled) + 1 + k = Len(arrived) + 1
        BY <1>7, <1>16, <3>1
      <4>3. arrived'[Len(polled) + 1 + k] = packet
        BY <1>15, <4>2
      <4>4. entry.id = d /\ entry.len = Len(packet)
        OBVIOUS
      <4>5. /\ UsedEntry(last_used_idx + k)'.id = d /\ UsedEntry(last_used_idx + k)'.len = Len(packet)
            /\ arrived[Len(polled) + 1 + k]' = packet
        BY <1>1, <4>1, <4>3, <4>4
      <4>6. QED
        BY <2>2, <4>5, Zenon DEF Contains
    <3>2. CASE k # Filled
      <4>1. k < Filled /\ last_used_idx + k \in Nat /\ Filled - k \in 1 .. V - 1
            /\ (last_used_idx + k) + (Filled - k) = last_used_idx + Filled
        BY <1>7, <1>12, <2>3, <3>2
      <4>2. SlotOf(V, last_used_idx + k) \in NetSlot /\ SlotOf(V, last_used_idx + k) # s
        <5>1. SlotOf(V, (last_used_idx + k) + (Filled - k)) # SlotOf(V, last_used_idx + k)
          BY <1>7, <4>1, SlotsDiffer, Zenon DEF SlotOf
        <5>2. SlotOf(V, last_used_idx + k) \in NetSlot
          BY <1>3, <4>1, NetFacts
        <5>3. QED
          BY <1>8, <4>1, <5>1, <5>2
      <4>3. UsedEntry(last_used_idx + k)' = UsedEntry(last_used_idx + k)
        BY <1>1, <1>6, <4>2 DEF UsedEntry
      <4>4. Contains(UsedEntry(last_used_idx + k).id, UsedEntry(last_used_idx + k).len,
                     arrived[Len(polled) + 1 + k])
        BY <1>3, <2>3, <4>1 DEF Waiting
      <4>5. UsedEntry(last_used_idx + k).id \in NetSlot /\ UsedEntry(last_used_idx + k).id # d
        <5>1. UsedEntry(last_used_idx + k).id # d
          BY <1>1, <1>2, <2>3, <4>1, FillsApart
        <5>2. UsedEntry(last_used_idx + k) \in [id : NetSlot, len : 0 .. BUFFER_SIZE]
          BY <1>3, <4>2 DEF UsedEntry, NetTypeOK
        <5>3. QED
          BY <5>1, <5>2
      <4>6. Len(polled) + 1 + k \in 1 .. Len(arrived)
        BY <1>7, <1>16, <4>1
      <4>7. arrived'[Len(polled) + 1 + k] = arrived[Len(polled) + 1 + k]
        BY <1>15, <4>6
      <4>8. rx_buffers'[UsedEntry(last_used_idx + k).id] = rx_buffers[UsedEntry(last_used_idx + k).id]
        BY <2>1, <4>5
      <4>9. QED
        BY <1>1, <4>3, <4>4, <4>7, <4>8 DEF Contains
    <3>3. QED
      BY <1>7, <2>3, <3>1, <3>2
  <2>4. net_pc = "parse" => Contains(desc_id, pkt_len, arrived[Len(polled) + 1])'
    <3>1. SUFFICES ASSUME net_pc = "parse"
                   PROVE  Contains(desc_id, pkt_len, arrived[Len(polled) + 1])'
      OBVIOUS
    <3>2. desc_id # d /\ desc_id \in NetSlot
      BY <1>1, <1>2, <1>3, <3>1, FillsApart DEF NetTypeOK
    <3>3. Len(polled) + 1 \in 1 .. Len(arrived)
      BY <1>3, <1>7, <1>16, <3>1 DEF Circulate, FirstUnpolled
    <3>4. arrived'[Len(polled) + 1] = arrived[Len(polled) + 1]
      BY <1>15, <3>3
    <3>5. rx_buffers'[desc_id] = rx_buffers[desc_id]
      BY <2>1, <3>2
    <3>6. QED
      BY <1>1, <1>3, <3>1, <3>4, <3>5 DEF Waiting, Contains
  <2>5. Len(polled) + (Filled + 1) = Len(arrived')
    BY <1>7, <1>15, <1>16
  <2>6. QED
    BY <1>1, <1>4, <1>13, <2>3, <2>4, <2>5 DEF Waiting
<1>18. Answered'
  <2>1. \A m \in 1 .. Len(polled) : arrived'[m] = arrived[m]
    BY <1>7, <1>15, <1>16
  <2>2. QED
    BY <1>1, <1>3, <2>1 DEF Answered
<1>19. QED
  BY <1>2, <1>14, <1>17, <1>18

LEMMA StepInvariant == IInv /\ [Next]_vars => IInv'
<1> SUFFICES ASSUME IInv, [Next]_vars
             PROVE  IInv'
  OBVIOUS
<1>1. NetStep /\ NetTypeOK'
  BY StepIsNetStep, StepKeepsNetTypes DEF IInv
<1>2. CASE NetPollUsed
  BY <1>1, <1>2, UsedKeeps DEF NetPollUsed, IInv
<1>3. CASE NetParse
  BY <1>1, <1>3, ParseKeeps DEF NetParse, IInv, NoCard
<1>4. CASE NetGiveBack
  BY <1>1, <1>4, GiveBackKeeps DEF NetGiveBack, IInv, NoCard
<1>5. CASE NetPublish
  BY <1>1, <1>5, PublishKeeps DEF NetPublish, IInv, NoCard
<1>6. CASE CardTakes
  BY <1>1, <1>6, TakesKeeps DEF CardTakes, IInv
<1>7. ASSUME NEW d \in NetSlot, NEW packet \in Packet, CardFills(d, packet)
      PROVE  IInv'
  <2>1. net_base' = net_base
    BY <1>7 DEF CardFills
  <2>2. net_base /\ Circulate' /\ Waiting' /\ Answered'
    BY <1>7, FillsKeeps
  <2>3. QED
    BY <1>1, <2>1, <2>2 DEF IInv
<1>8. CASE UNCHANGED netVars
  <2>1. /\ net_base' = net_base /\ rx_avail' = rx_avail /\ last_used_idx' = last_used_idx
        /\ net_pc' = net_pc /\ desc_id' = desc_id /\ pkt_len' = pkt_len /\ polled' = polled
        /\ rx_buffers' = rx_buffers /\ rx_used' = rx_used /\ card_idx' = card_idx
        /\ card_held' = card_held /\ arrived' = arrived
    BY <1>8 DEF netVars, netDriverVars, netCardVars
  <2>2. /\ Out' = Out /\ Filled' = Filled /\ FirstUnpolled' = FirstUnpolled
        /\ UsedIds' = UsedIds /\ NetInHand' = NetInHand
    BY <2>1 DEF Out, Filled, FirstUnpolled, UsedIds, NetInHand
  <2>3. net_base => Circulate' /\ Waiting' /\ Answered'
    BY <2>1, <2>2 DEF IInv, Circulate, Waiting, Answered, Contains, UsedEntry
  <2>4. ~net_base => NoCard'
    BY <2>1 DEF IInv, NoCard
  <2>5. QED
    BY <1>1, <2>1, <2>3, <2>4 DEF IInv
<1>9. QED
  BY <1>1, <1>2, <1>3, <1>4, <1>5, <1>6, <1>7, <1>8 DEF NetStep

LEMMA Invariance == Spec => []IInv
  BY InitInvariant, StepInvariant, PTL DEF Spec

(***************************************************************************)
(* The results.                                                            *)
(***************************************************************************)
LEMMA OneOwner == IInv => RxBuffersHaveOneOwner
<1> SUFFICES ASSUME IInv, net_base
             PROVE  RxBuffersHaveOneOwner
  BY DEF RxBuffersHaveOneOwner
<1>1. NetTypeOK /\ Circulate
  BY DEF IInv
<1> DEFINE j == last_used_idx + FirstUnpolled
           n == Filled - FirstUnpolled
<1>2. /\ Out \in Nat /\ Filled \in Nat /\ FirstUnpolled \in {0, 1} /\ last_used_idx \in Nat
      /\ n \in Nat /\ \A x \in Nat : SlotOf(V, x) \in NetSlot
  BY <1>1, NetFacts DEF Circulate
<1>3. {AvailableAt(k) : k \in 0 .. Out - 1} = Window(V, rx_avail.ring, card_idx, Out)
  BY NetSizes DEF AvailableAt, Window, At, SlotOf
<1>4. {UnpolledAt(k) : k \in FirstUnpolled .. Filled - 1} = Window(V, UsedIds, j, n)
  <2>1. \A k \in FirstUnpolled .. Filled - 1 :
            /\ k - FirstUnpolled \in 0 .. n - 1
            /\ UnpolledAt(k) = At(V, UsedIds, j, k - FirstUnpolled)
    <3> TAKE k \in FirstUnpolled .. Filled - 1
    <3>1. /\ k - FirstUnpolled \in 0 .. n - 1 /\ j + (k - FirstUnpolled) = last_used_idx + k
          /\ last_used_idx + k \in Nat
      BY <1>2
    <3>2. SlotOf(V, last_used_idx + k) \in NetSlot
      BY <1>2, <3>1
    <3>3. UnpolledAt(k) = At(V, UsedIds, j, k - FirstUnpolled)
      BY <3>1, <3>2, NetSizes DEF UnpolledAt, At, UsedIds, SlotOf
    <3>4. QED
      BY <3>1, <3>3
  <2>2. \A k \in 0 .. n - 1 : /\ k + FirstUnpolled \in FirstUnpolled .. Filled - 1
                              /\ (k + FirstUnpolled) - FirstUnpolled = k
    BY <1>2
  <2> HIDE DEF j, n
  <2>3. \A k \in 0 .. n - 1 : UnpolledAt(k + FirstUnpolled) = At(V, UsedIds, j, k)
    BY <2>1, <2>2
  <2>4. QED
    BY <2>1, <2>2, <2>3 DEF Window
<1>5. Owners(V, rx_avail.ring, card_idx, Out, card_held, UsedIds, j, n, NetInHand)
  BY <1>1 DEF Circulate
<1>6. Buffers(V) = NetSlot /\ V = QUEUE_SIZE
  BY NetSizes
<1> HIDE DEF j
<1>7. QED
  BY <1>3, <1>4, <1>5, <1>6, Zenon DEF Owners, RxBuffersHaveOneOwner, Out, Filled, n

\* Whatever contracts poll and whenever the card works, each buffer is available, with
\* the card, waiting, or being read, and never two of these: for every number of
\* buffers and wherever the 16-bit indices wrap.
THEOREM NetBuffersHaveOneOwner == Spec => []RxBuffersHaveOneOwner
  BY Invariance, OneOwner, PTL

\* The n-th packet that POLL finds is the n-th that arrived, and the volume is read from
\* that packet alone when a character follows it: whatever older packets have left in
\* the buffer, and however many packets wait.
THEOREM PollsAnswerInOrder == Spec => []PolledInOrderOfArrival
<1>1. IInv => PolledInOrderOfArrival
  <2>1. SUFFICES ASSUME IInv
                 PROVE  PolledInOrderOfArrival
    OBVIOUS
  <2>2. NetTypeOK
    BY <2>1 DEF IInv
  <2>3. Len(polled) \in Nat /\ Len(arrived) \in Nat /\ Filled \in Nat
    BY <2>2, NetFacts
  <2>4. CASE net_base
    BY <2>1, <2>3, <2>4 DEF IInv, Waiting, Answered, PolledInOrderOfArrival, Filled
  <2>5. CASE ~net_base
    BY <2>1, <2>5 DEF IInv, NoCard, PolledInOrderOfArrival
  <2>6. QED
    BY <2>4, <2>5
<1>2. QED
  BY <1>1, Invariance, PTL

(***************************************************************************)
(* A card without buffers.                                                 *)
(***************************************************************************)
DryCard == net_base /\ card_held = {} /\ card_idx = rx_avail.idx

\* The steps of a poll until it publishes a buffer.
ToRefill ==
    CASE net_pc = "idle" -> 4 [] net_pc = "parse" -> 3
      [] net_pc = "give_back" -> 2 [] net_pc = "publish" -> 1

LEMMA NoDistance ==
    ASSUME NEW i \in NetIndex
    PROVE  NetAhead(i, i) = 0
<1>1. NET_INDEX \in Nat \ {0} /\ i \in 0 .. NET_INDEX - 1 /\ i \in Nat
  BY NetSizes
<1>2. Distance(NET_INDEX, i, i) = IF i >= i THEN i - i ELSE i + NET_INDEX - i
  BY <1>1, DistanceValue
<1>3. NetAhead(i, i) = Distance(NET_INDEX, i, i)
  BY DEF NetAhead, Distance, SlotOf
<1>4. QED
  BY <1>1, <1>2, <1>3

LEMMA NextIsOther ==
    ASSUME NEW i \in NetIndex
    PROVE  NextIndex(i) # i
<1>1. NET_INDEX \in Nat \ {0, 1} /\ i \in Nat /\ i < NET_INDEX
  BY NetSizes
<1>2. SlotOf(NET_INDEX, i + 1) = IF i + 1 = NET_INDEX THEN 0 ELSE i + 1
  BY <1>1, NextIndexValue
<1>3. QED
  BY <1>1, <1>2, NextIndexIs

\* All buffers wait to be polled then.
LEMMA DryCardHasReceived ==
    ASSUME IInv, DryCard, net_pc = "idle"
    PROVE  rx_used.idx # last_used_idx
<1>1. NetTypeOK /\ RxBuffersHaveOneOwner /\ net_base
  BY OneOwner DEF IInv, DryCard
<1>2. rx_avail.idx \in NetIndex /\ last_used_idx \in NetIndex
  BY <1>1, NetFacts
<1>3. NetAhead(rx_avail.idx, card_idx) = 0
  BY <1>2, NoDistance DEF DryCard
<1>4. Cardinality(card_held) = 0 /\ Cardinality(NetInHand) = 0 /\ FirstUnpolled = 0
  BY FS_EmptySet DEF DryCard, NetInHand, FirstUnpolled
<1>5. SUFFICES ASSUME rx_used.idx = last_used_idx
               PROVE  FALSE
  OBVIOUS
<1>6. NetAhead(rx_used.idx, last_used_idx) = 0
  BY <1>2, <1>5, NoDistance
<1>7. 0 + 0 + (0 - 0) + 0 = QUEUE_SIZE
  BY <1>1, <1>3, <1>4, <1>6 DEF RxBuffersHaveOneOwner
<1>8. QED
  BY <1>7, NetSizes

LEMMA DryCardStep ==
    ASSUME IInv, DryCard, [Next]_vars
    PROVE  ~EvalPollNothing /\ (UNCHANGED netVars \/ ~DryCard' \/ ToRefill' < ToRefill)
<1>1. ~NetPollNothing
  BY DryCardHasReceived DEF NetPollNothing, DryCard
<1>2. ~CardTakes /\ ~ \E d \in NetSlot, packet \in Packet : CardFills(d, packet)
  BY DEF DryCard, CardTakes, CardFills
<1>3. NetStep
  BY StepIsNetStep
<1>4. CASE NetPublish
  <2>1. /\ rx_avail.idx \in NetIndex /\ card_idx' = card_idx
        /\ rx_avail'.idx = NextIndex(rx_avail.idx)
    BY <1>4 DEF NetPublish, netCardVars, IInv, NetTypeOK
  <2>2. NextIndex(rx_avail.idx) # rx_avail.idx
    BY <2>1, NextIsOther
  <2>3. QED
    BY <1>1, <2>1, <2>2 DEF DryCard, EvalPollNothing
<1>5. CASE NetPollUsed \/ NetParse \/ NetGiveBack
  BY <1>1, <1>5 DEF NetPollUsed, NetParse, NetGiveBack, ToRefill, EvalPollNothing
<1>6. QED
  BY <1>1, <1>2, <1>3, <1>4, <1>5 DEF NetStep, EvalPollNothing

\* A card that has no buffer gets one from the next contract that asks for POLL: the
\* poll finds a packet, never nothing, and each of its steps brings it closer to handing
\* the buffer of that packet out, wherever the 16-bit indices wrap.
THEOREM DryCardGetsOn ==
    Spec => [][DryCard => /\ ~EvalPollNothing
                          /\ UNCHANGED netVars \/ ~DryCard' \/ ToRefill' < ToRefill]_vars
<1>1. IInv /\ [Next]_vars =>
        [DryCard => /\ ~EvalPollNothing
                    /\ UNCHANGED netVars \/ ~DryCard' \/ ToRefill' < ToRefill]_vars
  BY DryCardStep
<1>2. QED
  BY <1>1, Invariance, PTL DEF Spec

(***************************************************************************)
(* Type correctness of the machine, for every contract.  What a machine    *)
(* holds is finite in every state, yet nothing bounds it beforehand: a     *)
(* value may be a closure over an environment of values.  So the invariant *)
(* says that there is a set of values, closed under taking parts, that     *)
(* holds everything the machine holds: a step may have to enlarge it.      *)
(***************************************************************************)
\* Environments of values in W.
Env(W) == UNION {[D -> W] : D \in SUBSET Name}

\* What a value is made of: numbers, other values of W, or a body and its environment.
IsValue(W, v) ==
    \/ v.tag = "int" /\ v.n \in Int64
    \/ v.tag = "float"
    \/ v.tag = "pair" /\ v.parts \in Seq(W) /\ Len(v.parts) = 2
    \/ v.tag \in {"left", "right"} /\ v.parts \in Seq(W) /\ Len(v.parts) = 1
    \/ /\ v.tag = "closure"
       /\ v = [tag |-> v.tag, param |-> v.param, body |-> v.body, env |-> v.env,
               rec |-> v.rec]
       /\ v.param \in Name /\ v.rec \in Name \cup {""}
       /\ v.body \in IrNode /\ v.env \in Env(W)

\* A set of values that holds the parts of its values.
Values(W) == \A v \in W : IsValue(W, v)

HasBody == {"app", "match", "let", "letrec", "unpack"}

Frames(W) == [node : IrNode, env : Env(W), done : Seq(W)]

\* An activation waits for one of its operands, or for its body.
Waits(f) ==
    /\ Len(f.done) <= Operands(f.node.op)
    /\ Len(f.done) = Operands(f.node.op) => f.node.op \in HasBody

\* W holds what the machine holds.
Over(W) ==
    /\ Values(W) /\ value \in W /\ env \in Env(W)
    /\ stack \in Seq(Frames(W))
    /\ \A k \in 1 .. Len(stack) : Waits(stack[k])

\* What needs no set of values to be said.  The stack is full only in an overrun, since
\* an evaluation that is over its end does not run.
Plain ==
    /\ pc \in {"idle", "running", "overrun", "panic"}
    /\ mode \in {"eval", "ok", "err"} /\ error \in Error
    /\ program \in IrNode \cup {NoProgram} /\ node \in IrNode \cup {NoProgram}
    /\ pc = "running" /\ mode = "eval" => node \in IrNode
    /\ Len(stack) <= MAX_DEPTH
    /\ pc = "running" => Len(stack) < MAX_DEPTH
    /\ mode = "err" => stack = << >>
    /\ out_buf.kind \in {"none", "matched", "fault"}
    /\ ledger \in Seq(Int32) /\ seen \in Seq(Int32)
    /\ executions \in 0 .. MaxExecutions

MachineInv == NetTypeOK /\ Plain /\ \E W : Over(W)

LEMMA Sizes ==
    /\ HALF \in Nat /\ HALF > 1000 /\ HALF >= HALF32 /\ HALF32 \in Nat \ {0}
    /\ MAX_DEPTH \in Nat \ {0} /\ MaxExecutions \in Nat
    /\ Int32 \subseteq Int64
<1>1. HALF32 \in Nat \ {0}
  BY NetAssumption
<1>2. QED
  BY <1>1, MachineAssumption DEF Int32, Int64

(***************************************************************************)
(* Trees.                                                                  *)
(***************************************************************************)
LEMMA SeqElement ==
    ASSUME NEW S, NEW s \in Seq(S)
    PROVE  \A k \in 1 .. Len(s) : s[k] \in S
OBVIOUS

LEMMA TreeFacts ==
    ASSUME NEW e \in IrNode
    PROVE  /\ e.op \in Kind /\ e.names \in Seq(Name) /\ e.sub \in Seq(IrNode)
           /\ Len(e.names) = Names(e.op) /\ Len(e.sub) = Subtrees(e.op)
           /\ e.op = "int" => e.n \in Int64
           /\ \A k \in 1 .. Names(e.op) : e.names[k] \in Name
           /\ \A k \in 1 .. Subtrees(e.op) : e.sub[k] \in IrNode
<1>1. IsIrNode(e)
  BY ContractAssumption
<1>2. \A k \in 1 .. Names(e.op) : e.names[k] \in Name
  <2>1. e.names \in Seq(Name)
    BY <1>1 DEF IsIrNode
  <2>2. QED
    BY <1>1, <2>1, SeqElement DEF IsIrNode
<1>3. \A k \in 1 .. Subtrees(e.op) : e.sub[k] \in IrNode
  <2>1. e.sub \in Seq(IrNode)
    BY <1>1 DEF IsIrNode
  <2>2. QED
    BY <1>1, <2>1, SeqElement DEF IsIrNode
<1>4. QED
  BY <1>1, <1>2, <1>3 DEF IsIrNode

\* How many operands and subtrees each kind of node has.
LEMMA KindFacts ==
    ASSUME NEW op \in Kind
    PROVE  /\ Operands(op) \in {0, 1, 2} /\ Operands(op) <= Subtrees(op)
           /\ Subtrees(op) \in 0 .. 3 /\ Names(op) \in 0 .. 2
           /\ op \in Arithmetic \cup Relation \cup {"pair", "app"} => Operands(op) = 2
           /\ op \in {"left", "right", "match", "let", "letrec", "unpack"} => Operands(op) = 1
           /\ op \in {"int", "float", "var", "lambda"} <=> Operands(op) = 0
           /\ op = "match" => Subtrees(op) = 3 /\ Names(op) = 2
           /\ op \in {"let", "letrec"} => Subtrees(op) = 2 /\ Names(op) = 1
           /\ op = "unpack" => Subtrees(op) = 2 /\ Names(op) = 2
           /\ op = "lambda" => Subtrees(op) = 1 /\ Names(op) = 1
           /\ op = "var" => Names(op) = 1
  BY DEF Kind, Operands, Subtrees, Names, Arithmetic, Relation

(***************************************************************************)
(* Values and environments.                                                *)
(***************************************************************************)
LEMMA MoreEnv ==
    ASSUME NEW W, NEW X, W \subseteq X
    PROVE  /\ Env(W) \subseteq Env(X) /\ Seq(W) \subseteq Seq(X)
           /\ Seq(Frames(W)) \subseteq Seq(Frames(X))
<1>1. ASSUME NEW e \in Env(W)
      PROVE  e \in Env(X)
  <2>1. PICK D \in SUBSET Name : e \in [D -> W]
    BY DEF Env
  <2>2. e \in [D -> X]
    BY <2>1
  <2>3. QED
    BY <2>2 DEF Env
<1>2. Seq(W) \subseteq Seq(X)
  OBVIOUS
<1>3. Frames(W) \subseteq Frames(X)
  BY <1>1, <1>2 DEF Frames
<1>4. QED
  BY <1>1, <1>2, <1>3

LEMMA BindIsEnv ==
    ASSUME NEW W, NEW e \in Env(W), NEW name \in Name, NEW v \in W
    PROVE  Bind(e, name, v) \in Env(W)
<1>1. PICK D \in SUBSET Name : e \in [D -> W]
  BY DEF Env
<1>2. Bind(e, name, v) \in [D \cup {name} -> W]
  BY <1>1 DEF Bind
<1>3. QED
  BY <1>2 DEF Env

LEMMA EnvValue ==
    ASSUME NEW W, NEW e \in Env(W), NEW name \in DOMAIN e
    PROVE  e[name] \in W
BY DEF Env

LEMMA AddValue ==
    ASSUME NEW W, Values(W), NEW v, IsValue(W, v)
    PROVE  Values(W \cup {v})
<1> DEFINE X == W \cup {v}
<1>1. Env(W) \subseteq Env(X) /\ Seq(W) \subseteq Seq(X)
  BY MoreEnv
<1> HIDE DEF X
<1>2. \A u : IsValue(W, u) => IsValue(X, u)
  BY <1>1 DEF IsValue
<1>3. QED
  BY <1>2 DEF Values, X

LEMMA IntOf ==
    ASSUME NEW W, Values(W), NEW v \in W, v.tag = "int"
    PROVE  v.n \in Int64
<1>1. IsValue(W, v)
  BY DEF Values
<1>2. QED
  BY <1>1 DEF IsValue

LEMMA WrapIsInt64 == \A x \in Int : Wrap(x) \in Int64
<1>1. HALF \in Nat \ {0}
  BY Sizes
<1>2. SUFFICES ASSUME NEW x \in Int
               PROVE  Wrap(x) \in Int64
  OBVIOUS
<1>3. 2 * HALF \in Nat \ {0} /\ x + HALF \in Int
  BY <1>1
<1>4. (x + HALF) % (2 * HALF) \in 0 .. 2 * HALF - 1
  BY <1>3
<1>5. QED
  BY <1>1, <1>4 DEF Wrap, Int64

LEMMA QuotientIsInt64 ==
    ASSUME NEW a \in Int64, NEW b \in Int64, b # 0, ~(a = -HALF /\ b = -1)
    PROVE  Quotient(a, b) \in Int64
<1> DEFINE abs(x) == IF x < 0 THEN -x ELSE x
<1>1. HALF \in Nat /\ a \in Int /\ b \in Int
  BY Sizes DEF Int64
<1>2. abs(a) \in Nat /\ abs(b) \in Nat \ {0} /\ abs(a) <= HALF
  BY <1>1 DEF Int64
<1> DEFINE q == abs(a) \div abs(b)
<1>3. \A m \in Nat, n \in Nat \ {0} : m \div n \in Nat /\ m \div n <= m
  OBVIOUS
<1>4. \A m \in Nat, n \in Nat \ {0} : n >= 2 /\ m >= 1 => m \div n < m
  OBVIOUS
<1>5. Quotient(a, b) = IF (a < 0) = (b < 0) THEN q ELSE -q
  BY DEF Quotient
<1>6. q \in Nat /\ q <= HALF
  <2> HIDE DEF abs
  <2>1. q \in Nat /\ q <= abs(a)
    BY <1>2, <1>3
  <2>2. abs(a) \in Nat
    BY <1>2
  <2> HIDE DEF q
  <2>3. QED
    BY <1>1, <1>2, <2>1, <2>2
<1>7. (a < 0) = (b < 0) => q < HALF
  <2>1. SUFFICES ASSUME (a < 0) = (b < 0), q = HALF
                 PROVE  FALSE
    BY <1>1, <1>6
  <2>2. abs(a) = HALF
    <3> HIDE DEF abs
    <3>1. q <= abs(a)
      BY <1>2, <1>3
    <3> HIDE DEF q
    <3>2. QED
      BY <1>1, <1>2, <2>1, <3>1
  <2>3. a = -HALF /\ b < 0
    BY <1>1, <2>1, <2>2 DEF Int64
  <2>4. abs(b) >= 2 /\ abs(a) >= 1
    BY <1>1, <2>2, <2>3, Sizes
  <2>5. q < abs(a)
    <3> HIDE DEF abs
    <3>1. QED
      BY <1>2, <1>4, <2>4
  <2>6. QED
    BY <1>1, <2>1, <2>2, <2>5
<1> HIDE DEF q
<1>8. QED
  BY <1>1, <1>5, <1>6, <1>7 DEF Int64

LEMMA CalculatedIsInt64 ==
    ASSUME NEW op \in Arithmetic, NEW a \in Int64, NEW b \in Int64,
           op = "div" => b # 0 /\ ~(a = -HALF /\ b = -1)
    PROVE  Calculate(op, a, b) \in Int64
<1>1. a \in Int /\ b \in Int
  BY Sizes DEF Int64
<1>2. a + b \in Int /\ a - b \in Int /\ a * b \in Int
  BY <1>1
<1>3. Wrap(a + b) \in Int64 /\ Wrap(a - b) \in Int64 /\ Wrap(a * b) \in Int64
  BY <1>2, WrapIsInt64
<1>4. op = "div" => Quotient(a, b) \in Int64
  BY QuotientIsInt64
<1>5. QED
  BY <1>3, <1>4 DEF Calculate, Arithmetic

(***************************************************************************)
(* The three things an activation does: it calls, returns or fails.        *)
(***************************************************************************)
AllWait(frames) == \A k \in 1 .. Len(frames) : Waits(frames[k])

LEMMA EvaluateKeeps ==
    ASSUME NEW W, Over(W), Plain, pc = "running",
           NEW n \in IrNode, NEW e \in Env(W), NEW frames \in Seq(Frames(W)),
           AllWait(frames), Len(frames) <= MAX_DEPTH,
           Evaluate(n, e, frames), UNCHANGED <<hostVars, seen>>, NetTypeOK'
    PROVE  MachineInv'
<1>1. /\ mode' = "eval" /\ node' = n /\ env' = e /\ stack' = frames /\ value' = value
      /\ error' = error
      /\ pc' = IF Len(frames) < MAX_DEPTH THEN "running" ELSE "overrun"
      /\ program' = program /\ out_buf' = out_buf /\ ledger' = ledger
      /\ executions' = executions /\ seen' = seen
  BY DEF Evaluate, hostVars
<1>2. Over(W)'
  BY <1>1 DEF Over, AllWait
<1>3. Plain'
  BY <1>1 DEF Plain
<1>4. QED
  BY <1>2, <1>3 DEF MachineInv

LEMMA OkKeeps ==
    ASSUME NEW W, Over(W), Plain, pc = "running",
           NEW v, IsValue(W, v), NEW frames \in Seq(Frames(W)),
           AllWait(frames), Len(frames) <= Len(stack),
           Ok(v, frames), UNCHANGED hostVars, seen' \in Seq(Int32), NetTypeOK'
    PROVE  MachineInv'
<1>1. /\ mode' = "ok" /\ node' = node /\ env' = env /\ stack' = frames /\ value' = v
      /\ error' = error /\ pc' = pc /\ program' = program
      /\ out_buf' = out_buf /\ ledger' = ledger /\ executions' = executions
  BY DEF Ok, hostVars
<1> DEFINE X == W \cup {v}
<1>2. Over(X)'
  <2>1. Values(X)
    BY AddValue DEF Over
  <2>2. Env(W) \subseteq Env(X) /\ Seq(Frames(W)) \subseteq Seq(Frames(X))
    BY MoreEnv
  <2>3. v \in X
    OBVIOUS
  <2> HIDE DEF X
  <2>4. QED
    BY <1>1, <2>1, <2>2, <2>3 DEF Over, AllWait
<1>3. Plain'
  <2>1. Len(frames) <= MAX_DEPTH /\ Len(frames) < MAX_DEPTH
    <3>1. Len(frames) \in Nat /\ Len(stack) \in Nat /\ Len(stack) < MAX_DEPTH
      BY DEF Over, Plain
    <3>2. QED
      BY <3>1, Sizes
  <2>2. QED
    BY <1>1, <2>1 DEF Plain
<1>4. QED
  BY <1>2, <1>3 DEF MachineInv

LEMMA ErrKeeps ==
    ASSUME NEW W, Over(W), Plain, pc = "running", NEW e \in Error,
           Err(e), UNCHANGED <<hostVars, seen>>, NetTypeOK'
    PROVE  MachineInv'
<1>1. /\ mode' = "err" /\ node' = node /\ env' = env /\ stack' = << >> /\ value' = value
      /\ error' = e /\ pc' = pc /\ program' = program
      /\ out_buf' = out_buf /\ ledger' = ledger /\ executions' = executions /\ seen' = seen
  BY DEF Err, hostVars
<1>2. Over(W)'
  BY <1>1 DEF Over
<1>3. Plain'
  BY <1>1, Sizes DEF Plain
<1>4. QED
  BY <1>2, <1>3 DEF MachineInv

LEMMA Pushed ==
    ASSUME NEW W, NEW frames \in Seq(Frames(W)), AllWait(frames),
           NEW f \in Frames(W), Waits(f)
    PROVE  /\ Append(frames, f) \in Seq(Frames(W)) /\ AllWait(Append(frames, f))
           /\ Len(Append(frames, f)) = Len(frames) + 1
BY DEF AllWait

\* What is known when an operand or a body has returned.
LEMMA ReturnedFacts ==
    ASSUME NEW W, Over(W), Returned
    PROVE  /\ Len(stack) \in Nat \ {0} /\ Top \in Frames(W) /\ Waits(Top)
           /\ Top.node \in IrNode /\ Top.node.op \in Kind
           /\ Top.env \in Env(W) /\ Top.done \in Seq(W) /\ Len(Top.done) \in Nat
           /\ Rest \in Seq(Frames(W)) /\ AllWait(Rest) /\ Len(Rest) = Len(stack) - 1
           /\ \A k \in 1 .. Len(stack) - 1 : Rest[k] = stack[k]
           /\ Done \in Seq(W) /\ Len(Done) = Len(Top.done) + 1 /\ Done[Len(Done)] = value
           /\ \A k \in 1 .. Len(Top.done) : Done[k] = Top.done[k]
           /\ \A k \in 1 .. Len(Done) : Done[k] \in W
<1>1. stack \in Seq(Frames(W)) /\ stack # << >> /\ value \in W
  BY DEF Over, Returned
<1>2. Len(stack) \in Nat \ {0} /\ Top \in Frames(W)
  BY <1>1 DEF Top
<1>3. Waits(Top)
  BY <1>2 DEF Over, Top
<1>4. Top.node \in IrNode /\ Top.env \in Env(W) /\ Top.done \in Seq(W) /\ Len(Top.done) \in Nat
  BY <1>2 DEF Frames
<1>5. /\ Rest \in Seq(Frames(W)) /\ Len(Rest) = Len(stack) - 1
      /\ \A k \in 1 .. Len(stack) - 1 : Rest[k] = stack[k]
  <2>1. 1 \in Nat /\ Len(stack) - 1 \in 0 .. Len(stack)
    BY <1>2
  <2>2. Rest = [k \in 1 .. Len(stack) - 1 |-> stack[k]]
    BY <1>1, <2>1 DEF Rest
  <2>3. \A k \in 1 .. Len(stack) - 1 : stack[k] \in Frames(W)
    BY <1>1, <1>2, SeqElement
  <2>4. QED
    BY <2>1, <2>2, <2>3
<1>6. AllWait(Rest)
  BY <1>2, <1>5 DEF Over, AllWait
<1>7. /\ Done \in Seq(W) /\ Len(Done) = Len(Top.done) + 1 /\ Done[Len(Done)] = value
      /\ \A k \in 1 .. Len(Top.done) : Done[k] = Top.done[k]
  BY <1>1, <1>4 DEF Done
<1>8. \A k \in 1 .. Len(Done) : Done[k] \in W
  BY <1>7, SeqElement
<1>9. Top.node.op \in Kind
  BY <1>4, TreeFacts
<1>10. QED
  BY <1>2, <1>3, <1>4, <1>5, <1>6, <1>7, <1>8, <1>9

(***************************************************************************)
(* The steps.                                                              *)
(***************************************************************************)
LEMMA UnitIsValue == \A W : IsValue(W, Unit) /\ IsValue(W, Value("float", 0, << >>))
<1>1. 0 \in Int64
  BY Sizes DEF Int64
<1>2. QED
  BY <1>1 DEF IsValue, Unit, IntValue, Value

\* An operand is evaluated in a frame that is new, or has one more operand.
LEMMA CalledFrame ==
    ASSUME NEW W, NEW n \in IrNode, NEW e \in Env(W), NEW done \in Seq(W),
           Len(done) <= Operands(n.op), Len(done) = Operands(n.op) => n.op \in HasBody
    PROVE  Frame(n, e, done) \in Frames(W) /\ Waits(Frame(n, e, done))
BY DEF Frame, Frames, Waits

LEMMA LeavesKeep ==
    ASSUME NEW W, Over(W), Plain, NetTypeOK', EvalLiteral \/ EvalVar \/ EvalLambda
    PROVE  MachineInv'
<1>1. /\ pc = "running" /\ node \in IrNode /\ value \in W /\ env \in Env(W) /\ Values(W)
      /\ stack \in Seq(Frames(W)) /\ AllWait(stack) /\ Len(stack) <= Len(stack)
      /\ seen \in Seq(Int32)
  BY DEF Over, Plain, AllWait, EvalLiteral, EvalVar, EvalLambda, Evaluating
<1>2. CASE EvalLiteral
  <2>1. node.op \in {"int", "float"} /\ Ok(Value(node.op, node.n, << >>), stack)
        /\ UNCHANGED hostVars /\ seen' = seen
    BY <1>2 DEF EvalLiteral, Evaluating
  <2>2. IsValue(W, Value(node.op, node.n, << >>))
    BY <1>1, <2>1, TreeFacts DEF IsValue, Value
  <2>3. QED
    BY <1>1, <2>1, <2>2, OkKeeps
<1>3. CASE EvalVar
  <2>1. CASE node.names[1] \in DOMAIN env
    <3>1. Ok(env[node.names[1]], stack) /\ UNCHANGED hostVars /\ seen' = seen
      BY <1>3, <2>1 DEF EvalVar
    <3>2. IsValue(W, env[node.names[1]])
      BY <1>1, <2>1, EnvValue DEF Values
    <3>3. QED
      BY <1>1, <3>1, <3>2, OkKeeps
  <2>2. CASE node.names[1] \notin DOMAIN env
    <3>1. Err("unbound") /\ UNCHANGED <<hostVars, seen>> /\ "unbound" \in Error
      BY <1>3, <2>2 DEF EvalVar, Error
    <3>2. QED
      BY <1>1, <3>1, ErrKeeps
  <2>3. QED
    BY <2>1, <2>2
<1>4. CASE EvalLambda
  <2>1. node.op = "lambda" /\ Ok(Closure(node.names[1], node.sub[1], env), stack)
        /\ UNCHANGED hostVars /\ seen' = seen
    BY <1>4 DEF EvalLambda, Evaluating
  <2>2. node.names[1] \in Name /\ node.sub[1] \in IrNode
    <3>1. node.op \in Kind /\ node.op = "lambda"
      BY <1>1, <2>1, TreeFacts
    <3>2. 1 \in 1 .. Subtrees(node.op) /\ 1 \in 1 .. Names(node.op)
      BY <3>1, KindFacts
    <3>3. QED
      BY <1>1, <3>2, TreeFacts
  <2>3. IsValue(W, Closure(node.names[1], node.sub[1], env))
    <3> DEFINE c == Closure(node.names[1], node.sub[1], env)
    <3>1. /\ c = [tag |-> c.tag, param |-> c.param, body |-> c.body, env |-> c.env,
                   rec |-> c.rec]
          /\ c.tag = "closure" /\ c.param = node.names[1]
          /\ c.body = node.sub[1] /\ c.env = env /\ c.rec = ""
      BY DEF Closure
    <3> HIDE DEF c
    <3>2. IsValue(W, c)
      BY <1>1, <2>2, <3>1 DEF IsValue
    <3>3. QED
      BY <3>2 DEF c
  <2>4. QED
    BY <1>1, <2>1, <2>3, OkKeeps
<1>5. QED
  BY <1>2, <1>3, <1>4

LEMMA PollKeeps ==
    ASSUME NEW W, Over(W), Plain, NetTypeOK, NetTypeOK', EvalPollNothing \/ EvalPollReturns
    PROVE  MachineInv'
<1>1. /\ pc = "running" /\ value \in W /\ env \in Env(W) /\ Values(W)
      /\ stack \in Seq(Frames(W)) /\ AllWait(stack) /\ Len(stack) <= Len(stack)
      /\ seen \in Seq(Int32)
  BY DEF Over, Plain, AllWait, EvalPollNothing, EvalPollReturns, Polling, Evaluating
<1>2. PICK x \in Int32 : /\ Ok(IntValue(x), stack) /\ UNCHANGED hostVars
                         /\ seen' = Append(seen, x)
  <2>1. 0 \in Int32 /\ volume \in Int32
    BY Trunc32IsInt32 DEF NetTypeOK
  <2>2. QED
    BY <2>1 DEF EvalPollNothing, EvalPollReturns
<1>3. seen' \in Seq(Int32)
  BY <1>1, <1>2
<1>4. IsValue(W, IntValue(x))
  BY <1>2, Sizes DEF IsValue, IntValue, Value
<1>5. QED
  BY <1>1, <1>2, <1>3, <1>4, OkKeeps

LEMMA OperandsKeep ==
    ASSUME NEW W, Over(W), Plain, NetTypeOK', EvalOperands \/ NextOperand
    PROVE  MachineInv'
<1>1. CASE EvalOperands
  <2>1. /\ pc = "running" /\ node \in IrNode /\ env \in Env(W)
        /\ stack \in Seq(Frames(W)) /\ AllWait(stack) /\ Len(stack) < MAX_DEPTH
        /\ Operands(node.op) > 0 /\ node.op \in Kind
    BY <1>1, TreeFacts DEF Over, Plain, AllWait, EvalOperands
  <2>2. node.sub[1] \in IrNode
    <3>1. 1 \in 1 .. Subtrees(node.op)
      BY <2>1, KindFacts
    <3>2. QED
      BY <2>1, <3>1, TreeFacts
  <2> DEFINE f == Frame(node, env, << >>)
  <2>3. f \in Frames(W) /\ Waits(f)
    <3>1. << >> \in Seq(W) /\ Len(<< >>) = 0
      OBVIOUS
    <3>2. 0 <= Operands(node.op) /\ 0 # Operands(node.op)
      BY <2>1, KindFacts
    <3>3. QED
      BY <2>1, <3>1, <3>2, CalledFrame
  <2>4. Evaluate(node.sub[1], env, Append(stack, f)) /\ UNCHANGED <<hostVars, seen>>
    BY <1>1 DEF EvalOperands
  <2> HIDE DEF f
  <2>5. /\ Append(stack, f) \in Seq(Frames(W)) /\ AllWait(Append(stack, f))
        /\ Len(Append(stack, f)) = Len(stack) + 1
    BY <2>1, <2>3, Pushed
  <2>6. Len(Append(stack, f)) <= MAX_DEPTH
    BY <2>1, <2>5, Sizes
  <2>7. QED
    BY <2>1, <2>2, <2>4, <2>5, <2>6, EvaluateKeeps
<1>2. CASE NextOperand
  <2>1. Returned /\ Len(Done) < Operands(Top.node.op) /\ pc = "running"
    BY <1>2 DEF NextOperand, Returned
  <2> DEFINE f == Frame(Top.node, Top.env, Done)
  <2>2. f \in Frames(W) /\ Waits(f)
    <3>1. Top.node \in IrNode /\ Top.env \in Env(W) /\ Done \in Seq(W)
      BY <2>1, ReturnedFacts
    <3>2. Len(Done) <= Operands(Top.node.op) /\ Len(Done) # Operands(Top.node.op)
      BY <2>1, ReturnedFacts, KindFacts
    <3>3. QED
      BY <3>1, <3>2, CalledFrame
  <2>3. Top.node.sub[Len(Done) + 1] \in IrNode
    <3>1. Len(Done) + 1 \in 1 .. Subtrees(Top.node.op)
      BY <2>1, ReturnedFacts, KindFacts, TreeFacts
    <3>2. QED
      BY <2>1, <3>1, ReturnedFacts, TreeFacts
  <2>4. Evaluate(Top.node.sub[Len(Done) + 1], Top.env, Append(Rest, f))
        /\ UNCHANGED <<hostVars, seen>>
    BY <1>2 DEF NextOperand
  <2> HIDE DEF f
  <2>5. /\ Append(Rest, f) \in Seq(Frames(W)) /\ AllWait(Append(Rest, f))
        /\ Len(Append(Rest, f)) = Len(Rest) + 1
    BY <2>1, <2>2, ReturnedFacts, Pushed
  <2>6. Len(Append(Rest, f)) <= MAX_DEPTH
    BY <2>1, <2>5, ReturnedFacts DEF Plain
  <2>7. Top.env \in Env(W)
    BY <2>1, ReturnedFacts
  <2>8. QED
    BY <2>1, <2>3, <2>4, <2>5, <2>6, <2>7, EvaluateKeeps
<1>3. QED
  BY <1>1, <1>2

LEMMA OperatorsKeep ==
    ASSUME NEW W, Over(W), Plain, NetTypeOK',
           BodyReturns \/ ApplyArithmetic \/ ApplyRelation \/ Construct
    PROVE  MachineInv'
<1>1. Returned /\ pc = "running"
  BY DEF BodyReturns, ApplyArithmetic, ApplyRelation, Construct, HasOperands, Returned
<1>2. /\ Rest \in Seq(Frames(W)) /\ AllWait(Rest) /\ Len(Rest) <= Len(stack)
      /\ Done \in Seq(W) /\ seen \in Seq(Int32) /\ Top.node.op \in Kind
      /\ \A k \in 1 .. Len(Done) : Done[k] \in W
      /\ Values(W) /\ value \in W
  BY <1>1, ReturnedFacts DEF Over, Plain
<1>3. ASSUME NEW v, IsValue(W, v), Ok(v, Rest), UNCHANGED <<hostVars, seen>>
      PROVE  MachineInv'
  <2>1. seen' \in Seq(Int32)
    BY <1>2, <1>3
  <2>2. QED
    BY <1>1, <1>2, <1>3, <2>1, OkKeeps
<1>4. ASSUME NEW e \in Error, Err(e), UNCHANGED <<hostVars, seen>>
      PROVE  MachineInv'
  BY <1>1, <1>4, ErrKeeps
<1>5. CASE BodyReturns
  <2>1. IsValue(W, value)
    BY <1>2 DEF Values
  <2>2. QED
    BY <1>3, <1>5, <2>1 DEF BodyReturns
<1>6. ASSUME IntOperands, Len(Done) = 2
      PROVE  Lhs \in Int64 /\ Rhs \in Int64
  <2>1. Done[1] \in W /\ Done[2] \in W /\ DOMAIN Done = 1 .. 2
    BY <1>2, <1>6
  <2>2. Done[1].tag = "int" /\ Done[2].tag = "int"
    BY <1>6, <2>1 DEF IntOperands
  <2>3. Done[1].n \in Int64 /\ Done[2].n \in Int64
    BY <1>2, <2>1, <2>2, IntOf
  <2>4. QED
    BY <2>3 DEF Lhs, Rhs
<1>7. CASE ApplyArithmetic
  <2>1. /\ Top.node.op \in Arithmetic /\ Len(Done) = Operands(Top.node.op)
        /\ IF ~IntOperands THEN Err("not_int")
           ELSE IF Top.node.op = "div" /\ Rhs = 0 THEN Err("div_by_zero")
           ELSE ~Overflows /\ Ok(IntValue(Calculate(Top.node.op, Lhs, Rhs)), Rest)
        /\ UNCHANGED <<hostVars, seen>>
    BY <1>7 DEF ApplyArithmetic, HasOperands
  <2>2. Len(Done) = 2
    BY <1>2, <2>1, KindFacts
  <2>3. "not_int" \in Error /\ "div_by_zero" \in Error
    BY DEF Error
  <2>4. CASE IntOperands /\ ~(Top.node.op = "div" /\ Rhs = 0)
    <3>1. ~Overflows /\ Ok(IntValue(Calculate(Top.node.op, Lhs, Rhs)), Rest)
      BY <2>1, <2>4
    <3>2. Calculate(Top.node.op, Lhs, Rhs) \in Int64
      <4>1. Top.node.op = "div" => Rhs # 0 /\ ~(Lhs = -HALF /\ Rhs = -1)
        BY <2>4, <3>1 DEF Overflows
      <4>2. QED
        BY <1>6, <2>1, <2>2, <2>4, <4>1, CalculatedIsInt64
    <3>3. IsValue(W, IntValue(Calculate(Top.node.op, Lhs, Rhs)))
      BY <3>2 DEF IsValue, IntValue, Value
    <3>4. QED
      BY <1>3, <2>1, <3>1, <3>3
  <2>5. CASE ~IntOperands \/ (Top.node.op = "div" /\ Rhs = 0)
    BY <1>4, <2>1, <2>3, <2>5
  <2>6. QED
    BY <2>4, <2>5
<1>8. CASE ApplyRelation
  <2>1. /\ IF IntOperands THEN Ok(Verdict(Holds(Top.node.op, Lhs, Rhs)), Rest) ELSE Err("not_int")
        /\ UNCHANGED <<hostVars, seen>>
    BY <1>8 DEF ApplyRelation
  <2>2. CASE IntOperands
    <3> DEFINE v == Verdict(Holds(Top.node.op, Lhs, Rhs))
    <3>1. Ok(v, Rest)
      BY <2>1, <2>2
    <3>2. IsValue(W \cup {Unit}, v)
      <4>1. v.tag \in {"left", "right"} /\ v.parts = <<Unit>>
        BY DEF Verdict, Value
      <4>2. <<Unit>> \in Seq(W \cup {Unit}) /\ Len(<<Unit>>) = 1
        OBVIOUS
      <4> HIDE DEF v
      <4>3. QED
        BY <4>1, <4>2 DEF IsValue
    <3> HIDE DEF v
    <3>3. Over(W \cup {Unit})
      <4>1. Values(W \cup {Unit})
        BY <1>2, UnitIsValue, AddValue
      <4>2. /\ Env(W) \subseteq Env(W \cup {Unit})
            /\ Seq(Frames(W)) \subseteq Seq(Frames(W \cup {Unit}))
        BY MoreEnv
      <4>3. QED
        BY <4>1, <4>2 DEF Over
    <3>4. Rest \in Seq(Frames(W \cup {Unit})) /\ seen' \in Seq(Int32) /\ UNCHANGED hostVars
      <4>1. Seq(Frames(W)) \subseteq Seq(Frames(W \cup {Unit}))
        BY MoreEnv
      <4>2. QED
        BY <1>2, <2>1, <4>1
    <3>5. QED
      BY <1>1, <1>2, <3>1, <3>2, <3>3, <3>4, OkKeeps
  <2>3. CASE ~IntOperands
    BY <1>4, <2>1, <2>3 DEF Error
  <2>4. QED
    BY <2>2, <2>3
<1>9. CASE Construct
  <2>1. /\ Top.node.op \in {"pair", "left", "right"} /\ Len(Done) = Operands(Top.node.op)
        /\ Ok(Value(Top.node.op, 0, Done), Rest) /\ UNCHANGED <<hostVars, seen>>
    BY <1>9 DEF Construct, HasOperands
  <2>2. IsValue(W, Value(Top.node.op, 0, Done))
    BY <1>2, <2>1, KindFacts DEF IsValue, Value
  <2>3. QED
    BY <1>3, <2>1, <2>2
<1>10. QED
  BY <1>5, <1>7, <1>8, <1>9

LEMMA CallEnvIsEnv ==
    ASSUME NEW W, Values(W), NEW f \in W, f.tag = "closure", NEW arg \in W
    PROVE  CallEnv(f, arg) \in Env(W) /\ f.body \in IrNode
<1>1. f.param \in Name /\ f.env \in Env(W) /\ f.body \in IrNode /\ f.rec \in Name \cup {""}
  BY DEF Values, IsValue
<1>2. Bind(f.env, f.param, arg) \in Env(W)
  BY <1>1, BindIsEnv
<1>3. f.rec # "" => Bind(Bind(f.env, f.param, arg), f.rec, f) \in Env(W)
  <2>1. f.rec # "" => f.rec \in Name
    BY <1>1
  <2>2. QED
    BY <1>2, <2>1, BindIsEnv
<1>4. QED
  BY <1>1, <1>2, <1>3 DEF CallEnv

\* A value that let rec binds: a closure gets the name.
Named(v, name) == IF v.tag = "closure" THEN [v EXCEPT !.rec = name] ELSE v

LEMMA NamedIsValue ==
    ASSUME NEW W, NEW v, IsValue(W, v), NEW name \in Name
    PROVE  IsValue(W, Named(v, name))
<1>1. CASE v.tag = "closure"
  <2> DEFINE u == [tag |-> v.tag, param |-> v.param, body |-> v.body, env |-> v.env, rec |-> name]
  <2>1. v = [tag |-> v.tag, param |-> v.param, body |-> v.body, env |-> v.env, rec |-> v.rec]
        /\ v.param \in Name /\ v.body \in IrNode /\ v.env \in Env(W)
    BY <1>1 DEF IsValue
  <2>2. Named(v, name) = [v EXCEPT !.rec = name]
    BY <1>1 DEF Named
  <2>3. Named(v, name) = u
    <3>1. \A t, p, b, e, r : [[tag |-> t, param |-> p, body |-> b, env |-> e, rec |-> r]
                                EXCEPT !.rec = name]
                              = [tag |-> t, param |-> p, body |-> b, env |-> e, rec |-> name]
      OBVIOUS
    <3>2. QED
      BY <2>1, <2>2, <3>1
  <2>4. /\ u = [tag |-> u.tag, param |-> u.param, body |-> u.body, env |-> u.env,
                rec |-> u.rec]
        /\ u.tag = v.tag /\ u.param = v.param /\ u.body = v.body /\ u.env = v.env
        /\ u.rec = name
    OBVIOUS
  <2> HIDE DEF u
  <2>5. IsValue(W, u)
    BY <1>1, <2>1, <2>4 DEF IsValue
  <2>6. QED
    BY <2>3, <2>5
<1>2. CASE v.tag # "closure"
  BY <1>2 DEF Named
<1>3. QED
  BY <1>1, <1>2

\* A body is evaluated over a frame that has all its operands.
LEMMA BodyKeeps ==
    ASSUME NEW W, Over(W), Plain, NetTypeOK', HasOperands(HasBody),
           NEW body \in IrNode, NEW e \in Env(W), EvaluateBody(body, e),
           UNCHANGED <<hostVars, seen>>
    PROVE  MachineInv'
<1>1. Returned /\ pc = "running" /\ Len(Done) = Operands(Top.node.op) /\ Top.node.op \in HasBody
  BY DEF HasOperands, Returned
<1> DEFINE f == Frame(Top.node, Top.env, Done)
<1>2. f \in Frames(W) /\ Waits(f)
  <2>1. Top.node \in IrNode /\ Top.env \in Env(W) /\ Done \in Seq(W)
    BY <1>1, ReturnedFacts
  <2>2. Len(Done) <= Operands(Top.node.op)
    BY <1>1, ReturnedFacts
  <2>3. QED
    BY <1>1, <2>1, <2>2, CalledFrame
<1>3. Evaluate(body, e, Append(Rest, f))
  BY DEF EvaluateBody
<1> HIDE DEF f
<1>4. /\ Append(Rest, f) \in Seq(Frames(W)) /\ AllWait(Append(Rest, f))
      /\ Len(Append(Rest, f)) = Len(Rest) + 1
  BY <1>1, <1>2, ReturnedFacts, Pushed
<1>5. Len(Append(Rest, f)) <= MAX_DEPTH
  <2>1. Len(Rest) = Len(stack) - 1 /\ Len(stack) \in Nat
    BY <1>1, ReturnedFacts
  <2>2. QED
    BY <1>4, <2>1 DEF Plain
<1>6. QED
  BY <1>1, <1>3, <1>4, <1>5, EvaluateKeeps

\* The value of a bound expression, among the others.
LEMMA OverMore ==
    ASSUME NEW W, Over(W), NEW v, IsValue(W, v)
    PROVE  Over(W \cup {v}) /\ Env(W) \subseteq Env(W \cup {v})
<1>1. Values(W \cup {v})
  BY AddValue DEF Over
<1>2. Env(W) \subseteq Env(W \cup {v}) /\ Seq(Frames(W)) \subseteq Seq(Frames(W \cup {v}))
  BY MoreEnv
<1>3. QED
  BY <1>1, <1>2 DEF Over

\* The parts of a value.
LEMMA PartsOf ==
    ASSUME NEW W, Values(W), NEW v \in W
    PROVE  /\ v.tag = "pair" => v.parts[1] \in W /\ v.parts[2] \in W
           /\ v.tag \in {"left", "right"} => v.parts[1] \in W
<1>1. IsValue(W, v)
  BY DEF Values
<1>2. CASE v.tag = "pair"
  <2>1. v.parts \in Seq(W) /\ Len(v.parts) = 2
    BY <1>1, <1>2 DEF IsValue
  <2>2. QED
    BY <1>2, <2>1
<1>3. CASE v.tag \in {"left", "right"}
  <2>1. v.parts \in Seq(W) /\ Len(v.parts) = 1
    BY <1>1, <1>3 DEF IsValue
  <2>2. QED
    BY <1>3, <2>1
<1>4. QED
  BY <1>2, <1>3

LEMMA BodiesKeep ==
    ASSUME NEW W, Over(W), Plain, NetTypeOK', Apply \/ Match \/ Let \/ LetRec \/ Unpack
    PROVE  MachineInv'
<1>1. Returned /\ pc = "running" /\ HasOperands(HasBody) /\ UNCHANGED <<hostVars, seen>>
  BY DEF Apply, Match, Let, LetRec, Unpack, HasOperands, Returned, HasBody
<1>2. /\ Top.node \in IrNode /\ Top.env \in Env(W) /\ Top.node.op \in Kind
      /\ Done \in Seq(W) /\ Values(W) /\ value \in W
      /\ \A k \in 1 .. Len(Done) : Done[k] \in W
  BY <1>1, ReturnedFacts DEF Over
<1>3. /\ \A k \in 1 .. Subtrees(Top.node.op) : Top.node.sub[k] \in IrNode
      /\ \A k \in 1 .. Names(Top.node.op) : Top.node.names[k] \in Name
  BY <1>2, TreeFacts
<1>4. ASSUME NEW e \in Error, Err(e)
      PROVE  MachineInv'
  BY <1>1, <1>4, ErrKeeps
<1>5. CASE Apply
  <2>1. Len(Done) = 2
    BY <1>2, <1>5, KindFacts DEF Apply, HasOperands
  <2>2. Done[1] \in W /\ Done[2] \in W
    BY <1>2, <2>1
  <2>3. CASE Done[1].tag = "closure"
    <3>1. EvaluateBody(Done[1].body, CallEnv(Done[1], Done[2]))
      BY <1>5, <2>3 DEF Apply
    <3>2. CallEnv(Done[1], Done[2]) \in Env(W) /\ Done[1].body \in IrNode
      BY <1>2, <2>2, <2>3, CallEnvIsEnv
    <3>3. QED
      BY <1>1, <3>1, <3>2, BodyKeeps
  <2>4. CASE Done[1].tag # "closure"
    BY <1>4, <1>5, <2>4 DEF Apply, Error
  <2>5. QED
    BY <2>3, <2>4
<1>6. CASE Match
  <2> DEFINE branch == IF value.tag = "left" THEN 1 ELSE 2
  <2>1. Top.node.op = "match"
    BY <1>6 DEF Match, HasOperands
  <2>2. branch \in 1 .. Names(Top.node.op) /\ branch + 1 \in 1 .. Subtrees(Top.node.op)
    BY <1>2, <2>1, KindFacts
  <2>3. CASE value.tag \in {"left", "right"}
    <3> DEFINE e == Bind(Top.env, Top.node.names[branch], value.parts[1])
    <3>1. EvaluateBody(Top.node.sub[branch + 1], e)
      BY <1>6, <2>3 DEF Match
    <3> HIDE DEF branch
    <3>2. value.parts[1] \in W
      BY <1>2, <2>3, PartsOf
    <3>3. Top.node.sub[branch + 1] \in IrNode /\ Top.node.names[branch] \in Name
      BY <1>3, <2>2
    <3>4. e \in Env(W)
      BY <1>2, <3>2, <3>3, BindIsEnv
    <3>5. QED
      BY <1>1, <3>1, <3>3, <3>4, BodyKeeps
  <2>4. CASE value.tag \notin {"left", "right"}
    BY <1>4, <1>6, <2>4 DEF Match, Error
  <2>5. QED
    BY <2>3, <2>4
<1>7. CASE Let \/ LetRec
  <2>1. Top.node.op \in {"let", "letrec"}
    BY <1>7 DEF Let, LetRec, HasOperands
  <2>2. Top.node.sub[2] \in IrNode /\ Top.node.names[1] \in Name
    <3>1. 2 \in 1 .. Subtrees(Top.node.op) /\ 1 \in 1 .. Names(Top.node.op)
      BY <1>2, <2>1, KindFacts
    <3>2. QED
      BY <1>3, <3>1
  <2>3. PICK v : /\ v \in {value, Named(value, Top.node.names[1])}
                 /\ EvaluateBody(Top.node.sub[2], Bind(Top.env, Top.node.names[1], v))
    BY <1>7 DEF Let, LetRec, Named
  <2>4. IsValue(W, v)
    <3>1. IsValue(W, value)
      BY <1>2 DEF Values
    <3>2. QED
      BY <2>2, <2>3, <3>1, NamedIsValue
  <2> DEFINE X == W \cup {v}
  <2>5. Over(X) /\ Env(W) \subseteq Env(X) /\ v \in X
    BY <2>4, OverMore
  <2> HIDE DEF X
  <2>6. Bind(Top.env, Top.node.names[1], v) \in Env(X)
    BY <1>2, <2>2, <2>5, BindIsEnv
  <2>7. QED
    BY <1>1, <2>2, <2>3, <2>5, <2>6, BodyKeeps
<1>8. CASE Unpack
  <2>1. Top.node.op = "unpack"
    BY <1>8 DEF Unpack, HasOperands
  <2>2. /\ Top.node.sub[2] \in IrNode
        /\ Top.node.names[1] \in Name /\ Top.node.names[2] \in Name
    <3>1. 2 \in 1 .. Subtrees(Top.node.op) /\ 1 \in 1 .. Names(Top.node.op)
          /\ 2 \in 1 .. Names(Top.node.op)
      BY <1>2, <2>1, KindFacts
    <3>2. QED
      BY <1>3, <3>1
  <2>3. CASE value.tag = "pair"
    <3> DEFINE e == Bind(Top.env, Top.node.names[1], value.parts[1])
    <3>1. EvaluateBody(Top.node.sub[2], Bind(e, Top.node.names[2], value.parts[2]))
      BY <1>8, <2>3 DEF Unpack
    <3>2. value.parts[1] \in W /\ value.parts[2] \in W
      BY <1>2, <2>3, PartsOf
    <3>3. e \in Env(W)
      BY <1>2, <2>2, <3>2, BindIsEnv
    <3> HIDE DEF e
    <3>4. Bind(e, Top.node.names[2], value.parts[2]) \in Env(W)
      BY <2>2, <3>2, <3>3, BindIsEnv
    <3>5. QED
      BY <1>1, <2>2, <3>1, <3>4, BodyKeeps
  <2>4. CASE value.tag # "pair"
    BY <1>4, <1>8, <2>4 DEF Unpack, Error
  <2>5. QED
    BY <2>3, <2>4
<1>9. QED
  BY <1>5, <1>6, <1>7, <1>8

LEMMA PanicKeeps ==
    ASSUME NEW W, Over(W), Plain, NetTypeOK', ArithmeticPanics
    PROVE  MachineInv'
<1>1. /\ pc' = "panic" /\ mode' = mode /\ node' = node /\ env' = env /\ value' = value
      /\ error' = error /\ stack' = stack /\ program' = program
      /\ out_buf' = out_buf /\ ledger' = ledger /\ executions' = executions /\ seen' = seen
  BY DEF ArithmeticPanics, machineVars, hostVars
<1>2. Over(W)'
  BY <1>1 DEF Over
<1>3. Plain'
  BY <1>1 DEF Plain
<1>4. QED
  BY <1>2, <1>3 DEF MachineInv

\* A step of the card, one inside a poll, or none.
LEMMA NothingElseKeeps ==
    ASSUME NEW W, Over(W), Plain, NetTypeOK', UNCHANGED <<pc, machineVars, hostVars, seen>>
    PROVE  MachineInv'
<1>1. /\ pc' = pc /\ mode' = mode /\ node' = node /\ env' = env /\ value' = value
      /\ error' = error /\ stack' = stack /\ program' = program
      /\ out_buf' = out_buf /\ ledger' = ledger /\ executions' = executions /\ seen' = seen
  BY DEF machineVars, hostVars
<1>2. Over(W)'
  BY <1>1 DEF Over
<1>3. Plain'
  BY <1>1 DEF Plain
<1>4. QED
  BY <1>2, <1>3 DEF MachineInv

LEMMA EndKeeps ==
    ASSUME NEW W, Over(W), Plain, NetTypeOK', Fault \/ Commit \/ ExecuteUnparsed
    PROVE  MachineInv'
<1>1. /\ mode' = mode /\ node' = node /\ env' = env /\ value' = value /\ error' = error
      /\ stack' = stack /\ seen' = seen
      /\ program' \in {program, NoProgram} /\ pc' = "idle"
  <2>1. UNCHANGED <<machineVars, seen>> /\ pc' = "idle"
    BY DEF Fault, Commit, ExecuteUnparsed, Call
  <2>2. program' \in {program, NoProgram}
    BY DEF Fault, Commit, ExecuteUnparsed
  <2>3. QED
    BY <2>1, <2>2 DEF machineVars
<1>2. out_buf'.kind \in {"none", "matched", "fault"}
  <2>1. \A k, v, e : [kind |-> k, value |-> v, error |-> e].kind = k
    OBVIOUS
  <2>2. PICK k \in {"none", "matched", "fault"} :
                \E v, e : out_buf' = [kind |-> k, value |-> v, error |-> e]
    BY DEF Fault, Commit, ExecuteUnparsed, NoOut
  <2>3. QED
    BY <2>1, <2>2
<1>3. ledger' \in {ledger, Append(ledger, VolumeOf(value))}
  BY DEF Fault, Commit, ExecuteUnparsed
<1>4. \/ executions' = executions
      \/ executions < MaxExecutions /\ executions' = executions + 1
  BY DEF Fault, Commit, ExecuteUnparsed, Call
<1>5. Over(W)'
  BY <1>1 DEF Over
<1>6. ledger' \in Seq(Int32)
  <2>1. VolumeOf(value) \in Int32
    <3>1. value.tag = "int" => value.n \in Int
      <4>1. value.tag = "int" => value.n \in Int64
        BY IntOf DEF Over
      <4>2. QED
        BY <4>1, Sizes DEF Int64
    <3>2. QED
      BY <3>1, Trunc32IsInt32 DEF VolumeOf
  <2>2. ledger \in Seq(Int32)
    BY DEF Plain
  <2>3. QED
    BY <1>3, <2>1, <2>2
<1>7. executions' \in 0 .. MaxExecutions
  BY <1>4, Sizes DEF Plain
<1>8. Plain'
  BY <1>1, <1>2, <1>6, <1>7 DEF Plain
<1>9. QED
  BY <1>5, <1>8 DEF MachineInv

\* The numbers that every contract starts with.
Credits == {Unit, IntValue(1000), IntValue(500)}

LEMMA CreditsAreValues == Values(Credits)
<1>1. 0 \in Int64 /\ 1000 \in Int64 /\ 500 \in Int64
  BY Sizes DEF Int64
<1>2. \A n \in Int64 : IsValue(Credits, IntValue(n))
  BY DEF IsValue, IntValue, Value
<1>3. QED
  BY <1>1, <1>2 DEF Values, Credits, Unit

LEMMA NoEnvIsEnv == \A W : << >> \in Env(W)
<1>1. \A W : << >> \in [{} -> W]
  OBVIOUS
<1>2. {} \in SUBSET Name
  OBVIOUS
<1>3. QED
  BY <1>1, <1>2 DEF Env

LEMMA ExecuteKeeps ==
    ASSUME Plain, NetTypeOK', NEW p \in Program, Execute(p)
    PROVE  MachineInv'
<1>1. /\ pc' = "running" /\ mode' = "eval" /\ node' = p /\ program' = p
      /\ env' = StartEnv /\ value' = Unit
  BY DEF Execute
<1>2. executions < MaxExecutions /\ executions' = executions + 1
  BY DEF Execute, Call
<1>3. stack' = << >> /\ seen' = << >> /\ ledger' = ledger
  BY DEF Execute
<1>4. out_buf'.kind = "none" /\ error' \in Error
  BY DEF Execute, NoOut, Error
<1>5. p \in IrNode /\ {"SYS_COMPUTE", "SYS_CREDITS"} \subseteq Name
  BY ContractAssumption
<1>6. StartEnv \in Env(Credits)
  <2>1. Bind(<< >>, "SYS_COMPUTE", IntValue(1000)) \in Env(Credits)
    BY <1>5, NoEnvIsEnv, BindIsEnv DEF Credits
  <2>2. QED
    BY <1>5, <2>1, BindIsEnv DEF Credits, StartEnv
<1>7. Over(Credits)'
  <2>1. Unit \in Credits
    BY DEF Credits
  <2>2. stack' \in Seq(Frames(Credits)) /\ Len(stack') = 0
    BY <1>3
  <2>3. QED
    BY <1>1, <1>6, <2>1, <2>2, CreditsAreValues DEF Over
<1>8. Plain'
  <2>1. Len(stack') = 0 /\ seen' \in Seq(Int32) /\ ledger' \in Seq(Int32)
    BY <1>3 DEF Plain
  <2>2. 0 <= MAX_DEPTH /\ 0 < MAX_DEPTH
    BY <1>2, Sizes
  <2>3. executions' \in 0 .. MaxExecutions
    BY <1>2, Sizes DEF Plain
  <2>4. QED
    BY <1>1, <1>4, <1>5, <2>1, <2>2, <2>3 DEF Plain
<1>9. QED
  BY <1>7, <1>8 DEF MachineInv

LEMMA InitMachine == Init /\ NetTypeOK => MachineInv
<1>1. SUFFICES ASSUME Init, NetTypeOK
               PROVE  MachineInv
  OBVIOUS
<1>2. /\ pc = "idle" /\ mode = "ok" /\ program = NoProgram /\ node = NoProgram
      /\ value = Unit /\ env = << >>
  BY <1>1 DEF Init
<1>3. executions = 0
  BY <1>1 DEF Init
<1>4. stack = << >> /\ seen = << >> /\ ledger = << >>
  BY <1>1 DEF Init
<1>5. out_buf.kind = "none" /\ error \in Error
  BY <1>1 DEF Init, NoOut, Error
<1>6. Over(Credits)
  <2>1. value \in Credits /\ env \in Env(Credits)
    BY <1>2, NoEnvIsEnv DEF Credits
  <2>2. stack \in Seq(Frames(Credits)) /\ Len(stack) = 0
    BY <1>4
  <2>3. QED
    BY <2>1, <2>2, CreditsAreValues DEF Over
<1>7. Plain
  <2>1. Len(stack) = 0 /\ seen \in Seq(Int32) /\ ledger \in Seq(Int32)
    BY <1>4
  <2>2. /\ 0 <= MAX_DEPTH
        /\ executions \in 0 .. MaxExecutions
    BY <1>3, Sizes
  <2>3. QED
    BY <1>2, <1>5, <2>1, <2>2 DEF Plain
<1>8. QED
  BY <1>1, <1>6, <1>7 DEF MachineInv

LEMMA StepMachine == MachineInv /\ IInv /\ [Next]_vars => MachineInv'
<1>1. SUFFICES ASSUME MachineInv, IInv, [Next]_vars
               PROVE  MachineInv'
  OBVIOUS
<1>2. NetTypeOK /\ Plain
  BY <1>1 DEF MachineInv
<1>3. PICK W : Over(W)
  BY <1>1 DEF MachineInv
<1>4. NetTypeOK'
  BY <1>1, StepInvariant DEF IInv
<1>5. CASE EvalLiteral \/ EvalVar \/ EvalLambda
  BY <1>2, <1>3, <1>4, <1>5, LeavesKeep
<1>6. CASE EvalOperands \/ NextOperand
  BY <1>2, <1>3, <1>4, <1>6, OperandsKeep
<1>7. CASE EvalPollNothing \/ EvalPollReturns
  BY <1>2, <1>3, <1>4, <1>7, PollKeeps
<1>8. CASE EvalPoll \/ UNCHANGED <<pc, machineVars, hostVars, seen>>
  <2>1. UNCHANGED <<pc, machineVars, hostVars, seen>>
    BY <1>8 DEF EvalPoll
  <2>2. QED
    BY <1>2, <1>3, <1>4, <2>1, NothingElseKeeps
<1>9. CASE BodyReturns \/ ApplyArithmetic \/ ApplyRelation \/ Construct
  BY <1>2, <1>3, <1>4, <1>9, OperatorsKeep
<1>10. CASE ArithmeticPanics
  BY <1>2, <1>3, <1>4, <1>10, PanicKeeps
<1>11. CASE Apply \/ Match \/ Let \/ LetRec \/ Unpack
  BY <1>2, <1>3, <1>4, <1>11, BodiesKeep
<1>12. CASE Fault \/ Commit \/ ExecuteUnparsed
  BY <1>2, <1>3, <1>4, <1>12, EndKeeps
<1>13. CASE \E p \in Program : Execute(p)
  BY <1>2, <1>4, <1>13, ExecuteKeeps
<1>14. CASE MachineStep
  BY <1>5, <1>6, <1>7, <1>8, <1>9, <1>10, <1>11, <1>12, <1>14 DEF MachineStep
<1>15. CASE UNCHANGED vars
  BY <1>8, <1>15 DEF vars
<1>16. QED
  BY <1>1, <1>8, <1>12, <1>13, <1>14, <1>15 DEF Next

LEMMA MachineTyped == MachineInv => TypeOK
<1>1. SUFFICES ASSUME MachineInv
               PROVE  TypeOK
  OBVIOUS
<1>2. NetTypeOK /\ Plain
  BY <1>1 DEF MachineInv
<1>3. PICK W : Over(W)
  BY <1>1 DEF MachineInv
<1>4. \A v \in W : v.tag \in Tag /\ (v.tag = "int" => v.n \in Int64)
  <2>1. SUFFICES ASSUME NEW v \in W
                 PROVE  v.tag \in Tag /\ (v.tag = "int" => v.n \in Int64)
    OBVIOUS
  <2>2. IsValue(W, v) /\ Values(W)
    BY <1>3 DEF Over, Values
  <2>3. QED
    BY <2>2, IntOf DEF IsValue, Tag
<1>5. value.tag \in Tag /\ (value.tag = "int" => value.n \in Int64)
  BY <1>3, <1>4 DEF Over
<1>6. \A e \in IrNode \cup {NoProgram} : e.op \in Kind \cup {"none"}
  BY TreeFacts DEF NoProgram, Node
<1>7. ASSUME NEW k \in 1 .. Len(stack)
      PROVE  /\ stack[k].node.op \in Kind /\ Len(stack[k].done) <= Operands(stack[k].node.op)
             /\ \A v \in {stack[k].done[j] : j \in 1 .. Len(stack[k].done)} : v.tag \in Tag
  <2>1. stack[k] \in Frames(W) /\ Waits(stack[k])
    BY <1>3, <1>7 DEF Over
  <2>2. stack[k].node \in IrNode /\ stack[k].done \in Seq(W)
    BY <2>1 DEF Frames
  <2>3. \A j \in 1 .. Len(stack[k].done) : stack[k].done[j] \in W
    BY <2>2, SeqElement
  <2>4. QED
    BY <1>4, <2>1, <2>2, <2>3, TreeFacts DEF Waits
<1>8. QED
  BY <1>2, <1>5, <1>6, <1>7 DEF Plain, TypeOK

\* The evaluator keeps its types, whatever the contract and whatever it polls: only trees
\* are evaluated, a frame that waits has fewer operands than its node takes or is at a
\* body, results have the tags and widths of values, the stack stays within its bound
\* and the ledger takes 32 bits.
THEOREM ContractsTypeCorrect == Spec => []TypeOK
<1>1. Init => IInv /\ MachineInv
  BY InitInvariant, InitMachine DEF IInv
<1>2. IInv /\ MachineInv /\ [Next]_vars => (IInv /\ MachineInv)'
  BY StepInvariant, StepMachine
<1>3. QED
  BY <1>1, <1>2, MachineTyped, PTL DEF Spec

(***************************************************************************)
(* Derivations by the rules of AutarkyRules.                               *)
(***************************************************************************)
\* P is what some derivation derives.
Proved(P, answers) ==
    \E D : \E length \in Nat :
        Derivation(D, length, answers) /\ P = {D[k] : k \in 1 .. length}

LEMMA JudgementFields ==
    \A c, to, o : /\ Judgement(c, to, o).env = c.env /\ Judgement(c, to, o).node = c.node
                  /\ Judgement(c, to, o).from = c.from /\ Judgement(c, to, o).to = to
                  /\ Judgement(c, to, o).outcome = o
BY DEF Judgement

LEMMA CallFields ==
    \A e, n, from : /\ CallOf(e, n, from).env = e /\ CallOf(e, n, from).node = n
                    /\ CallOf(e, n, from).from = from
BY DEF CallOf

LEMMA OutcomeFields ==
    /\ \A v : Returns(v).kind = "ok" /\ Returns(v).what = v
    /\ \A e : Fails(e).kind = "err" /\ Fails(e).what = e
    /\ Panics.kind = "panic"
BY DEF Outcome, Returns, Fails, Panics

LEMMA FollowsMore ==
    ASSUME NEW P, NEW Q, P \subseteq Q, NEW j, NEW answers, Follows(j, P, answers)
    PROVE  Follows(j, Q, answers)
<1>1. Seq(P) \subseteq Seq(Q)
  OBVIOUS
<1>2. OperandRule(j, P) => OperandRule(j, Q)
  BY <1>1 DEF OperandRule
<1>3. OperatorRule(j, P) => OperatorRule(j, Q)
  BY <1>1 DEF OperatorRule
<1>4. MisfitRule(j, P) => MisfitRule(j, Q)
  BY <1>1 DEF MisfitRule
<1>5. BodyRule(j, P) => BodyRule(j, Q)
  BY <1>1 DEF BodyRule
<1>6. QED
  BY <1>2, <1>3, <1>4, <1>5 DEF Follows

\* More answers change nothing about what has been derived from the first ones.
LEMMA FollowsLonger ==
    ASSUME NEW S, NEW answers \in Seq(S), NEW x \in S, NEW j, NEW P, Follows(j, P, answers)
    PROVE  Follows(j, P, Append(answers, x))
<1>1. PollRule(j, answers) => PollRule(j, Append(answers, x))
  <2>1. SUFFICES ASSUME PollRule(j, answers)
                 PROVE  PollRule(j, Append(answers, x))
    OBVIOUS
  <2>2. j.to \in 1 .. Len(answers)
    BY <2>1 DEF PollRule
  <2>3. j.to \in 1 .. Len(Append(answers, x)) /\ Append(answers, x)[j.to] = answers[j.to]
    BY <2>2
  <2>4. QED
    BY <2>1, <2>3 DEF PollRule
<1>2. QED
  BY <1>1 DEF Follows

LEMMA ProvedNone == \A answers : Proved({}, answers)
<1>1. SUFFICES ASSUME NEW answers
               PROVE  Proved({}, answers)
  OBVIOUS
<1> DEFINE D == [k \in 1 .. 0 |-> k]
<1>2. Derivation(D, 0, answers)
  BY DEF Derivation
<1>3. {} = {D[k] : k \in 1 .. 0}
  OBVIOUS
<1> HIDE DEF D
<1>4. QED
  BY <1>2, <1>3 DEF Proved

LEMMA ProvedOne ==
    ASSUME NEW P, NEW answers, Proved(P, answers), NEW j, Follows(j, P, answers)
    PROVE  Proved(P \cup {j}, answers)
<1>1. PICK D : \E length \in Nat :
                    Derivation(D, length, answers) /\ P = {D[k] : k \in 1 .. length}
  BY DEF Proved
<1>2. PICK n \in Nat : Derivation(D, n, answers) /\ P = {D[k] : k \in 1 .. n}
  BY <1>1
<1> DEFINE E == [k \in 1 .. n + 1 |-> IF k = n + 1 THEN j ELSE D[k]]
<1>3. \A k \in 1 .. n : E[k] = D[k] /\ k \in 1 .. n + 1
  BY <1>2
<1>4. E[n + 1] = j /\ DOMAIN E = 1 .. n + 1 /\ n + 1 \in 1 .. n + 1
  BY <1>2
<1> HIDE DEF E
<1>5. \A m \in 1 .. n + 1 : {E[k] : k \in 1 .. m - 1} = {D[k] : k \in 1 .. m - 1}
  BY <1>2, <1>3
<1>6. \A m \in 1 .. n + 1 : Follows(E[m], {E[k] : k \in 1 .. m - 1}, answers)
  <2>1. SUFFICES ASSUME NEW m \in 1 .. n + 1
                 PROVE  Follows(E[m], {E[k] : k \in 1 .. m - 1}, answers)
    OBVIOUS
  <2>2. CASE m = n + 1
    <3>1. m - 1 = n
      BY <1>2, <2>2
    <3>2. QED
      BY <1>2, <1>4, <1>5, <2>2, <3>1
  <2>3. CASE m # n + 1
    <3>1. m \in 1 .. n
      BY <1>2, <2>3
    <3>2. QED
      BY <1>2, <1>3, <1>5, <3>1 DEF Derivation
  <2>4. QED
    BY <2>2, <2>3
<1>7. P \cup {j} = {E[k] : k \in 1 .. n + 1}
  <2>1. \A k \in 1 .. n + 1 : k = n + 1 \/ k \in 1 .. n
    BY <1>2
  <2>2. QED
    BY <1>2, <1>3, <1>4, <2>1
<1>8. Derivation(E, n + 1, answers) /\ n + 1 \in Nat
  BY <1>2, <1>4, <1>6 DEF Derivation
<1>9. QED
  BY <1>7, <1>8 DEF Proved

LEMMA ProvedLonger ==
    ASSUME NEW S, NEW answers \in Seq(S), NEW x \in S, NEW P, Proved(P, answers)
    PROVE  Proved(P, Append(answers, x))
<1>1. PICK D : \E length \in Nat :
                    Derivation(D, length, answers) /\ P = {D[k] : k \in 1 .. length}
  BY DEF Proved
<1>2. PICK n \in Nat : Derivation(D, n, answers) /\ P = {D[k] : k \in 1 .. n}
  BY <1>1
<1>3. Derivation(D, n, Append(answers, x))
  BY <1>2, FollowsLonger DEF Derivation
<1>4. QED
  BY <1>2, <1>3 DEF Proved

LEMMA ProvedIsDerivable ==
    ASSUME NEW P, NEW answers, Proved(P, answers), NEW j \in P
    PROVE  Derivable(j, answers)
BY DEF Proved, Derivable

(***************************************************************************)
(* What a frame has behind it, and what it waits for.                      *)
(***************************************************************************)
\* These judgements are about the operands that the frame f has done, in a call c.
Gathered(f, c, operands) ==
    /\ c.env = f.env /\ c.node = f.node
    /\ Operated(c, operands) /\ Len(operands) = Len(f.done)
    /\ \A k \in 1 .. Len(operands) : f.done[k] = operands[k].outcome.what

\* A frame whose activation began as the call c waits for the call d.
Awaits(f, c, d, P) ==
    \E operands \in Seq(P) :
        /\ Gathered(f, c, operands)
        /\ \/ /\ Len(f.done) < Operands(f.node.op)
              /\ d = CallOf(f.env, f.node.sub[Len(f.done) + 1], After(c, operands))
           \/ /\ Len(f.done) = Operands(f.node.op)
              /\ f.node.op \in Binders /\ Fits(f.node.op, f.done[1])
              /\ d = CallOf(BodyEnv(f.node, f.env, f.done), Body(f.node, f.done),
                           After(c, operands))

LEMMA AwaitsMore ==
    ASSUME NEW P, NEW Q, P \subseteq Q, NEW f, NEW c, NEW d, Awaits(f, c, d, P)
    PROVE  Awaits(f, c, d, Q)
<1>1. Seq(P) \subseteq Seq(Q)
  OBVIOUS
<1>2. QED
  BY <1>1 DEF Awaits

\* The operands are those of any judgement about the call.
LEMMA SameOperands ==
    ASSUME NEW c, NEW to, NEW o, NEW operands
    PROVE  /\ Operated(Judgement(c, to, o), operands) <=> Operated(c, operands)
           /\ After(Judgement(c, to, o), operands) = After(c, operands)
BY JudgementFields DEF Operated, After

LEMMA ResultsAre ==
    ASSUME NEW S, NEW vs \in Seq(S), NEW T, NEW operands \in Seq(T), Len(operands) = Len(vs),
           \A k \in 1 .. Len(operands) : vs[k] = operands[k].outcome.what
    PROVE  Results(operands) = vs
<1>1. vs = [k \in 1 .. Len(vs) |-> vs[k]]
  OBVIOUS
<1>2. QED
  BY <1>1 DEF Results

\* One operand more.
LEMMA GatherOne ==
    ASSUME NEW P, NEW W, NEW f, f.done \in Seq(W), NEW v \in W, NEW c, NEW operands \in Seq(P),
           Gathered(f, c, operands), NEW j \in P,
           About(j, c.env, c.node.sub[Len(operands) + 1], After(c, operands)),
           j.outcome = Returns(v),
           NEW more, more = Append(operands, j), NEW done, done = Append(f.done, v)
    PROVE  Gathered(Frame(f.node, f.env, done), c, more)
<1> DEFINE n == Len(operands)
<1>1. /\ n \in Nat /\ n = Len(f.done)
      /\ Operated(c, operands) /\ c.env = f.env /\ c.node = f.node
      /\ \A k \in 1 .. n : f.done[k] = operands[k].outcome.what
  BY DEF Gathered
<1>2. /\ more \in Seq(P) /\ Len(more) = n + 1 /\ more[n + 1] = j
      /\ \A k \in 1 .. n : more[k] = operands[k]
  OBVIOUS
<1>3. /\ done \in Seq(W) /\ Len(done) = n + 1 /\ done[n + 1] = v
      /\ \A k \in 1 .. n : done[k] = f.done[k]
  BY <1>1
<1>4. After(c, operands) = IF n + 1 = 1 THEN c.from ELSE more[(n + 1) - 1].to
  <2>1. CASE n = 0
    <3>1. operands = << >>
      BY <2>1
    <3>2. QED
      BY <2>1, <3>1 DEF After
  <2>2. CASE n # 0
    <3>1. operands # << >> /\ (n + 1) - 1 = n /\ n \in 1 .. n /\ n + 1 # 1
      BY <1>1, <2>2
    <3>2. QED
      BY <1>2, <3>1 DEF After
  <2>3. QED
    BY <2>1, <2>2
<1>5. Operated(c, more)
  <2>1. SUFFICES ASSUME NEW k \in 1 .. n + 1
                 PROVE  /\ About(more[k], c.env, c.node.sub[k],
                                  IF k = 1 THEN c.from ELSE more[k - 1].to)
                        /\ more[k].outcome.kind = "ok"
    BY <1>2 DEF Operated
  <2>2. CASE k = n + 1
    BY <1>2, <1>4, <2>2, OutcomeFields
  <2>3. CASE k # n + 1
    <3>1. k \in 1 .. n /\ (k # 1 => k - 1 \in 1 .. n)
      BY <1>1, <2>3
    <3>2. /\ About(operands[k], c.env, c.node.sub[k],
                   IF k = 1 THEN c.from ELSE operands[k - 1].to)
          /\ operands[k].outcome.kind = "ok"
      BY <1>1, <3>1 DEF Operated
    <3>3. QED
      BY <1>2, <3>1, <3>2
  <2>4. QED
    BY <2>2, <2>3
<1>6. \A k \in 1 .. n + 1 : done[k] = more[k].outcome.what
  <2>1. SUFFICES ASSUME NEW k \in 1 .. n + 1
                 PROVE  done[k] = more[k].outcome.what
    OBVIOUS
  <2>2. CASE k = n + 1
    BY <1>2, <1>3, <2>2, OutcomeFields
  <2>3. CASE k # n + 1
    <3>1. k \in 1 .. n
      BY <1>1, <2>3
    <3>2. QED
      BY <1>1, <1>2, <1>3, <3>1
  <2>4. QED
    BY <2>2, <2>3
<1>7. Frame(f.node, f.env, done).node = f.node /\ Frame(f.node, f.env, done).env = f.env
      /\ Frame(f.node, f.env, done).done = done
  BY DEF Frame
<1>8. QED
  BY <1>1, <1>2, <1>3, <1>5, <1>6, <1>7 DEF Gathered

\* The awaited call fails, and so does that of the frame (the operator ?); or it is the
\* body, and the call of the frame ends as it does.
LEMMA FrameEnds ==
    ASSUME NEW P, NEW W, NEW f, f.done \in Seq(W), Operands(f.node.op) \in Nat,
           NEW c, NEW d, Awaits(f, c, d, P), NEW to, NEW o, Judgement(d, to, o) \in P,
           o.kind # "ok" \/ Len(f.done) = Operands(f.node.op), NEW answers
    PROVE  Follows(Judgement(c, to, o), P, answers)
<1> DEFINE j == Judgement(c, to, o)
           callee == Judgement(d, to, o)
<1>1. PICK operands \in Seq(P) :
        /\ Gathered(f, c, operands)
        /\ \/ /\ Len(f.done) < Operands(f.node.op)
              /\ d = CallOf(f.env, f.node.sub[Len(f.done) + 1], After(c, operands))
           \/ /\ Len(f.done) = Operands(f.node.op)
              /\ f.node.op \in Binders /\ Fits(f.node.op, f.done[1])
              /\ d = CallOf(BodyEnv(f.node, f.env, f.done), Body(f.node, f.done),
                           After(c, operands))
  BY DEF Awaits
<1>2. /\ Operated(j, operands) /\ After(j, operands) = After(c, operands)
      /\ j.env = f.env /\ j.node = f.node /\ j.to = to /\ j.outcome = o
      /\ Len(operands) = Len(f.done)
  BY <1>1, SameOperands, JudgementFields DEF Gathered
<1>3. /\ callee.env = d.env /\ callee.node = d.node /\ callee.from = d.from
      /\ callee.to = to /\ callee.outcome = o /\ callee \in P
  BY JudgementFields
<1>4. Results(operands) = f.done
  BY <1>1, ResultsAre DEF Gathered
<1> HIDE DEF j, callee
<1>5. CASE /\ Len(f.done) < Operands(f.node.op)
           /\ d = CallOf(f.env, f.node.sub[Len(f.done) + 1], After(c, operands))
  <2>1. About(callee, j.env, j.node.sub[Len(operands) + 1], After(j, operands))
    BY <1>2, <1>3, <1>5, CallFields DEF About
  <2>2. callee.outcome.kind # "ok"
    BY <1>3, <1>5
  <2>3. OperandRule(j, P)
    BY <1>2, <1>3, <1>5, <2>1, <2>2 DEF OperandRule
  <2>4. QED
    BY <2>3 DEF Follows, j
<1>6. CASE /\ Len(f.done) = Operands(f.node.op)
           /\ f.node.op \in Binders /\ Fits(f.node.op, f.done[1])
           /\ d = CallOf(BodyEnv(f.node, f.env, f.done), Body(f.node, f.done),
                        After(c, operands))
  <2>1. About(callee, BodyEnv(j.node, j.env, f.done), Body(j.node, f.done), After(j, operands))
    BY <1>2, <1>3, <1>6, CallFields DEF About
  <2>2. BodyRule(j, P)
    BY <1>2, <1>3, <1>4, <1>6, <2>1 DEF BodyRule
  <2>3. QED
    BY <2>2 DEF Follows, j
<1>7. QED
  BY <1>1, <1>5, <1>6

(***************************************************************************)
(* The machine on the way of a derivation.                                 *)
(***************************************************************************)
\* P has been derived, and the frames lead from the call of autarky_execute to the
\* innermost one.
Track(P, calls) ==
    /\ Proved(P, seen)
    /\ calls[1] = Main(program)
    /\ \A k \in 1 .. Len(stack) : Awaits(stack[k], calls[k], calls[k + 1], P)
    /\ mode = "eval" => calls[Len(stack) + 1] = CallOf(env, node, Len(seen))
    /\ mode = "ok" => Judgement(calls[Len(stack) + 1], Len(seen), Returns(value)) \in P
    /\ mode = "err" => Judgement(Main(program), Len(seen), Fails(error)) \in P

OnTrack == pc = "running" => \E P : \E calls : Track(P, calls)

Derives == OnTrack /\ (pc # "idle" => out_buf.kind = "none") /\ EndsAsDerived

\* A failure passes through all frames below the one it occurs in.
LEMMA FailureFalls ==
    ASSUME NEW P, NEW answers, Proved(P, answers), NEW W, NEW frames \in Seq(Frames(W)),
           NEW calls, NEW n \in 0 .. Len(frames),
           \A k \in 1 .. n : Awaits(frames[k], calls[k], calls[k + 1], P),
           NEW to, NEW o, o.kind # "ok", Judgement(calls[n + 1], to, o) \in P
    PROVE  \E Q : Proved(Q, answers) /\ Judgement(calls[1], to, o) \in Q
<1> DEFINE Fallen(i) == \E Q : /\ P \subseteq Q /\ Proved(Q, answers)
                              /\ Judgement(calls[n + 1 - i], to, o) \in Q
           S == {i \in Nat : i <= n => Fallen(i)}
<1>1. n \in Nat /\ 0 \in Nat
  OBVIOUS
<1>2. Fallen(0)
  <2>1. n + 1 - 0 = n + 1
    BY <1>1
  <2>2. QED
    BY <2>1
<1>3. ASSUME NEW i \in Nat, i + 1 <= n, Fallen(i)
      PROVE  Fallen(i + 1)
  <2> DEFINE k == n - i
  <2>1. k \in 1 .. n /\ n + 1 - i = k + 1 /\ n + 1 - (i + 1) = k
    BY <1>1, <1>3
  <2>2. PICK Q : P \subseteq Q /\ Proved(Q, answers) /\ Judgement(calls[n + 1 - i], to, o) \in Q
    BY <1>3
  <2> HIDE DEF k, Fallen
  <2>3. Awaits(frames[k], calls[k], calls[k + 1], Q)
    BY <2>1, <2>2, AwaitsMore
  <2>4. frames[k].done \in Seq(W) /\ Operands(frames[k].node.op) \in Nat
    <3>1. frames[k] \in Frames(W)
      <4>1. k \in 1 .. Len(frames)
        BY <2>1
      <4>2. QED
        BY <4>1, SeqElement
    <3>2. frames[k].done \in Seq(W) /\ frames[k].node \in IrNode
      BY <3>1 DEF Frames
    <3>3. Operands(frames[k].node.op) \in {0, 1, 2}
      BY <3>2, TreeFacts, KindFacts
    <3>4. QED
      BY <3>2, <3>3
  <2>5. Follows(Judgement(calls[k], to, o), Q, answers)
    BY <2>1, <2>2, <2>3, <2>4, FrameEnds
  <2>6. Proved(Q \cup {Judgement(calls[k], to, o)}, answers)
    BY <2>2, <2>5, ProvedOne
  <2>7. QED
    BY <2>1, <2>2, <2>6 DEF Fallen
<1> HIDE DEF Fallen
<1>4. 0 \in S /\ \A i \in Nat : i >= 0 /\ i \in S => i + 1 \in S
  BY <1>1, <1>2, <1>3
<1> HIDE DEF S
<1>5. n \in S
  BY <1>1, <1>4, UpFrom
<1>6. Fallen(n)
  BY <1>1, <1>5 DEF S
<1>7. n + 1 - n = 1
  BY <1>1
<1>8. QED
  BY <1>6, <1>7 DEF Fallen

\* A call returns to the frames below it.
LEMMA TrackOk ==
    ASSUME NEW P, NEW calls, Track(P, calls), Proved(P, seen'), program' = program,
           NEW v, NEW frames, Ok(v, frames), Len(frames) \in Nat, Len(frames) <= Len(stack),
           \A k \in 1 .. Len(frames) : frames[k] = stack[k], Len(stack) \in Nat,
           Follows(Judgement(calls[Len(frames) + 1], Len(seen'), Returns(v)), P, seen')
    PROVE  OnTrack'
<1>1. mode' = "ok" /\ value' = v /\ stack' = frames
  BY DEF Ok
<1>2. PICK Q : /\ Proved(Q, seen') /\ P \subseteq Q
               /\ Judgement(calls[Len(frames) + 1], Len(seen'), Returns(v)) \in Q
  <2> DEFINE j == Judgement(calls[Len(frames) + 1], Len(seen'), Returns(v))
  <2> HIDE DEF j
  <2>1. Proved(P \cup {j}, seen')
    BY ProvedOne DEF j
  <2>2. P \subseteq P \cup {j} /\ j \in P \cup {j}
    OBVIOUS
  <2>3. QED
    BY <2>1, <2>2 DEF j
<1>3. \A k \in 1 .. Len(frames) : Awaits(frames[k], calls[k], calls[k + 1], Q)
  <2>1. SUFFICES ASSUME NEW k \in 1 .. Len(frames)
                 PROVE  Awaits(frames[k], calls[k], calls[k + 1], Q)
    OBVIOUS
  <2>2. Awaits(stack[k], calls[k], calls[k + 1], P)
    BY DEF Track
  <2>3. QED
    BY <1>2, <2>2, AwaitsMore
<1>4. calls[1] = Main(program)'
  BY DEF Track, Main
<1>5. Track(Q, calls)'
  BY <1>1, <1>2, <1>3, <1>4 DEF Track
<1>6. QED
  BY <1>5 DEF OnTrack

\* A call is made, by an activation that is now the frame f.
LEMMA TrackEvaluate ==
    ASSUME NEW P, NEW calls, Track(P, calls), seen' = seen, program' = program,
           NEW n, NEW e, NEW frames, Evaluate(n, e, frames), NEW m \in 0 .. Len(stack),
           Len(stack) \in Nat, Len(frames) = m + 1, \A k \in 1 .. m : frames[k] = stack[k],
           Awaits(frames[m + 1], calls[m + 1], CallOf(e, n, Len(seen)), P)
    PROVE  OnTrack'
<1>1. mode' = "eval" /\ node' = n /\ env' = e /\ stack' = frames
  BY DEF Evaluate
<1>2. PICK more : /\ more[m + 2] = CallOf(e, n, Len(seen))
                  /\ \A k \in 1 .. m + 1 : more[k] = calls[k]
  <2> DEFINE x == [k \in 1 .. m + 2 |-> IF k = m + 2 THEN CallOf(e, n, Len(seen)) ELSE calls[k]]
  <2>1. x[m + 2] = CallOf(e, n, Len(seen)) /\ \A k \in 1 .. m + 1 : x[k] = calls[k]
    OBVIOUS
  <2> HIDE DEF x
  <2>2. QED
    BY <2>1
<1>3. \A k \in 1 .. m + 1 : Awaits(frames[k], more[k], more[k + 1], P)
  <2>1. SUFFICES ASSUME NEW k \in 1 .. m + 1
                 PROVE  Awaits(frames[k], more[k], more[k + 1], P)
    OBVIOUS
  <2>2. CASE k = m + 1
    <3>1. k + 1 = m + 2
      BY <2>2
    <3>2. QED
      BY <1>2, <2>2, <3>1
  <2>3. CASE k # m + 1
    <3>1. k \in 1 .. m /\ k + 1 \in 1 .. m + 1 /\ k \in 1 .. Len(stack)
      BY <2>3
    <3>2. QED
      BY <1>2, <3>1 DEF Track
  <2>4. QED
    BY <2>2, <2>3
<1>4. more[1] = Main(program)'
  <2>1. 1 \in 1 .. m + 1
    OBVIOUS
  <2>2. QED
    BY <1>2, <2>1 DEF Track, Main
<1>5. more[Len(stack') + 1] = CallOf(env', node', Len(seen'))
  <2>1. Len(stack') + 1 = m + 2
    BY <1>1
  <2>2. QED
    BY <1>1, <1>2, <2>1
<1>6. Track(P, more)'
  <2>1. Proved(P, seen')
    BY DEF Track
  <2>2. QED
    BY <1>1, <1>3, <1>4, <1>5, <2>1 DEF Track
<1>7. QED
  BY <1>6 DEF OnTrack

\* A call fails, and all below it do.
LEMMA CallFails ==
    ASSUME NEW P, NEW calls, Track(P, calls), NEW W, Over(W), NEW m \in 0 .. Len(stack),
           NEW o, o.kind # "ok",
           Follows(Judgement(calls[m + 1], Len(seen), o), P, seen)
    PROVE  \E Q : Proved(Q, seen) /\ Judgement(Main(program), Len(seen), o) \in Q
<1> DEFINE j == Judgement(calls[m + 1], Len(seen), o)
           Q == P \cup {j}
<1>1. Proved(Q, seen) /\ P \subseteq Q /\ j \in Q
  BY ProvedOne DEF Track
<1>2. stack \in Seq(Frames(W)) /\ Len(stack) \in Nat
  BY DEF Over
<1> HIDE DEF Q
<1>3. \A k \in 1 .. m : Awaits(stack[k], calls[k], calls[k + 1], Q)
  <2>1. SUFFICES ASSUME NEW k \in 1 .. m
                 PROVE  Awaits(stack[k], calls[k], calls[k + 1], Q)
    OBVIOUS
  <2>2. k \in 1 .. Len(stack)
    BY <1>2
  <2>3. Awaits(stack[k], calls[k], calls[k + 1], P)
    BY <2>2 DEF Track
  <2>4. QED
    BY <1>1, <2>3, AwaitsMore
<1>4. calls[1] = Main(program)
  BY DEF Track
<1>5. QED
  BY <1>1, <1>2, <1>3, <1>4, FailureFalls

LEMMA TrackErr ==
    ASSUME NEW P, NEW calls, Track(P, calls), NEW W, Over(W), NEW m \in 0 .. Len(stack),
           NEW e, Err(e), seen' = seen, program' = program,
           Follows(Judgement(calls[m + 1], Len(seen), Fails(e)), P, seen)
    PROVE  OnTrack'
<1>1. PICK Q : Proved(Q, seen) /\ Judgement(Main(program), Len(seen), Fails(e)) \in Q
  <2>1. Fails(e).kind # "ok"
    BY OutcomeFields
  <2>2. QED
    BY <2>1, CallFails
<1>2. mode' = "err" /\ error' = e /\ stack' = << >> /\ Len(<< >>) = 0
  BY DEF Err
<1>3. PICK one : one[1] = Main(program)
  <2>1. [k \in 1 .. 1 |-> Main(program)][1] = Main(program)
    OBVIOUS
  <2>2. QED
    BY <2>1
<1>4. Track(Q, one)'
  <2>1. \A k \in 1 .. Len(stack') : FALSE
    BY <1>2
  <2>2. Main(program)' = Main(program)
    BY DEF Main
  <2>3. QED
    BY <1>1, <1>2, <1>3, <2>1, <2>2 DEF Track
<1>5. QED
  BY <1>4 DEF OnTrack

\* A node without operands.
LEMMA LeavesTrack ==
    ASSUME NEW P, NEW calls, Track(P, calls), NEW W, Over(W), Plain, NetTypeOK,
           EvalLiteral \/ EvalVar \/ EvalLambda \/ EvalPollNothing \/ EvalPollReturns
    PROVE  OnTrack'
<1> DEFINE c == calls[Len(stack) + 1]
<1>1. mode = "eval" /\ program' = program /\ Len(stack) \in Nat /\ seen \in Seq(Int32)
  BY DEF EvalLiteral, EvalVar, EvalLambda, EvalPollNothing, EvalPollReturns, Polling, Evaluating,
         hostVars, Over, Plain
<1>2. c.env = env /\ c.node = node /\ c.from = Len(seen)
  <2>1. c = CallOf(env, node, Len(seen))
    BY <1>1 DEF Track
  <2> HIDE DEF c
  <2>2. QED
    BY <2>1, CallFields
<1>3. Proved(P, seen)
  BY DEF Track
<1> HIDE DEF c
<1>4. \A to, o : LET j == Judgement(c, to, o) IN
            /\ j.env = env /\ j.node = node /\ j.from = Len(seen) /\ j.to = to /\ j.outcome = o
  BY <1>2, JudgementFields
<1>5. ASSUME NEW v, Ok(v, stack), Proved(P, seen'),
             Follows(Judgement(c, Len(seen'), Returns(v)), P, seen')
      PROVE  OnTrack'
  <2>1. Len(stack) <= Len(stack) /\ \A k \in 1 .. Len(stack) : stack[k] = stack[k]
    BY <1>1
  <2>2. QED
    BY <1>1, <1>5, <2>1, TrackOk DEF c
<1>6. CASE EvalLiteral
  <2> DEFINE v == Value(node.op, node.n, << >>)
             j == Judgement(c, Len(seen), Returns(v))
  <2>1. Ok(v, stack) /\ seen' = seen /\ node.op \in {"int", "float"}
    BY <1>6 DEF EvalLiteral, Evaluating
  <2>2. LiteralRule(j)
    <3>1. j.node = node /\ j.from = Len(seen) /\ j.to = Len(seen) /\ j.outcome = Returns(v)
      BY <1>4
    <3> HIDE DEF j
    <3>2. QED
      BY <2>1, <3>1 DEF LiteralRule
  <2>3. Follows(j, P, seen)
    BY <2>2 DEF Follows
  <2> HIDE DEF v
  <2>4. QED
    BY <1>3, <1>5, <2>1, <2>3
<1>7. CASE EvalVar
  <2>1. node.op = "var" /\ node.names[1] # "POLL" /\ seen' = seen
    BY <1>7 DEF EvalVar, Evaluating
  <2>2. CASE node.names[1] \in DOMAIN env
    <3> DEFINE v == env[node.names[1]]
               j == Judgement(c, Len(seen), Returns(v))
    <3>1. Ok(v, stack)
      BY <1>7, <2>2 DEF EvalVar
    <3>2. /\ j.env = env /\ j.node = node /\ j.from = Len(seen) /\ j.to = Len(seen)
          /\ j.outcome = Returns(v)
      BY <1>4
    <3> HIDE DEF j
    <3>3. VarRule(j)
      BY <2>1, <2>2, <3>2 DEF VarRule
    <3>4. Follows(j, P, seen)
      BY <3>3 DEF Follows
    <3> HIDE DEF v
    <3>5. QED
      BY <1>3, <1>5, <2>1, <3>1, <3>4 DEF j
  <2>3. CASE node.names[1] \notin DOMAIN env
    <3> DEFINE j == Judgement(c, Len(seen), Fails("unbound"))
    <3>1. Err("unbound")
      BY <1>7, <2>3 DEF EvalVar
    <3>2. /\ j.env = env /\ j.node = node /\ j.from = Len(seen) /\ j.to = Len(seen)
          /\ j.outcome = Fails("unbound")
      BY <1>4
    <3> HIDE DEF j
    <3>3. VarRule(j)
      BY <2>1, <2>3, <3>2 DEF VarRule
    <3>4. Follows(j, P, seen)
      BY <3>3 DEF Follows
    <3>5. Len(stack) \in 0 .. Len(stack)
      BY <1>1
    <3>6. QED
      BY <1>1, <2>1, <3>1, <3>4, <3>5, TrackErr DEF j, c
  <2>4. QED
    BY <2>2, <2>3
<1>8. CASE EvalLambda
  <2> DEFINE v == Closure(node.names[1], node.sub[1], env)
             j == Judgement(c, Len(seen), Returns(v))
  <2>1. Ok(v, stack) /\ seen' = seen /\ node.op = "lambda"
    BY <1>8 DEF EvalLambda, Evaluating
  <2>2. /\ j.env = env /\ j.node = node /\ j.from = Len(seen) /\ j.to = Len(seen)
        /\ j.outcome = Returns(v)
    BY <1>4
  <2> HIDE DEF j
  <2>3. LambdaRule(j)
    BY <2>1, <2>2 DEF LambdaRule
  <2>4. Follows(j, P, seen)
    BY <2>3 DEF Follows
  <2> HIDE DEF v
  <2>5. QED
    BY <1>3, <1>5, <2>1, <2>4 DEF j
<1>9. CASE EvalPollNothing \/ EvalPollReturns
  <2>1. PICK x \in Int32 : Ok(IntValue(x), stack) /\ seen' = Append(seen, x)
    <3>1. 0 \in Int32 /\ volume \in Int32
      BY Trunc32IsInt32 DEF NetTypeOK
    <3>2. QED
      BY <1>9, <3>1 DEF EvalPollNothing, EvalPollReturns
  <2> DEFINE v == IntValue(x)
             j == Judgement(c, Len(seen) + 1, Returns(v))
  <2>2. /\ Len(seen) \in Nat /\ Len(seen') = Len(seen) + 1 /\ seen'[Len(seen) + 1] = x
        /\ Len(seen) + 1 \in 1 .. Len(seen')
    BY <1>1, <2>1
  <2>3. Proved(P, seen')
    BY <1>1, <1>3, <2>1, ProvedLonger
  <2>4. node.op = "var" /\ node.names[1] = "POLL"
    BY <1>9 DEF EvalPollNothing, EvalPollReturns, Polling, Evaluating
  <2>5. /\ j.env = env /\ j.node = node /\ j.from = Len(seen) /\ j.to = Len(seen) + 1
        /\ j.outcome = Returns(v)
    BY <1>4
  <2> HIDE DEF j
  <2>6. PollRule(j, seen')
    BY <2>2, <2>4, <2>5 DEF PollRule
  <2>7. Follows(j, P, seen')
    BY <2>6 DEF Follows
  <2> HIDE DEF v
  <2>8. Follows(Judgement(c, Len(seen'), Returns(v)), P, seen')
    BY <2>2, <2>7 DEF j
  <2>9. QED
    BY <1>5, <2>1, <2>3, <2>8 DEF v
<1>10. QED
  BY <1>6, <1>7, <1>8, <1>9

\* An activation begins with its first operand.
LEMMA BeginsTrack ==
    ASSUME NEW P, NEW calls, Track(P, calls), NEW W, Over(W), Plain, EvalOperands
    PROVE  OnTrack'
<1> DEFINE f == Frame(node, env, << >>)
           c == calls[Len(stack) + 1]
<1>1. /\ mode = "eval" /\ program' = program /\ seen' = seen /\ Len(stack) \in Nat
      /\ stack \in Seq(Frames(W)) /\ Operands(node.op) > 0
      /\ Evaluate(node.sub[1], env, Append(stack, f))
  BY DEF EvalOperands, hostVars, Over
<1>2. c = CallOf(env, node, Len(seen))
  BY <1>1 DEF Track
<1>3. f.node = node /\ f.env = env /\ f.done = << >> /\ Len(f.done) = 0
  BY DEF Frame
<1> HIDE DEF f, c
<1>4. Awaits(f, c, CallOf(env, node.sub[1], Len(seen)), P)
  <2>1. c.env = env /\ c.node = node /\ c.from = Len(seen)
    BY <1>2, CallFields
  <2>2. << >> \in Seq(P) /\ Len(<< >>) = 0 /\ After(c, << >>) = Len(seen)
    BY <2>1 DEF After
  <2>3. Gathered(f, c, << >>)
    BY <1>3, <2>1, <2>2 DEF Gathered, Operated
  <2>4. Len(f.done) < Operands(f.node.op) /\ f.node.sub[Len(f.done) + 1] = node.sub[1]
    BY <1>1, <1>3
  <2>5. QED
    BY <1>3, <2>2, <2>3, <2>4 DEF Awaits
<1>5. /\ Len(Append(stack, f)) = Len(stack) + 1 /\ Append(stack, f)[Len(stack) + 1] = f
      /\ \A k \in 1 .. Len(stack) : Append(stack, f)[k] = stack[k]
  BY <1>1
<1>6. Len(stack) \in 0 .. Len(stack)
  BY <1>1
<1>7. QED
  BY <1>1, <1>4, <1>5, <1>6, TrackEvaluate DEF c

\* What the top frame waited for has been derived.
LEMMA ReturnedTrack ==
    ASSUME NEW P, NEW calls, Track(P, calls), NEW W, Over(W), Returned
    PROVE  /\ Awaits(Top, calls[Len(stack)], calls[Len(stack) + 1], P)
           /\ Judgement(calls[Len(stack) + 1], Len(seen), Returns(value)) \in P
           /\ Top.done \in Seq(W) /\ value \in W /\ Len(Top.done) \in Nat
           /\ Operands(Top.node.op) \in Nat /\ Len(Top.done) <= Operands(Top.node.op)
           /\ Len(stack) \in Nat \ {0} /\ Len(Done) = Len(Top.done) + 1 /\ Done \in Seq(W)
           /\ Len(Rest) = Len(stack) - 1 /\ \A k \in 1 .. Len(stack) - 1 : Rest[k] = stack[k]
           /\ (Len(stack) - 1) + 1 = Len(stack) /\ Len(stack) - 1 \in 0 .. Len(stack)
<1>1. /\ Len(stack) \in Nat \ {0} /\ Waits(Top) /\ Top.node.op \in Kind
      /\ Top.done \in Seq(W) /\ Len(Top.done) \in Nat /\ Len(Done) = Len(Top.done) + 1
      /\ Len(Rest) = Len(stack) - 1 /\ \A k \in 1 .. Len(stack) - 1 : Rest[k] = stack[k]
      /\ Done \in Seq(W)
  BY ReturnedFacts
<1>2. Operands(Top.node.op) \in Nat /\ Len(Top.done) <= Operands(Top.node.op)
  <2>1. Operands(Top.node.op) \in {0, 1, 2}
    BY <1>1, KindFacts
  <2>2. QED
    BY <1>1, <2>1 DEF Waits
<1>3. Awaits(Top, calls[Len(stack)], calls[Len(stack) + 1], P)
  <2>1. Len(stack) \in 1 .. Len(stack)
    BY <1>1
  <2>2. QED
    BY <2>1 DEF Track, Top
<1>4. Judgement(calls[Len(stack) + 1], Len(seen), Returns(value)) \in P /\ value \in W
  BY DEF Track, Returned, Over
<1>5. (Len(stack) - 1) + 1 = Len(stack) /\ Len(stack) - 1 \in 0 .. Len(stack)
  BY <1>1
<1>6. QED
  BY <1>1, <1>2, <1>3, <1>4, <1>5

\* It was an operand.
LEMMA OperandDone ==
    ASSUME NEW P, NEW calls, Track(P, calls), NEW W, Over(W), Returned,
           Len(Done) <= Operands(Top.node.op)
    PROVE  \E operands \in Seq(P) :
                /\ Gathered(Frame(Top.node, Top.env, Done), calls[Len(stack)], operands)
                /\ Operated(calls[Len(stack)], operands) /\ Results(operands) = Done
                /\ Len(operands) = Len(Done) /\ After(calls[Len(stack)], operands) = Len(seen)
                /\ calls[Len(stack)].env = Top.env /\ calls[Len(stack)].node = Top.node
<1> DEFINE c == calls[Len(stack)]
           d == calls[Len(stack) + 1]
           j == Judgement(d, Len(seen), Returns(value))
<1>1. /\ Awaits(Top, c, d, P) /\ j \in P /\ Top.done \in Seq(W) /\ value \in W
      /\ Len(Top.done) < Operands(Top.node.op)
  <2>1. \A m, n \in Nat : m + 1 <= n => m < n
    OBVIOUS
  <2>2. QED
    BY <2>1, ReturnedTrack
<1>2. /\ j.env = d.env /\ j.node = d.node /\ j.from = d.from /\ j.to = Len(seen)
      /\ j.outcome = Returns(value)
  BY JudgementFields
<1> HIDE DEF c, d, j
<1>3. PICK operands \in Seq(P) :
        /\ Gathered(Top, c, operands)
        /\ d = CallOf(Top.env, Top.node.sub[Len(Top.done) + 1], After(c, operands))
  <2>1. ~(Len(Top.done) = Operands(Top.node.op))
    BY <1>1, ReturnedTrack
  <2>2. QED
    BY <1>1, <2>1 DEF Awaits
<1>4. c.env = Top.env /\ c.node = Top.node /\ Len(operands) = Len(Top.done)
  BY <1>3 DEF Gathered
<1>5. About(j, c.env, c.node.sub[Len(operands) + 1], After(c, operands))
  BY <1>2, <1>3, <1>4, CallFields DEF About
<1> DEFINE f == Frame(Top.node, Top.env, Done)
           more == Append(operands, j)
<1>6. /\ more \in Seq(P) /\ Len(more) = Len(Done) /\ more # << >> /\ more[Len(more)] = j
      /\ Done \in Seq(W)
  <2>1. Len(Done) = Len(Top.done) + 1 /\ Len(Top.done) \in Nat /\ Done \in Seq(W)
    BY ReturnedTrack
  <2>2. QED
    BY <1>1, <1>4, <2>1
<1>7. Gathered(f, c, more)
  <2>1. Done = Append(Top.done, value)
    BY DEF Done
  <2> HIDE DEF f, more
  <2>2. more = Append(operands, j)
    BY DEF more
  <2>3. Gathered(Frame(Top.node, Top.env, Done), c, more)
    BY <1>1, <1>2, <1>3, <1>5, <2>1, <2>2, GatherOne
  <2>4. QED
    BY <2>3 DEF f
<1>8. f.done = Done
  BY DEF Frame
<1> HIDE DEF f, more
<1>9. Operated(c, more) /\ \A k \in 1 .. Len(more) : Done[k] = more[k].outcome.what
  BY <1>7, <1>8 DEF Gathered
<1>10. Results(more) = Done
  BY <1>6, <1>9, ResultsAre
<1>11. After(c, more) = Len(seen)
  BY <1>2, <1>6 DEF After
<1>12. QED
  BY <1>4, <1>6, <1>7, <1>9, <1>10, <1>11 DEF c, f

\* The top frame, with one more operand, makes another call.
LEMMA PushTrack ==
    ASSUME NEW P, NEW calls, Track(P, calls), NEW W, Over(W), Returned,
           program' = program, seen' = seen, NEW n, NEW e, NEW f,
           Evaluate(n, e, Append(Rest, f)),
           Awaits(f, calls[Len(stack)], CallOf(e, n, Len(seen)), P)
    PROVE  OnTrack'
<1> DEFINE m == Len(stack) - 1
<1>1. Rest \in Seq(Frames(W))
  BY ReturnedFacts
<1>2. /\ Len(Append(Rest, f)) = m + 1 /\ Append(Rest, f)[m + 1] = f
      /\ \A k \in 1 .. m : Append(Rest, f)[k] = stack[k]
      /\ m \in 0 .. Len(stack) /\ m + 1 = Len(stack) /\ Len(stack) \in Nat
  <2>1. Len(Rest) = m /\ \A k \in 1 .. m : Rest[k] = stack[k]
    BY ReturnedTrack
  <2>2. m \in 0 .. Len(stack) /\ m + 1 = Len(stack) /\ Len(stack) \in Nat
    BY ReturnedTrack
  <2> HIDE DEF m
  <2>3. QED
    BY <1>1, <2>1, <2>2
<1> HIDE DEF m
<1>3. QED
  BY <1>2, TrackEvaluate

LEMMA NextTrack ==
    ASSUME NEW P, NEW calls, Track(P, calls), NEW W, Over(W), NextOperand
    PROVE  OnTrack'
<1> DEFINE f == Frame(Top.node, Top.env, Done)
           n == Top.node.sub[Len(Done) + 1]
<1>1. /\ Returned /\ Len(Done) < Operands(Top.node.op) /\ program' = program /\ seen' = seen
      /\ Evaluate(n, Top.env, Append(Rest, f))
  BY DEF NextOperand, hostVars
<1>2. f.node = Top.node /\ f.env = Top.env /\ f.done = Done
  BY DEF Frame
<1>3. PICK operands \in Seq(P) :
        Gathered(f, calls[Len(stack)], operands) /\ After(calls[Len(stack)], operands) = Len(seen)
  <2>1. Len(Done) <= Operands(Top.node.op)
    BY <1>1, ReturnedTrack
  <2>2. QED
    BY <1>1, <2>1, OperandDone
<1> HIDE DEF f
<1>4. Awaits(f, calls[Len(stack)], CallOf(Top.env, n, Len(seen)), P)
  BY <1>1, <1>2, <1>3 DEF Awaits
<1>5. QED
  BY <1>1, <1>4, PushTrack

\* The body of a node is evaluated in the environment that the rule has.
LEMMA BodyTrack ==
    ASSUME NEW P, NEW calls, Track(P, calls), NEW W, Over(W), HasOperands(Binders),
           Fits(Top.node.op, Done[1]), program' = program, seen' = seen,
           EvaluateBody(Body(Top.node, Done), BodyEnv(Top.node, Top.env, Done))
    PROVE  OnTrack'
<1> DEFINE f == Frame(Top.node, Top.env, Done)
           n == Body(Top.node, Done)
           e == BodyEnv(Top.node, Top.env, Done)
<1>1. /\ Returned /\ Len(Done) = Operands(Top.node.op) /\ Top.node.op \in Binders
      /\ Evaluate(n, e, Append(Rest, f))
  BY DEF HasOperands, EvaluateBody
<1>2. f.node = Top.node /\ f.env = Top.env /\ f.done = Done
  BY DEF Frame
<1>3. PICK operands \in Seq(P) :
        Gathered(f, calls[Len(stack)], operands) /\ After(calls[Len(stack)], operands) = Len(seen)
  <2>1. Len(Done) <= Operands(Top.node.op)
    BY <1>1, ReturnedTrack
  <2>2. QED
    BY <1>1, <2>1, OperandDone
<1> HIDE DEF f
<1>4. Awaits(f, calls[Len(stack)], CallOf(e, n, Len(seen)), P)
  BY <1>1, <1>2, <1>3 DEF Awaits
<1>5. QED
  BY <1>1, <1>4, PushTrack

LEMMA MisfitTrack ==
    ASSUME NEW P, NEW calls, Track(P, calls), NEW W, Over(W), HasOperands(Binders),
           ~Fits(Top.node.op, Done[1]), program' = program, seen' = seen,
           Err(Misfit(Top.node.op))
    PROVE  OnTrack'
<1> DEFINE c == calls[Len(stack)]
           o == Fails(Misfit(Top.node.op))
           j == Judgement(c, Len(seen), o)
<1>1. Returned /\ Len(Done) = Operands(Top.node.op) /\ Top.node.op \in Binders
  BY DEF HasOperands
<1>2. PICK operands \in Seq(P) :
        /\ Operated(c, operands) /\ Results(operands) = Done /\ Len(operands) = Len(Done)
        /\ After(c, operands) = Len(seen)
        /\ c.env = Top.env /\ c.node = Top.node
  <2>1. Len(Done) <= Operands(Top.node.op)
    BY <1>1, ReturnedTrack
  <2>2. QED
    BY <1>1, <2>1, OperandDone
<1>3. j.env = c.env /\ j.node = c.node /\ j.to = Len(seen) /\ j.outcome = o
  BY JudgementFields
<1>4. Operated(j, operands) /\ After(j, operands) = Len(seen)
  BY <1>2, SameOperands
<1> HIDE DEF j
<1>5. MisfitRule(j, P)
  BY <1>1, <1>2, <1>3, <1>4 DEF MisfitRule
<1>6. Follows(j, P, seen)
  BY <1>5 DEF Follows
<1>7. Len(stack) - 1 \in 0 .. Len(stack) /\ (Len(stack) - 1) + 1 = Len(stack)
  BY <1>1, ReturnedTrack
<1>8. QED
  BY <1>6, <1>7, TrackErr DEF j

(***************************************************************************)
(* What a node makes of its operands.                                      *)
(***************************************************************************)
\* The actions Apply, Match, Let, LetRec and Unpack evaluate the bodies of the rules.
LEMMA BodyOfNode ==
    ASSUME NEW n, NEW e, NEW vs
    PROVE  /\ n.op = "app" => /\ Fits(n.op, vs[1]) <=> vs[1].tag = "closure"
                              /\ Misfit(n.op) = "not_a_closure" /\ Body(n, vs) = vs[1].body
                              /\ BodyEnv(n, e, vs) = CallEnv(vs[1], vs[2])
           /\ n.op = "match" => /\ Fits(n.op, vs[1]) <=> vs[1].tag \in {"left", "right"}
                                /\ Misfit(n.op) = "not_either"
                                /\ LET b == IF vs[1].tag = "left" THEN 1 ELSE 2 IN
                                    /\ Body(n, vs) = n.sub[b + 1]
                                    /\ BodyEnv(n, e, vs) = Bind(e, n.names[b], vs[1].parts[1])
           /\ n.op = "let" => /\ Fits(n.op, vs[1]) /\ Body(n, vs) = n.sub[2]
                              /\ BodyEnv(n, e, vs) = Bind(e, n.names[1], vs[1])
           /\ n.op = "letrec" => /\ Fits(n.op, vs[1]) /\ Body(n, vs) = n.sub[2]
                                 /\ BodyEnv(n, e, vs)
                                        = Bind(e, n.names[1], Named(vs[1], n.names[1]))
           /\ n.op = "unpack" => /\ Fits(n.op, vs[1]) <=> vs[1].tag = "pair"
                                 /\ Misfit(n.op) = "not_a_pair" /\ Body(n, vs) = n.sub[2]
                                 /\ BodyEnv(n, e, vs)
                                        = Bind(Bind(e, n.names[1], vs[1].parts[1]),
                                               n.names[2], vs[1].parts[2])
<1>1. CASE n.op = "app"
  BY <1>1 DEF Fits, Misfit, Body, BodyEnv, CallEnv
<1>2. CASE n.op = "match"
  BY <1>2 DEF Fits, Misfit, Body, BodyEnv
<1>3. CASE n.op = "let"
  BY <1>3 DEF Fits, Body, BodyEnv
<1>4. CASE n.op = "letrec"
  BY <1>4 DEF Fits, Body, BodyEnv, Named
<1>5. CASE n.op = "unpack"
  BY <1>5 DEF Fits, Misfit, Body, BodyEnv
<1>6. QED
  BY <1>1, <1>2, <1>3, <1>4, <1>5

LEMMA BodiesTrack ==
    ASSUME NEW P, NEW calls, Track(P, calls), NEW W, Over(W),
           Apply \/ Match \/ Let \/ LetRec \/ Unpack
    PROVE  OnTrack'
<1>1. /\ HasOperands(Binders) /\ Returned /\ program' = program /\ seen' = seen
      /\ Len(Done) = Operands(Top.node.op)
  BY DEF Apply, Match, Let, LetRec, Unpack, HasOperands, Binders, hostVars
<1>2. Top.node.op # "app" => Done[1] = value
  <2>1. Top.node.op # "app" => Operands(Top.node.op) = 1
    BY <1>1, ReturnedFacts, KindFacts DEF HasOperands, Binders
  <2>2. QED
    BY <1>1, <2>1, ReturnedFacts
<1>3. CASE Apply
  <2>1. Top.node.op = "app"
    BY <1>3 DEF Apply, HasOperands
  <2>2. IF Done[1].tag = "closure"
        THEN EvaluateBody(Done[1].body, CallEnv(Done[1], Done[2]))
        ELSE Err("not_a_closure")
    BY <1>3 DEF Apply
  <2>3. CASE Done[1].tag = "closure"
    <3>1. /\ Body(Top.node, Done) = Done[1].body /\ Fits(Top.node.op, Done[1])
          /\ BodyEnv(Top.node, Top.env, Done) = CallEnv(Done[1], Done[2])
      BY <2>1, <2>3, BodyOfNode
    <3>2. QED
      BY <1>1, <2>2, <2>3, <3>1, BodyTrack
  <2>4. CASE Done[1].tag # "closure"
    BY <1>1, <2>1, <2>2, <2>4, BodyOfNode, MisfitTrack
  <2>5. QED
    BY <2>3, <2>4
<1>4. CASE Match
  <2> DEFINE b == IF value.tag = "left" THEN 1 ELSE 2
  <2>1. Top.node.op = "match" /\ Done[1] = value
    BY <1>2, <1>4 DEF Match, HasOperands
  <2>2. IF value.tag \in {"left", "right"}
        THEN EvaluateBody(Top.node.sub[b + 1], Bind(Top.env, Top.node.names[b], value.parts[1]))
        ELSE Err("not_either")
    BY <1>4 DEF Match
  <2>3. CASE value.tag \in {"left", "right"}
    <3>1. /\ Body(Top.node, Done) = Top.node.sub[b + 1]
          /\ BodyEnv(Top.node, Top.env, Done) = Bind(Top.env, Top.node.names[b], value.parts[1])
          /\ Fits(Top.node.op, Done[1])
      BY <2>1, <2>3, BodyOfNode
    <3> HIDE DEF b
    <3>2. QED
      BY <1>1, <2>2, <2>3, <3>1, BodyTrack
  <2>4. CASE value.tag \notin {"left", "right"}
    BY <1>1, <2>1, <2>2, <2>4, BodyOfNode, MisfitTrack
  <2>5. QED
    BY <2>3, <2>4
<1>5. CASE Let
  <2>1. Top.node.op = "let" /\ Done[1] = value
    BY <1>2, <1>5 DEF Let, HasOperands
  <2>2. EvaluateBody(Top.node.sub[2], Bind(Top.env, Top.node.names[1], value))
    BY <1>5 DEF Let
  <2>3. /\ Body(Top.node, Done) = Top.node.sub[2] /\ Fits(Top.node.op, Done[1])
        /\ BodyEnv(Top.node, Top.env, Done) = Bind(Top.env, Top.node.names[1], value)
    BY <2>1, BodyOfNode
  <2>4. QED
    BY <1>1, <2>2, <2>3, BodyTrack
<1>6. CASE LetRec
  <2>1. Top.node.op = "letrec" /\ Done[1] = value
    BY <1>2, <1>6 DEF LetRec, HasOperands
  <2>2. EvaluateBody(Top.node.sub[2],
                     Bind(Top.env, Top.node.names[1], Named(value, Top.node.names[1])))
    BY <1>6 DEF LetRec, Named
  <2>3. /\ Body(Top.node, Done) = Top.node.sub[2] /\ Fits(Top.node.op, Done[1])
        /\ BodyEnv(Top.node, Top.env, Done)
                = Bind(Top.env, Top.node.names[1], Named(value, Top.node.names[1]))
    BY <2>1, BodyOfNode
  <2>4. QED
    BY <1>1, <2>2, <2>3, BodyTrack
<1>7. CASE Unpack
  <2> DEFINE e == Bind(Bind(Top.env, Top.node.names[1], value.parts[1]),
                       Top.node.names[2], value.parts[2])
  <2>1. Top.node.op = "unpack" /\ Done[1] = value
    BY <1>2, <1>7 DEF Unpack, HasOperands
  <2>2. IF value.tag = "pair" THEN EvaluateBody(Top.node.sub[2], e) ELSE Err("not_a_pair")
    BY <1>7 DEF Unpack
  <2>3. CASE value.tag = "pair"
    <3>1. /\ Body(Top.node, Done) = Top.node.sub[2] /\ BodyEnv(Top.node, Top.env, Done) = e
          /\ Fits(Top.node.op, Done[1])
      BY <2>1, <2>3, BodyOfNode
    <3> HIDE DEF e
    <3>2. QED
      BY <1>1, <2>2, <2>3, <3>1, BodyTrack
  <2>4. CASE value.tag # "pair"
    BY <1>1, <2>1, <2>2, <2>4, BodyOfNode, MisfitTrack
  <2>5. QED
    BY <2>3, <2>4
<1>8. QED
  BY <1>3, <1>4, <1>5, <1>6, <1>7

LEMMA OperatorTrack ==
    ASSUME NEW P, NEW calls, Track(P, calls), NEW W, Over(W),
           HasOperands(Arithmetic \cup Relation \cup {"pair", "left", "right"})
    PROVE  Follows(Judgement(calls[Len(stack)], Len(seen), OperatorResult(Top.node.op, Done)),
                   P, seen)
<1> DEFINE c == calls[Len(stack)]
           o == OperatorResult(Top.node.op, Done)
           j == Judgement(c, Len(seen), o)
<1>1. /\ Returned /\ Len(Done) = Operands(Top.node.op)
      /\ Top.node.op \in Arithmetic \cup Relation \cup {"pair", "left", "right"}
  BY DEF HasOperands
<1>2. PICK operands \in Seq(P) :
        /\ Operated(c, operands) /\ Results(operands) = Done /\ Len(operands) = Len(Done)
        /\ After(c, operands) = Len(seen)
        /\ c.env = Top.env /\ c.node = Top.node
  <2>1. Len(Done) <= Operands(Top.node.op)
    BY <1>1, ReturnedTrack
  <2>2. QED
    BY <1>1, <2>1, OperandDone
<1>3. j.env = c.env /\ j.node = c.node /\ j.to = Len(seen) /\ j.outcome = o
  BY JudgementFields
<1>4. Operated(j, operands) /\ After(j, operands) = Len(seen)
  BY <1>2, SameOperands
<1> HIDE DEF j
<1>5. j.outcome = OperatorResult(j.node.op, Results(operands))
  BY <1>2, <1>3
<1> HIDE DEF o
<1>6. OperatorRule(j, P)
  BY <1>1, <1>2, <1>3, <1>4, <1>5 DEF OperatorRule
<1>7. Follows(j, P, seen)
  BY <1>6 DEF Follows
<1>8. QED
  BY <1>7 DEF j, c, o

\* The results that the actions have are those of the rule.
LEMMA ResultOfNode ==
    LET o == OperatorResult(Top.node.op, Done) IN
    /\ Top.node.op \in Arithmetic =>
        /\ ~IntOperands => o = Fails("not_int")
        /\ IntOperands /\ Top.node.op = "div" /\ Rhs = 0 => o = Fails("div_by_zero")
        /\ IntOperands /\ ~(Top.node.op = "div" /\ Rhs = 0) /\ Overflows => o = Panics
        /\ IntOperands /\ ~(Top.node.op = "div" /\ Rhs = 0) /\ ~Overflows
                => o = Returns(IntValue(Calculate(Top.node.op, Lhs, Rhs)))
    /\ Top.node.op \in Relation =>
        /\ ~IntOperands => o = Fails("not_int")
        /\ IntOperands => o = Returns(Verdict(Holds(Top.node.op, Lhs, Rhs)))
    /\ Top.node.op \in {"pair", "left", "right"} => o = Returns(Value(Top.node.op, 0, Done))
<1>1. CASE Top.node.op \in Arithmetic
  <2>1. Top.node.op \notin Relation \cup {"pair", "left", "right"}
    BY <1>1 DEF Arithmetic, Relation
  <2>2. QED
    BY <1>1, <2>1 DEF OperatorResult, IntOperands, Overflows, Lhs, Rhs
<1>2. CASE Top.node.op \in Relation
  <2>1. Top.node.op \notin Arithmetic \cup {"pair", "left", "right"}
    BY <1>2 DEF Arithmetic, Relation
  <2>2. QED
    BY <1>2, <2>1 DEF OperatorResult, IntOperands, Lhs, Rhs
<1>3. CASE Top.node.op \in {"pair", "left", "right"}
  <2>1. Top.node.op \notin Arithmetic \cup Relation
    BY <1>3 DEF Arithmetic, Relation
  <2>2. QED
    BY <1>3, <2>1 DEF OperatorResult
<1>4. QED
  BY <1>1, <1>2, <1>3

LEMMA OperatorsTrack ==
    ASSUME NEW P, NEW calls, Track(P, calls), NEW W, Over(W),
           BodyReturns \/ ApplyArithmetic \/ ApplyRelation \/ Construct
    PROVE  OnTrack'
<1> DEFINE m == Len(stack) - 1
           o == OperatorResult(Top.node.op, Done)
<1>1. Returned /\ program' = program /\ seen' = seen /\ Proved(P, seen)
  BY DEF BodyReturns, ApplyArithmetic, ApplyRelation, Construct, HasOperands, hostVars, Track
<1>2. /\ Len(stack) \in Nat /\ m \in 0 .. Len(stack) /\ m + 1 = Len(stack)
      /\ Len(Rest) = m /\ Len(Rest) \in Nat /\ Len(Rest) <= Len(stack)
      /\ Len(Rest) + 1 = Len(stack) /\ \A k \in 1 .. Len(Rest) : Rest[k] = stack[k]
  <2>1. /\ Len(stack) \in Nat \ {0} /\ Len(Rest) = Len(stack) - 1
        /\ \A k \in 1 .. Len(stack) - 1 : Rest[k] = stack[k]
    BY <1>1, ReturnedTrack
  <2>2. QED
    BY <2>1
<1> HIDE DEF m, o
<1>3. ASSUME NEW v, Ok(v, Rest),
             Follows(Judgement(calls[Len(stack)], Len(seen), Returns(v)), P, seen)
      PROVE  OnTrack'
  BY <1>1, <1>2, <1>3, TrackOk
<1>4. ASSUME NEW e, Err(e),
             Follows(Judgement(calls[Len(stack)], Len(seen), Fails(e)), P, seen)
      PROVE  OnTrack'
  BY <1>1, <1>2, <1>4, TrackErr
<1>5. CASE BodyReturns
  <2>1. Ok(value, Rest) /\ Len(Done) > Operands(Top.node.op)
    BY <1>5 DEF BodyReturns
  <2>2. Len(Top.done) = Operands(Top.node.op)
    <3>1. /\ Len(Done) = Len(Top.done) + 1 /\ Len(Top.done) <= Operands(Top.node.op)
          /\ Len(Top.done) \in Nat /\ Operands(Top.node.op) \in Nat
      BY <1>1, ReturnedTrack
    <3>2. QED
      BY <2>1, <3>1
  <2>3. /\ Awaits(Top, calls[Len(stack)], calls[Len(stack) + 1], P)
        /\ Judgement(calls[Len(stack) + 1], Len(seen), Returns(value)) \in P
        /\ Top.done \in Seq(W) /\ Operands(Top.node.op) \in Nat
    BY <1>1, ReturnedTrack
  <2>4. Follows(Judgement(calls[Len(stack)], Len(seen), Returns(value)), P, seen)
    BY <2>2, <2>3, FrameEnds
  <2>5. QED
    BY <1>3, <2>1, <2>4
<1>6. ASSUME HasOperands(Arithmetic \cup Relation \cup {"pair", "left", "right"})
      PROVE  Follows(Judgement(calls[Len(stack)], Len(seen), o), P, seen)
  BY <1>6, OperatorTrack DEF o
<1>7. CASE ApplyArithmetic
  <2>1. /\ HasOperands(Arithmetic) /\ Top.node.op \in Arithmetic
        /\ IF ~IntOperands THEN Err("not_int")
           ELSE IF Top.node.op = "div" /\ Rhs = 0 THEN Err("div_by_zero")
           ELSE ~Overflows /\ Ok(IntValue(Calculate(Top.node.op, Lhs, Rhs)), Rest)
    BY <1>7 DEF ApplyArithmetic, HasOperands
  <2>2. Follows(Judgement(calls[Len(stack)], Len(seen), o), P, seen)
    BY <1>6, <2>1 DEF HasOperands
  <2>3. CASE ~IntOperands
    <3>1. Err("not_int") /\ o = Fails("not_int")
      BY <2>1, <2>3, ResultOfNode DEF o
    <3>2. QED
      BY <1>4, <2>2, <3>1
  <2>4. CASE IntOperands /\ Top.node.op = "div" /\ Rhs = 0
    <3>1. Err("div_by_zero") /\ o = Fails("div_by_zero")
      BY <2>1, <2>4, ResultOfNode DEF o
    <3>2. QED
      BY <1>4, <2>2, <3>1
  <2>5. CASE IntOperands /\ ~(Top.node.op = "div" /\ Rhs = 0)
    <3> DEFINE v == IntValue(Calculate(Top.node.op, Lhs, Rhs))
    <3>1. Ok(v, Rest) /\ o = Returns(v)
      BY <2>1, <2>5, ResultOfNode DEF o
    <3> HIDE DEF v
    <3>2. QED
      BY <1>3, <2>2, <3>1
  <2>6. QED
    BY <2>3, <2>4, <2>5
<1>8. CASE ApplyRelation
  <2>1. /\ HasOperands(Relation) /\ Top.node.op \in Relation
        /\ IF IntOperands THEN Ok(Verdict(Holds(Top.node.op, Lhs, Rhs)), Rest) ELSE Err("not_int")
    BY <1>8 DEF ApplyRelation, HasOperands
  <2>2. Follows(Judgement(calls[Len(stack)], Len(seen), o), P, seen)
    BY <1>6, <2>1 DEF HasOperands
  <2>3. CASE ~IntOperands
    <3>1. Err("not_int") /\ o = Fails("not_int")
      BY <2>1, <2>3, ResultOfNode DEF o
    <3>2. QED
      BY <1>4, <2>2, <3>1
  <2>4. CASE IntOperands
    <3> DEFINE v == Verdict(Holds(Top.node.op, Lhs, Rhs))
    <3>1. Ok(v, Rest) /\ o = Returns(v)
      BY <2>1, <2>4, ResultOfNode DEF o
    <3> HIDE DEF v
    <3>2. QED
      BY <1>3, <2>2, <3>1
  <2>5. QED
    BY <2>3, <2>4
<1>9. CASE Construct
  <2> DEFINE v == Value(Top.node.op, 0, Done)
  <2>1. /\ HasOperands({"pair", "left", "right"}) /\ Top.node.op \in {"pair", "left", "right"}
        /\ Ok(v, Rest)
    BY <1>9 DEF Construct, HasOperands
  <2>2. Follows(Judgement(calls[Len(stack)], Len(seen), o), P, seen)
    BY <1>6, <2>1 DEF HasOperands
  <2>3. o = Returns(v)
    BY <2>1, ResultOfNode DEF o
  <2> HIDE DEF v
  <2>4. QED
    BY <1>3, <2>1, <2>2, <2>3
<1>10. QED
  BY <1>5, <1>7, <1>8, <1>9

(***************************************************************************)
(* The steps of an execution.                                              *)
(***************************************************************************)
LEMMA PanicDerives ==
    ASSUME NEW W, Over(W), pc = "running", Derives, ArithmeticPanics
    PROVE  Derives'
<1>1. PICK P : \E calls : Track(P, calls)
  BY DEF Derives, OnTrack
<1>2. PICK calls : Track(P, calls)
  BY <1>1
<1>3. /\ pc' = "panic" /\ out_buf' = out_buf /\ program' = program /\ seen' = seen
      /\ HasOperands(Arithmetic) /\ IntOperands /\ Overflows
  BY DEF ArithmeticPanics, hostVars
<1>4. Returned /\ Top.node.op \in Arithmetic
  BY <1>3 DEF HasOperands
<1>5. OperatorResult(Top.node.op, Done) = Panics
  <2>1. ~(Top.node.op = "div" /\ Rhs = 0)
    BY <1>3 DEF Overflows
  <2>2. QED
    BY <1>3, <1>4, <2>1, ResultOfNode
<1>6. Follows(Judgement(calls[Len(stack)], Len(seen), Panics), P, seen)
  <2>1. HasOperands(Arithmetic \cup Relation \cup {"pair", "left", "right"})
    BY <1>3 DEF HasOperands
  <2>2. QED
    BY <1>2, <1>5, <2>1, OperatorTrack
<1>7. PICK Q : Proved(Q, seen) /\ Judgement(Main(program), Len(seen), Panics) \in Q
  <2>1. (Len(stack) - 1) + 1 = Len(stack) /\ Len(stack) - 1 \in 0 .. Len(stack)
    BY <1>2, <1>4, ReturnedTrack
  <2>2. Panics.kind # "ok"
    BY OutcomeFields
  <2>3. QED
    BY <1>2, <1>6, <2>1, <2>2, CallFails
<1>8. Derivable(Judgement(Main(program), Len(seen), Panics), seen)
  BY <1>7, ProvedIsDerivable
<1>9. out_buf.kind = "none"
  BY DEF Derives
<1>10. EndsAsDerived'
  BY <1>3, <1>8, <1>9 DEF EndsAsDerived, Main
<1>11. QED
  BY <1>3, <1>9, <1>10 DEF Derives, OnTrack

\* While a contract is evaluated, out_buf says nothing yet.
LEMMA RunningDerives ==
    ASSUME Derives, pc = "running", out_buf' = out_buf, pc' \in {"running", "overrun"}, OnTrack'
    PROVE  Derives'
<1>1. out_buf.kind = "none"
  BY DEF Derives
<1>2. EndsAsDerived'
  BY <1>1 DEF EndsAsDerived
<1>3. QED
  BY <1>1, <1>2 DEF Derives

LEMMA EvaluationDerives ==
    ASSUME NEW W, Over(W), Plain, NetTypeOK, Derives,
           \/ EvalLiteral \/ EvalVar \/ EvalLambda \/ EvalPollNothing \/ EvalPollReturns
           \/ EvalOperands \/ NextOperand
           \/ BodyReturns \/ ApplyArithmetic \/ ApplyRelation \/ Construct
           \/ Apply \/ Match \/ Let \/ LetRec \/ Unpack
    PROVE  Derives'
<1>1. pc = "running" /\ out_buf' = out_buf
  BY DEF EvalLiteral, EvalVar, EvalLambda, EvalPollNothing, EvalPollReturns, EvalOperands,
         NextOperand, BodyReturns, ApplyArithmetic, ApplyRelation, Construct, Apply, Match, Let,
         LetRec, Unpack, Polling, Evaluating, HasOperands, Returned, hostVars
<1>2. pc' \in {"running", "overrun"}
  <2>1. \A n, e, frames : Evaluate(n, e, frames) => pc' \in {"running", "overrun"}
    BY DEF Evaluate
  <2>2. /\ \A v, frames : Ok(v, frames) => pc' = pc
        /\ \A e : Err(e) => pc' = pc
    BY DEF Ok, Err
  <2>3. CASE EvalLiteral \/ EvalVar \/ EvalLambda \/ EvalPollNothing \/ EvalPollReturns
    BY <1>1, <2>2, <2>3 DEF EvalLiteral, EvalVar, EvalLambda, EvalPollNothing, EvalPollReturns
  <2>4. CASE EvalOperands \/ NextOperand
    BY <2>1, <2>4 DEF EvalOperands, NextOperand
  <2>5. CASE BodyReturns \/ ApplyArithmetic \/ ApplyRelation \/ Construct
    BY <1>1, <2>2, <2>5 DEF BodyReturns, ApplyArithmetic, ApplyRelation, Construct
  <2>6. CASE Apply \/ Match \/ Let \/ LetRec \/ Unpack
    BY <1>1, <2>1, <2>2, <2>6 DEF Apply, Match, Let, LetRec, Unpack, EvaluateBody
  <2>7. QED
    BY <2>3, <2>4, <2>5, <2>6
<1>3. PICK P : \E calls : Track(P, calls)
  BY <1>1 DEF Derives, OnTrack
<1>4. PICK calls : Track(P, calls)
  BY <1>3
<1>5. OnTrack'
  <2>1. CASE EvalLiteral \/ EvalVar \/ EvalLambda \/ EvalPollNothing \/ EvalPollReturns
    BY <1>4, <2>1, LeavesTrack
  <2>2. CASE EvalOperands
    BY <1>4, <2>2, BeginsTrack
  <2>3. CASE NextOperand
    BY <1>4, <2>3, NextTrack
  <2>4. CASE BodyReturns \/ ApplyArithmetic \/ ApplyRelation \/ Construct
    BY <1>4, <2>4, OperatorsTrack
  <2>5. CASE Apply \/ Match \/ Let \/ LetRec \/ Unpack
    BY <1>4, <2>5, BodiesTrack
  <2>6. QED
    BY <2>2, <2>3, <2>1, <2>5, <2>4
<1>6. QED
  BY <1>1, <1>2, <1>5, RunningDerives

LEMMA NothingElseDerives ==
    ASSUME Derives, UNCHANGED <<pc, machineVars, hostVars, seen>>
    PROVE  Derives'
<1>1. /\ pc' = pc /\ mode' = mode /\ node' = node /\ env' = env /\ value' = value
      /\ error' = error /\ stack' = stack /\ program' = program
      /\ out_buf' = out_buf /\ ledger' = ledger /\ seen' = seen
  BY DEF machineVars, hostVars
<1>2. OnTrack'
  BY <1>1 DEF Derives, OnTrack, Track, Main
<1>3. EndsAsDerived'
  BY <1>1 DEF Derives, EndsAsDerived, Main
<1>4. QED
  BY <1>1, <1>2, <1>3 DEF Derives

\* The judgement about the main call is there when the stack is empty.
LEMMA EndDerives ==
    ASSUME NEW W, Over(W), Plain, Derives, Fault \/ Commit
    PROVE  Derives'
<1>1. pc = "running" /\ stack = << >> /\ pc' = "idle" /\ program' = program /\ seen' = seen
  BY DEF Fault, Commit
<1>2. PICK P : \E calls : Track(P, calls)
  BY <1>1 DEF Derives, OnTrack
<1>3. PICK calls : Track(P, calls)
  BY <1>2
<1>4. Proved(P, seen) /\ calls[1] = Main(program)
  BY <1>3 DEF Track
<1>5. Main(program)' = Main(program)
  BY <1>1 DEF Main
<1>6. CASE Fault
  <2>1. /\ out_buf' = [kind |-> "fault", value |-> Unit, error |-> error] /\ mode = "err"
    BY <1>6 DEF Fault
  <2>2. Judgement(Main(program), Len(seen), Fails(error)) \in P
    BY <1>3, <2>1 DEF Track
  <2>3. Derivable(Judgement(Main(program), Len(seen), Fails(error)), seen)
    BY <1>4, <2>2, ProvedIsDerivable
  <2>4. out_buf'.kind = "fault" /\ out_buf'.error = error
    BY <2>1
  <2>5. EndsAsDerived'
    BY <1>1, <1>5, <2>3, <2>4 DEF EndsAsDerived
  <2>6. QED
    BY <1>1, <2>5 DEF Derives, OnTrack
<1>7. CASE Commit
  <2>1. /\ out_buf' = [kind |-> "matched", value |-> value, error |-> ""] /\ mode = "ok"
        /\ ledger' = Append(ledger, VolumeOf(value))
    BY <1>7 DEF Commit
  <2>2. Len(stack) + 1 = 1
    BY <1>1
  <2>3. Judgement(Main(program), Len(seen), Returns(value)) \in P
    BY <1>3, <1>4, <2>1, <2>2 DEF Track
  <2>4. Derivable(Judgement(Main(program), Len(seen), Returns(value)), seen)
    BY <1>4, <2>3, ProvedIsDerivable
  <2>5. out_buf'.kind = "matched" /\ out_buf'.value = value
    BY <2>1
  <2>6. ledger' # << >> /\ ledger'[Len(ledger')] = VolumeOf(value)
    <3>1. ledger \in Seq(Int32)
      BY DEF Plain
    <3>2. /\ VolumeOf(value) \in Int32 \cup {VolumeOf(value)}
          /\ Int32 \subseteq Int32 \cup {VolumeOf(value)}
      OBVIOUS
    <3> DEFINE S == Int32 \cup {VolumeOf(value)}
               x == VolumeOf(value)
    <3>3. ledger \in Seq(S) /\ x \in S
      BY <3>1, <3>2
    <3> HIDE DEF S, x
    <3>4. Append(ledger, x) # << >> /\ Append(ledger, x)[Len(Append(ledger, x))] = x
      BY <3>3
    <3>5. QED
      BY <2>1, <3>4 DEF x
  <2>7. EndsAsDerived'
    <3>1. VolumeOf(out_buf'.value) = VolumeOf(value)
      BY <2>5
    <3>2. VolumeOf(out_buf.value)' = VolumeOf(out_buf'.value)
      BY DEF VolumeOf
    <3>3. QED
      BY <1>1, <1>5, <2>4, <2>5, <2>6, <3>1, <3>2 DEF EndsAsDerived
  <2>8. QED
    BY <1>1, <2>7 DEF Derives, OnTrack
<1>8. QED
  BY <1>6, <1>7

LEMMA ExecuteDerives ==
    ASSUME NEW p, Execute(p)
    PROVE  Derives'
<1>1. /\ pc' = "running" /\ mode' = "eval" /\ node' = p /\ program' = p
      /\ env' = StartEnv
  BY DEF Execute
<1>2. stack' = << >> /\ seen' = << >>
  BY DEF Execute
<1>3. out_buf'.kind = "none"
  BY DEF Execute, NoOut
<1>4. PICK one : one[1] = Main(p)
  <2>1. [k \in 1 .. 1 |-> Main(p)][1] = Main(p)
    OBVIOUS
  <2>2. QED
    BY <2>1
<1>5. Len(stack') = 0 /\ Len(seen') = 0
  BY <1>2
<1>6. Track({}, one)'
  <2>1. \A k \in 1 .. Len(stack') : FALSE
    BY <1>5
  <2>2. Len(stack') + 1 = 1
    BY <1>5
  <2>3. one[Len(stack') + 1] = CallOf(env', node', Len(seen'))
    BY <1>1, <1>4, <1>5, <2>2 DEF Main
  <2>4. one[1] = Main(program)'
    BY <1>1, <1>4 DEF Main
  <2>5. Proved({}, seen')
    BY ProvedNone
  <2>6. QED
    BY <1>1, <2>1, <2>3, <2>4, <2>5 DEF Track
<1>7. OnTrack'
  BY <1>6 DEF OnTrack
<1>8. EndsAsDerived'
  BY <1>1, <1>3 DEF EndsAsDerived
<1>9. QED
  BY <1>3, <1>7, <1>8 DEF Derives

LEMMA NoOutDerives ==
    ASSUME pc' = "idle", out_buf' = NoOut
    PROVE  Derives'
<1>1. out_buf'.kind = "none"
  BY DEF NoOut
<1>2. EndsAsDerived'
  BY <1>1 DEF EndsAsDerived
<1>3. QED
  BY <1>2 DEF Derives, OnTrack

LEMMA InitDerives == Init => Derives
<1>1. SUFFICES ASSUME Init
               PROVE  Derives
  OBVIOUS
<1>2. pc = "idle" /\ out_buf.kind = "none"
  BY <1>1 DEF Init, NoOut
<1>3. QED
  BY <1>2 DEF Derives, OnTrack, EndsAsDerived

LEMMA StepDerives == Derives /\ MachineInv /\ [Next]_vars => Derives'
<1>1. SUFFICES ASSUME Derives, MachineInv, [Next]_vars
               PROVE  Derives'
  OBVIOUS
<1>2. NetTypeOK /\ Plain
  BY <1>1 DEF MachineInv
<1>3. PICK W : Over(W)
  BY <1>1 DEF MachineInv
<1>4. CASE \/ EvalLiteral \/ EvalVar \/ EvalLambda \/ EvalPollNothing \/ EvalPollReturns
           \/ EvalOperands \/ NextOperand
           \/ BodyReturns \/ ApplyArithmetic \/ ApplyRelation \/ Construct
           \/ Apply \/ Match \/ Let \/ LetRec \/ Unpack
  BY <1>1, <1>2, <1>3, <1>4, EvaluationDerives
<1>5. CASE EvalPoll \/ UNCHANGED <<pc, machineVars, hostVars, seen>>
  <2>1. UNCHANGED <<pc, machineVars, hostVars, seen>>
    BY <1>5 DEF EvalPoll
  <2>2. QED
    BY <1>1, <2>1, NothingElseDerives
<1>6. CASE ArithmeticPanics
  <2>1. pc = "running"
    BY <1>6 DEF ArithmeticPanics, HasOperands, Returned
  <2>2. QED
    BY <1>1, <1>3, <1>6, <2>1, PanicDerives
<1>7. CASE Fault \/ Commit
  BY <1>1, <1>2, <1>3, <1>7, EndDerives
<1>8. CASE \E p \in Program : Execute(p)
  BY <1>8, ExecuteDerives
<1>9. CASE ExecuteUnparsed
  <2>1. pc' = "idle" /\ out_buf' = NoOut
    BY <1>9 DEF ExecuteUnparsed, Call
  <2>2. QED
    BY <2>1, NoOutDerives
<1>10. CASE MachineStep
  BY <1>4, <1>5, <1>6, <1>7, <1>10 DEF MachineStep
<1>11. CASE UNCHANGED vars
  BY <1>5, <1>11 DEF vars
<1>12. QED
  BY <1>1, <1>5, <1>8, <1>9, <1>10, <1>11 DEF Next

\* The machine does not depart from evaluate: whatever contract autarky_execute runs,
\* with whatever the card delivers meanwhile, the value it leaves in out_buf and commits
\* to the ledger, the fault it reports, or its panic, has a derivation by the rules of
\* vm.rs, whose polls have the answers that POLL got, in their order.
THEOREM ContractsEndAsDerived == Spec => []EndsAsDerived
<1>1. Init => IInv /\ MachineInv /\ Derives
  BY InitInvariant, InitMachine, InitDerives DEF IInv
<1>2. IInv /\ MachineInv /\ Derives /\ [Next]_vars => (IInv /\ MachineInv /\ Derives)'
  BY StepInvariant, StepMachine, StepDerives
<1>3. Derives => EndsAsDerived
  BY DEF Derives
<1>4. QED
  BY <1>1, <1>2, <1>3, PTL DEF Spec

(***************************************************************************)
(* The rules leave no choice.                                              *)
(***************************************************************************)
SameCall(c, d) == c.env = d.env /\ c.node = d.node /\ c.from = d.from
SameEnding(j, k) == j.to = k.to /\ j.outcome = k.outcome

\* Judgements of P and Q about the same call say the same of it.
Agree(P, Q) == \A j \in P, k \in Q : SameCall(j, k) => SameEnding(j, k)

LEMMA AgreeBack ==
    ASSUME NEW P, NEW Q, Agree(P, Q)
    PROVE  Agree(Q, P)
BY DEF Agree, SameCall, SameEnding

LEMMA OperandsAgree ==
    ASSUME NEW P, NEW Q, Agree(P, Q), NEW c, NEW d, SameCall(c, d),
           NEW x \in Seq(P), Operated(c, x), NEW y \in Seq(Q), Operated(d, y)
    PROVE  \A k \in Nat : k >= 1 /\ k <= Len(x) /\ k <= Len(y) => SameEnding(x[k], y[k])
<1> DEFINE S == {k \in Nat : k <= Len(x) /\ k <= Len(y) => SameEnding(x[k], y[k])}
<1>1. Len(x) \in Nat /\ Len(y) \in Nat
  OBVIOUS
<1>2. ASSUME NEW k \in Nat, k >= 1, k <= Len(x), k <= Len(y),
             k # 1 => x[k - 1].to = y[k - 1].to
      PROVE  SameEnding(x[k], y[k])
  <2>1. k \in 1 .. Len(x) /\ k \in 1 .. Len(y)
    BY <1>1, <1>2
  <2>2. x[k] \in P /\ y[k] \in Q
    BY <2>1, SeqElement
  <2>3. About(x[k], c.env, c.node.sub[k], IF k = 1 THEN c.from ELSE x[k - 1].to)
    BY <2>1 DEF Operated
  <2>4. About(y[k], d.env, d.node.sub[k], IF k = 1 THEN d.from ELSE y[k - 1].to)
    BY <2>1 DEF Operated
  <2>5. SameCall(x[k], y[k])
    BY <1>2, <2>3, <2>4 DEF About, SameCall
  <2>6. QED
    BY <2>2, <2>5 DEF Agree
<1>3. 1 \in S
  BY <1>2
<1>4. ASSUME NEW k \in Nat, k >= 1, k \in S
      PROVE  k + 1 \in S
  <2>1. SUFFICES ASSUME k + 1 <= Len(x), k + 1 <= Len(y)
                 PROVE  SameEnding(x[k + 1], y[k + 1])
    BY <1>4
  <2>2. k <= Len(x) /\ k <= Len(y) /\ k + 1 \in Nat /\ k + 1 >= 1 /\ (k + 1) - 1 = k
    BY <1>1, <1>4, <2>1
  <2>3. SameEnding(x[k], y[k])
    BY <1>4, <2>2
  <2>4. x[(k + 1) - 1].to = y[(k + 1) - 1].to
    BY <2>2, <2>3 DEF SameEnding
  <2>5. QED
    BY <1>2, <2>1, <2>2, <2>4
<1> HIDE DEF S
<1>5. \A k \in Nat : k >= 1 => k \in S
  BY <1>3, <1>4, UpFrom
<1>6. QED
  BY <1>5 DEF S

\* The operands of the same call are the same, as far as both have them.
LEMMA SameResults ==
    ASSUME NEW P, NEW Q, Agree(P, Q), NEW c, NEW d, SameCall(c, d),
           NEW x \in Seq(P), Operated(c, x), NEW y \in Seq(Q), Operated(d, y), Len(x) = Len(y)
    PROVE  After(c, x) = After(d, y) /\ Results(x) = Results(y)
<1>1. Len(x) \in Nat
  OBVIOUS
<1>2. \A k \in 1 .. Len(x) : SameEnding(x[k], y[k])
  <2>1. \A k \in 1 .. Len(x) : k \in Nat /\ k >= 1 /\ k <= Len(x) /\ k <= Len(y)
    BY <1>1
  <2>2. QED
    BY <2>1, OperandsAgree
<1>3. Results(x) = Results(y)
  BY <1>2 DEF Results, SameEnding
<1>4. After(c, x) = After(d, y)
  <2>1. CASE Len(x) = 0
    <3>1. x = << >>
      BY <2>1
    <3>2. y = << >>
      <4>1. Len(y) = 0
        BY <2>1
      <4>2. QED
        BY <4>1
    <3>3. QED
      BY <3>1, <3>2 DEF After, SameCall
  <2>2. CASE Len(x) # 0
    <3>1. x # << >> /\ y # << >> /\ Len(x) \in 1 .. Len(x)
      BY <1>1, <2>2
    <3>2. x[Len(x)].to = y[Len(y)].to
      BY <1>2, <3>1 DEF SameEnding
    <3>3. QED
      BY <3>1, <3>2 DEF After
  <2>3. QED
    BY <2>1, <2>2
<1>5. QED
  BY <1>3, <1>4

\* An operand does not fail that another derivation has the result of.
LEMMA NoFault ==
    ASSUME NEW P, NEW Q, Agree(P, Q), NEW c, NEW d, SameCall(c, d),
           NEW x \in Seq(P), Operated(c, x), NEW y \in Seq(Q), Operated(d, y), Len(x) < Len(y),
           NEW fault \in P, About(fault, c.env, c.node.sub[Len(x) + 1], After(c, x))
    PROVE  fault.outcome.kind = "ok"
<1> DEFINE n == Len(x)
<1>1. n \in Nat /\ n + 1 \in 1 .. Len(y) /\ (n + 1) - 1 = n
  OBVIOUS
<1>2. y[n + 1] \in Q
  BY <1>1, SeqElement
<1>3. /\ About(y[n + 1], d.env, d.node.sub[n + 1],
               IF n + 1 = 1 THEN d.from ELSE y[(n + 1) - 1].to)
      /\ y[n + 1].outcome.kind = "ok"
  BY <1>1 DEF Operated
<1>4. After(c, x) = IF n + 1 = 1 THEN d.from ELSE y[(n + 1) - 1].to
  <2>1. CASE n = 0
    <3>1. x = << >>
      BY <2>1
    <3>2. QED
      BY <2>1, <3>1 DEF After, SameCall
  <2>2. CASE n # 0
    <3>1. x # << >> /\ n >= 1 /\ n <= Len(x) /\ n <= Len(y) /\ n + 1 # 1
      BY <1>1, <2>2
    <3>2. SameEnding(x[n], y[n])
      BY <1>1, <3>1, OperandsAgree
    <3>3. QED
      BY <1>1, <3>1, <3>2 DEF After, SameEnding
  <2>3. QED
    BY <2>1, <2>2
<1>5. SameCall(fault, y[n + 1])
  BY <1>3, <1>4 DEF About, SameCall
<1>6. QED
  BY <1>2, <1>3, <1>5 DEF Agree, SameEnding

\* What a call does when all operands have returned.
Operates(j, P) == OperatorRule(j, P) \/ MisfitRule(j, P) \/ BodyRule(j, P)
Leaf(j, answers) == LiteralRule(j) \/ VarRule(j) \/ PollRule(j, answers) \/ LambdaRule(j)

LEMMA OperandsOf ==
    ASSUME NEW op
    PROVE  /\ Operands(op) \in Nat
           /\ op \in {"int", "float", "var", "lambda"} => Operands(op) = 0
           /\ op \in {"int", "float", "var", "lambda"}
                => op \notin Arithmetic \cup Relation \cup {"pair", "left", "right"} \cup Binders
           /\ op \in Arithmetic \cup Relation \cup {"pair", "left", "right"} => op \notin Binders
BY DEF Operands, Arithmetic, Relation, Binders

LEMMA LeavesAgree ==
    ASSUME NEW j, NEW k, SameCall(j, k), NEW answers, Leaf(j, answers), Leaf(k, answers)
    PROVE  SameEnding(j, k)
BY DEF Leaf, LiteralRule, VarRule, PollRule, LambdaRule, SameCall, SameEnding

LEMMA LeafHasNoOperands ==
    ASSUME NEW j, NEW answers, Leaf(j, answers), NEW k, SameCall(j, k), NEW Q
    PROVE  ~OperandRule(k, Q) /\ ~Operates(k, Q)
<1>1. k.node.op \in {"int", "float", "var", "lambda"}
  BY DEF Leaf, LiteralRule, VarRule, PollRule, LambdaRule, SameCall
<1>2. /\ Operands(k.node.op) = 0
      /\ k.node.op \notin Arithmetic \cup Relation \cup {"pair", "left", "right"}
      /\ k.node.op \notin Binders
  BY <1>1, OperandsOf
<1>3. ~OperandRule(k, Q)
  BY <1>2 DEF OperandRule
<1>4. ~Operates(k, Q)
  BY <1>2 DEF Operates, OperatorRule, MisfitRule, BodyRule
<1>5. QED
  BY <1>3, <1>4

LEMMA FaultsAgree ==
    ASSUME NEW P, NEW Q, Agree(P, Q), NEW j, NEW k, SameCall(j, k),
           OperandRule(j, P), OperandRule(k, Q)
    PROVE  SameEnding(j, k)
<1>1. PICK x \in Seq(P), a \in P :
        /\ Operated(j, x) /\ Len(x) < Operands(j.node.op)
        /\ About(a, j.env, j.node.sub[Len(x) + 1], After(j, x))
        /\ a.outcome.kind # "ok"
        /\ j.to = a.to /\ j.outcome = a.outcome
  BY DEF OperandRule
<1>2. PICK y \in Seq(Q), b \in Q :
        /\ Operated(k, y) /\ Len(y) < Operands(k.node.op)
        /\ About(b, k.env, k.node.sub[Len(y) + 1], After(k, y))
        /\ b.outcome.kind # "ok"
        /\ k.to = b.to /\ k.outcome = b.outcome
  BY DEF OperandRule
<1>3. Agree(Q, P) /\ SameCall(k, j)
  BY AgreeBack DEF SameCall
<1>4. ~(Len(x) < Len(y))
  BY <1>1, <1>2, NoFault
<1>5. ~(Len(y) < Len(x))
  BY <1>1, <1>2, <1>3, NoFault
<1>6. Len(x) = Len(y)
  <2>1. Len(x) \in Nat /\ Len(y) \in Nat
    OBVIOUS
  <2>2. QED
    BY <1>4, <1>5, <2>1
<1>7. After(j, x) = After(k, y)
  BY <1>1, <1>2, <1>6, SameResults
<1>8. SameCall(a, b)
  BY <1>1, <1>2, <1>6, <1>7 DEF About, SameCall
<1>9. QED
  BY <1>1, <1>2, <1>8 DEF Agree, SameEnding

LEMMA FaultOrResult ==
    ASSUME NEW P, NEW Q, Agree(P, Q), NEW j, NEW k, SameCall(j, k), OperandRule(j, P)
    PROVE  ~Operates(k, Q)
<1>1. SUFFICES ASSUME Operates(k, Q)
               PROVE  FALSE
  OBVIOUS
<1>2. PICK x \in Seq(P), a \in P :
        /\ Operated(j, x) /\ Len(x) < Operands(j.node.op)
        /\ About(a, j.env, j.node.sub[Len(x) + 1], After(j, x))
        /\ a.outcome.kind # "ok"
  BY DEF OperandRule
<1>3. PICK y \in Seq(Q) : Operated(k, y) /\ Len(y) = Operands(k.node.op)
  BY <1>1 DEF Operates, OperatorRule, MisfitRule, BodyRule
<1>4. Len(x) < Len(y)
  BY <1>2, <1>3 DEF SameCall
<1>5. QED
  BY <1>2, <1>3, <1>4, NoFault

LEMMA ResultsAgree ==
    ASSUME NEW P, NEW Q, Agree(P, Q), NEW j, NEW k, SameCall(j, k),
           Operates(j, P), Operates(k, Q)
    PROVE  SameEnding(j, k)
<1>1. j.env = k.env /\ j.node = k.node
  BY DEF SameCall
<1>2. ASSUME NEW x \in Seq(P), Operated(j, x), Len(x) = Operands(j.node.op),
             NEW y \in Seq(Q), Operated(k, y), Len(y) = Operands(k.node.op)
      PROVE  After(j, x) = After(k, y) /\ Results(x) = Results(y)
  BY <1>1, <1>2, SameResults
<1>3. CASE OperatorRule(j, P)
  <2>1. PICK x \in Seq(P) :
            /\ Operated(j, x) /\ Len(x) = Operands(j.node.op)
            /\ j.node.op \in Arithmetic \cup Relation \cup {"pair", "left", "right"}
            /\ j.to = After(j, x)
            /\ j.outcome = OperatorResult(j.node.op, Results(x))
    BY <1>3 DEF OperatorRule
  <2>2. k.node.op \notin Binders
    BY <1>1, <2>1, OperandsOf
  <2>3. OperatorRule(k, Q)
    BY <2>2 DEF Operates, MisfitRule, BodyRule
  <2>4. PICK y \in Seq(Q) :
            /\ Operated(k, y) /\ Len(y) = Operands(k.node.op)
            /\ k.to = After(k, y)
            /\ k.outcome = OperatorResult(k.node.op, Results(y))
    BY <2>3 DEF OperatorRule
  <2>5. After(j, x) = After(k, y) /\ Results(x) = Results(y)
    BY <1>2, <2>1, <2>4
  <2>6. QED
    BY <1>1, <2>1, <2>4, <2>5 DEF SameEnding
<1>4. CASE MisfitRule(j, P)
  <2>1. PICK x \in Seq(P) :
            /\ Operated(j, x) /\ Len(x) = Operands(j.node.op)
            /\ j.node.op \in Binders /\ ~Fits(j.node.op, Results(x)[1])
            /\ j.to = After(j, x) /\ j.outcome = Fails(Misfit(j.node.op))
    BY <1>4 DEF MisfitRule
  <2>2. ~BodyRule(k, Q)
    <3>1. SUFFICES ASSUME NEW y \in Seq(Q), Operated(k, y), Len(y) = Operands(k.node.op),
                          Fits(k.node.op, Results(y)[1])
                   PROVE  FALSE
      BY DEF BodyRule
    <3>2. Results(x) = Results(y)
      BY <1>2, <2>1, <3>1
    <3>3. QED
      BY <1>1, <2>1, <3>1, <3>2
  <2>3. ~OperatorRule(k, Q)
    BY <1>1, <2>1, OperandsOf DEF OperatorRule
  <2>4. PICK y \in Seq(Q) :
            /\ Operated(k, y) /\ Len(y) = Operands(k.node.op)
            /\ k.to = After(k, y) /\ k.outcome = Fails(Misfit(k.node.op))
    BY <2>2, <2>3 DEF Operates, MisfitRule
  <2>5. After(j, x) = After(k, y)
    BY <1>2, <2>1, <2>4
  <2>6. QED
    BY <1>1, <2>1, <2>4, <2>5 DEF SameEnding
<1>5. CASE BodyRule(j, P)
  <2>1. PICK x \in Seq(P), a \in P :
            /\ Operated(j, x) /\ Len(x) = Operands(j.node.op)
            /\ j.node.op \in Binders /\ Fits(j.node.op, Results(x)[1])
            /\ About(a, BodyEnv(j.node, j.env, Results(x)), Body(j.node, Results(x)),
                     After(j, x))
            /\ j.to = a.to /\ j.outcome = a.outcome
    BY <1>5 DEF BodyRule
  <2>2. ~MisfitRule(k, Q)
    <3>1. SUFFICES ASSUME NEW y \in Seq(Q), Operated(k, y), Len(y) = Operands(k.node.op),
                          ~Fits(k.node.op, Results(y)[1])
                   PROVE  FALSE
      BY DEF MisfitRule
    <3>2. Results(x) = Results(y)
      BY <1>2, <2>1, <3>1
    <3>3. QED
      BY <1>1, <2>1, <3>1, <3>2
  <2>3. ~OperatorRule(k, Q)
    BY <1>1, <2>1, OperandsOf DEF OperatorRule
  <2>4. PICK y \in Seq(Q), b \in Q :
            /\ Operated(k, y) /\ Len(y) = Operands(k.node.op)
            /\ About(b, BodyEnv(k.node, k.env, Results(y)), Body(k.node, Results(y)),
                     After(k, y))
            /\ k.to = b.to /\ k.outcome = b.outcome
    BY <2>2, <2>3 DEF Operates, BodyRule
  <2>5. After(j, x) = After(k, y) /\ Results(x) = Results(y)
    BY <1>2, <2>1, <2>4
  <2>6. SameCall(a, b)
    BY <1>1, <2>1, <2>4, <2>5 DEF About, SameCall
  <2>7. QED
    BY <2>1, <2>4, <2>6 DEF Agree, SameEnding
<1>6. QED
  BY <1>3, <1>4, <1>5 DEF Operates

LEMMA ConclusionsAgree ==
    ASSUME NEW P, NEW Q, Agree(P, Q), NEW j, NEW k, SameCall(j, k), NEW answers,
           Follows(j, P, answers), Follows(k, Q, answers)
    PROVE  SameEnding(j, k)
<1>1. /\ Leaf(j, answers) \/ OperandRule(j, P) \/ Operates(j, P)
      /\ Leaf(k, answers) \/ OperandRule(k, Q) \/ Operates(k, Q)
  BY DEF Follows, Leaf, Operates
<1>2. Agree(Q, P) /\ SameCall(k, j)
  BY AgreeBack DEF SameCall
<1>3. CASE Leaf(j, answers)
  BY <1>1, <1>3, LeafHasNoOperands, LeavesAgree
<1>4. CASE Leaf(k, answers)
  BY <1>1, <1>2, <1>4, LeafHasNoOperands, LeavesAgree
<1>5. CASE OperandRule(j, P) /\ ~Leaf(k, answers)
  BY <1>1, <1>5, FaultOrResult, FaultsAgree
<1>6. CASE Operates(j, P) /\ ~Leaf(k, answers)
  BY <1>1, <1>2, <1>6, FaultOrResult, ResultsAgree
<1>7. QED
  BY <1>1, <1>3, <1>4, <1>5, <1>6

\* evaluate is a function of the contract and of what POLL answers: two derivations that
\* agree about the answers agree about every call, about what it comes to and about how
\* many answers it takes.  With ContractsEndAsDerived, what autarky_execute ends in is
\* determined by these two, whatever the card and the interpreter do in between.
THEOREM EvaluationIsDeterministic ==
    ASSUME NEW j, NEW k, NEW answers, Derivable(j, answers), Derivable(k, answers),
           SameCall(j, k)
    PROVE  SameEnding(j, k)
<1>1. PICK D : \E length \in Nat :
                    Derivation(D, length, answers) /\ \E m \in 1 .. length : D[m] = j
  BY DEF Derivable
<1>2. PICK a \in Nat : Derivation(D, a, answers) /\ \E m \in 1 .. a : D[m] = j
  BY <1>1
<1>3. PICK E : \E length \in Nat :
                    Derivation(E, length, answers) /\ \E m \in 1 .. length : E[m] = k
  BY DEF Derivable
<1>4. PICK b \in Nat : Derivation(E, b, answers) /\ \E m \in 1 .. b : E[m] = k
  BY <1>3
<1> DEFINE First(n) == {D[i] : i \in 1 .. n}
           Whole(n) == {E[i] : i \in 1 .. n}
           S == {n \in Nat : n <= a => Agree(First(n), Whole(b))}
<1>5. 0 \in S
  <2>1. First(0) = {}
    OBVIOUS
  <2>2. QED
    BY <2>1 DEF Agree
<1>6. ASSUME NEW n \in Nat, n + 1 <= a, Agree(First(n), Whole(b))
      PROVE  Agree(First(n + 1), Whole(b))
  <2>1. Follows(D[n + 1], First(n), answers)
    <3>1. n + 1 \in 1 .. a /\ (n + 1) - 1 = n
      BY <1>2, <1>6
    <3>2. QED
      BY <1>2, <3>1 DEF Derivation
  <2>2. \A m \in 1 .. b : SameCall(D[n + 1], E[m]) => SameEnding(D[n + 1], E[m])
    <3>1. SUFFICES ASSUME NEW m \in 1 .. b, SameCall(D[n + 1], E[m])
                   PROVE  SameEnding(D[n + 1], E[m])
      OBVIOUS
    <3>2. Follows(E[m], Whole(m - 1), answers)
      BY <1>4 DEF Derivation
    <3>3. Whole(m - 1) \subseteq Whole(b)
      BY <1>4
    <3>4. Agree(First(n), Whole(m - 1))
      BY <1>6, <3>3 DEF Agree
    <3> HIDE DEF First, Whole
    <3>5. QED
      BY <2>1, <3>1, <3>2, <3>4, ConclusionsAgree
  <2>3. \A x \in First(n + 1) : x \in First(n) \/ x = D[n + 1]
    BY <1>6
  <2>4. QED
    BY <1>6, <2>2, <2>3 DEF Agree
<1>7. \A n \in Nat : n >= 0 /\ n \in S => n + 1 \in S
  <2>1. \A n \in Nat : n + 1 <= a => n <= a
    BY <1>2
  <2> HIDE DEF First, Whole
  <2>2. QED
    BY <1>6, <2>1
<1> HIDE DEF S
<1>8. a \in S
  BY <1>2, <1>5, <1>7, UpFrom
<1>9. Agree(First(a), Whole(b))
  BY <1>2, <1>8 DEF S
<1>10. j \in First(a) /\ k \in Whole(b)
  BY <1>2, <1>4
<1>11. QED
  BY <1>9, <1>10 DEF Agree

(***************************************************************************)
(* Evaluations advance.                                                    *)
(***************************************************************************)
LEMMA ProgressIs ==
    ASSUME Len(stack) \in Nat
    PROVE  /\ DOMAIN Progress = 1 .. Len(stack) + 2
           /\ \A k \in 1 .. Len(stack) : Progress[k] = Len(stack[k].done) + 1
           /\ Progress[Len(stack) + 1] = IF mode = "eval" THEN 0 ELSE 4
           /\ Progress[Len(stack) + 2] = PollProgress
BY DEF Progress

\* What is the same below a place, and larger there.
LEMMA AdvanceAt ==
    ASSUME NEW k \in Nat, k >= 1, Len(stack) \in Nat, Len(stack') \in Nat,
           k <= Len(stack) + 2, k <= Len(stack') + 2, Progress[k] < Progress'[k],
           \A i \in 1 .. k - 1 : Progress[i] = Progress'[i]
    PROVE  Before(Progress, Progress')
<1>1. DOMAIN Progress = 1 .. Len(stack) + 2 /\ DOMAIN Progress' = 1 .. Len(stack') + 2
  BY ProgressIs DEF Progress
<1>2. k \in DOMAIN Progress \cap DOMAIN Progress'
  BY <1>1
<1>3. QED
  BY <1>2 DEF Before

\* A frame has at most two operands.
LEMMA FrameProgress ==
    ASSUME NEW W, Over(W), NEW k \in 1 .. Len(stack)
    PROVE  /\ stack \in Seq(Frames(W)) /\ Len(stack) \in Nat
           /\ Len(stack[k].done) \in Nat /\ Progress[k] = Len(stack[k].done) + 1
           /\ Progress[k] \in {1, 2, 3}
<1>1. stack \in Seq(Frames(W)) /\ Len(stack) \in Nat /\ Waits(stack[k])
  BY DEF Over
<1>2. stack[k] \in Frames(W)
  BY <1>1, SeqElement
<1>3. stack[k].done \in Seq(W) /\ stack[k].node \in IrNode /\ Len(stack[k].done) \in Nat
  BY <1>2 DEF Frames
<1>4. Operands(stack[k].node.op) \in {0, 1, 2}
  BY <1>3, TreeFacts, KindFacts
<1>5. Len(stack[k].done) <= Operands(stack[k].node.op)
  BY <1>1 DEF Waits
<1>6. Len(stack[k].done) + 1 \in {1, 2, 3}
  <2>1. \A a \in Nat : \A b \in {0, 1, 2} : a <= b => a + 1 \in {1, 2, 3}
    OBVIOUS
  <2>2. QED
    BY <1>3, <1>4, <1>5, <2>1
<1>7. Progress[k] = Len(stack[k].done) + 1
  BY <1>1, ProgressIs
<1>8. Progress[k] \in {1, 2, 3}
  BY <1>6, <1>7
<1>9. QED
  BY <1>1, <1>3, <1>7, <1>8

\* An activation returns, to the frames that are left.
LEMMA OkAdvances ==
    ASSUME NEW W, Over(W), NEW v, NEW frames, Ok(v, frames), Len(frames) \in Nat,
           Len(frames) <= Len(stack), \A k \in 1 .. Len(frames) : frames[k] = stack[k],
           Len(frames) = Len(stack) => mode = "eval"
    PROVE  Before(Progress, Progress')
<1> DEFINE n == Len(frames)
<1>1. mode' = "ok" /\ stack' = frames /\ Len(stack') = n
  BY DEF Ok
<1>2. Len(stack) \in Nat
  BY DEF Over
<1>3. /\ \A k \in 1 .. n : Progress'[k] = Len(frames[k].done) + 1
      /\ Progress'[n + 1] = 4
  <2>1. \A k \in 1 .. n : Progress'[k] = Len(frames[k].done) + 1
    <3>1. \A k \in 1 .. n : k \in 1 .. n + 2 /\ k <= n
      OBVIOUS
    <3>2. QED
      BY <1>1, <3>1 DEF Progress
  <2>2. Progress'[n + 1] = 4
    <3>1. n + 1 \in 1 .. n + 2 /\ ~(n + 1 <= n) /\ n + 1 # n + 2
      OBVIOUS
    <3>2. QED
      BY <1>1, <3>1 DEF Progress
  <2>3. QED
    BY <2>1, <2>2
<1>4. \A k \in 1 .. n : Progress[k] = Progress'[k]
  <2>1. \A k \in 1 .. n : k \in 1 .. Len(stack)
    BY <1>2
  <2>2. QED
    BY <1>2, <1>3, <2>1, ProgressIs
<1>5. Progress[n + 1] < 4
  <2>1. CASE n = Len(stack)
    BY <1>2, <2>1, ProgressIs
  <2>2. CASE n # Len(stack)
    <3>1. n + 1 \in 1 .. Len(stack)
      BY <1>2, <2>2
    <3>2. Progress[n + 1] \in {1, 2, 3}
      BY <3>1, FrameProgress
    <3>3. QED
      BY <3>2
  <2>3. QED
    BY <2>1, <2>2
<1>6. /\ n + 1 \in Nat /\ n + 1 >= 1 /\ (n + 1) - 1 = n
      /\ n + 1 <= Len(stack) + 2 /\ n + 1 <= Len(stack') + 2
  BY <1>1, <1>2
<1> HIDE DEF n
<1>7. QED
  BY <1>1, <1>2, <1>3, <1>4, <1>5, <1>6, AdvanceAt DEF n

\* A failure leaves no frame.
LEMMA ErrAdvances ==
    ASSUME NEW W, Over(W), NEW e, Err(e), stack = << >> => mode = "eval"
    PROVE  Before(Progress, Progress')
<1>1. mode' = "err" /\ stack' = << >> /\ Len(stack') = 0
  BY DEF Err
<1>2. Progress'[1] = 4
  <2>1. Progress'[0 + 1] = 4
    BY <1>1 DEF Progress
  <2>2. QED
    BY <2>1
<1>3. Len(stack) \in Nat /\ stack \in Seq(Frames(W))
  BY DEF Over
<1>4. Progress[1] < 4
  <2>1. CASE Len(stack) = 0
    <3>1. mode = "eval"
      BY <1>3, <2>1
    <3>2. Progress[1] = 0
      BY <2>1, <3>1, ProgressIs
    <3>3. QED
      BY <3>2
  <2>2. CASE Len(stack) # 0
    <3>1. 1 \in 1 .. Len(stack)
      BY <1>3, <2>2
    <3>2. Progress[1] \in {1, 2, 3}
      BY <3>1, FrameProgress
    <3>3. QED
      BY <3>2
  <2>3. QED
    BY <2>1, <2>2
<1>5. 1 <= Len(stack) + 2 /\ 1 <= Len(stack') + 2 /\ Len(stack') \in Nat
  BY <1>1, <1>3
<1>6. QED
  BY <1>2, <1>3, <1>4, <1>5, AdvanceAt

\* A call, by an activation that had fewer operands before or was none.
LEMMA CallAdvances ==
    ASSUME NEW W, Over(W), NEW n, NEW e, NEW frames, Evaluate(n, e, frames),
           NEW m \in Nat, Len(frames) = m + 1, m <= Len(stack),
           \A k \in 1 .. m : frames[k] = stack[k],
           m = Len(stack) => mode = "eval" /\ Len(frames[m + 1].done) = 0,
           m < Len(stack) => Len(frames[m + 1].done) = Len(stack[m + 1].done) + 1
    PROVE  Before(Progress, Progress')
<1>1. mode' = "eval" /\ stack' = frames /\ Len(stack') = m + 1
  BY DEF Evaluate
<1>2. Len(stack) \in Nat
  BY DEF Over
<1>3. \A k \in 1 .. m + 1 : Progress'[k] = Len(frames[k].done) + 1
  BY <1>1 DEF Progress
<1>4. \A k \in 1 .. m : Progress[k] = Progress'[k]
  BY <1>2, <1>3, ProgressIs
<1>5. Progress[m + 1] < Progress'[m + 1]
  <2>1. CASE m = Len(stack)
    <3>1. Progress[m + 1] = 0
      BY <1>2, <2>1, ProgressIs
    <3>2. Progress'[m + 1] = 1
      BY <1>3, <2>1
    <3>3. QED
      BY <3>1, <3>2
  <2>2. CASE m < Len(stack)
    <3>1. m + 1 \in 1 .. Len(stack)
      BY <1>2, <2>2
    <3>2. Len(stack[m + 1].done) \in Nat /\ Progress[m + 1] = Len(stack[m + 1].done) + 1
      BY <3>1, FrameProgress
    <3>3. Progress'[m + 1] = (Len(stack[m + 1].done) + 1) + 1
      <4>1. m + 1 \in 1 .. m + 1
        OBVIOUS
      <4>2. Progress'[m + 1] = Len(frames[m + 1].done) + 1
        BY <1>3, <4>1
      <4>3. QED
        BY <2>2, <4>2
    <3>4. QED
      BY <3>2, <3>3
  <2>3. QED
    BY <1>2, <2>1, <2>2
<1>6. /\ m + 1 \in Nat /\ m + 1 >= 1 /\ (m + 1) - 1 = m
      /\ m + 1 <= Len(stack) + 2 /\ m + 1 <= Len(stack') + 2
  BY <1>1, <1>2
<1>7. QED
  BY <1>1, <1>2, <1>4, <1>5, <1>6, AdvanceAt

\* A step inside a poll.
LEMMA PollAdvances ==
    ASSUME NEW W, Over(W), EvalPoll
    PROVE  Before(Progress, Progress')
<1>1. mode' = mode /\ stack' = stack /\ Len(stack) \in Nat
  BY DEF EvalPoll, machineVars, Over
<1>2. PollProgress < PollProgress'
  BY DEF EvalPoll, NetPollUsed, NetParse, NetGiveBack, PollProgress
<1> DEFINE n == Len(stack)
<1>3. /\ Progress[n + 2] = PollProgress
      /\ Progress'[n + 2] = PollProgress'
      /\ \A i \in 1 .. n + 1 : Progress[i] = Progress'[i]
  BY <1>1 DEF Progress
<1>4. n + 2 \in Nat /\ n + 2 >= 1 /\ (n + 2) - 1 = n + 1 /\ Len(stack') = n
  BY <1>1
<1> HIDE DEF n
<1>5. Progress[n + 2] < Progress'[n + 2]
  BY <1>2, <1>3
<1>6. n + 2 <= Len(stack) + 2 /\ n + 2 <= Len(stack') + 2
  BY <1>4 DEF n
<1>7. QED
  BY <1>1, <1>3, <1>4, <1>5, <1>6, AdvanceAt

LEMMA ReturnedAdvances ==
    ASSUME NEW W, Over(W), Returned
    PROVE  /\ \A v : Ok(v, Rest) => Before(Progress, Progress')
           /\ \A e : Err(e) => Before(Progress, Progress')
           /\ \A n, e : Evaluate(n, e, Append(Rest, Frame(Top.node, Top.env, Done)))
                            => Before(Progress, Progress')
<1>1. /\ Len(stack) \in Nat \ {0} /\ Rest \in Seq(Frames(W)) /\ Len(Rest) = Len(stack) - 1
      /\ \A k \in 1 .. Len(stack) - 1 : Rest[k] = stack[k]
      /\ Len(Done) = Len(Top.done) + 1
  BY ReturnedFacts
<1>2. ASSUME NEW v, Ok(v, Rest)
      PROVE  Before(Progress, Progress')
  <2>1. Len(Rest) \in Nat /\ Len(Rest) <= Len(stack) /\ Len(Rest) # Len(stack)
    BY <1>1
  <2>2. QED
    BY <1>1, <1>2, <2>1, OkAdvances
<1>3. ASSUME NEW e, Err(e)
      PROVE  Before(Progress, Progress')
  BY <1>3, ErrAdvances DEF Returned
<1>4. ASSUME NEW n, NEW e, Evaluate(n, e, Append(Rest, Frame(Top.node, Top.env, Done)))
      PROVE  Before(Progress, Progress')
  <2> DEFINE f == Frame(Top.node, Top.env, Done)
             m == Len(stack) - 1
             frames == Append(Rest, f)
  <2>1. f.done = Done
    BY DEF Frame
  <2> HIDE DEF f
  <2>2. /\ Len(frames) = m + 1 /\ frames[m + 1] = f
        /\ \A k \in 1 .. m : frames[k] = stack[k]
    BY <1>1
  <2>3. m \in Nat /\ m <= Len(stack) /\ m # Len(stack) /\ m + 1 = Len(stack)
    BY <1>1
  <2>4. Len(frames[m + 1].done) = Len(stack[m + 1].done) + 1
    BY <1>1, <2>1, <2>2, <2>3 DEF Top
  <2>5. Evaluate(n, e, frames)
    BY <1>4 DEF f
  <2> HIDE DEF m, frames
  <2>6. QED
    BY <2>2, <2>3, <2>4, <2>5, CallAdvances
<1>5. QED
  BY <1>2, <1>3, <1>4

LEMMA StepAdvances ==
    ASSUME NEW W, Over(W), MachineStep, pc' = "running"
    PROVE  Before(Progress, Progress')
<1>1. Len(stack) \in Nat /\ stack \in Seq(Frames(W))
  BY DEF Over
<1>2. CASE EvalLiteral \/ EvalVar \/ EvalLambda \/ EvalPollNothing \/ EvalPollReturns
  <2>1. mode = "eval"
    BY <1>2 DEF EvalLiteral, EvalVar, EvalLambda, EvalPollNothing, EvalPollReturns, Polling,
                Evaluating
  <2>2. (\E v : Ok(v, stack)) \/ (\E e : Err(e))
    BY <1>2 DEF EvalLiteral, EvalVar, EvalLambda, EvalPollNothing, EvalPollReturns
  <2>3. Len(stack) <= Len(stack) /\ \A k \in 1 .. Len(stack) : stack[k] = stack[k]
    BY <1>1
  <2>4. CASE \E v : Ok(v, stack)
    BY <1>1, <2>1, <2>3, <2>4, OkAdvances
  <2>5. CASE \E e : Err(e)
    BY <2>1, <2>5, ErrAdvances
  <2>6. QED
    BY <2>5, <2>2, <2>4
<1>3. CASE EvalOperands
  <2> DEFINE f == Frame(node, env, << >>)
             m == Len(stack)
             frames == Append(stack, f)
  <2>1. mode = "eval" /\ Evaluate(node.sub[1], env, frames)
    BY <1>3 DEF EvalOperands
  <2>2. f.done = << >> /\ Len(f.done) = 0
    BY DEF Frame
  <2> HIDE DEF f
  <2>3. /\ Len(frames) = m + 1 /\ frames[m + 1] = f /\ m \in Nat /\ m <= Len(stack)
        /\ \A k \in 1 .. m : frames[k] = stack[k]
    BY <1>1
  <2>4. ~(m < Len(stack))
    BY <1>1
  <2> HIDE DEF m, frames
  <2>5. QED
    BY CallAdvances, <2>3, <2>4, <2>1, <2>2
<1>4. CASE EvalPoll
  BY <1>4, PollAdvances
<1>5. CASE \/ NextOperand \/ BodyReturns \/ ApplyArithmetic \/ ApplyRelation \/ Construct
           \/ Apply \/ Match \/ Let \/ LetRec \/ Unpack
  <2>1. Returned
    BY <1>5 DEF NextOperand, BodyReturns, ApplyArithmetic, ApplyRelation, Construct, Apply, Match,
                Let, LetRec, Unpack, HasOperands
  <2>2. \/ \E v : Ok(v, Rest)
        \/ \E e : Err(e)
        \/ \E n, e : Evaluate(n, e, Append(Rest, Frame(Top.node, Top.env, Done)))
    <3>1. CASE NextOperand
      BY <3>1 DEF NextOperand
    <3>2. CASE BodyReturns \/ ApplyArithmetic \/ ApplyRelation \/ Construct
      BY <3>2 DEF BodyReturns, ApplyArithmetic, ApplyRelation, Construct
    <3>3. CASE Apply \/ Match \/ Let \/ LetRec \/ Unpack
      BY <3>3 DEF Apply, Match, Let, LetRec, Unpack, EvaluateBody
    <3>4. QED
      BY <1>5, <3>1, <3>2, <3>3
  <2>3. QED
    BY <2>1, <2>2, ReturnedAdvances
<1>6. CASE ArithmeticPanics \/ Fault \/ Commit
  BY <1>6 DEF ArithmeticPanics, Fault, Commit
<1>7. QED
  BY <1>2, <1>3, <1>4, <1>5, <1>6 DEF MachineStep

LEMMA MachineInvariance == Spec => []MachineInv
<1>1. Init => IInv /\ MachineInv
  BY InitInvariant, InitMachine DEF IInv
<1>2. IInv /\ MachineInv /\ [Next]_vars => (IInv /\ MachineInv)'
  BY StepInvariant, StepMachine
<1>3. QED
  BY <1>1, <1>2, PTL DEF Spec

LEMMA CardKeepsProgress ==
    ASSUME [Next]_vars, ~MachineStep, pc = "running"
    PROVE  Progress' = Progress
<1>1. UNCHANGED <<stack, mode, net_pc>>
  <2>1. CASE ExecuteUnparsed \/ \E p \in Program : Execute(p)
    BY <2>1 DEF ExecuteUnparsed, Execute, Call
  <2>2. CASE CardStep /\ UNCHANGED <<pc, machineVars, hostVars, seen>>
    BY <2>2 DEF CardStep, CardTakes, CardFills, netDriverVars, machineVars
  <2>3. CASE UNCHANGED vars
    BY <2>3 DEF vars, machineVars, netVars, netDriverVars
  <2>4. QED
    BY <2>1, <2>2, <2>3 DEF Next
<1>2. QED
  BY <1>1 DEF Progress, PollProgress

\* Each step of the evaluator, whatever the contract and whatever the card does in between,
\* gets the execution further in the order of Progress: no arm of evaluate is run again in
\* the same activation and no call takes the place of another one.
THEOREM EvaluationsAdvance == Spec => EvaluationAdvances
<1>1. ASSUME MachineInv, [Next]_vars
      PROVE  [pc = "running" /\ pc' = "running" =>
                IF MachineStep THEN Before(Progress, Progress') ELSE Progress' = Progress]_vars
  <2>1. PICK W : Over(W)
    BY <1>1 DEF MachineInv
  <2>2. MachineStep /\ pc' = "running" => Before(Progress, Progress')
    BY <2>1, StepAdvances
  <2>3. ~MachineStep /\ pc = "running" => Progress' = Progress
    BY <1>1, CardKeepsProgress
  <2>4. QED
    BY <2>2, <2>3
<1>2. QED
  BY <1>1, MachineInvariance, PTL DEF Spec, EvaluationAdvances

(***************************************************************************)
(* And they cannot advance for ever.                                       *)
(***************************************************************************)
Position == UNION {[1 .. n -> 0 .. 4] : n \in 1 .. MAX_DEPTH + 2}

LEMMA ProgressIsPosition ==
    ASSUME MachineInv
    PROVE  Progress \in Position
<1>1. PICK W : Over(W)
  BY DEF MachineInv
<1>2. Len(stack) \in Nat /\ Len(stack) <= MAX_DEPTH /\ MAX_DEPTH \in Nat
  BY <1>1, Sizes DEF Over, MachineInv, Plain
<1>3. PollProgress \in 0 .. 4
  BY DEF PollProgress, MachineInv, NetTypeOK
<1>4. \A k \in 1 .. Len(stack) + 2 : Progress[k] \in 0 .. 4
  <2>1. SUFFICES ASSUME NEW k \in 1 .. Len(stack) + 2
                 PROVE  Progress[k] \in 0 .. 4
    OBVIOUS
  <2>2. CASE k \in 1 .. Len(stack)
    <3>1. Progress[k] \in {1, 2, 3}
      BY <1>1, <2>2, FrameProgress
    <3>2. QED
      BY <3>1
  <2>3. CASE k = Len(stack) + 1
    <3>1. Progress[k] \in {0, 4}
      BY <1>2, <2>3, ProgressIs
    <3>2. QED
      BY <3>1
  <2>4. CASE k = Len(stack) + 2
    BY <1>2, <1>3, <2>4, ProgressIs
  <2>5. k \in 1 .. Len(stack) \/ k = Len(stack) + 1 \/ k = Len(stack) + 2
    BY <1>2
  <2>6. QED
    BY <2>2, <2>3, <2>4, <2>5
<1>5. Progress \in [1 .. Len(stack) + 2 -> 0 .. 4]
  <2>1. Progress = [k \in 1 .. Len(stack) + 2 |-> Progress[k]]
    BY DEF Progress
  <2>2. QED
    BY <1>4, <2>1
<1>6. Len(stack) + 2 \in 1 .. MAX_DEPTH + 2
  BY <1>2
<1>7. QED
  BY <1>5, <1>6 DEF Position

\* Where an execution may be is a position, always.
LEMMA ExecutionsHavePositions == Spec => [](Progress \in Position)
<1>1. MachineInv => Progress \in Position
  BY ProgressIsPosition
<1>2. QED
  BY <1>1, MachineInvariance, PTL

LEMMA PositionFacts ==
    ASSUME NEW s \in Position
    PROVE  \E n \in 1 .. MAX_DEPTH + 2 : DOMAIN s = 1 .. n /\ \A k \in 1 .. n : s[k] \in 0 .. 4
BY DEF Position

\* From some moment on, the first m places do not change.
Settled(f, m) ==
    \E N \in Nat : \A n \in Nat :
        n >= N => \A i \in 1 .. m : i \in DOMAIN f[n] /\ f[n][i] = f[N][i]

\* A place that only grows, and not beyond 4, settles.
LEMMA GrowthEnds ==
    ASSUME NEW g, NEW N \in Nat, \A n \in Nat : n >= N => g[n] \in 0 .. 4 /\ g[n] <= g[n + 1]
    PROVE  \E M \in Nat : M >= N /\ \A n \in Nat : n >= M => g[n] = g[M]
<1> DEFINE T == {4 - g[n] : n \in {x \in Nat : x >= N}}
<1>1. T \in SUBSET Nat
  OBVIOUS
<1>2. T # {}
  <2>1. N \in {x \in Nat : x >= N}
    OBVIOUS
  <2>2. 4 - g[N] \in T
    BY <2>1
  <2>3. QED
    BY <2>2
<1>3. PICK y \in T : \A z \in T : y <= z
  <2> HIDE DEF T
  <2>1. QED
    BY <1>1, <1>2, LeastNumber
<1>4. PICK M \in Nat : M >= N /\ y = 4 - g[M]
  BY <1>3
<1>5. \A n \in Nat : n >= N => 4 - g[M] <= 4 - g[n]
  BY <1>3, <1>4
<1> HIDE DEF T
<1>6. \A n \in Nat : n >= N => g[n] <= g[M]
  <2>1. \A n \in Nat : n >= N => g[n] \in Nat
    OBVIOUS
  <2>2. g[M] \in Nat
    BY <1>4
  <2>3. QED
    BY <1>5, <2>1, <2>2
<1> DEFINE S == {n \in Nat : g[n] = g[M]}
<1>7. M \in S
  BY <1>4
<1>8. ASSUME NEW n \in Nat, n >= M, n \in S
      PROVE  n + 1 \in S
  <2>1. n >= N /\ n + 1 >= N /\ n + 1 \in Nat
    BY <1>4, <1>8
  <2>2. g[n] = g[M] /\ g[n] <= g[n + 1] /\ g[n + 1] <= g[M]
    BY <1>6, <1>8, <2>1
  <2>3. g[n + 1] \in 0 .. 4 /\ g[M] \in 0 .. 4
    BY <1>4, <2>1
  <2>4. QED
    BY <2>1, <2>2, <2>3
<1> HIDE DEF S
<1>9. \A n \in Nat : n >= M => n \in S
  BY <1>7, <1>8, UpFrom
<1>10. QED
  BY <1>4, <1>9 DEF S

LEMMA OneMoreSettles ==
    ASSUME NEW f \in [Nat -> Position], \A n \in Nat : Before(f[n], f[n + 1]),
           NEW m \in Nat, Settled(f, m)
    PROVE  Settled(f, m + 1)
<1>1. PICK N \in Nat : \A n \in Nat :
            n >= N => \A i \in 1 .. m : i \in DOMAIN f[n] /\ f[n][i] = f[N][i]
  BY DEF Settled
<1>2. ASSUME NEW n \in Nat, n >= N
      PROVE  /\ m + 1 \in DOMAIN f[n]
             /\ f[n][m + 1] \in 0 .. 4 /\ f[n + 1][m + 1] \in 0 .. 4
             /\ f[n][m + 1] <= f[n + 1][m + 1]
  <2>1. PICK k \in DOMAIN f[n] \cap DOMAIN f[n + 1] :
            f[n][k] < f[n + 1][k] /\ \A i \in 1 .. k - 1 : f[n][i] = f[n + 1][i]
    BY DEF Before
  <2>2. f[n] \in Position /\ f[n + 1] \in Position
    OBVIOUS
  <2>3. PICK a \in 1 .. MAX_DEPTH + 2 :
            DOMAIN f[n] = 1 .. a /\ \A i \in 1 .. a : f[n][i] \in 0 .. 4
    BY <2>2, PositionFacts
  <2>4. PICK b \in 1 .. MAX_DEPTH + 2 :
            DOMAIN f[n + 1] = 1 .. b /\ \A i \in 1 .. b : f[n + 1][i] \in 0 .. 4
    BY <2>2, PositionFacts
  <2>5. k \in Nat /\ k >= 1 /\ k <= a /\ k <= b /\ a \in Nat /\ b \in Nat
    BY <2>1, <2>3, <2>4, Sizes
  <2>6. ~(k <= m)
    <3>1. SUFFICES ASSUME k <= m
                   PROVE  FALSE
      OBVIOUS
    <3>2. k \in 1 .. m
      BY <2>5, <3>1
    <3>3. f[n][k] = f[N][k]
      BY <1>1, <1>2, <3>2
    <3>4. n + 1 \in Nat /\ n + 1 >= N
      BY <1>2
    <3>5. f[n + 1][k] = f[N][k]
      BY <1>1, <3>2, <3>4
    <3>6. f[n][k] \in 0 .. 4 /\ f[n + 1][k] \in 0 .. 4
      BY <2>1, <2>3, <2>4
    <3>7. QED
      BY <2>1, <3>3, <3>5, <3>6
  <2>7. m + 1 \in 1 .. a /\ m + 1 \in 1 .. b
    BY <2>5, <2>6
  <2>8. f[n][m + 1] \in 0 .. 4 /\ f[n + 1][m + 1] \in 0 .. 4
    BY <2>3, <2>4, <2>7
  <2>9. f[n][m + 1] <= f[n + 1][m + 1]
    <3>1. CASE k = m + 1
      BY <2>1, <2>8, <3>1
    <3>2. CASE k # m + 1
      <4>1. m + 1 \in 1 .. k - 1
        BY <2>5, <2>6, <3>2
      <4>2. f[n][m + 1] = f[n + 1][m + 1]
        BY <2>1, <4>1
      <4>3. QED
        BY <2>8, <4>2
    <3>3. QED
      BY <3>1, <3>2
  <2>10. QED
    BY <2>3, <2>7, <2>8, <2>9
<1>3. PICK g : \A n \in Nat : g[n] = f[n][m + 1]
  <2> DEFINE h == [n \in Nat |-> f[n][m + 1]]
  <2>1. \A n \in Nat : h[n] = f[n][m + 1]
    OBVIOUS
  <2> HIDE DEF h
  <2>2. QED
    BY <2>1
<1>4. PICK M \in Nat : M >= N /\ \A n \in Nat : n >= M => g[n] = g[M]
  <2>1. \A n \in Nat : n >= N => g[n] \in 0 .. 4 /\ g[n] <= g[n + 1]
    <3>1. SUFFICES ASSUME NEW n \in Nat, n >= N
                   PROVE  g[n] \in 0 .. 4 /\ g[n] <= g[n + 1]
      OBVIOUS
    <3>2. n + 1 \in Nat
      OBVIOUS
    <3>3. g[n] = f[n][m + 1] /\ g[n + 1] = f[n + 1][m + 1]
      BY <1>3, <3>2
    <3>4. QED
      BY <1>2, <3>1, <3>3
  <2>2. QED
    BY <2>1, GrowthEnds
<1>5. ASSUME NEW n \in Nat, n >= M, NEW i \in 1 .. m + 1
      PROVE  i \in DOMAIN f[n] /\ f[n][i] = f[M][i]
  <2>1. n >= N /\ M >= N
    BY <1>4, <1>5
  <2>2. CASE i = m + 1
    BY <1>2, <1>3, <1>4, <1>5, <2>1, <2>2
  <2>3. CASE i # m + 1
    <3>1. i \in 1 .. m
      BY <2>3
    <3>2. i \in DOMAIN f[n] /\ f[n][i] = f[N][i] /\ f[M][i] = f[N][i]
      BY <1>1, <2>1, <3>1
    <3>3. QED
      BY <3>2
  <2>4. QED
    BY <2>2, <2>3
<1>6. QED
  BY <1>5 DEF Settled

\* There is no endless sequence of positions of a stack that is limited, each before
\* the next: by EvaluationsAdvance and ExecutionsHavePositions, evaluate takes finitely many
\* steps.  What then comes need not be a return: it is the return of autarky_execute, the
\* endless loop of the panic handler, or the overrun of the kernel stack.
THEOREM NoEndlessEvaluation ==
    ASSUME NEW f \in [Nat -> Position]
    PROVE  \E n \in Nat : ~Before(f[n], f[n + 1])
<1>1. SUFFICES ASSUME \A n \in Nat : Before(f[n], f[n + 1])
               PROVE  FALSE
  OBVIOUS
<1> DEFINE S == {m \in Nat : Settled(f, m)}
<1>2. 0 \in S
  <2>1. \A i \in 1 .. 0 : FALSE
    OBVIOUS
  <2>2. Settled(f, 0)
    BY <2>1 DEF Settled
  <2>3. QED
    BY <2>2
<1>3. \A m \in Nat : m >= 0 /\ m \in S => m + 1 \in S
  BY <1>1, OneMoreSettles
<1> HIDE DEF S
<1>4. \A m \in Nat : m >= 0 => m \in S
  BY <1>2, <1>3, UpFrom
<1>5. MAX_DEPTH + 3 \in Nat /\ MAX_DEPTH + 3 >= 0 /\ MAX_DEPTH + 3 \in 1 .. MAX_DEPTH + 3
  BY Sizes
<1>6. Settled(f, MAX_DEPTH + 3)
  BY <1>4, <1>5 DEF S
<1>7. PICK N \in Nat : MAX_DEPTH + 3 \in DOMAIN f[N]
  <2>1. PICK N \in Nat : \A n \in Nat :
            n >= N => \A i \in 1 .. MAX_DEPTH + 3 : i \in DOMAIN f[n] /\ f[n][i] = f[N][i]
    BY <1>6 DEF Settled
  <2>2. N >= N
    OBVIOUS
  <2>3. QED
    BY <1>5, <2>1, <2>2
<1>8. PICK a \in 1 .. MAX_DEPTH + 2 : DOMAIN f[N] = 1 .. a
  <2>1. f[N] \in Position
    OBVIOUS
  <2>2. QED
    BY <2>1, PositionFacts
<1>9. QED
  BY <1>7, <1>8, Sizes
=============================================================================

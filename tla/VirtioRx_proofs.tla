---------------------------- MODULE VirtioRx_proofs ----------------------------
(***************************************************************************)
(* The keyboard's buffers, for every size of the rings and width of their  *)
(* indices: the types, that every buffer has one owner, and that a poll    *)
(* returns what was typed.                                                 *)
(***************************************************************************)
EXTENDS VirtioRx, RingArithmetic

V == VIRTQ_SIZE

LEMMA SizeFacts ==
    /\ V \in Nat \ {0} /\ INDEX \in Nat \ {0} /\ INDEX > V + 1 /\ SlotOf(V, INDEX) = 0
    /\ V = VIRTQ_SIZE
    /\ Slot = Buffers(V) /\ Ring(V) = [Slot -> Slot]
    /\ \A i : i \in Index <=> i \in Nat /\ i < INDEX
  BY RingAssumption DEF V, SlotOf, Slot, Buffers, Ring, Index

(***************************************************************************)
(* Indices.                                                                *)
(***************************************************************************)
LEMMA Next16Value ==
    ASSUME NEW i \in Index
    PROVE  /\ Next16(i) = IF i + 1 = INDEX THEN 0 ELSE i + 1
           /\ Next16(i) \in Index
           /\ Next16(i) = SlotOf(INDEX, i + 1)
BY SizeFacts, NextIndexValue DEF Next16, SlotOf, Index

LEMMA AheadValue ==
    ASSUME NEW i \in Index, NEW j \in Index
    PROVE  /\ Ahead(i, j) = IF i >= j THEN i - j ELSE i + INDEX - j
           /\ Ahead(i, j) \in Nat
           /\ Ahead(i, j) < INDEX
           /\ SlotOf(V, j + Ahead(i, j)) = SlotOf(V, i)
           /\ SlotOf(V, i) \in Slot
<1>1. Ahead(i, j) = Distance(INDEX, i, j)
  BY DEF Ahead, Distance, SlotOf
<1>2. /\ INDEX \in Nat \ {0} /\ V \in Nat \ {0} /\ SlotOf(V, INDEX) = 0
      /\ i \in 0 .. INDEX - 1 /\ j \in 0 .. INDEX - 1 /\ i \in Nat /\ Slot = 0 .. V - 1
  BY SizeFacts DEF Index, Slot, V
<1>3. Distance(INDEX, i, j) = IF i >= j THEN i - j ELSE i + INDEX - j
  BY <1>2, DistanceValue
<1>4. SlotOf(V, j + Distance(INDEX, i, j)) = SlotOf(V, i)
  BY <1>2, DistanceReaches
<1>5. SlotOf(V, i) \in Slot
  BY <1>2, ModRange DEF SlotOf
<1>6. QED
  BY <1>1, <1>2, <1>3, <1>4, <1>5

LEMMA AheadSteps ==
    ASSUME NEW i \in Index, NEW j \in Index
    PROVE  /\ Ahead(i, j) + 1 < INDEX => Ahead(Next16(i), j) = Ahead(i, j) + 1
           /\ i # j => Ahead(i, j) > 0 /\ Ahead(i, Next16(j)) = Ahead(i, j) - 1
           /\ i = j => Ahead(i, j) = 0
<1>1. \A k, l : Ahead(k, l) = Distance(INDEX, k, l)
  BY DEF Ahead, Distance, SlotOf
<1>2. i \in 0 .. INDEX - 1 /\ j \in 0 .. INDEX - 1
  BY DEF Index
<1>3. Next16(i) = SlotOf(INDEX, i + 1) /\ Next16(j) = SlotOf(INDEX, j + 1)
  BY DEF Next16, SlotOf
<1>4. QED
  BY <1>1, <1>2, <1>3, SizeFacts, DistanceSteps

(***************************************************************************)
(* The inductive invariant.  While a poll works on an entry of the used    *)
(* ring, that entry no longer is among those that name used buffers,       *)
(* though in_last_used_idx still stands on it.                             *)
(***************************************************************************)
Out     == Ahead(avail_idx, dev_idx)
Filled  == Ahead(used_idx, in_last_used_idx)
Working == IF pc = "idle" THEN 0 ELSE 1

Circulate ==
    /\ Working <= Filled
    /\ Owners(V, avail_ring, dev_idx, Out, dev_held,
              used_ring, in_last_used_idx + Working, Filled - Working, InHand)
    /\ pc = "publish" => At(V, avail_ring, dev_idx, Out) = desc_idx

\* The history of what was typed and the used ring have the same length.
Counted == Len(typed) = Filled - IF pc \in {"idle", "parse"} THEN 0 ELSE 1

IInv == TypeOK /\ Circulate /\ Counted

LEMMA TypeFacts ==
    ASSUME TypeOK
    PROVE  /\ avail_idx \in Index /\ used_idx \in Index
           /\ in_last_used_idx \in Index /\ dev_idx \in Index
           /\ avail_idx \in Nat /\ used_idx \in Nat /\ in_last_used_idx \in Nat /\ dev_idx \in Nat
           /\ avail_ring \in Ring(V) /\ used_ring \in Ring(V)
           /\ desc_idx \in Buffers(V)
           /\ Out \in Nat /\ Filled \in Nat /\ Out < INDEX /\ Filled < INDEX
           /\ Working \in {0, 1}
           /\ Len(typed) \in Nat
<1>1. avail_idx \in Index /\ used_idx \in Index /\ in_last_used_idx \in Index /\ dev_idx \in Index
  BY DEF TypeOK
<1>2. Out \in Nat /\ Filled \in Nat /\ Out < INDEX /\ Filled < INDEX
  BY <1>1, AheadValue DEF Out, Filled
<1>3. avail_ring \in Ring(V) /\ used_ring \in Ring(V) /\ desc_idx \in Buffers(V)
  BY SizeFacts DEF TypeOK
<1>4. Len(typed) \in Nat
  BY DEF TypeOK
<1>5. QED
  BY <1>1, <1>2, <1>3, <1>4, SizeFacts DEF Working

LEMMA InitInvariant == Init => IInv
<1> SUFFICES ASSUME Init
             PROVE  IInv
  OBVIOUS
<1>1. V \in Nat \ {0} /\ V < INDEX /\ INDEX \in Nat
  BY SizeFacts
<1>2. /\ 0 \in Index /\ V \in Index /\ 0 \in Slot /\ V = VIRTQ_SIZE
  BY <1>1, SizeFacts DEF Slot
<1>3. TypeOK
  <2>1. in_events \in [Slot -> [code : Code, value : 0 .. 2]]
    BY DEF Init, Code
  <2>2. avail_ring \in [Slot -> Slot] /\ used_ring \in [Slot -> Slot]
    BY <1>2 DEF Init
  <2>3. QED
    BY <1>2, <2>1, <2>2 DEF Init, TypeOK, Ascii
<1>4. /\ pc = "idle" /\ avail_idx = V /\ dev_idx = 0 /\ used_idx = 0 /\ in_last_used_idx = 0
      /\ dev_held = {} /\ InHand = {} /\ avail_ring = [s \in Slot |-> s] /\ typed = << >>
  BY <1>2 DEF Init, InHand
<1>5. Out = V /\ Filled = 0 /\ Working = 0
  <2>1. Ahead(V, 0) = V /\ Ahead(0, 0) = 0
    BY <1>1, <1>2, AheadValue
  <2>2. QED
    BY <1>4, <2>1 DEF Out, Filled, Working
<1>6. \A k \in 0 .. V - 1 : At(V, avail_ring, 0, k) = k
  <2>1. SUFFICES ASSUME NEW k \in 0 .. V - 1
                 PROVE  At(V, avail_ring, 0, k) = k
    OBVIOUS
  <2>2. 0 + k = k /\ k % V = k /\ k \in Slot
    BY <1>1, ModSmall, SizeFacts DEF Slot
  <2>3. QED
    BY <1>4, <2>2 DEF At, SlotOf
<1>7. Window(V, avail_ring, 0, V) = Buffers(V) /\ NoneTwice(V, avail_ring, 0, V)
  BY <1>6 DEF Window, NoneTwice, Buffers
<1>8. Window(V, used_ring, 0, 0) = {} /\ NoneTwice(V, used_ring, 0, 0)
  BY DEF Window, NoneTwice
<1>9. Owners(V, avail_ring, 0, V, {}, used_ring, 0, 0, {})
  <2>1. Cardinality({}) = 0
    BY FS_EmptySet
  <2>2. V + Cardinality({}) + 0 + Cardinality({}) = V
    BY <1>1, <2>1
  <2>3. QED
    BY <1>7, <1>8, <2>2 DEF Owners, Apart
<1>10. Circulate
  <2>1. in_last_used_idx + Working = 0 /\ Filled - Working = 0
    BY <1>4, <1>5
  <2>2. QED
    BY <1>4, <1>5, <1>9, <2>1 DEF Circulate
<1>11. Counted
  <2>1. Len(typed) = 0 /\ Filled - 0 = 0
    BY <1>4, <1>5
  <2>2. QED
    BY <1>4, <2>1 DEF Counted
<1>12. QED
  BY <1>3, <1>10, <1>11 DEF IInv

(***************************************************************************)
(* Types.                                                                  *)
(***************************************************************************)
LEMMA PollKeepsTypes ==
    ASSUME IInv, Poll
    PROVE  TypeOK'
<1>1. TypeOK /\ UNCHANGED deviceVars
  BY DEF IInv, Poll, PollNothing, PollUsed, PollParse, PollGiveBack, PollPublish, PollAdvance
<1>2. /\ in_events' = in_events /\ used_ring' = used_ring /\ used_idx' = used_idx
      /\ dev_idx' = dev_idx /\ dev_held' = dev_held /\ key_shift' = key_shift
      /\ polling' = polling
  BY <1>1 DEF deviceVars, Poll, PollNothing, PollUsed, PollParse, PollGiveBack, PollPublish,
              PollAdvance
<1>3. CASE PollNothing
  BY <1>1, <1>2, <1>3 DEF PollNothing, TypeOK, Ascii
<1>4. CASE PollUsed
  <2>1. used_ring[UsedSlot] \in Slot
    <3>1. UsedSlot = SlotOf(V, in_last_used_idx)
      BY SizeFacts DEF UsedSlot, SlotOf
    <3>2. UsedSlot \in Slot
      BY <1>1, <3>1, TypeFacts, AheadValue
    <3>3. QED
      BY <1>1, <3>2 DEF TypeOK
  <2>2. QED
    BY <1>1, <1>2, <1>4, <2>1 DEF PollUsed, TypeOK
<1>5. CASE PollParse
  <2>1. Len(typed) > 0
    <3>1. Working = 1 /\ Working <= Filled /\ Len(typed) = Filled - 0 /\ Filled \in Nat
      BY <1>1, <1>5, TypeFacts DEF PollParse, IInv, Circulate, Counted, Working
    <3>2. QED
      BY <3>1
  <2>2. Head(typed) \in Ascii /\ Tail(typed) \in Seq(Ascii)
    <3>1. typed \in Seq(Ascii) /\ typed # << >>
      BY <1>1, <2>1 DEF TypeOK
    <3>2. QED
      BY <3>1
  <2>3. in_events[desc_idx] \in [code : Code, value : 0 .. 2]
    BY <1>1 DEF TypeOK
  <2>4. ShiftAfter(in_events[desc_idx]) \in BOOLEAN
    BY <1>1, <2>3 DEF ShiftAfter, TypeOK
  <2>5. Decoded(in_events[desc_idx]) \in Ascii
    BY DEF Decoded, Ascii
  <2>6. QED
    BY <1>1, <1>2, <1>5, <2>2, <2>4, <2>5 DEF PollParse, TypeOK
<1>6. CASE PollGiveBack
  <2>1. [avail_ring EXCEPT ![avail_idx % VIRTQ_SIZE] = desc_idx] \in [Slot -> Slot]
    BY <1>1 DEF TypeOK
  <2>2. QED
    BY <1>1, <1>2, <1>6, <2>1 DEF PollGiveBack, TypeOK
<1>7. CASE PollPublish
  <2>1. Next16(avail_idx) \in Index
    BY <1>1, TypeFacts, Next16Value
  <2>2. QED
    BY <1>1, <1>2, <1>7, <2>1 DEF PollPublish, TypeOK
<1>8. CASE PollAdvance
  <2>1. Next16(in_last_used_idx) \in Index
    BY <1>1, TypeFacts, Next16Value
  <2>2. QED
    BY <1>1, <1>2, <1>8, <2>1 DEF PollAdvance, TypeOK
<1>9. QED
  BY <1>3, <1>4, <1>5, <1>6, <1>7, <1>8 DEF Poll

LEMMA DeviceKeepsTypes ==
    ASSUME IInv, DeviceTakes \/ \E d \in Slot, evt \in Event : DeviceFills(d, evt)
    PROVE  TypeOK'
<1>1. TypeOK /\ UNCHANGED driverVars
  BY DEF IInv, DeviceTakes, DeviceFills
<1>2. /\ avail_ring' = avail_ring /\ avail_idx' = avail_idx /\ pc' = pc
      /\ in_last_used_idx' = in_last_used_idx /\ shift_active' = shift_active
      /\ desc_idx' = desc_idx /\ ascii' = ascii /\ polling' = polling
  BY <1>1 DEF driverVars
<1>3. CASE DeviceTakes
  <2>1. Next16(dev_idx) \in Index
    BY <1>1, TypeFacts, Next16Value
  <2>2. avail_ring[dev_idx % VIRTQ_SIZE] \in Slot
    <3>1. SlotOf(V, dev_idx) \in Slot
      BY <1>1, TypeFacts, AheadValue
    <3>2. QED
      BY <1>1, <3>1, SizeFacts DEF SlotOf, TypeOK
  <2>3. QED
    BY <1>1, <1>2, <1>3, <2>1, <2>2 DEF DeviceTakes, TypeOK, Next16
<1>4. ASSUME NEW d \in Slot, NEW evt \in Event, DeviceFills(d, evt)
      PROVE  TypeOK'
  <2>1. Next16(used_idx) \in Index
    BY <1>1, TypeFacts, Next16Value
  <2>2. evt \in [code : Code, value : 0 .. 2]
    BY EventAssumption
  <2>3. in_events' \in [Slot -> [code : Code, value : 0 .. 2]] /\ used_ring' \in [Slot -> Slot]
    BY <1>1, <1>4, <2>2 DEF DeviceFills, TypeOK
  <2>4. Meaning(evt) \in Ascii
    BY DEF Meaning, Ascii
  <2>5. typed' \in Seq(Ascii) /\ key_shift' \in BOOLEAN
    <3>1. typed \in Seq(Ascii) /\ typed' = Append(typed, Meaning(evt))
      BY <1>1, <1>4 DEF DeviceFills, TypeOK
    <3>2. typed' \in Seq(Ascii)
      BY <2>4, <3>1
    <3>3. key_shift' \in BOOLEAN
      BY <1>1, <1>4 DEF DeviceFills, TypeOK
    <3>4. QED
      BY <3>2, <3>3
  <2>6. QED
    BY <1>1, <1>2, <1>4, <2>1, <2>3, <2>5 DEF DeviceFills, TypeOK, Next16
<1>5. QED
  BY <1>3, <1>4

(***************************************************************************)
(* Who has the buffers.                                                    *)
(***************************************************************************)
\* A step that changes neither ring nor index, nor the hand of the poll.
LEMMA SameBuffers ==
    ASSUME IInv,
           UNCHANGED <<avail_ring, avail_idx, in_last_used_idx, pc, desc_idx, used_ring, used_idx,
                       dev_idx, dev_held, typed>>
    PROVE  Circulate' /\ Counted'
<1>1. Out' = Out /\ Filled' = Filled /\ Working' = Working /\ InHand' = InHand
  BY DEF Out, Filled, Working, InHand
<1>2. QED
  BY <1>1 DEF IInv, Circulate, Counted

LEMMA UsedKeepsIInv ==
    ASSUME IInv, PollUsed, TypeOK'
    PROVE  IInv'
<1>1. TypeOK /\ Circulate /\ Counted
  BY DEF IInv
<1>2. /\ pc = "idle" /\ pc' = "parse" /\ used_idx # in_last_used_idx
      /\ desc_idx' = used_ring[UsedSlot]
      /\ avail_ring' = avail_ring /\ avail_idx' = avail_idx /\ used_ring' = used_ring
      /\ used_idx' = used_idx /\ in_last_used_idx' = in_last_used_idx
      /\ dev_idx' = dev_idx /\ dev_held' = dev_held /\ typed' = typed
  BY DEF PollUsed, deviceVars
<1>3. /\ Working = 0 /\ Working' = 1 /\ Out' = Out /\ Filled' = Filled
      /\ InHand = {} /\ InHand' = {desc_idx'}
  BY <1>2 DEF Working, Out, Filled, InHand
<1>4. Filled \in Nat /\ Filled > 0 /\ Out \in Nat /\ in_last_used_idx \in Nat
  BY <1>1, <1>2, TypeFacts, AheadSteps DEF Filled
<1>5. in_last_used_idx + 0 = in_last_used_idx /\ Filled - 0 = Filled
  BY <1>4
<1>6. Owners(V, avail_ring, dev_idx, Out, dev_held, used_ring, in_last_used_idx, Filled, {})
  BY <1>1, <1>3, <1>5 DEF Circulate
<1>7. At(V, used_ring, in_last_used_idx, 0) = desc_idx'
  BY <1>2, <1>5, SizeFacts DEF At, SlotOf, UsedSlot
<1>8. Owners(V, avail_ring, dev_idx, Out, dev_held, used_ring, in_last_used_idx + 1,
             Filled - 1, {desc_idx'})
  <2>1. V \in Nat \ {0} /\ dev_idx \in Nat
    BY <1>1, SizeFacts, TypeFacts
  <2>2. Owners(V, avail_ring, dev_idx, Out, dev_held, used_ring, in_last_used_idx + 1,
               Filled - 1, {At(V, used_ring, in_last_used_idx, 0)})
    BY <1>4, <1>6, <2>1, DriverTakesOldest
  <2>3. QED
    BY <1>7, <2>2
<1>9. Circulate'
  BY <1>2, <1>3, <1>4, <1>8 DEF Circulate
<1>10. Counted'
  BY <1>1, <1>2, <1>3 DEF Counted
<1>11. QED
  BY <1>9, <1>10 DEF IInv

LEMMA ParseKeepsIInv ==
    ASSUME IInv, PollParse, TypeOK'
    PROVE  IInv'
<1>1. TypeOK /\ Circulate /\ Counted
  BY DEF IInv
<1>2. /\ pc = "parse" /\ pc' = "give_back" /\ typed' = Tail(typed)
      /\ avail_ring' = avail_ring /\ avail_idx' = avail_idx /\ used_ring' = used_ring
      /\ used_idx' = used_idx /\ in_last_used_idx' = in_last_used_idx
      /\ dev_idx' = dev_idx /\ dev_held' = dev_held /\ desc_idx' = desc_idx
  BY DEF PollParse, deviceVars
<1>3. Working' = Working /\ Out' = Out /\ Filled' = Filled /\ InHand' = InHand /\ Working = 1
  BY <1>2 DEF Working, Out, Filled, InHand
<1>4. Circulate'
  BY <1>1, <1>2, <1>3 DEF Circulate
<1>5. Len(typed) = Filled - 0 /\ Filled \in Nat /\ Filled >= 1
  BY <1>1, <1>2, <1>3, TypeFacts DEF Counted, Circulate
<1>6. Len(Tail(typed)) = Len(typed) - 1
  <2>1. typed \in Seq(Ascii) /\ typed # << >>
    BY <1>1, <1>5 DEF TypeOK
  <2>2. QED
    BY <2>1
<1>7. Len(typed') = Filled - 1
  BY <1>2, <1>5, <1>6
<1>8. Counted'
  BY <1>2, <1>3, <1>7 DEF Counted
<1>9. QED
  BY <1>4, <1>8 DEF IInv

LEMMA GiveBackKeepsIInv ==
    ASSUME IInv, PollGiveBack, TypeOK'
    PROVE  IInv'
<1>1. TypeOK /\ Circulate /\ Counted
  BY DEF IInv
<1>2. /\ pc = "give_back" /\ pc' = "publish"
      /\ avail_ring' = [avail_ring EXCEPT ![avail_idx % VIRTQ_SIZE] = desc_idx]
      /\ avail_idx' = avail_idx /\ used_ring' = used_ring
      /\ used_idx' = used_idx /\ in_last_used_idx' = in_last_used_idx
      /\ dev_idx' = dev_idx /\ dev_held' = dev_held /\ desc_idx' = desc_idx /\ typed' = typed
  BY DEF PollGiveBack, deviceVars
<1>3. /\ Working' = Working /\ Out' = Out /\ Filled' = Filled /\ InHand' = InHand
      /\ Working = 1 /\ InHand = {desc_idx}
  BY <1>2 DEF Working, Out, Filled, InHand
<1>4. avail_ring' = Put(V, avail_ring, dev_idx + Out, desc_idx)
  <2>1. SlotOf(V, dev_idx + Out) = SlotOf(V, avail_idx)
    BY <1>1, TypeFacts, AheadValue DEF Out
  <2>2. QED
    BY <1>2, <2>1, SizeFacts DEF Put, SlotOf
<1>5. /\ V \in Nat \ {0} /\ avail_ring \in Ring(V) /\ dev_idx \in Nat /\ Out \in Nat
      /\ in_last_used_idx + Working \in Nat /\ Filled - Working \in Nat /\ desc_idx \in Buffers(V)
  BY <1>1, <1>3, SizeFacts, TypeFacts DEF Circulate
<1>6. Owners(V, avail_ring, dev_idx, Out, dev_held, used_ring, in_last_used_idx + Working,
             Filled - Working, {desc_idx})
  BY <1>1, <1>3 DEF Circulate
<1>7. /\ Owners(V, avail_ring', dev_idx, Out, dev_held, used_ring, in_last_used_idx + Working,
                Filled - Working, {desc_idx})
      /\ At(V, avail_ring', dev_idx, Out) = desc_idx
  <2> DEFINE j == in_last_used_idx + Working
             n == Filled - Working
  <2>1. j \in Nat /\ n \in Nat
    BY <1>5
  <2>2. Owners(V, avail_ring, dev_idx, Out, dev_held, used_ring, j, n, {desc_idx})
    BY <1>6
  <2> HIDE DEF j, n
  <2>3. /\ Owners(V, Put(V, avail_ring, dev_idx + Out, desc_idx), dev_idx, Out, dev_held,
                  used_ring, j, n, {desc_idx})
        /\ At(V, Put(V, avail_ring, dev_idx + Out, desc_idx), dev_idx, Out) = desc_idx
    BY <1>5, <2>1, <2>2, DriverGivesBack
  <2>4. QED
    BY <1>4, <2>3 DEF j, n
<1>8. Circulate'
  BY <1>1, <1>2, <1>3, <1>7 DEF Circulate
<1>9. Counted'
  BY <1>1, <1>2, <1>3 DEF Counted
<1>10. QED
  BY <1>8, <1>9 DEF IInv

\* No ring holds more than its size, so no index can overtake another.
LEMMA RingsNeverOverfull ==
    ASSUME IInv
    PROVE  Out <= V /\ Filled - Working <= V /\ Filled - Working \in Nat
<1>1. TypeOK /\ Circulate
  BY DEF IInv
<1>2. V \in Nat \ {0} /\ Out \in Nat /\ Filled - Working \in Nat
  BY <1>1, SizeFacts, TypeFacts DEF Circulate
<1> DEFINE n == Filled - Working
<1>3. n \in Nat /\ Owners(V, avail_ring, dev_idx, Out, dev_held,
             used_ring, in_last_used_idx + Working, n, InHand)
  BY <1>1, <1>2 DEF Circulate
<1> HIDE DEF n
<1>4. /\ Cardinality(dev_held) \in Nat /\ Cardinality(InHand) \in Nat
      /\ Out + Cardinality(dev_held) + n + Cardinality(InHand) = V
  BY <1>2, <1>3, OwnersCount
<1>5. Out <= V /\ n <= V
  BY <1>2, <1>3, <1>4
<1>6. QED
  BY <1>2, <1>5 DEF n

LEMMA PublishKeepsIInv ==
    ASSUME IInv, PollPublish, TypeOK'
    PROVE  IInv'
<1>1. TypeOK /\ Circulate /\ Counted
  BY DEF IInv
<1>2. /\ pc = "publish" /\ pc' = "advance" /\ avail_idx' = Next16(avail_idx)
      /\ avail_ring' = avail_ring /\ used_ring' = used_ring
      /\ used_idx' = used_idx /\ in_last_used_idx' = in_last_used_idx
      /\ dev_idx' = dev_idx /\ dev_held' = dev_held /\ desc_idx' = desc_idx /\ typed' = typed
  BY DEF PollPublish, deviceVars
<1>3. /\ Working' = Working /\ Filled' = Filled /\ InHand = {desc_idx} /\ InHand' = {}
      /\ Working = 1
  BY <1>2 DEF Working, Filled, InHand
<1>4. /\ V \in Nat \ {0} /\ avail_ring \in Ring(V) /\ dev_idx \in Nat /\ Out \in Nat
      /\ in_last_used_idx + Working \in Nat /\ Filled - Working \in Nat /\ desc_idx \in Buffers(V)
  BY <1>1, <1>3, SizeFacts, TypeFacts DEF Circulate
<1>5. /\ Owners(V, avail_ring, dev_idx, Out, dev_held, used_ring, in_last_used_idx + Working,
                Filled - Working, {desc_idx})
      /\ At(V, avail_ring, dev_idx, Out) = desc_idx
  BY <1>1, <1>2, <1>3 DEF Circulate
<1>6. /\ Owners(V, avail_ring, dev_idx, Out + 1, dev_held, used_ring, in_last_used_idx + Working,
                Filled - Working, {})
      /\ Out < V
  BY <1>4, <1>5, DriverPublishes
<1>7. Out' = Out + 1
  <2>1. Out + 1 < INDEX
    BY <1>4, <1>6, SizeFacts
  <2>2. QED
    BY <1>1, <1>2, <2>1, TypeFacts, AheadSteps DEF Out
<1>8. Circulate'
  BY <1>1, <1>2, <1>3, <1>6, <1>7 DEF Circulate
<1>9. Counted'
  BY <1>1, <1>2, <1>3 DEF Counted
<1>10. QED
  BY <1>8, <1>9 DEF IInv

LEMMA AdvanceKeepsIInv ==
    ASSUME IInv, PollAdvance, TypeOK'
    PROVE  IInv'
<1>1. TypeOK /\ Circulate /\ Counted
  BY DEF IInv
<1>2. /\ pc = "advance" /\ pc' = "idle" /\ in_last_used_idx' = Next16(in_last_used_idx)
      /\ avail_ring' = avail_ring /\ used_ring' = used_ring
      /\ used_idx' = used_idx /\ avail_idx' = avail_idx
      /\ dev_idx' = dev_idx /\ dev_held' = dev_held /\ desc_idx' = desc_idx /\ typed' = typed
  BY DEF PollAdvance, deviceVars
<1>3. /\ Working = 1 /\ Working' = 0 /\ Out' = Out /\ InHand = {} /\ InHand' = {}
  BY <1>2 DEF Working, Out, InHand
<1>4. Filled \in Nat /\ Filled >= 1 /\ in_last_used_idx \in Nat
  BY <1>1, <1>3, TypeFacts DEF Circulate
<1>5. Filled' = Filled - 1
  <2>1. used_idx # in_last_used_idx
    BY <1>1, <1>4, TypeFacts, AheadSteps DEF Filled
  <2>2. QED
    BY <1>1, <1>2, <2>1, TypeFacts, AheadSteps DEF Filled
<1>6. Owners(V, avail_ring, dev_idx, Out, dev_held, used_ring, in_last_used_idx + 1,
             Filled - 1, {})
  BY <1>1, <1>3 DEF Circulate
<1>7. Owners(V, avail_ring, dev_idx, Out, dev_held, used_ring, in_last_used_idx',
             Filled - 1, {})
  <2>1. in_last_used_idx' = SlotOf(INDEX, in_last_used_idx + 1)
    BY <1>1, <1>2, TypeFacts, Next16Value
  <2> DEFINE j == in_last_used_idx + 1
             n == Filled - 1
  <2>2. j \in Nat /\ n \in Nat /\ Out \in Nat /\ dev_idx \in Nat
    BY <1>1, <1>4, TypeFacts
  <2>3. Owners(V, avail_ring, dev_idx, Out, dev_held, used_ring, j, n, {})
    BY <1>6
  <2> HIDE DEF j, n
  <2>4. Owners(V, avail_ring, dev_idx, Out, dev_held, used_ring, SlotOf(INDEX, j), n, {})
    BY <2>2, <2>3, SizeFacts, OwnersWrap
  <2>5. QED
    BY <2>1, <2>4 DEF j, n
<1>8. in_last_used_idx' + 0 = in_last_used_idx' /\ (Filled - 1) - 0 = Filled - 1
  <2>1. in_last_used_idx' \in Nat
    BY <1>1, <1>2, TypeFacts, Next16Value, SizeFacts
  <2>2. \A x \in Nat : x + 0 = x
    OBVIOUS
  <2>3. in_last_used_idx' + 0 = in_last_used_idx'
    BY <2>1, <2>2, Zenon
  <2>4. (Filled - 1) - 0 = Filled - 1
    BY <1>4
  <2>5. QED
    BY <2>3, <2>4, Zenon
<1>9. Circulate'
  <2>1. Working' <= Filled'
    BY <1>3, <1>4, <1>5
  <2>2. QED
    BY <1>2, <1>3, <1>5, <1>7, <1>8, <2>1 DEF Circulate
<1>10. Counted'
  BY <1>1, <1>2, <1>4, <1>5 DEF Counted
<1>11. QED
  BY <1>9, <1>10 DEF IInv

LEMMA TakesKeepsIInv ==
    ASSUME IInv, DeviceTakes, TypeOK'
    PROVE  IInv'
<1>1. TypeOK /\ Circulate /\ Counted
  BY DEF IInv
<1>2. /\ dev_idx # avail_idx /\ dev_idx' = Next16(dev_idx)
      /\ dev_held' = dev_held \cup {avail_ring[dev_idx % VIRTQ_SIZE]}
      /\ avail_ring' = avail_ring /\ avail_idx' = avail_idx /\ used_ring' = used_ring
      /\ used_idx' = used_idx /\ in_last_used_idx' = in_last_used_idx
      /\ pc' = pc /\ desc_idx' = desc_idx /\ typed' = typed
  BY DEF DeviceTakes, driverVars, Next16
<1>3. Working' = Working /\ Filled' = Filled /\ InHand' = InHand
  BY <1>2 DEF Working, Filled, InHand
<1>4. Out \in Nat /\ Out > 0 /\ Out' = Out - 1
  BY <1>1, <1>2, TypeFacts, AheadSteps DEF Out
<1>5. /\ V \in Nat \ {0} /\ dev_idx \in Nat
      /\ in_last_used_idx + Working \in Nat /\ Filled - Working \in Nat
  BY <1>1, <1>3, SizeFacts, TypeFacts DEF Circulate
<1>6. Owners(V, avail_ring, dev_idx, Out, dev_held, used_ring, in_last_used_idx + Working,
             Filled - Working, InHand)
  BY <1>1 DEF Circulate
<1>7. dev_held' = dev_held \cup {At(V, avail_ring, dev_idx, 0)}
  <2>1. dev_idx + 0 = dev_idx
    BY <1>5
  <2>2. QED
    BY <1>2, <2>1, SizeFacts DEF At, SlotOf
<1> DEFINE j == in_last_used_idx + Working
           n == Filled - Working
<1>8. Owners(V, avail_ring, dev_idx + 1, Out - 1, dev_held', used_ring, j, n, InHand)
  <2>1. j \in Nat /\ n \in Nat
    BY <1>5
  <2>2. Owners(V, avail_ring, dev_idx, Out, dev_held, used_ring, j, n, InHand)
    BY <1>6
  <2> HIDE DEF j, n
  <2>3. Owners(V, avail_ring, dev_idx + 1, Out - 1, dev_held \cup {At(V, avail_ring, dev_idx, 0)},
               used_ring, j, n, InHand)
    BY <1>4, <1>5, <2>1, <2>2, DeviceTakesFirst
  <2>4. QED
    BY <1>7, <2>3
<1>9. Owners(V, avail_ring, dev_idx', Out - 1, dev_held', used_ring, j, n, InHand)
  <2>1. dev_idx' = SlotOf(INDEX, dev_idx + 1)
    BY <1>1, <1>2, TypeFacts, Next16Value
  <2> DEFINE i == dev_idx + 1
             a == Out - 1
  <2>2. i \in Nat /\ a \in Nat /\ j \in Nat /\ n \in Nat
    BY <1>4, <1>5
  <2>3. Owners(V, avail_ring, i, a, dev_held', used_ring, j, n, InHand)
    BY <1>8
  <2> HIDE DEF i, a, j, n
  <2>4. Owners(V, avail_ring, SlotOf(INDEX, i), a, dev_held', used_ring, j, n, InHand)
    BY <2>2, <2>3, SizeFacts, OwnersWrap
  <2>5. QED
    BY <2>1, <2>4 DEF i, a
<1>10. pc = "publish" => At(V, avail_ring, dev_idx', Out - 1) = desc_idx
  <2>1. SlotOf(V, dev_idx' + Out') = SlotOf(V, avail_idx)
    BY <1>1, <1>2, TypeFacts, Next16Value, AheadValue DEF Out
  <2>2. SlotOf(V, dev_idx + Out) = SlotOf(V, avail_idx)
    BY <1>1, TypeFacts, AheadValue DEF Out
  <2>3. QED
    BY <1>1, <1>4, <2>1, <2>2 DEF Circulate, At
<1>11. Circulate'
  BY <1>1, <1>2, <1>3, <1>4, <1>9, <1>10 DEF Circulate
<1>12. Counted'
  BY <1>1, <1>2, <1>3 DEF Counted
<1>13. QED
  BY <1>11, <1>12 DEF IInv

LEMMA FillsKeepsIInv ==
    ASSUME IInv, NEW d \in Slot, NEW evt \in Event, DeviceFills(d, evt), TypeOK'
    PROVE  IInv'
<1>1. TypeOK /\ Circulate /\ Counted
  BY DEF IInv
<1>2. /\ d \in dev_held /\ dev_held' = dev_held \ {d} /\ used_idx' = Next16(used_idx)
      /\ used_ring' = [used_ring EXCEPT ![used_idx % VIRTQ_SIZE] = d]
      /\ avail_ring' = avail_ring /\ avail_idx' = avail_idx /\ dev_idx' = dev_idx
      /\ in_last_used_idx' = in_last_used_idx
      /\ pc' = pc /\ desc_idx' = desc_idx /\ typed' = Append(typed, Meaning(evt))
  BY DEF DeviceFills, driverVars, Next16
<1>3. Working' = Working /\ Out' = Out /\ InHand' = InHand
  BY <1>2 DEF Working, Out, InHand
<1> DEFINE j == in_last_used_idx + Working
           n == Filled - Working
<1>4. /\ V \in Nat \ {0} /\ dev_idx \in Nat /\ Out \in Nat /\ used_ring \in Ring(V)
      /\ j \in Nat /\ n \in Nat /\ d \in Buffers(V) /\ Filled \in Nat /\ Working \in {0, 1}
      /\ in_last_used_idx \in Nat
  BY <1>1, SizeFacts, TypeFacts DEF Circulate
<1>5. used_ring' = Put(V, used_ring, j + n, d)
  <2>1. SlotOf(V, in_last_used_idx + Filled) = SlotOf(V, used_idx)
    BY <1>1, TypeFacts, AheadValue DEF Filled
  <2>2. j + n = in_last_used_idx + Filled
    BY <1>4
  <2>3. QED
    BY <1>2, <2>1, <2>2, SizeFacts DEF Put, SlotOf
<1>6. Owners(V, avail_ring, dev_idx, Out, dev_held, used_ring, j, n, InHand)
  BY <1>1 DEF Circulate
<1> HIDE DEF j, n
<1>7. /\ Owners(V, avail_ring, dev_idx, Out, dev_held \ {d}, used_ring', j, n + 1, InHand)
      /\ n < V
  <2>1. /\ Owners(V, avail_ring, dev_idx, Out, dev_held \ {d}, Put(V, used_ring, j + n, d),
                  j, n + 1, InHand)
        /\ n < V
    BY <1>2, <1>4, <1>6, DeviceReturns
  <2>2. QED
    BY <1>5, <2>1
<1>8. Filled' = Filled + 1
  <2>1. Filled + 1 < INDEX
    BY <1>4, <1>7, SizeFacts DEF n
  <2>2. QED
    BY <1>1, <1>2, <2>1, TypeFacts, AheadSteps DEF Filled
<1>9. n + 1 = Filled' - Working' /\ j = in_last_used_idx' + Working' /\ Working' <= Filled'
  BY <1>1, <1>2, <1>3, <1>4, <1>8 DEF n, j, Circulate
<1>10. Circulate'
  BY <1>1, <1>2, <1>3, <1>7, <1>9 DEF Circulate
<1>11. Counted'
  <2>1. Len(typed') = Len(typed) + 1
    BY <1>1, <1>2 DEF TypeOK
  <2>2. QED
    BY <1>1, <1>2, <1>4, <1>8, <2>1 DEF Counted
<1>12. QED
  BY <1>10, <1>11 DEF IInv

LEMMA StepInvariant == IInv /\ [Next]_vars => IInv'
<1> SUFFICES ASSUME IInv, [Next]_vars
             PROVE  IInv'
  OBVIOUS
<1>1. CASE PollNothing
  <2>1. TypeOK'
    BY <1>1, PollKeepsTypes DEF Poll
  <2>2. QED
    BY <1>1, <2>1, SameBuffers DEF PollNothing, deviceVars, IInv
<1>2. CASE PollUsed
  BY <1>2, PollKeepsTypes, UsedKeepsIInv DEF Poll
<1>3. CASE PollParse
  BY <1>3, PollKeepsTypes, ParseKeepsIInv DEF Poll
<1>4. CASE PollGiveBack
  BY <1>4, PollKeepsTypes, GiveBackKeepsIInv DEF Poll
<1>5. CASE PollPublish
  BY <1>5, PollKeepsTypes, PublishKeepsIInv DEF Poll
<1>6. CASE PollAdvance
  BY <1>6, PollKeepsTypes, AdvanceKeepsIInv DEF Poll
<1>7. CASE DeviceTakes
  BY <1>7, DeviceKeepsTypes, TakesKeepsIInv
<1>8. CASE \E d \in Slot, evt \in Event : DeviceFills(d, evt)
  BY <1>8, DeviceKeepsTypes, FillsKeepsIInv
<1>9. CASE UNCHANGED vars
  <2>1. TypeOK'
    BY <1>9 DEF vars, driverVars, deviceVars, IInv, TypeOK
  <2>2. QED
    BY <1>9, <2>1, SameBuffers DEF vars, driverVars, deviceVars, IInv
<1>10. CASE ShellLeaves
  <2>1. TypeOK'
    BY <1>10 DEF ShellLeaves, deviceVars, IInv, TypeOK
  <2>2. QED
    BY <1>10, <2>1, SameBuffers DEF ShellLeaves, deviceVars, IInv
<1>11. QED
  BY <1>1, <1>2, <1>3, <1>4, <1>5, <1>6, <1>7, <1>8, <1>9, <1>10 DEF Next, Poll

LEMMA Invariance == Spec => []IInv
  BY InitInvariant, StepInvariant, PTL DEF Spec

(***************************************************************************)
(* The results.                                                            *)
(***************************************************************************)
\* The types of the keyboard's rings and of virtio_input_poll.
THEOREM KeyboardTypeCorrect == Spec => []TypeOK
  BY Invariance, PTL DEF IInv

LEMMA NamedIsWindow ==
    ASSUME NEW ring, NEW i \in Nat, NEW n \in Nat
    PROVE  Len(Named(ring, i, n)) = n /\ InSeq(Named(ring, i, n)) = Window(V, ring, i, n)
<1>1. Len(Named(ring, i, n)) = n
  BY DEF Named
<1>2. \A k \in 1 .. n : i + k - 1 = i + (k - 1) /\ k - 1 \in 0 .. n - 1
  OBVIOUS
<1>3. \A k \in 0 .. n - 1 : k + 1 \in 1 .. n /\ (k + 1) - 1 = k
  OBVIOUS
<1>4. \A k \in 1 .. n : Named(ring, i, n)[k] = At(V, ring, i, k - 1)
  BY <1>2, SizeFacts DEF Named, At, SlotOf
<1>5. ASSUME NEW b
      PROVE  b \in InSeq(Named(ring, i, n)) <=> b \in Window(V, ring, i, n)
  <2>1. b \in InSeq(Named(ring, i, n)) <=> \E k \in 1 .. n : b = At(V, ring, i, k - 1)
    BY <1>1, <1>4 DEF InSeq
  <2>2. b \in Window(V, ring, i, n) <=> \E k \in 0 .. n - 1 : b = At(V, ring, i, k)
    BY DEF Window
  <2>3. QED
    BY <1>2, <1>3, <2>1, <2>2
<1>6. QED
  BY <1>1, <1>5

LEMMA OneOwner == IInv => BuffersHaveOneOwner
<1> SUFFICES ASSUME IInv
             PROVE  BuffersHaveOneOwner
  OBVIOUS
<1>1. TypeOK /\ Circulate
  BY DEF IInv
<1>2. Out \in Nat /\ dev_idx \in Nat /\ in_last_used_idx \in Nat /\ Filled \in Nat
      /\ Filled - Working \in Nat
  BY <1>1, TypeFacts DEF Circulate
<1>3. Len(Available) = Out /\ InSeq(Available) = Window(V, avail_ring, dev_idx, Out)
  BY <1>2, NamedIsWindow DEF Available, Out
<1>4. /\ Len(Unpolled) = Filled - Working
      /\ InSeq(Unpolled) = Window(V, used_ring, in_last_used_idx + Working, Filled - Working)
  <2>1. Unpolled = Named(used_ring, in_last_used_idx + Working, Filled - Working)
    <3>1. CASE pc = "idle"
      <4>1. in_last_used_idx + 0 = in_last_used_idx /\ Filled - 0 = Filled
        BY <1>2
      <4>2. QED
        BY <3>1, <4>1 DEF Unpolled, Working, Filled
    <3>2. CASE pc # "idle"
      BY <3>2 DEF Unpolled, Working, Filled
    <3>3. QED
      BY <3>1, <3>2
  <2>2. in_last_used_idx + Working \in Nat
    BY <1>1, <1>2, TypeFacts
  <2>3. QED
    BY <1>2, <2>1, <2>2, NamedIsWindow
<1>5. Owners(V, avail_ring, dev_idx, Out, dev_held, used_ring, in_last_used_idx + Working,
             Filled - Working, InHand)
  BY <1>1 DEF Circulate
<1>6. Buffers(V) = Slot /\ V = VIRTQ_SIZE
  BY SizeFacts
<1>7. QED
  BY <1>3, <1>4, <1>5, <1>6, Zenon DEF Owners, BuffersHaveOneOwner

\* Whatever the keyboard and the poll do in whatever order, each buffer is available,
\* with the device, used, or being parsed, and never two of these: for every size of
\* the rings and wherever the 16-bit indices wrap.
THEOREM KeyboardBuffersHaveOneOwner == Spec => []BuffersHaveOneOwner
  BY Invariance, OneOwner, PTL

(***************************************************************************)
(* Characters.  The k-th of the events that wait is in the buffer          *)
(* Waiting(k), and f[k] tells whether shift was held when it had been      *)
(* typed: the driver's shift_active goes through these values, up to the   *)
(* one at the keyboard.  A shift key that repeats would break this: the    *)
(* driver takes any value but 1 for its release.                           *)
(***************************************************************************)
NoShiftRepeats == \A evt \in Event : evt.code = "shift" => evt.value \in {0, 1}

Waiting(k) ==
    IF pc = "parse"
    THEN IF k = 1 THEN desc_idx ELSE At(V, used_ring, in_last_used_idx + 1, k - 2)
    ELSE At(V, used_ring, in_last_used_idx + Working, k - 1)

Link(evt, before, after, char) ==
    /\ evt.code = "shift" => (after = 1 <=> evt.value = 1)
    /\ evt.code # "shift" => after = before
    /\ char = IF evt.code = "letter" /\ evt.value # 0
              THEN IF before = 1 THEN "upper" ELSE "lower"
              ELSE NUL

Chain(f) ==
    /\ shift_active <=> f[0] = 1
    /\ key_shift <=> f[Len(typed)] = 1
    /\ \A k \in 1 .. Len(typed) : Link(in_events[Waiting(k)], f[k - 1], f[k], typed[k])

Characters ==
    /\ ascii = wanted
    /\ \E f \in [0 .. Len(typed) -> {0, 1}] : Chain(f)

LEMMA SameChain ==
    ASSUME Characters, typed' = typed, in_events' = in_events,
           shift_active' = shift_active, key_shift' = key_shift, ascii' = wanted',
           \A k \in 1 .. Len(typed) : Waiting(k)' = Waiting(k)
    PROVE  Characters'
<1>1. PICK f \in [0 .. Len(typed) -> {0, 1}] : Chain(f)
  BY DEF Characters
<1>2. Chain(f)'
  BY <1>1 DEF Chain
<1>3. f \in [0 .. Len(typed') -> {0, 1}]
  OBVIOUS
<1>4. QED
  BY <1>2, <1>3 DEF Characters

LEMMA QuietStepKeepsCharacters ==
    ASSUME IInv, Characters,
           PollNothing \/ PollUsed \/ PollGiveBack \/ PollPublish \/ PollAdvance
             \/ ShellLeaves \/ DeviceTakes \/ UNCHANGED vars
    PROVE  Characters'
<1>1. TypeOK /\ Counted
  BY DEF IInv
<1>2. /\ typed' = typed /\ in_events' = in_events /\ shift_active' = shift_active
      /\ key_shift' = key_shift /\ used_ring' = used_ring /\ ascii' = wanted'
  BY DEF PollNothing, PollUsed, PollGiveBack, PollPublish, PollAdvance, ShellLeaves, DeviceTakes,
         vars, driverVars, deviceVars, Characters
<1>3. in_last_used_idx \in Nat /\ V \in Nat \ {0} /\ INDEX \in Nat \ {0} /\ SlotOf(V, INDEX) = 0
  BY <1>1, TypeFacts, SizeFacts
<1>4. \A k \in 1 .. Len(typed) : Waiting(k)' = Waiting(k)
  <2>1. CASE \/ PollNothing \/ PollGiveBack \/ PollPublish
             \/ ShellLeaves \/ DeviceTakes \/ UNCHANGED vars
    <3>1. /\ desc_idx' = desc_idx /\ in_last_used_idx' = in_last_used_idx
          /\ (pc' = "parse" <=> pc = "parse") /\ Working' = Working
      BY <2>1 DEF PollNothing, PollGiveBack, PollPublish, ShellLeaves, DeviceTakes,
                  vars, driverVars, Working
    <3>2. QED
      BY <1>2, <3>1 DEF Waiting
  <2>2. CASE PollUsed
    <3>1. /\ pc = "idle" /\ pc' = "parse" /\ desc_idx' = used_ring[UsedSlot]
          /\ in_last_used_idx' = in_last_used_idx
      BY <2>2 DEF PollUsed
    <3>2. ASSUME NEW k \in 1 .. Len(typed)
          PROVE  Waiting(k)' = Waiting(k)
      <4>1. Waiting(k) = used_ring[SlotOf(V, in_last_used_idx + (k - 1))]
        <5>1. in_last_used_idx + Working = in_last_used_idx
          BY <1>3, <3>1 DEF Working
        <5>2. QED
          BY <3>1, <5>1 DEF Waiting, At
      <4>2. CASE k = 1
        <5>1. in_last_used_idx + (k - 1) = in_last_used_idx
          BY <1>3, <4>2
        <5>2. Waiting(k)' = used_ring[UsedSlot]
          BY <3>1, <4>2 DEF Waiting
        <5>3. UsedSlot = SlotOf(V, in_last_used_idx)
          BY SizeFacts DEF UsedSlot, SlotOf
        <5>4. QED
          BY <4>1, <5>1, <5>2, <5>3
      <4>3. CASE k # 1
        <5>1. (in_last_used_idx + 1) + (k - 2) = in_last_used_idx + (k - 1)
          BY <1>3
        <5>2. Waiting(k)' = used_ring[SlotOf(V, (in_last_used_idx + 1) + (k - 2))]
          BY <1>2, <3>1, <4>3 DEF Waiting, At
        <5>3. QED
          BY <4>1, <5>1, <5>2
      <4>4. QED
        BY <4>2, <4>3
    <3>3. QED
      BY <3>2
  <2>3. CASE PollAdvance
    <3>1. /\ pc = "advance" /\ pc' = "idle" /\ in_last_used_idx' = Next16(in_last_used_idx)
      BY <2>3 DEF PollAdvance
    <3>2. in_last_used_idx' = SlotOf(INDEX, in_last_used_idx + 1) /\ in_last_used_idx' \in Nat
      BY <1>1, <3>1, TypeFacts, Next16Value, SizeFacts
    <3>3. Working = 1 /\ Working' = 0
      BY <3>1 DEF Working
    <3>4. in_last_used_idx' + Working' = in_last_used_idx'
      BY <3>2, <3>3
    <3>5. ASSUME NEW k \in 1 .. Len(typed)
          PROVE  Waiting(k)' = Waiting(k)
      <4>1. k - 1 \in Nat /\ in_last_used_idx + 1 \in Nat
        BY <1>3
      <4>2. \A x \in Nat : \A y \in Nat :
                SlotOf(V, SlotOf(INDEX, x) + y) = SlotOf(V, x + y)
        BY <1>3, ModOfSum DEF SlotOf
      <4>3. SlotOf(V, in_last_used_idx' + (k - 1)) = SlotOf(V, (in_last_used_idx + 1) + (k - 1))
        BY <3>2, <4>1, <4>2
      <4>4. QED
        BY <1>2, <3>1, <3>3, <3>4, <4>3 DEF Waiting, At
    <3>6. QED
      BY <3>5
  <2>4. QED
    BY <2>1, <2>2, <2>3
<1>5. QED
  BY <1>2, <1>4, SameChain

\* A chain for the next state, given by what it says of each event that waits then.
LEMMA ChainAfter ==
    ASSUME NEW h, h \in [0 .. Len(typed') -> {0, 1}],
           shift_active' <=> h[0] = 1, key_shift' <=> h[Len(typed')] = 1,
           \A k \in 1 .. Len(typed') :
                Link(in_events'[Waiting(k)'], h[k - 1], h[k], typed'[k]),
           ascii' = wanted'
    PROVE  Characters'
<1>1. \E f \in [0 .. Len(typed') -> {0, 1}] : Chain(f)'
  <2>1. Chain(h)'
    BY DEF Chain
  <2>2. QED
    BY <2>1
<1>2. QED
  BY <1>1 DEF Characters

LEMMA ParseKeepsCharacters ==
    ASSUME IInv, Characters, PollParse
    PROVE  Characters'
<1>1. TypeOK /\ Circulate /\ Counted
  BY DEF IInv
<1>2. /\ pc = "parse" /\ pc' = "give_back" /\ typed' = Tail(typed) /\ wanted' = Head(typed)
      /\ ascii' = Decoded(in_events[desc_idx])
      /\ shift_active' = ShiftAfter(in_events[desc_idx])
      /\ used_ring' = used_ring /\ in_last_used_idx' = in_last_used_idx
      /\ in_events' = in_events /\ key_shift' = key_shift
  BY DEF PollParse, deviceVars
<1>3. PICK f \in [0 .. Len(typed) -> {0, 1}] : Chain(f)
  BY DEF Characters
<1>4. Len(typed) \in Nat /\ Len(typed) >= 1
  <2>1. Working = 1 /\ Working <= Filled /\ Len(typed) = Filled - 0 /\ Filled \in Nat
    BY <1>1, <1>2, TypeFacts DEF Circulate, Counted, Working
  <2>2. QED
    BY <2>1
<1>5. /\ Len(Tail(typed)) = Len(typed) - 1 /\ Head(typed) = typed[1]
      /\ \A k \in 1 .. Len(typed) - 1 : Tail(typed)[k] = typed[k + 1]
  <2>1. typed \in Seq(Ascii) /\ typed # << >>
    BY <1>1, <1>4 DEF TypeOK
  <2>2. QED
    BY <2>1
<1> DEFINE e == in_events[desc_idx]
           g == [k \in 0 .. Len(typed) - 1 |-> f[k + 1]]
<1>6. Link(e, f[0], f[1], typed[1])
  <2>1. 1 \in 1 .. Len(typed) /\ 1 - 1 = 0
    BY <1>4
  <2>2. Waiting(1) = desc_idx
    BY <1>2 DEF Waiting
  <2>3. Link(in_events[Waiting(1)], f[1 - 1], f[1], typed[1])
    BY <1>3, <2>1 DEF Chain
  <2>4. QED
    BY <2>1, <2>2, <2>3
<1>7. e \in [code : Code, value : 0 .. 2] /\ (shift_active <=> f[0] = 1)
  BY <1>1, <1>3 DEF TypeOK, Chain
<1>8. ascii' = wanted'
  <2>1. ascii' = Decoded(e) /\ wanted' = typed[1] /\ e.value \in {0, 1, 2}
    BY <1>2, <1>5, <1>7
  <2> HIDE DEF e
  <2>2. QED
    BY <1>6, <1>7, <2>1 DEF Decoded, Link
<1>9. shift_active' <=> f[1] = 1
  <2>1. shift_active' = ShiftAfter(e)
    BY <1>2
  <2> HIDE DEF e
  <2>2. CASE e.code = "shift"
    <3>1. shift_active' = (e.value = 1)
      BY <2>1, <2>2 DEF ShiftAfter
    <3>2. QED
      BY <1>6, <2>2, <3>1 DEF Link
  <2>3. CASE e.code # "shift"
    <3>1. shift_active' = shift_active
      BY <2>1, <2>3 DEF ShiftAfter
    <3>2. QED
      BY <1>6, <1>7, <2>3, <3>1 DEF Link
  <2>4. QED
    BY <2>2, <2>3
<1>10. g \in [0 .. Len(typed') -> {0, 1}]
  <2>1. Len(typed') = Len(typed) - 1
    BY <1>2, <1>5
  <2>2. \A k \in 0 .. Len(typed) - 1 : k + 1 \in 0 .. Len(typed)
    BY <1>4
  <2>3. QED
    BY <2>1, <2>2
<1>11. ASSUME NEW k \in 1 .. Len(typed')
       PROVE  Link(in_events'[Waiting(k)'], g[k - 1], g[k], typed'[k])
  <2>1. /\ k \in 1 .. Len(typed) - 1 /\ k + 1 \in 1 .. Len(typed) /\ k + 1 # 1
        /\ (k + 1) - 1 = k /\ (k + 1) - 2 = k - 1 /\ k - 1 \in 0 .. Len(typed) - 1
        /\ k \in 0 .. Len(typed) - 1 /\ (k - 1) + 1 = k
    BY <1>2, <1>4, <1>5
  <2>2. Link(in_events[Waiting(k + 1)], f[k], f[k + 1], typed[k + 1])
    BY <1>3, <2>1 DEF Chain
  <2>3. Waiting(k)' = Waiting(k + 1)
    <3>1. Working' = 1
      BY <1>2 DEF Working
    <3>2. Waiting(k + 1) = At(V, used_ring, in_last_used_idx + 1, (k + 1) - 2)
      BY <1>2, <2>1 DEF Waiting
    <3>3. Waiting(k)' = At(V, used_ring, in_last_used_idx + 1, k - 1)
      BY <1>2, <3>1 DEF Waiting, At
    <3>4. QED
      BY <2>1, <3>2, <3>3
  <2>4. g[k - 1] = f[k] /\ g[k] = f[k + 1] /\ typed'[k] = typed[k + 1]
    BY <1>2, <1>5, <2>1
  <2> HIDE DEF g
  <2>5. QED
    BY <1>2, <2>2, <2>3, <2>4
<1>12. g[0] = f[1] /\ g[Len(typed')] = f[Len(typed)]
  <2>1. 0 \in 0 .. Len(typed) - 1 /\ 0 + 1 = 1 /\ Len(typed) - 1 \in 0 .. Len(typed) - 1
        /\ (Len(typed) - 1) + 1 = Len(typed)
    BY <1>4
  <2>2. QED
    BY <1>2, <1>5, <2>1
<1> HIDE DEF g
<1>13. shift_active' <=> g[0] = 1
  BY <1>9, <1>12
<1>14. key_shift' <=> g[Len(typed')] = 1
  BY <1>2, <1>3, <1>12 DEF Chain
<1>15. QED
  BY <1>8, <1>10, <1>11, <1>13, <1>14, ChainAfter

LEMMA FillsKeepsCharacters ==
    ASSUME NoShiftRepeats, IInv, Characters,
           NEW d \in Slot, NEW evt \in Event, DeviceFills(d, evt)
    PROVE  Characters'
<1>1. TypeOK /\ Circulate /\ Counted
  BY DEF IInv
<1>2. /\ d \in dev_held /\ dev_held' = dev_held \ {d}
      /\ used_ring' = [used_ring EXCEPT ![used_idx % VIRTQ_SIZE] = d]
      /\ in_events' = [in_events EXCEPT ![d] = evt]
      /\ key_shift' = IF evt.code = "shift" THEN evt.value # 0 ELSE key_shift
      /\ in_last_used_idx' = in_last_used_idx /\ shift_active' = shift_active
      /\ pc' = pc /\ desc_idx' = desc_idx /\ typed' = Append(typed, Meaning(evt))
      /\ ascii' = ascii /\ wanted' = wanted
  BY DEF DeviceFills, driverVars
<1>3. PICK f \in [0 .. Len(typed) -> {0, 1}] : Chain(f)
  BY DEF Characters
<1> DEFINE j == in_last_used_idx + Working
           n == Filled - Working
           m == Len(typed)
<1>4. /\ V \in Nat \ {0} /\ dev_idx \in Nat /\ Out \in Nat /\ used_ring \in Ring(V)
      /\ j \in Nat /\ n \in Nat /\ d \in Buffers(V) /\ Filled \in Nat /\ Working \in {0, 1}
      /\ in_last_used_idx \in Nat /\ m \in Nat
  BY <1>1, SizeFacts, TypeFacts DEF Circulate
<1>5. used_ring' = Put(V, used_ring, j + n, d)
  <2>1. SlotOf(V, in_last_used_idx + Filled) = SlotOf(V, used_idx)
    BY <1>1, TypeFacts, AheadValue DEF Filled
  <2>2. j + n = in_last_used_idx + Filled
    BY <1>4
  <2>3. QED
    BY <1>2, <2>1, <2>2, SizeFacts DEF Put, SlotOf
<1>6. Owners(V, avail_ring, dev_idx, Out, dev_held, used_ring, j, n, InHand)
  BY <1>1 DEF Circulate
<1>7. m = IF pc = "parse" THEN n + 1 ELSE n
  <2>1. m = Filled - IF pc \in {"idle", "parse"} THEN 0 ELSE 1
    BY <1>1 DEF Counted
  <2>2. CASE pc = "parse"
    BY <1>4, <2>1, <2>2 DEF Working
  <2>3. CASE pc = "idle"
    BY <1>4, <2>1, <2>3 DEF Working
  <2>4. CASE pc \notin {"idle", "parse"}
    BY <1>4, <2>1, <2>4 DEF Working
  <2>5. QED
    BY <2>2, <2>3, <2>4
<1>8. pc = "parse" => j = in_last_used_idx + 1
  BY DEF Working
<1> HIDE DEF j, n
<1>9. /\ At(V, used_ring', j, n) = d
      /\ \A k \in 0 .. n - 1 : At(V, used_ring', j, k) = At(V, used_ring, j, k)
  <2>1. d \in dev_held
    BY <1>2
  <2>2. /\ V \in Nat \ {0} /\ dev_idx \in Nat /\ Out \in Nat /\ used_ring \in Ring(V)
        /\ j \in Nat /\ d \in Buffers(V)
    BY <1>4
  <2>3. n \in Nat
    BY <1>4
  <2>4. n < V
    BY <2>1, <2>2, <2>3, <1>6, DeviceReturns
  <2>5. NoneTwice(V, used_ring, j, n)
        /\ Apart(Window(V, avail_ring, dev_idx, Out), dev_held, Window(V, used_ring, j, n), InHand)
    BY <1>6 DEF Owners
  <2>6. d \notin Window(V, used_ring, j, n)
    BY <2>1, <2>5 DEF Apart
  <2>7. QED
    BY <1>5, <2>2, <2>3, <2>4, <2>5, <2>6, WindowAdd
<1>10. /\ \A k \in 0 .. n - 1 : At(V, used_ring, j, k) # d
       /\ pc = "parse" => desc_idx # d
  <2>1. Apart(Window(V, avail_ring, dev_idx, Out), dev_held, Window(V, used_ring, j, n), InHand)
    BY <1>6 DEF Owners
  <2>2. d \notin Window(V, used_ring, j, n) /\ d \notin InHand
    BY <1>2, <2>1 DEF Apart
  <2>3. QED
    BY <2>2 DEF Window, InHand
\* Where the waiting events are, before and after.
<1>11. /\ \A k \in 1 .. m : Waiting(k)' = Waiting(k) /\ Waiting(k) # d
       /\ \A k : k = m + 1 => Waiting(k)' = d
  <2>1. Working' = Working
    BY <1>2 DEF Working
  <2>2. CASE pc = "parse"
    <3>1. /\ \A k : Waiting(k) = IF k = 1 THEN desc_idx ELSE At(V, used_ring, j, k - 2)
          /\ \A k : Waiting(k)' = IF k = 1 THEN desc_idx ELSE At(V, used_ring', j, k - 2)
      BY <1>2, <1>8, <2>2 DEF Waiting
    <3>2. /\ \A k \in 1 .. m : k # 1 => k - 2 \in 0 .. n - 1
          /\ m + 1 # 1 /\ (m + 1) - 2 = n
      BY <1>4, <1>7, <2>2
    <3>3. ASSUME NEW k \in 1 .. m
          PROVE  Waiting(k)' = Waiting(k) /\ Waiting(k) # d
      BY <1>9, <1>10, <2>2, <3>1, <3>2
    <3>4. \A k : k = m + 1 => Waiting(k)' = d
      BY <1>9, <3>1, <3>2
    <3>5. QED
      BY <3>3, <3>4
  <2>3. CASE pc # "parse"
    <3>1. /\ \A k : Waiting(k) = At(V, used_ring, j, k - 1)
          /\ \A k : Waiting(k)' = At(V, used_ring', j, k - 1)
      BY <1>2, <2>1, <2>3 DEF Waiting, j
    <3>2. /\ \A k \in 1 .. m : k - 1 \in 0 .. n - 1
          /\ (m + 1) - 1 = n
      BY <1>4, <1>7, <2>3
    <3>3. ASSUME NEW k \in 1 .. m
          PROVE  Waiting(k)' = Waiting(k) /\ Waiting(k) # d
      <4>1. At(V, used_ring', j, k - 1) = At(V, used_ring, j, k - 1)
            /\ At(V, used_ring, j, k - 1) # d
        BY <1>9, <1>10, <3>2
      <4>2. QED
        BY <3>1, <4>1
    <3>4. \A k : k = m + 1 => Waiting(k)' = d
      BY <1>9, <3>1, <3>2
    <3>5. QED
      BY <3>3, <3>4
  <2>4. QED
    BY <2>2, <2>3
<1> DEFINE after == IF evt.code = "shift" THEN evt.value ELSE f[m]
           g == [k \in 0 .. m + 1 |-> IF k = m + 1 THEN after ELSE f[k]]
<1>12. /\ Len(typed') = m + 1 /\ typed'[m + 1] = Meaning(evt)
       /\ \A k \in 1 .. m : typed'[k] = typed[k]
  <2>1. typed \in Seq(Ascii) /\ Meaning(evt) \in Ascii
    BY <1>1 DEF TypeOK, Meaning, Ascii
  <2>2. QED
    BY <1>2, <2>1
<1>13. (key_shift <=> f[m] = 1) /\ f[m] \in {0, 1}
  BY <1>3, <1>4 DEF Chain
<1>14. evt \in [code : Code, value : 0 .. 2] /\ (evt.code = "shift" => evt.value \in {0, 1})
  BY EventAssumption DEF NoShiftRepeats
<1>15. after \in {0, 1}
  BY <1>13, <1>14
<1>16. key_shift' <=> after = 1
  <2>1. CASE evt.code = "shift"
    <3>1. key_shift' = (evt.value # 0)
      BY <1>2, <2>1
    <3>2. evt.value # 0 <=> evt.value = 1
      BY <1>14, <2>1
    <3>3. QED
      BY <2>1, <3>1, <3>2
  <2>2. CASE evt.code # "shift"
    BY <1>2, <1>13, <2>2
  <2>3. QED
    BY <2>1, <2>2
<1>17. Link(evt, f[m], after, Meaning(evt))
  <2>1. Meaning(evt) = IF evt.code = "letter" /\ evt.value # 0
                       THEN IF f[m] = 1 THEN "upper" ELSE "lower"
                       ELSE NUL
    BY <1>13 DEF Meaning
  <2>2. QED
    BY <2>1 DEF Link
<1> HIDE DEF after, m
<1>18. /\ g \in [0 .. m + 1 -> {0, 1}] /\ g[m + 1] = after
       /\ \A k \in 0 .. m : g[k] = f[k] /\ g[0] = f[0]
  <2>1. /\ m + 1 \in 0 .. m + 1 /\ 0 \in 0 .. m + 1 /\ 0 # m + 1
        /\ \A k \in 0 .. m : k \in 0 .. m + 1 /\ k # m + 1
        /\ \A k \in 0 .. m + 1 : k # m + 1 => k \in 0 .. m
    BY <1>4
  <2>2. f \in [0 .. m -> {0, 1}]
    BY DEF m
  <2>3. QED
    BY <1>15, <2>1, <2>2
<1> HIDE DEF g
<1>19. ASSUME NEW k \in 1 .. m + 1
       PROVE  Link(in_events'[Waiting(k)'], g[k - 1], g[k], typed'[k])
  <2>1. CASE k = m + 1
    <3>1. in_events'[d] = evt
      BY <1>1, <1>2 DEF TypeOK
    <3>2. k - 1 = m /\ m \in 0 .. m
      BY <1>4, <2>1
    <3>3. Waiting(k)' = d
      BY <1>11, <2>1
    <3>4. g[k - 1] = f[m] /\ g[k] = after /\ typed'[k] = Meaning(evt)
      BY <1>12, <1>18, <2>1, <3>2
    <3>5. QED
      BY <1>17, <3>1, <3>3, <3>4
  <2>2. CASE k # m + 1
    <3>1. k \in 1 .. m /\ k - 1 \in 0 .. m /\ k \in 0 .. m
      BY <1>4, <2>2
    <3>2. Link(in_events[Waiting(k)], f[k - 1], f[k], typed[k])
      BY <1>3, <3>1 DEF Chain, m
    <3>3. Waiting(k)' = Waiting(k) /\ in_events'[Waiting(k)] = in_events[Waiting(k)]
      <4>1. Waiting(k)' = Waiting(k) /\ Waiting(k) # d
        BY <1>11, <3>1
      <4>2. in_events' = [in_events EXCEPT ![d] = evt] /\ d \in DOMAIN in_events
        BY <1>1, <1>2 DEF TypeOK
      <4>3. Waiting(k) \in Slot
        <5>1. CASE pc = "parse" /\ k = 1
          BY <1>1, <5>1 DEF Waiting, TypeOK
        <5>2. CASE ~(pc = "parse" /\ k = 1)
          <6>1. \A x \in Nat : \A y \in Nat : At(V, used_ring, x, y) \in Slot
            <7>1. \A x \in Nat : SlotOf(V, x) \in Slot
              BY <1>4, ModRange, SizeFacts DEF SlotOf, Slot
            <7>2. QED
              BY <1>1, <7>1 DEF At, TypeOK
          <6>2. CASE pc = "parse"
            <7>1. k - 2 \in Nat /\ in_last_used_idx + 1 \in Nat
              BY <1>4, <3>1, <5>2, <6>2
            <7>2. QED
              BY <5>2, <6>1, <6>2, <7>1 DEF Waiting
          <6>3. CASE pc # "parse"
            <7>1. k - 1 \in Nat /\ in_last_used_idx + Working \in Nat
              BY <1>4, <3>1
            <7>2. QED
              BY <6>1, <6>3, <7>1 DEF Waiting
          <6>4. QED
            BY <6>2, <6>3
        <5>3. QED
          BY <5>1, <5>2
      <4>4. QED
        BY <1>1, <4>1, <4>2, <4>3 DEF TypeOK
    <3>4. QED
      BY <1>12, <1>18, <3>1, <3>2, <3>3
  <2>3. QED
    BY <2>1, <2>2
<1>20. shift_active' <=> g[0] = 1
  <2>1. (shift_active <=> f[0] = 1) /\ 0 \in 0 .. m
    BY <1>3, <1>4 DEF Chain
  <2>2. QED
    BY <1>2, <1>18, <2>1
<1>21. key_shift' <=> g[Len(typed')] = 1
  BY <1>12, <1>16, <1>18
<1>22. ascii' = wanted'
  BY <1>2 DEF Characters
<1>23. /\ g \in [0 .. Len(typed') -> {0, 1}]
       /\ \A k \in 1 .. Len(typed') :
                Link(in_events'[Waiting(k)'], g[k - 1], g[k], typed'[k])
  BY <1>12, <1>18, <1>19
<1>24. QED
  BY <1>20, <1>21, <1>22, <1>23, ChainAfter

LEMMA InitCharacters == Init => Characters
<1> SUFFICES ASSUME Init
             PROVE  Characters
  OBVIOUS
<1>1. Len(typed) = 0 /\ shift_active = FALSE /\ key_shift = FALSE /\ ascii = wanted
  BY DEF Init
<1> DEFINE f == [k \in 0 .. 0 |-> 0]
<1>2. f \in [0 .. Len(typed) -> {0, 1}] /\ f[0] = 0 /\ f[Len(typed)] = 0
  BY <1>1
<1> HIDE DEF f
<1>3. \A k \in 1 .. Len(typed) : FALSE
  BY <1>1
<1>4. Chain(f)
  BY <1>1, <1>2, <1>3 DEF Chain
<1>5. QED
  BY <1>1, <1>2, <1>4 DEF Characters

LEMMA StepCharacters ==
    ASSUME NoShiftRepeats
    PROVE  IInv /\ Characters /\ [Next]_vars => Characters'
<1> SUFFICES ASSUME IInv, Characters, [Next]_vars
             PROVE  Characters'
  OBVIOUS
<1>1. CASE PollNothing \/ PollUsed \/ PollGiveBack \/ PollPublish \/ PollAdvance
             \/ ShellLeaves \/ DeviceTakes \/ UNCHANGED vars
  BY <1>1, QuietStepKeepsCharacters
<1>2. CASE PollParse
  BY <1>2, ParseKeepsCharacters
<1>3. CASE \E d \in Slot, evt \in Event : DeviceFills(d, evt)
  BY <1>3, NoShiftRepeats, FillsKeepsCharacters
<1>4. QED
  BY <1>1, <1>2, <1>3 DEF Next, Poll

\* virtio_input_poll returns the events in the order in which they were typed, each in
\* the case that shift had then, for any number of events that wait.
THEOREM PollsReturnWhatWasTyped ==
    ASSUME NoShiftRepeats
    PROVE  Spec => []CharactersAsTyped
<1>1. IInv /\ Characters => CharactersAsTyped
  <2>1. SUFFICES ASSUME IInv, Characters
                 PROVE  CharactersAsTyped
    OBVIOUS
  <2>2. pc = "idle" => Len(typed) = Ahead(used_idx, in_last_used_idx)
    <3>1. pc = "idle" => Len(typed) = Filled - 0 /\ Filled \in Nat
      BY <2>1, TypeFacts DEF IInv, Counted
    <3>2. QED
      BY <3>1 DEF Filled
  <2>3. QED
    BY <2>1, <2>2 DEF Characters, CharactersAsTyped
<1>2. IInv /\ Characters /\ [Next]_vars => Characters'
  BY StepCharacters
<1>3. QED
  BY <1>1, <1>2, InitCharacters, Invariance, PTL DEF Spec

(***************************************************************************)
(* A keyboard without buffers.                                             *)
(***************************************************************************)
Dry == dev_held = {} /\ dev_idx = avail_idx

\* The steps of the poll until it publishes a buffer.
ToPublish ==
    CASE pc = "advance" -> 5 [] pc = "idle" -> 4 [] pc = "parse" -> 3
      [] pc = "give_back" -> 2 [] pc = "publish" -> 1

LEMMA DryIsFilled ==
    ASSUME IInv, Dry, pc = "idle"
    PROVE  used_idx # in_last_used_idx
<1>1. TypeOK /\ BuffersHaveOneOwner
  BY OneOwner DEF IInv
<1>2. avail_idx \in Index /\ dev_idx \in Index /\ used_idx \in Index
      /\ in_last_used_idx \in Index
  BY <1>1, TypeFacts
<1>3. \A i \in Index : Ahead(i, i) = 0
  BY AheadValue, SizeFacts
<1>4. Len(Available) = 0
  <2>1. Ahead(avail_idx, dev_idx) = 0
    BY <1>2, <1>3 DEF Dry
  <2>2. QED
    BY <2>1 DEF Available, Named
<1>5. Cardinality(dev_held) = 0 /\ Cardinality(InHand) = 0
  BY FS_EmptySet DEF Dry, InHand
<1>6. SUFFICES ASSUME used_idx = in_last_used_idx
               PROVE  FALSE
  OBVIOUS
<1>7. Len(Unpolled) = 0
  <2>1. Ahead(used_idx, in_last_used_idx) = 0
    BY <1>2, <1>3, <1>6
  <2>2. QED
    BY <2>1 DEF Unpolled, Named
<1>8. QED
  BY <1>1, <1>4, <1>5, <1>7, SizeFacts DEF BuffersHaveOneOwner

LEMMA DryStep ==
    ASSUME IInv, Next, Dry, Dry', polling'
    PROVE  ToPublish' < ToPublish
<1>1. ~DeviceTakes /\ ~ \E d \in Slot, evt \in Event : DeviceFills(d, evt)
  BY DEF Dry, DeviceTakes, DeviceFills
<1>2. ~PollNothing /\ ~ShellLeaves
  BY DryIsFilled DEF PollNothing, ShellLeaves
<1>3. ~PollPublish
  <2>1. SUFFICES ASSUME PollPublish
                 PROVE  FALSE
    OBVIOUS
  <2>2. avail_idx' = Next16(avail_idx) /\ dev_idx' = dev_idx /\ avail_idx \in Index
    BY <2>1 DEF PollPublish, deviceVars, IInv, TypeOK
  <2>3. Next16(avail_idx) # avail_idx
    BY <2>2, Next16Value, SizeFacts
  <2>4. QED
    BY <2>2, <2>3 DEF Dry
<1>4. PollUsed \/ PollParse \/ PollGiveBack \/ PollAdvance
  BY <1>1, <1>2, <1>3 DEF Next, Poll
<1>5. \/ pc = "idle" /\ pc' = "parse"
      \/ pc = "parse" /\ pc' = "give_back"
      \/ pc = "give_back" /\ pc' = "publish"
      \/ pc = "advance" /\ pc' = "idle"
  BY <1>4 DEF PollUsed, PollParse, PollGiveBack, PollAdvance
<1>6. QED
  BY <1>5 DEF ToPublish

LEMMA DryKeyboardHasTyped == Spec => [](Dry /\ pc = "idle" => used_idx # in_last_used_idx)
<1>1. IInv => (Dry /\ pc = "idle" => used_idx # in_last_used_idx)
  BY DryIsFilled
<1>2. QED
  BY <1>1, Invariance, PTL

\* While the shell is in its main loop, a keyboard that has no buffer gets one: nothing but
\* the poll can move then, the poll finds a used buffer, and each of its steps brings it
\* closer to handing that buffer out.  Only the end of the main loop ends this.
THEOREM DryKeyboardGetsOn == Spec => [][Dry => ~Dry' \/ ~polling' \/ ToPublish' < ToPublish]_vars
<1>1. IInv /\ [Next]_vars => [Dry => ~Dry' \/ ~polling' \/ ToPublish' < ToPublish]_vars
  <2>1. SUFFICES ASSUME IInv, Next, Dry, Dry', polling'
                 PROVE  ToPublish' < ToPublish
    OBVIOUS
  <2>2. QED
    BY <2>1, DryStep
<1>2. QED
  BY <1>1, Invariance, PTL DEF Spec
=============================================================================

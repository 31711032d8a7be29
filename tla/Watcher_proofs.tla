--------------------------- MODULE Watcher_proofs ---------------------------
(***************************************************************************)
(* For every size of the history ring: its types and shape, what the dump  *)
(* shows, the order of the ledger, what a sync that reports completion has *)
(* covered, and that a wedged watcher stays wedged until the next boot.    *)
(***************************************************************************)
EXTENDS Watcher, Integers, TLAPS

N == WATCHER_HISTORY_MAX

LEMMA SizeFacts ==
    /\ N \in Nat /\ N > 0 /\ N = WATCHER_HISTORY_MAX
    /\ \A s : s \in Slot <=> s \in Nat /\ s < N
  BY HistoryAssumption DEF N, Slot

\* The modulo wraps once at most, for every distance up to the size of the ring.
LEMMA AfterValue ==
    ASSUME NEW s \in Slot, NEW k \in 0 .. N
    PROVE  /\ After(s, k) = IF s + k < N THEN s + k ELSE s + k - N
           /\ After(s, k) \in Slot
<1> USE SizeFacts
<1>1. CASE s + k < N
  <2>1. (s + k) % N = s + k
    BY <1>1
  <2>2. QED
    BY <1>1, <2>1 DEF After, N
<1>2. CASE s + k >= N
  <2>1. (s + k) % N = s + k - N
    BY <1>2
  <2>2. QED
    BY <1>2, <2>1 DEF After, N
<1>3. QED
  BY <1>1, <1>2

LEMMA NextSlotValue ==
    ASSUME NEW s \in Slot
    PROVE  /\ NextSlot(s) = IF s + 1 < N THEN s + 1 ELSE 0
           /\ NextSlot(s) \in Slot
<1>1. NextSlot(s) = After(s, 1)
  BY DEF NextSlot, After
<1>2. 1 \in 0 .. N
  BY SizeFacts
<1>3. After(s, 1) = (IF s + 1 < N THEN s + 1 ELSE s + 1 - N) /\ After(s, 1) \in Slot
  BY <1>2, AfterValue
<1>4. s \in Nat /\ s < N /\ N \in Nat
  BY SizeFacts
<1>5. QED
  BY <1>1, <1>3, <1>4

(***************************************************************************)
(* Types.                                                                  *)
(***************************************************************************)
\* What one append copies: something, and no more than fits the sector.
LEMMA LengthFacts ==
    ASSUME NEW x \in 0 .. MaxEvents
    PROVE  Length(x) \in 1 .. SECTOR
  BY LedgerAssumption, BoundAssumption DEF Length, NewLine

LEMMA OffsetFacts ==
    ASSUME TypeOK
    PROVE  /\ SECTOR \in Nat /\ SECTOR > 0 /\ size \in Nat
           /\ Offset \in Nat /\ Offset < SECTOR
           /\ Fits => Offset = size
<1>1. SECTOR \in Nat /\ SECTOR > 0 /\ size \in Nat
  BY LedgerAssumption DEF TypeOK
<1>2. Offset \in Nat /\ Offset < SECTOR
  BY <1>1 DEF Offset
<1>3. Fits => Offset = size
  BY <1>1 DEF Offset, Fits
<1>4. QED
  BY <1>1, <1>2, <1>3

LEMMA CopiedFacts ==
    ASSUME TypeOK, NEW x \in 0 .. MaxEvents
    PROVE  /\ Copied(x) \in Nat /\ Copied(x) >= 1
           /\ size + Copied(x) \in Nat
           /\ Filled(x) \in [Place -> [text : Nat, at : Nat]]
<1>1. Length(x) \in Nat /\ Length(x) >= 1
  BY LengthFacts, LedgerAssumption
<1>2. Copied(x) \in Nat /\ Copied(x) >= 1
  BY <1>1, OffsetFacts DEF Copied
<1>3. ASSUME NEW i \in Place, i >= Offset
      PROVE  Char(x, i - Offset + 1) \in [text : Nat, at : Nat]
  BY <1>3, OffsetFacts DEF Place, Char
<1>4. ASSUME NEW i \in Place
      PROVE  (IF i >= Offset /\ i < Offset + Copied(x)
              THEN Char(x, i - Offset + 1) ELSE sector[i]) \in [text : Nat, at : Nat]
  <2>1. sector[i] \in [text : Nat, at : Nat]
    BY DEF TypeOK
  <2>2. QED
    BY <1>3, <2>1
<1>5. Filled(x) \in [Place -> [text : Nat, at : Nat]]
  BY <1>4 DEF Filled
<1>6. size + Copied(x) \in Nat
  BY <1>2, OffsetFacts
<1>7. QED
  BY <1>2, <1>5, <1>6

LEMMA InitType == Init => TypeOK
  BY SizeFacts, BoundAssumption, HistoryAssumption
  DEF Init, TypeOK, Blank, N, EventType, Stale, Char, NewLine

LEMMA StepType == TypeOK /\ [Next]_vars => TypeOK'
<1> SUFFICES ASSUME TypeOK, [Next]_vars
             PROVE  TypeOK'
  OBVIOUS
<1> USE DEF TypeOK, ringVars, diskVars
<1>a. ASSUME NEW x \in 0 .. MaxEvents, FileAppend(x)
      PROVE  /\ sector' \in [Place -> [text : Nat, at : Nat]] /\ size' \in Nat
             /\ lost' \in SUBSET Nat /\ missed' \in BOOLEAN /\ faults' \in 0 .. MaxFaults
  <2>1. Filled(x) \in [Place -> [text : Nat, at : Nat]] /\ size + Copied(x) \in Nat
    BY <1>a, CopiedFacts
  <2>2. CASE Appended(x)
    BY <2>1, <2>2 DEF Appended
  <2>3. CASE AppendFails(x)
    <3>1. x \in Nat /\ lost' = lost \cup ({x} \ {NewLine})
      BY <1>a, <2>3, BoundAssumption DEF AppendFails
    <3>2. faults' \in 0 .. MaxFaults
      BY <2>3, BoundAssumption DEF AppendFails
    <3>3. QED
      BY <2>1, <2>3, <3>1, <3>2 DEF AppendFails
  <2>4. QED
    BY <1>a, <2>2, <2>3 DEF FileAppend
<1>e. ASSUME NEW s \in Slot
      PROVE  events[s] \in 0 .. MaxEvents
  OBVIOUS
<1>1. ASSUME NEW type \in EventType, Record(type)
      PROVE  /\ events' \in [Slot -> 0 .. MaxEvents] /\ head' \in Slot /\ report' = "none"
             /\ history' \in Seq(EventType) /\ boot' \in 0 .. Len(history')
             /\ Len(history') \in Nat
             /\ UNCHANGED <<pc, current, boots, diskVars>>
  <2>1. Len(history) + 1 \in 0 .. MaxEvents
    BY <1>1, BoundAssumption DEF Record
  <2>2. history' \in Seq(EventType) /\ Len(history') = Len(history) + 1
    BY <1>1 DEF Record
  <2>3. events' \in [Slot -> 0 .. MaxEvents]
    BY <1>1, <2>1 DEF Record
  <2>4. QED
    BY <1>1, <2>2, <2>3, NextSlotValue DEF Record
<1>2. ASSUME NEW type \in EventType, LogIntoFree(type)
      PROVE  TypeOK'
  <2>1. Record(type)
    BY <1>2 DEF LogIntoFree
  <2>2. count' \in 0 .. WATCHER_HISTORY_MAX
    BY <1>2, HistoryAssumption DEF LogIntoFree
  <2>3. tail' = tail /\ sync_cursor' = sync_cursor
    BY <1>2 DEF LogIntoFree
  <2>4. QED
    BY <1>1, <2>1, <2>2, <2>3
<1>3. ASSUME NEW type \in EventType, LogOverOldest(type)
      PROVE  TypeOK'
  <2>1. Record(type)
    BY <1>3 DEF LogOverOldest
  <2>2. tail' \in Slot /\ sync_cursor' \in Slot
    BY <1>3, NextSlotValue DEF LogOverOldest
  <2>3. QED
    BY <1>1, <1>3, <2>1, <2>2 DEF LogOverOldest
<1>4. CASE SyncUpToDate
  BY <1>4 DEF SyncUpToDate
<1>5. CASE SyncStart
  BY <1>5 DEF SyncStart
<1>6. CASE SyncEntry
  <2>1. /\ sector' \in [Place -> [text : Nat, at : Nat]] /\ size' \in Nat
        /\ lost' \in SUBSET Nat /\ missed' \in BOOLEAN /\ faults' \in 0 .. MaxFaults
    BY <1>6, <1>a, <1>e DEF SyncEntry
  <2>2. QED
    BY <1>6, <2>1 DEF SyncEntry
<1>7. CASE SyncNewLine
  <2>1. NewLine \in 0 .. MaxEvents
    BY BoundAssumption DEF NewLine
  <2>2. QED
    BY <1>7, <1>a, <2>1, NextSlotValue DEF SyncNewLine
<1>8. CASE SyncSkip
  BY <1>8, NextSlotValue DEF SyncSkip
<1>9. CASE SyncDone
  BY <1>9 DEF SyncDone
<1>10. CASE Reboot
  <2>1. 0 \in Slot /\ Blank \in 0 .. MaxEvents
    BY SizeFacts, BoundAssumption DEF Blank
  <2>2. events' \in [Slot -> 0 .. MaxEvents]
    BY <1>10, <2>1 DEF Reboot, Fresh
  <2>3. QED
    BY <1>10, <2>1, <2>2, SizeFacts, BoundAssumption, HistoryAssumption DEF Reboot, Fresh
<1>11. CASE UNCHANGED vars
  BY <1>11 DEF vars, syncVars
<1>12. QED
  BY <1>2, <1>3, <1>4, <1>5, <1>6, <1>7, <1>8, <1>9, <1>10, <1>11
  DEF Next, watcher_log_event, SyncStep

\* No index of the watcher ever leaves its ring.
THEOREM WatcherTypeCorrect == Spec => []TypeOK
  BY InitType, StepType, PTL DEF Spec

\* The arithmetic of a ring of n slots with tail t, count c and head h, and of
\* the place of slot s behind the tail.
Dist(n, t, h, c, s) == IF s = h THEN c ELSE IF s >= t THEN s - t ELSE s - t + n
Wrap(n, x) == IF x < n THEN x ELSE x - n

(***************************************************************************)
(* The inductive invariant.  Pos(s) is how many places slot s lies behind  *)
(* the tail; the head, which is also the tail when the ring is full,       *)
(* counts as the end.  Reading the full ring in that way is what           *)
(* watcher_sync_to_disk does: a cursor on the head has nothing to sync.    *)
(* The ledger then holds only events before the place where the next (or   *)
(* the running) sync begins.                                               *)
(***************************************************************************)
Pos(s) == Dist(N, tail, head, count, s)

Number(k) == Logged - count + k

LedgerUpTo(n) == (Fits /\ ~missed) => \A i \in Written : sector[i].text <= n

Shape ==
    /\ head = After(tail, count)
    /\ Pos(sync_cursor) <= count
    /\ pc # "idle" => Pos(current) <= count

LedgerBound ==
    /\ pc = "idle"    => LedgerUpTo(Number(Pos(sync_cursor)))
    /\ pc = "entry"   => LedgerUpTo(Number(Pos(current)))
    /\ pc = "newline" => current # head /\ LedgerUpTo(Number(Pos(current)) + 1)

IInv ==
    /\ TypeOK
    /\ DumpIsLatestEvents
    /\ Shape
    /\ LedgerBound
    /\ LedgerInOrderWithoutDuplicates

\* The indices as numbers, for the arithmetic below.
LEMMA IndexFacts ==
    ASSUME TypeOK
    PROVE  /\ N \in Nat /\ N > 0
           /\ head \in Nat /\ head < N /\ tail \in Nat /\ tail < N
           /\ sync_cursor \in Nat /\ sync_cursor < N
           /\ current \in Nat /\ current < N
           /\ count \in Nat /\ count <= N
           /\ Logged \in Nat /\ boot \in Nat /\ boot <= Logged
  BY SizeFacts DEF TypeOK, Logged

LEMMA NumberFacts ==
    ASSUME TypeOK, NEW k \in Nat
    PROVE  Number(k) \in Int /\ Number(k + 1) = Number(k) + 1
<1>1. Logged \in Int /\ count \in Int
  BY IndexFacts
<1>2. QED
  BY <1>1 DEF Number

LEMMA HeadValue ==
    ASSUME TypeOK
    PROVE  After(tail, count) = IF tail + count < N THEN tail + count ELSE tail + count - N
<1>1. tail \in Slot /\ count \in 0 .. N
  BY SizeFacts DEF TypeOK
<1>2. QED
  BY <1>1, AfterValue

LEMMA PlaceArithmetic ==
    ASSUME NEW n \in Nat, NEW t \in Nat, NEW h \in Nat, NEW c \in Nat, NEW s \in Nat,
           t < n, h < n, s < n, c <= n, h = Wrap(n, t + c),
           Dist(n, t, h, c, s) <= c
    PROVE  /\ Dist(n, t, h, c, s) \in Nat
           /\ s = Wrap(n, t + Dist(n, t, h, c, s))
           /\ s # h => /\ Dist(n, t, h, c, s) < c
                      /\ Dist(n, t, h, c, Wrap(n, s + 1)) = Dist(n, t, h, c, s) + 1
<1>1. CASE s = h
  BY <1>1 DEF Dist, Wrap
<1>2. CASE s # h /\ s >= t
  <2>1. Dist(n, t, h, c, s) = s - t
    BY <1>2 DEF Dist
  <2>2. CASE t + c < n
    BY <1>2, <2>1, <2>2 DEF Dist, Wrap
  <2>3. CASE t + c >= n
    BY <1>2, <2>1, <2>3 DEF Dist, Wrap
  <2>4. QED
    BY <2>2, <2>3
<1>3. CASE s # h /\ s < t
  <2>1. Dist(n, t, h, c, s) = s - t + n
    BY <1>3 DEF Dist
  <2>2. CASE t + c < n
    BY <1>3, <2>1, <2>2 DEF Dist, Wrap
  <2>3. CASE t + c >= n
    BY <1>3, <2>1, <2>3 DEF Dist, Wrap
  <2>4. QED
    BY <2>2, <2>3
<1>4. QED
  BY <1>1, <1>2, <1>3

\* A slot within the window is the one Pos places after the tail; going on to
\* the next slot moves one place, up to the head.
LEMMA PosFacts ==
    ASSUME TypeOK, head = After(tail, count), NEW s \in Slot, Pos(s) <= count
    PROVE  /\ Pos(s) \in Nat
           /\ s = After(tail, Pos(s))
           /\ s # head => Pos(s) < count /\ Pos(NextSlot(s)) = Pos(s) + 1
<1>1. s \in Nat /\ s < N
  BY SizeFacts
<1>2. head = Wrap(N, tail + count)
  BY HeadValue, IndexFacts DEF Wrap
<1>3. Dist(N, tail, head, count, s) <= count
  BY DEF Pos
<1>q. /\ N \in Nat /\ tail \in Nat /\ head \in Nat /\ count \in Nat /\ s \in Nat
      /\ tail < N /\ head < N /\ s < N /\ count <= N
  BY <1>1, IndexFacts
<1>p. /\ Dist(N, tail, head, count, s) \in Nat
      /\ s = Wrap(N, tail + Dist(N, tail, head, count, s))
      /\ s # head =>
            /\ Dist(N, tail, head, count, s) < count
            /\ Dist(N, tail, head, count, Wrap(N, s + 1))
                 = Dist(N, tail, head, count, s) + 1
  BY <1>q, <1>2, <1>3, PlaceArithmetic
<1>4. /\ Pos(s) \in Nat
      /\ s = Wrap(N, tail + Pos(s))
      /\ s # head => /\ Pos(s) < count
                    /\ Pos(Wrap(N, s + 1)) = Pos(s) + 1
  BY <1>p DEF Pos
<1>5. NextSlot(s) = Wrap(N, s + 1)
  <2>1. NextSlot(s) = IF s + 1 < N THEN s + 1 ELSE 0
    BY NextSlotValue
  <2>2. QED
    BY <1>1, <2>1, IndexFacts DEF Wrap
<1>6. tail \in Slot /\ Pos(s) \in 0 .. N
  BY <1>4, IndexFacts DEF TypeOK
<1>7. After(tail, Pos(s)) = Wrap(N, tail + Pos(s))
  BY <1>4, <1>6, AfterValue, IndexFacts DEF Wrap
<1>8. QED
  BY <1>4, <1>5, <1>7

\* The event in a slot of the window has the number of its place.
LEMMA EventNumber ==
    ASSUME TypeOK, DumpIsLatestEvents, head = After(tail, count),
           NEW s \in Slot, s # head, Pos(s) <= count
    PROVE  events[s] = Number(Pos(s)) + 1
<1>1. Pos(s) \in Nat /\ s = After(tail, Pos(s)) /\ Pos(s) < count
  BY PosFacts
<1>2. Pos(s) + 1 \in 1 .. count /\ (Pos(s) + 1) - 1 = Pos(s)
  BY <1>1, IndexFacts
<1>3. Dump[Pos(s) + 1] = events[s]
  BY <1>1, <1>2 DEF Dump
<1>4. Dump[Pos(s) + 1] = Logged - count + (Pos(s) + 1)
  BY <1>2 DEF DumpIsLatestEvents
<1>5. events[s] = Logged - count + (Pos(s) + 1)
  BY <1>3, <1>4
<1>6. QED
  BY <1>1, <1>5, IndexFacts DEF Number

(***************************************************************************)
(* Logging.                                                                *)
(***************************************************************************)
\* In a ring with room the head moves on and no place comes nearer to the tail.
LEMMA FreeArithmetic ==
    ASSUME NEW n \in Nat, NEW t \in Nat, NEW h \in Nat, NEW c \in Nat, NEW s \in Nat,
           t < n, h < n, s < n, c < n, h = Wrap(n, t + c),
           Dist(n, t, h, c, s) <= c
    PROVE  /\ Wrap(n, h + 1) = Wrap(n, t + (c + 1))
           /\ Dist(n, t, Wrap(n, h + 1), c + 1, s) <= c + 1
           /\ Dist(n, t, h, c, s) <= Dist(n, t, Wrap(n, h + 1), c + 1, s)
<1>1. CASE s = h
  BY <1>1 DEF Dist, Wrap
<1>2. CASE s # h
  BY <1>2 DEF Dist, Wrap
<1>3. QED
  BY <1>1, <1>2

\* In a full ring the tail moves on with the head, every place comes nearer by
\* one, and a cursor on the old tail moves to the new one.
LEMMA FullArithmetic ==
    ASSUME NEW n \in Nat, NEW t \in Nat, NEW h \in Nat, NEW s \in Nat,
           t < n, h < n, s < n, h = Wrap(n, t + n)
    PROVE  LET t2 == Wrap(n, t + 1)
               s2 == IF s = t THEN t2 ELSE s
           IN  /\ h = t
               /\ t2 = Wrap(n, t2 + n)
               /\ Dist(n, t2, t2, n, s2) <= n
               /\ Dist(n, t, h, n, s) <= Dist(n, t2, t2, n, s2) + 1
<1>1. h = t
  BY DEF Wrap
<1>2. CASE s = t
  BY <1>1, <1>2 DEF Dist, Wrap
<1>3. CASE s # t
  BY <1>1, <1>3 DEF Dist, Wrap
<1>4. QED
  BY <1>1, <1>2, <1>3

LEMMA LedgerUpToWeaken ==
    ASSUME TypeOK, NEW a \in Int, NEW b \in Int, a <= b, LedgerUpTo(a)
    PROVE  LedgerUpTo(b)
<1>1. \A i \in Written : sector[i].text \in Nat
  BY DEF TypeOK, Written
<1>2. QED
  BY <1>1 DEF LedgerUpTo

\* A step that leaves LEDGER.LOG alone.
FileKept == sector' = sector /\ size' = size /\ missed' = missed

LEMMA FileKeptFacts ==
    ASSUME FileKept
    PROVE  /\ Fits' <=> Fits
           /\ Written' = Written
           /\ LedgerInOrderWithoutDuplicates => LedgerInOrderWithoutDuplicates'
  BY DEF FileKept, Fits, Written, LedgerInOrderWithoutDuplicates

LEMMA KeptUpTo ==
    ASSUME FileKept
    PROVE  \A n : LedgerUpTo(n) => LedgerUpTo(n)'
  BY FileKeptFacts DEF LedgerUpTo, FileKept

LEMMA FreeKeepsIInv ==
    ASSUME IInv, NEW type \in EventType, LogIntoFree(type), TypeOK'
    PROVE  IInv'
<1>1. TypeOK /\ DumpIsLatestEvents /\ Shape /\ LedgerBound
  BY DEF IInv
<1> DEFINE s == sync_cursor
<1>2. /\ N \in Nat /\ tail \in Nat /\ head \in Nat /\ count \in Nat /\ s \in Nat
      /\ tail < N /\ head < N /\ s < N /\ count < N
      /\ Logged \in Nat /\ boot \in Nat /\ boot <= Logged
      /\ N = WATCHER_HISTORY_MAX
  BY <1>1, IndexFacts, SizeFacts DEF LogIntoFree
<1>3. /\ pc = "idle" /\ pc' = "idle"
      /\ tail' = tail /\ count' = count + 1 /\ sync_cursor' = sync_cursor
      /\ Logged' = Logged + 1 /\ boot' = boot /\ FileKept
      /\ events' = [events EXCEPT ![head] = Logged + 1]
      /\ head' = NextSlot(head)
  BY <1>1 DEF LogIntoFree, Record, Logged, TypeOK, diskVars, FileKept
<1>4. head = Wrap(N, tail + count)
  BY <1>1, <1>2, HeadValue DEF Shape, Wrap
<1>5. head' = Wrap(N, head + 1)
  <2>1. head' = IF head + 1 < N THEN head + 1 ELSE 0
    BY <1>1, <1>3, NextSlotValue DEF TypeOK
  <2>2. QED
    BY <1>2, <2>1 DEF Wrap
<1>6. /\ head' = Wrap(N, tail + (count + 1))
      /\ Dist(N, tail, head', count + 1, s) <= count + 1
      /\ Dist(N, tail, head, count, s) <= Dist(N, tail, head', count + 1, s)
  BY <1>1, <1>2, <1>4, <1>5, FreeArithmetic DEF Shape, Pos
<1>7. Shape'
  <2>1. After(tail', count') = Wrap(N, tail + (count + 1))
    <3>1. tail \in Slot /\ count + 1 \in 0 .. N
      BY <1>1, <1>2 DEF TypeOK
    <3>2. QED
      BY <1>2, <1>3, <3>1, AfterValue DEF Wrap
  <2>2. QED
    BY <1>3, <1>6, <2>1 DEF Shape, Pos
<1>8. DumpIsLatestEvents'
  <2>1. count' = IF Logged' - boot' < N THEN Logged' - boot' ELSE N
    BY <1>1, <1>2, <1>3 DEF DumpIsLatestEvents
  <2>2. ASSUME NEW i \in 1 .. count'
        PROVE  Dump'[i] = Logged' - count' + i
    <3>1. Dump'[i] = events'[After(tail, i - 1)]
      BY <1>3, <2>2 DEF Dump
    <3>2. tail \in Slot /\ i - 1 \in 0 .. N /\ i - 1 \in Nat /\ i \in Nat /\ i <= count + 1
      BY <1>1, <1>2, <1>3, <2>2 DEF TypeOK
    <3>3. After(tail, i - 1) = Wrap(N, tail + (i - 1)) /\ After(tail, i - 1) \in Slot
      BY <1>2, <3>2, AfterValue DEF Wrap
    <3>4. CASE i = count + 1
      <4>1. After(tail, i - 1) = head
        BY <1>2, <1>4, <3>3, <3>4
      <4>2. events'[head] = Logged + 1
        BY <1>1, <1>3 DEF TypeOK
      <4>3. QED
        BY <1>2, <1>3, <3>1, <3>4, <4>1, <4>2
    <3>5. CASE i # count + 1
      <4>1. i \in 1 .. count
        BY <1>2, <2>2, <3>2, <3>5
      <4>2. After(tail, i - 1) # head
        BY <1>2, <1>4, <3>2, <3>3, <3>5 DEF Wrap
      <4>3. Dump'[i] = events[After(tail, i - 1)]
        BY <1>1, <1>3, <3>1, <3>3, <4>2 DEF TypeOK
      <4>4. events[After(tail, i - 1)] = Logged - count + i
        BY <1>1, <4>1 DEF DumpIsLatestEvents, Dump
      <4>5. QED
        BY <1>2, <1>3, <3>2, <4>3, <4>4
    <3>6. QED
      BY <3>4, <3>5
  <2>3. QED
    BY <1>2, <2>1, <2>2 DEF DumpIsLatestEvents
<1>9. LedgerBound'
  <2>1. LedgerUpTo(Number(Pos(s)))
    BY <1>1, <1>3 DEF LedgerBound
  <2>2. Pos(s) \in Nat /\ Pos(s)' \in Int
    BY <1>2, <1>3, <1>5 DEF Pos, Dist, Wrap
  <2>3. Number(Pos(s)) <= Number(Pos(s))' /\ Number(Pos(s)) \in Int /\ Number(Pos(s))' \in Int
    BY <1>2, <1>3, <1>6, <2>2 DEF Number, Pos
  <2>4. LedgerUpTo(Number(Pos(s))')
    BY <1>1, <2>1, <2>3, LedgerUpToWeaken
  <2>5. LedgerUpTo(Number(Pos(s)))'
    BY <1>3, <2>4, KeptUpTo
  <2>6. QED
    BY <1>3, <2>5 DEF LedgerBound
<1>10. LedgerInOrderWithoutDuplicates'
  BY <1>3, FileKeptFacts DEF IInv
<1>11. QED
  BY <1>7, <1>8, <1>9, <1>10 DEF IInv

LEMMA FullKeepsIInv ==
    ASSUME IInv, NEW type \in EventType, LogOverOldest(type), TypeOK'
    PROVE  IInv'
<1>1. TypeOK /\ DumpIsLatestEvents /\ Shape /\ LedgerBound
  BY DEF IInv
<1> DEFINE s  == sync_cursor
           t2 == Wrap(N, tail + 1)
           s2 == IF s = tail THEN t2 ELSE s
<1>2. /\ N \in Nat /\ N > 0 /\ tail \in Nat /\ head \in Nat /\ count = N /\ s \in Nat
      /\ tail < N /\ head < N /\ s < N
      /\ Logged \in Nat /\ boot \in Nat /\ boot <= Logged
      /\ N = WATCHER_HISTORY_MAX
  BY <1>1, IndexFacts, SizeFacts DEF LogOverOldest
<1>3. /\ pc = "idle" /\ pc' = "idle"
      /\ tail' = NextSlot(tail) /\ count' = count
      /\ sync_cursor' = IF s = tail THEN NextSlot(tail) ELSE s
      /\ Logged' = Logged + 1 /\ boot' = boot /\ FileKept
      /\ events' = [events EXCEPT ![head] = Logged + 1]
      /\ head' = NextSlot(head)
  BY <1>1 DEF LogOverOldest, Record, Logged, TypeOK, diskVars, FileKept
<1>4. head = Wrap(N, tail + N)
  BY <1>1, <1>2, HeadValue DEF Shape, Wrap
<1>5. /\ head = tail
      /\ t2 = Wrap(N, t2 + N)
      /\ Dist(N, t2, t2, N, s2) <= N
      /\ Dist(N, tail, head, N, s) <= Dist(N, t2, t2, N, s2) + 1
  BY <1>2, <1>4, FullArithmetic
<1>6. tail' = t2 /\ head' = t2 /\ sync_cursor' = s2
  <2>1. NextSlot(tail) = IF tail + 1 < N THEN tail + 1 ELSE 0
    BY <1>1, NextSlotValue DEF TypeOK
  <2>2. NextSlot(tail) = t2
    BY <1>2, <2>1 DEF Wrap
  <2>3. QED
    BY <1>3, <1>5, <2>2
<1>7. t2 \in Nat /\ t2 < N /\ s2 \in Nat /\ s2 < N
  BY <1>2 DEF Wrap
<1> HIDE DEF t2, s2
<1>8. Shape'
  <2>1. After(tail', count') = Wrap(N, t2 + N)
    <3>1. t2 \in Slot /\ N \in 0 .. N
      BY <1>2, <1>7, SizeFacts
    <3>2. After(t2, N) = Wrap(N, t2 + N)
      BY <1>2, <1>7, <3>1, AfterValue DEF Wrap
    <3>3. QED
      BY <1>2, <1>3, <1>6, <3>2
  <2>2. QED
    BY <1>2, <1>3, <1>5, <1>6, <2>1 DEF Shape, Pos
<1>9. DumpIsLatestEvents'
  <2>1. count' = IF Logged' - boot' < N THEN Logged' - boot' ELSE N
    BY <1>1, <1>2, <1>3 DEF DumpIsLatestEvents
  <2>2. ASSUME NEW i \in 1 .. count'
        PROVE  Dump'[i] = Logged' - count' + i
    <3>1. Dump'[i] = events'[After(t2, i - 1)]
      BY <1>6, <2>2 DEF Dump
    <3>2. i \in Nat /\ 1 <= i /\ i <= N /\ i - 1 \in 0 .. N
      BY <1>2, <1>3, <2>2
    <3>3. After(t2, i - 1) = Wrap(N, t2 + (i - 1)) /\ After(t2, i - 1) \in Slot
      <4>1. t2 \in Slot
        BY <1>7, SizeFacts
      <4>2. QED
        BY <1>2, <1>7, <3>2, <4>1, AfterValue DEF Wrap
    <3>4. CASE i = N
      <4>1. Wrap(N, t2 + (i - 1)) = tail
        BY <1>2, <3>4 DEF Wrap, t2
      <4>2. events'[head] = Logged + 1
        BY <1>1, <1>3 DEF TypeOK
      <4>3. QED
        BY <1>2, <1>3, <1>5, <3>1, <3>3, <3>4, <4>1, <4>2
    <3>5. CASE i # N
      <4>1. /\ Wrap(N, t2 + (i - 1)) = Wrap(N, tail + i)
            /\ Wrap(N, tail + i) # tail
        BY <1>2, <3>2, <3>5 DEF Wrap, t2
      <4>2. i + 1 \in 1 .. count /\ (i + 1) - 1 = i /\ i \in 0 .. N
        BY <1>2, <3>2, <3>5
      <4>3. After(tail, i) = Wrap(N, tail + i)
        <5>1. tail \in Slot
          BY <1>1 DEF TypeOK
        <5>2. QED
          BY <1>2, <4>2, <5>1, AfterValue DEF Wrap
      <4>4. Dump'[i] = events[After(tail, i)]
        BY <1>1, <1>3, <1>5, <3>1, <3>3, <4>1, <4>3 DEF TypeOK
      <4>5. events[After(tail, i)] = Logged - count + (i + 1)
        BY <1>1, <4>2 DEF DumpIsLatestEvents, Dump
      <4>6. QED
        BY <1>2, <1>3, <3>2, <4>4, <4>5
    <3>6. QED
      BY <3>4, <3>5
  <2>3. QED
    BY <1>2, <2>1, <2>2 DEF DumpIsLatestEvents
<1>10. LedgerBound'
  <2>1. LedgerUpTo(Number(Pos(s)))
    BY <1>1, <1>3 DEF LedgerBound
  <2>2. Pos(s) = Dist(N, tail, head, N, s) /\ Pos(sync_cursor)' = Dist(N, t2, t2, N, s2)
    BY <1>2, <1>3, <1>6 DEF Pos
  <2>3. Dist(N, tail, head, N, s) \in Int /\ Dist(N, t2, t2, N, s2) \in Int
    BY <1>2, <1>7 DEF Dist
  <2>4. /\ Number(Pos(s)) \in Int /\ Number(Pos(sync_cursor))' \in Int
        /\ Number(Pos(s)) <= Number(Pos(sync_cursor))'
    BY <1>2, <1>3, <1>5, <2>2, <2>3 DEF Number
  <2>5. LedgerUpTo(Number(Pos(sync_cursor))')
    BY <1>1, <2>1, <2>4, LedgerUpToWeaken
  <2>6. LedgerUpTo(Number(Pos(sync_cursor)))'
    BY <1>3, <2>5, KeptUpTo
  <2>7. QED
    BY <1>3, <2>6 DEF LedgerBound
<1>11. LedgerInOrderWithoutDuplicates'
  BY <1>3, FileKeptFacts DEF IInv
<1>12. QED
  BY <1>8, <1>9, <1>10, <1>11 DEF IInv

(***************************************************************************)
(* Starting, syncing, booting.                                             *)
(***************************************************************************)
\* A machine that has just booted: an empty ring, and a ledger of older events.
LEMMA FreshFacts ==
    ASSUME TypeOK, head = 0, tail = 0, count = 0, sync_cursor = 0, pc = "idle",
           Logged = boot, LedgerUpTo(Logged)
    PROVE  DumpIsLatestEvents /\ Shape /\ LedgerBound
<1>1. N \in Nat /\ N > 0 /\ N = WATCHER_HISTORY_MAX /\ Logged \in Nat
  BY IndexFacts, SizeFacts
<1>2. After(tail, count) = 0
  BY <1>1, HeadValue
<1>3. Pos(sync_cursor) = 0 /\ Number(0) = Logged
  BY <1>1 DEF Pos, Dist, Number
<1>4. DumpIsLatestEvents
  <2>1. count = IF Logged - boot < WATCHER_HISTORY_MAX
               THEN Logged - boot ELSE WATCHER_HISTORY_MAX
    BY <1>1
  <2>2. \A i \in 1 .. count : Dump[i] = Logged - count + i
    OBVIOUS
  <2>3. QED
    BY <2>1, <2>2 DEF DumpIsLatestEvents
<1>5. QED
  BY <1>2, <1>3, <1>4 DEF Shape, LedgerBound

LEMMA InitIInv == Init => IInv
<1> SUFFICES ASSUME Init
             PROVE  IInv
  OBVIOUS
<1>1. TypeOK
  BY InitType
<1>2. /\ head = 0 /\ tail = 0 /\ count = 0 /\ sync_cursor = 0 /\ pc = "idle"
      /\ Logged = 0 /\ boot = 0 /\ Written = {}
  BY LedgerAssumption DEF Init, Logged, Written, Place
<1>3. LedgerUpTo(Logged)
  BY <1>2 DEF LedgerUpTo
<1>4. DumpIsLatestEvents /\ Shape /\ LedgerBound
  BY <1>1, <1>2, <1>3, FreshFacts
<1>5. LedgerInOrderWithoutDuplicates
  BY <1>2 DEF LedgerInOrderWithoutDuplicates
<1>6. QED
  BY <1>1, <1>4, <1>5 DEF IInv

\* Wherever a sync is, the ledger holds nothing newer than the last event logged.
LEMMA LedgerUpToLogged ==
    ASSUME IInv
    PROVE  LedgerUpTo(Logged)
<1>1. TypeOK /\ Shape /\ LedgerBound
  BY DEF IInv
<1>2. sync_cursor \in Slot /\ current \in Slot
  BY <1>1 DEF TypeOK
<1>3. Logged \in Nat /\ count \in Nat
  BY <1>1, IndexFacts
<1>4. CASE pc = "idle"
  <2>1. Pos(sync_cursor) \in Nat /\ Pos(sync_cursor) <= count
    BY <1>1, <1>2, PosFacts DEF Shape
  <2>2. Number(Pos(sync_cursor)) \in Int /\ Number(Pos(sync_cursor)) <= Logged
    BY <1>3, <2>1 DEF Number
  <2>3. QED
    BY <1>1, <1>3, <1>4, <2>2, LedgerUpToWeaken DEF LedgerBound
<1>5. CASE pc # "idle"
  <2>1. Pos(current) \in Nat /\ Pos(current) <= count /\ (current # head => Pos(current) < count)
    BY <1>1, <1>2, <1>5, PosFacts DEF Shape
  <2>2. CASE pc = "entry"
    <3>1. Number(Pos(current)) \in Int /\ Number(Pos(current)) <= Logged
      BY <1>3, <2>1 DEF Number
    <3>2. QED
      BY <1>1, <1>3, <2>2, <3>1, LedgerUpToWeaken DEF LedgerBound
  <2>3. CASE pc = "newline"
    <3>1. current # head /\ LedgerUpTo(Number(Pos(current)) + 1)
      BY <1>1, <2>3 DEF LedgerBound
    <3>2. Number(Pos(current)) + 1 \in Int /\ Number(Pos(current)) + 1 <= Logged
      BY <1>3, <2>1, <3>1 DEF Number
    <3>3. QED
      BY <1>1, <1>3, <3>1, <3>2, LedgerUpToWeaken
  <2>4. QED
    BY <1>1, <1>5, <2>2, <2>3 DEF TypeOK
<1>6. QED
  BY <1>4, <1>5

LEMMA RebootKeepsIInv ==
    ASSUME IInv, Reboot, TypeOK'
    PROVE  IInv'
<1>1. /\ head' = 0 /\ tail' = 0 /\ count' = 0 /\ sync_cursor' = 0 /\ pc' = "idle"
      /\ Logged' = Logged /\ boot' = Logged /\ FileKept
  BY DEF Reboot, Fresh, Logged, diskVars, FileKept
<1>2. LedgerUpTo(Logged)'
  BY <1>1, LedgerUpToLogged, FileKeptFacts DEF LedgerUpTo, FileKept
<1>3. (TypeOK /\ head = 0 /\ tail = 0 /\ count = 0 /\ sync_cursor = 0 /\ pc = "idle"
         /\ Logged = boot /\ LedgerUpTo(Logged)
       => DumpIsLatestEvents /\ Shape /\ LedgerBound)'
  BY FreshFacts, PTL
<1>4. (DumpIsLatestEvents /\ Shape /\ LedgerBound)'
  BY <1>1, <1>2, <1>3
<1>5. LedgerInOrderWithoutDuplicates'
  BY <1>1, FileKeptFacts DEF IInv
<1>6. QED
  BY <1>4, <1>5 DEF IInv

\* What a step of a sync leaves alone.
SyncFrame == UNCHANGED <<ringVars, history, boot>>

LEMMA FrameFacts ==
    ASSUME SyncFrame
    PROVE  /\ events' = events /\ head' = head /\ tail' = tail /\ count' = count
           /\ Logged' = Logged /\ boot' = boot
           /\ DumpIsLatestEvents => DumpIsLatestEvents'
           /\ After(tail, count)' = After(tail, count)
           /\ \A s : Pos(s)' = Pos(s)
           /\ \A k : Number(k)' = Number(k)
<1>1. /\ events' = events /\ head' = head /\ tail' = tail /\ count' = count
      /\ Logged' = Logged /\ boot' = boot
  BY DEF SyncFrame, ringVars, Logged
<1>2. DumpIsLatestEvents => DumpIsLatestEvents'
  BY <1>1 DEF DumpIsLatestEvents, Dump
<1>3. \A s : Pos(s)' = Pos(s)
  BY <1>1 DEF Pos
<1>4. \A k : Number(k)' = Number(k)
  BY <1>1 DEF Number
<1>5. QED
  BY <1>1, <1>2, <1>3, <1>4

\* A sync that starts, finds nothing to do or ends leaves the ledger alone, and
\* the place where the next sync begins is the one this sync has reached.
LEMMA EndpointKeepsIInv ==
    ASSUME IInv, SyncUpToDate \/ SyncStart \/ SyncDone, TypeOK'
    PROVE  IInv'
<1>1. TypeOK /\ DumpIsLatestEvents /\ Shape /\ LedgerBound
  BY DEF IInv
<1>2. SyncFrame /\ FileKept
  BY DEF SyncUpToDate, SyncStart, SyncDone, SyncFrame, diskVars, FileKept
<1>3. LedgerInOrderWithoutDuplicates'
  BY <1>2, FileKeptFacts DEF IInv
<1>u. \A n : LedgerUpTo(n) => LedgerUpTo(n)'
  BY <1>2, KeptUpTo
<1>4. Shape' /\ LedgerBound'
  <2>1. CASE SyncUpToDate
    BY <1>1, <1>2, <1>u, <2>1, FrameFacts DEF SyncUpToDate, Shape, LedgerBound
  <2>2. CASE SyncStart
    BY <1>1, <1>2, <1>u, <2>2, FrameFacts DEF SyncStart, Shape, LedgerBound
  <2>3. CASE SyncDone
    BY <1>1, <1>2, <1>u, <2>3, FrameFacts DEF SyncDone, Shape, LedgerBound
  <2>4. QED
    BY <2>1, <2>2, <2>3
<1>5. QED
  BY <1>1, <1>2, <1>3, <1>4, FrameFacts DEF IInv

\* Into a file that fits its sector afterwards an append has written its text whole,
\* behind what was there; a file that has come to the edge stays beyond it.
LEMMA AppendedText ==
    ASSUME TypeOK, NEW x \in 0 .. MaxEvents, Appended(x), Fits'
    PROVE  /\ size \in Nat /\ size' = size + Length(x)
           /\ \A i \in Place : i < size => sector'[i] = sector[i]
           /\ \A i \in Place : size <= i /\ i < size' => sector'[i] = Char(x, i - size + 1)
<1>1. /\ size' = size + Copied(x) /\ sector' = Filled(x) /\ size + Copied(x) < SECTOR
      /\ Copied(x) \in Nat /\ size \in Nat /\ SECTOR \in Nat
  BY CopiedFacts, OffsetFacts DEF Appended, Fits
<1>2. Offset = size
  BY <1>1, OffsetFacts DEF Fits
<1>3. Length(x) \in Nat
  BY LengthFacts, LedgerAssumption
<1>4. Copied(x) = Length(x)
  BY <1>1, <1>2, <1>3 DEF Copied
<1>5. \A i \in Place : sector'[i] = IF i >= size /\ i < size + Length(x)
                                    THEN Char(x, i - size + 1) ELSE sector[i]
  BY <1>1, <1>2, <1>4 DEF Filled
<1>6. QED
  BY <1>1, <1>3, <1>4, <1>5 DEF Place

LEMMA AppendKeepsPrefix ==
    ASSUME TypeOK, NEW x \in 0 .. MaxEvents, FileAppend(x), Fits'
    PROVE  /\ Fits /\ size <= size'
           /\ \A i \in Place : i < size => sector'[i] = sector[i]
<1>1. CASE Appended(x)
  <2>1. size' = size + Length(x) /\ size \in Nat /\ Length(x) \in Nat /\ SECTOR \in Nat
    BY <1>1, AppendedText, LengthFacts, LedgerAssumption
  <2>2. QED
    BY <1>1, <2>1, AppendedText DEF Fits
<1>2. CASE AppendFails(x)
  <2>1. /\ size \in Nat /\ Copied(x) \in Nat /\ SECTOR \in Nat
        /\ size' = size \/ size' = size + Copied(x)
    BY <1>2, CopiedFacts, OffsetFacts DEF AppendFails
  <2>2. Fits /\ size <= size'
    BY <2>1 DEF Fits
  <2>3. ASSUME NEW i \in Place, i < size
        PROVE  sector'[i] = sector[i]
    <3>1. Filled(x)[i] = sector[i]
      BY <2>1, <2>2, <2>3, OffsetFacts DEF Filled, Place
    <3>2. QED
      BY <1>2, <3>1 DEF AppendFails
  <2>4. QED
    BY <2>2, <2>3
<1>3. QED
  BY <1>1, <1>2 DEF FileAppend

\* What an append that fails leaves of the file, but for a write that goes unnoticed.
LEMMA FailureKeepsWritten ==
    ASSUME TypeOK, NEW x \in 0 .. MaxEvents, AppendFails(x), Fits', ~missed'
    PROVE  Fits /\ ~missed /\ Written' = Written /\ \A i \in Written : sector'[i] = sector[i]
<1>1. size' = size /\ missed' = missed
  BY DEF AppendFails
<1>2. Fits /\ \A i \in Place : i < size => sector'[i] = sector[i]
  BY AppendKeepsPrefix DEF FileAppend
<1>3. QED
  BY <1>1, <1>2 DEF Written

LEMMA AppendKeepsUpTo ==
    ASSUME TypeOK, NEW x \in 0 .. MaxEvents, FileAppend(x), NEW m \in Int, x <= m,
           LedgerUpTo(m)
    PROVE  (Fits' /\ ~missed') => \A i \in Written' : sector'[i].text <= m
<1>1. SUFFICES ASSUME Fits', ~missed', NEW i \in Written'
               PROVE  sector'[i].text <= m
  OBVIOUS
<1>2. CASE AppendFails(x)
  BY <1>1, <1>2, FailureKeepsWritten DEF LedgerUpTo
<1>3. CASE Appended(x)
  <2>1. Fits /\ ~missed /\ i \in Place /\ i < size' /\ size \in Nat /\ i \in Nat
    BY <1>1, <1>3, AppendKeepsPrefix, OffsetFacts DEF FileAppend, Appended, Written, Place
  <2>2. CASE i < size
    BY <1>1, <1>3, <2>1, <2>2, AppendedText DEF LedgerUpTo, Written
  <2>3. CASE i >= size
    <3>1. sector'[i] = Char(x, i - size + 1)
      BY <1>1, <1>3, <2>1, <2>3, AppendedText
    <3>2. QED
      BY <3>1 DEF Char
  <2>4. QED
    BY <2>1, <2>2, <2>3
<1>4. QED
  BY <1>2, <1>3 DEF FileAppend

\* A text that has no character in the file and none newer than itself, or a newline.
NewerThanLedger(x) ==
    x # NewLine => \E n \in Int : n < x /\ LedgerUpTo(n)

LEMMA AppendKeepsOrder ==
    ASSUME TypeOK, NEW x \in 0 .. MaxEvents, FileAppend(x), NewerThanLedger(x),
           LedgerInOrderWithoutDuplicates
    PROVE  LedgerInOrderWithoutDuplicates'
<1>1. SUFFICES ASSUME Fits', ~missed', NEW i \in Written', NEW j \in Written',
                      i < j, sector'[i].text # NewLine, sector'[j].text # NewLine
               PROVE  \/ sector'[i].text < sector'[j].text
                      \/ /\ sector'[i].text = sector'[j].text
                         /\ sector'[j].at = sector'[i].at + (j - i)
  BY DEF LedgerInOrderWithoutDuplicates
<1>2. CASE AppendFails(x)
  BY <1>1, <1>2, FailureKeepsWritten DEF LedgerInOrderWithoutDuplicates
<1>3. CASE Appended(x)
  <2>1. /\ Fits /\ ~missed /\ size \in Nat /\ i \in Place /\ j \in Place
        /\ i < size' /\ j < size' /\ i \in Nat /\ j \in Nat
    BY <1>1, <1>3, AppendKeepsPrefix, OffsetFacts DEF FileAppend, Appended, Written, Place
  <2>2. /\ \A k \in Place : k < size => sector'[k] = sector[k]
        /\ \A k \in Place : size <= k /\ k < size' => sector'[k] = Char(x, k - size + 1)
    BY <1>1, <1>3, AppendedText
  <2>3. CASE j < size
    <3>1. i \in Written /\ j \in Written /\ sector'[i] = sector[i] /\ sector'[j] = sector[j]
      BY <1>1, <2>1, <2>2, <2>3 DEF Written
    <3>2. QED
      BY <1>1, <2>1, <3>1 DEF LedgerInOrderWithoutDuplicates
  <2>4. CASE i < size /\ size <= j
    <3>1. i \in Written /\ sector'[i] = sector[i] /\ sector'[j] = Char(x, j - size + 1)
      BY <2>1, <2>2, <2>4 DEF Written
    <3>2. x # NewLine /\ sector'[j].text = x
      BY <1>1, <3>1 DEF Char
    <3>3. PICK n \in Int : n < x /\ LedgerUpTo(n)
      BY <3>2 DEF NewerThanLedger
    <3>4. sector[i].text \in Nat /\ sector[i].text <= n
      BY <2>1, <3>1, <3>3 DEF LedgerUpTo, TypeOK
    <3>5. QED
      BY <3>1, <3>2, <3>3, <3>4
  <2>5. CASE size <= i
    <3>1. sector'[i] = Char(x, i - size + 1) /\ sector'[j] = Char(x, j - size + 1)
      BY <1>1, <2>1, <2>2, <2>5
    <3>2. QED
      BY <2>1, <3>1 DEF Char
  <2>6. QED
    BY <1>1, <2>1, <2>3, <2>4, <2>5
<1>4. QED
  BY <1>2, <1>3 DEF FileAppend

\* The event appended is newer than everything in the ledger.
LEMMA EntryKeepsIInv ==
    ASSUME IInv, SyncEntry, TypeOK'
    PROVE  IInv'
<1> DEFINE n == Number(Pos(current))
           e == events[current]
<1>1. TypeOK /\ DumpIsLatestEvents /\ Shape /\ LedgerBound /\ LedgerInOrderWithoutDuplicates
  BY DEF IInv
<1>2. /\ SyncFrame /\ pc = "entry" /\ pc' = "newline" /\ current # head
      /\ current' = current /\ sync_cursor' = sync_cursor /\ FileAppend(e)
  BY DEF SyncEntry, SyncFrame
<1>3. current \in Slot /\ Pos(current) <= count /\ Pos(current) \in Nat
  BY <1>1, <1>2, PosFacts DEF TypeOK, Shape
<1>4. e = n + 1
  BY <1>1, <1>2, <1>3, EventNumber DEF Shape
<1>5. n \in Int /\ LedgerUpTo(n)
  BY <1>1, <1>2, <1>3, IndexFacts DEF LedgerBound, Number
<1> HIDE DEF n, e
<1>6. e \in 0 .. MaxEvents
  BY <1>1, <1>3 DEF TypeOK, e
<1>7. n' = n
  BY <1>2, FrameFacts DEF n
<1>8. LedgerUpTo(n + 1)' /\ LedgerInOrderWithoutDuplicates'
  <2>1. LedgerUpTo(e)
    BY <1>1, <1>4, <1>5, <1>6, LedgerUpToWeaken
  <2>2. NewerThanLedger(e)
    BY <1>4, <1>5 DEF NewerThanLedger
  <2>3. LedgerInOrderWithoutDuplicates'
    BY <1>1, <1>2, <1>6, <2>2, AppendKeepsOrder
  <2>4. (Fits' /\ ~missed') => \A i \in Written' : sector'[i].text <= e
    BY <1>1, <1>2, <1>6, <2>1, AppendKeepsUpTo
  <2>5. QED
    BY <1>4, <1>7, <2>3, <2>4 DEF LedgerUpTo
<1>9. Shape' /\ LedgerBound'
  BY <1>1, <1>2, <1>8, FrameFacts DEF Shape, LedgerBound, n
<1>10. QED
  BY <1>1, <1>2, <1>8, <1>9, FrameFacts DEF IInv

\* Going on to the next slot is going on to the next place.
LEMMA AdvanceKeepsIInv ==
    ASSUME IInv, SyncNewLine \/ SyncSkip, TypeOK'
    PROVE  IInv'
<1> DEFINE k == Pos(current)
<1>1. TypeOK /\ DumpIsLatestEvents /\ Shape /\ LedgerBound /\ LedgerInOrderWithoutDuplicates
  BY DEF IInv
<1>2. /\ SyncFrame /\ pc # "idle" /\ pc' = "entry" /\ current # head
      /\ current' = NextSlot(current) /\ sync_cursor' = sync_cursor
  BY <1>1 DEF SyncNewLine, SyncSkip, SyncFrame, LedgerBound
<1>3. k \in Nat /\ k < count /\ Pos(NextSlot(current)) = k + 1
  BY <1>1, <1>2, PosFacts DEF TypeOK, Shape
<1>4. Pos(current') = k + 1 /\ Pos(current)' = k + 1
  BY <1>2, <1>3, FrameFacts
<1>5. Shape'
  BY <1>1, <1>2, <1>3, <1>4, FrameFacts, IndexFacts DEF Shape
<1>6. LedgerUpTo(Number(k + 1))
  <2>1. Number(k) \in Int /\ Number(k + 1) = Number(k) + 1
    BY <1>1, <1>3, NumberFacts
  <2>2. CASE SyncNewLine
    BY <1>1, <2>1, <2>2 DEF SyncNewLine, LedgerBound
  <2>3. CASE SyncSkip
    <3>1. LedgerUpTo(Number(k))
      BY <1>1, <2>3 DEF SyncSkip, LedgerBound
    <3>2. QED
      BY <1>1, <2>1, <3>1, LedgerUpToWeaken
  <2>4. QED
    BY <2>2, <2>3
<1> DEFINE m == Number(k + 1)
<1>7. m \in Int /\ m >= 0
  <2>1. count <= Logged /\ count \in Nat /\ Logged \in Nat
    BY <1>1, IndexFacts DEF DumpIsLatestEvents
  <2>2. QED
    BY <1>3, <2>1 DEF Number
<1>8. /\ (Fits' /\ ~missed') => \A i \in Written' : sector'[i].text <= m
      /\ LedgerInOrderWithoutDuplicates'
  <2> HIDE DEF m
  <2>1. LedgerUpTo(m)
    BY <1>6 DEF m
  <2>2. CASE SyncNewLine
    <3>1. FileAppend(0) /\ 0 \in 0 .. MaxEvents /\ 0 <= m /\ NewerThanLedger(0)
      BY <1>7, <2>2, BoundAssumption DEF SyncNewLine, NewLine, NewerThanLedger
    <3>2. LedgerInOrderWithoutDuplicates'
      BY <1>1, <3>1, AppendKeepsOrder
    <3>3. (Fits' /\ ~missed') => \A i \in Written' : sector'[i].text <= m
      BY <1>1, <1>7, <2>1, <3>1, AppendKeepsUpTo
    <3>4. QED
      BY <3>2, <3>3
  <2>3. CASE SyncSkip
    <3>1. FileKept
      BY <2>3 DEF SyncSkip, diskVars, FileKept
    <3>2. (Fits' /\ ~missed') => \A i \in Written' : sector'[i].text <= m
      BY <2>1, <3>1, FileKeptFacts DEF LedgerUpTo, FileKept
    <3>3. QED
      BY <1>1, <3>1, <3>2, FileKeptFacts
  <2>4. QED
    BY <2>2, <2>3
<1>9. LedgerBound'
  <2>1. Number(Pos(current))' = m
    <3>1. Number(Pos(current))' = Number(k + 1)
      BY <1>1, <1>2, <1>3, <1>4, FrameFacts DEF Number
    <3>2. QED
      BY <3>1
  <2>2. QED
    BY <1>2, <1>8, <2>1 DEF LedgerBound, LedgerUpTo
<1>10. QED
  BY <1>1, <1>2, <1>5, <1>8, <1>9, FrameFacts DEF IInv

LEMMA StutterKeepsIInv ==
    ASSUME IInv, UNCHANGED vars
    PROVE  IInv'
<1>1. /\ SyncFrame /\ FileKept /\ pc' = pc
      /\ current' = current /\ sync_cursor' = sync_cursor
  BY DEF vars, syncVars, diskVars, ringVars, SyncFrame, FileKept
<1>2. TypeOK'
  BY StepType DEF IInv
<1>3. \A n : LedgerUpTo(n) => LedgerUpTo(n)'
  BY <1>1, KeptUpTo
<1>4. Shape' /\ LedgerBound' /\ LedgerInOrderWithoutDuplicates'
  BY <1>1, <1>3, FrameFacts, FileKeptFacts DEF IInv, Shape, LedgerBound
<1>5. QED
  BY <1>1, <1>2, <1>4, FrameFacts DEF IInv

LEMMA StepIInv == IInv /\ [Next]_vars => IInv'
<1> SUFFICES ASSUME IInv, [Next]_vars
             PROVE  IInv'
  OBVIOUS
<1>1. TypeOK'
  BY StepType DEF IInv
<1>2. CASE \E type \in EventType : watcher_log_event(type)
  BY <1>1, <1>2, FreeKeepsIInv, FullKeepsIInv DEF watcher_log_event
<1>3. CASE SyncUpToDate \/ SyncStart \/ SyncDone
  BY <1>1, <1>3, EndpointKeepsIInv
<1>4. CASE SyncEntry
  BY <1>1, <1>4, EntryKeepsIInv
<1>5. CASE SyncNewLine \/ SyncSkip
  BY <1>1, <1>5, AdvanceKeepsIInv
<1>6. CASE Reboot
  BY <1>1, <1>6, RebootKeepsIInv
<1>7. CASE UNCHANGED vars
  BY <1>7, StutterKeepsIInv
<1>8. QED
  BY <1>2, <1>3, <1>4, <1>5, <1>6, <1>7 DEF Next, SyncStep

LEMMA SpecIInv == Spec => []IInv
  BY InitIInv, StepIInv, PTL DEF Spec

(***************************************************************************)
(* What a sync has covered.  Every commit in the ring that lies before the *)
(* place where the next (or the running) sync begins has been appended, or *)
(* its append has failed.  That is not so of a full ring with the cursor   *)
(* on the head, of which nothing is claimed.                               *)
(***************************************************************************)
Covered(e) ==
    e # Blank /\ history[e] = "LEDGER_COMMIT" => Persisted(e) \/ e \in lost

CoveredTo(n) == Fits => \A s \in Slot : events[s] <= n => Covered(events[s])

Cover ==
    /\ \A s \in Slot : events[s] <= Logged
    /\ pc = "idle" /\ (sync_cursor # head \/ count < N)
         => CoveredTo(Number(Pos(sync_cursor)))
    /\ pc = "entry"   => CoveredTo(Number(Pos(current)))
    /\ pc = "newline" => CoveredTo(Number(Pos(current)) + 1)
    /\ CompleteSyncCoversRing
    /\ UpToDateBeforeWrap

LEMMA CoveredAll ==
    ASSUME TypeOK, \A s \in Slot : events[s] <= Logged
    PROVE  CoveredTo(Logged) <=> RingPersisted
<1>1. CoveredTo(Logged) <=> (Fits => \A s \in Slot : Covered(events[s]))
  BY DEF CoveredTo
<1>2. QED
  BY <1>1 DEF Covered, RingPersisted, LiveCommits, Live

\* The place of the cursor does not change while events are logged, unless it is
\* (or comes to be) the head.
LEMMA FreePlace ==
    ASSUME NEW n \in Nat, NEW t \in Nat, NEW h \in Nat, NEW c \in Nat, NEW s \in Nat,
           t < n, h < n, s < n, c < n, h = Wrap(n, t + c),
           Dist(n, t, h, c, s) <= c,
           s # Wrap(n, h + 1) \/ c + 1 < n
    PROVE  Dist(n, t, Wrap(n, h + 1), c + 1, s) = Dist(n, t, h, c, s)
<1>1. CASE s = h
  BY <1>1 DEF Dist, Wrap
<1>2. CASE s # h
  BY <1>2 DEF Dist, Wrap
<1>3. QED
  BY <1>1, <1>2

LEMMA FullPlace ==
    ASSUME NEW n \in Nat, NEW t \in Nat, NEW s \in Nat,
           t < n, s < n, s # t, s # Wrap(n, t + 1)
    PROVE  Dist(n, Wrap(n, t + 1), Wrap(n, t + 1), n, s) = Dist(n, t, t, n, s) - 1
  BY DEF Dist, Wrap

LEMMA KeptPersisted ==
    ASSUME FileKept
    PROVE  \A e : Persisted(e)' <=> Persisted(e)
  BY FileKeptFacts DEF Persisted, FileKept

LEMMA CoveredAfter ==
    ASSUME NEW s, NEW c, events'[s] = c,
           c # Blank /\ history'[c] = "LEDGER_COMMIT" => Persisted(c)' \/ c \in lost'
    PROVE  Covered(events[s])'
  BY DEF Covered, Persisted, Written

\* An event more in the slot of the head leaves the older ones as they were.
LEMMA RecordKeepsCovered ==
    ASSUME TypeOK, NEW type \in EventType, Record(type),
           \A s \in Slot : events[s] <= Logged,
           NEW n \in Int, n <= Logged, CoveredTo(n)
    PROVE  Fits' => \A s \in Slot : events'[s] <= n => Covered(events[s])'
<1>1. /\ Logged' = Logged + 1 /\ history' = Append(history, type) /\ Logged \in Nat
      /\ events' = [events EXCEPT ![head] = Logged + 1]
      /\ FileKept /\ lost' = lost
  BY DEF Record, Logged, TypeOK, diskVars, FileKept
<1>2. SUFFICES ASSUME Fits', NEW s \in Slot, events'[s] <= n
               PROVE  Covered(events[s])'
  OBVIOUS
<1>f. Fits
  BY <1>1, <1>2, FileKeptFacts
<1>3. s # head /\ events'[s] = events[s]
  BY <1>1, <1>2 DEF TypeOK
<1>4. events[s] \in Nat /\ events[s] <= n /\ Covered(events[s])
  BY <1>2, <1>3, <1>f DEF TypeOK, CoveredTo
<1>5. CASE events[s] = Blank
  BY <1>3, <1>5 DEF Covered
<1>6. CASE events[s] # Blank
  <2>1. PICK c \in 1 .. Len(history) : c = events[s]
    BY <1>4, <1>6 DEF Blank, Logged
  <2>2. history'[c] = history[c]
    BY <1>1, <2>1 DEF TypeOK
  <2>3. Persisted(c)' <=> Persisted(c)
    BY <1>1, KeptPersisted
  <2>4. Covered(c)
    BY <1>4, <2>1
  <2>5. c # Blank /\ history'[c] = "LEDGER_COMMIT" => Persisted(c)' \/ c \in lost'
    BY <1>1, <2>2, <2>3, <2>4 DEF Covered
  <2>6. QED
    BY <1>3, <2>1, <2>5, CoveredAfter
<1>7. QED
  BY <1>5, <1>6

LEMMA RecordFacts ==
    ASSUME TypeOK, NEW type \in EventType, Record(type),
           \A s \in Slot : events[s] <= Logged
    PROVE  /\ (\A s \in Slot : events[s] <= Logged)'
           /\ CompleteSyncCoversRing' /\ UpToDateBeforeWrap'
           /\ pc' = pc
<1>1. /\ Logged' = Logged + 1 /\ Logged \in Nat /\ report' = "none" /\ pc' = pc
      /\ events' = [events EXCEPT ![head] = Logged + 1]
  BY DEF Record, Logged, TypeOK
<1>2. \A s \in Slot : events'[s] <= Logged'
  BY <1>1 DEF TypeOK
<1>3. QED
  BY <1>1, <1>2 DEF CompleteSyncCoversRing, UpToDateBeforeWrap

LEMMA FreeKeepsCover ==
    ASSUME IInv, Cover, NEW type \in EventType, LogIntoFree(type)
    PROVE  Cover'
<1> DEFINE s == sync_cursor
<1>1. TypeOK /\ Shape /\ Record(type) /\ (\A x \in Slot : events[x] <= Logged)
  BY DEF IInv, LogIntoFree, Cover
<1>2. /\ N \in Nat /\ tail \in Nat /\ head \in Nat /\ count \in Nat /\ s \in Nat
      /\ tail < N /\ head < N /\ s < N /\ count < N /\ Logged \in Nat
      /\ pc = "idle" /\ Pos(s) <= count
  BY <1>1, IndexFacts, SizeFacts DEF LogIntoFree, Shape
<1>3. /\ tail' = tail /\ count' = count + 1 /\ sync_cursor' = s
      /\ Logged' = Logged + 1 /\ head' = NextSlot(head)
  BY <1>1 DEF LogIntoFree, Record, Logged, TypeOK
<1>4. head = Wrap(N, tail + count)
  BY <1>1, <1>2, HeadValue DEF Shape, Wrap
<1>5. head' = Wrap(N, head + 1)
  <2>1. head' = IF head + 1 < N THEN head + 1 ELSE 0
    BY <1>1, <1>3, NextSlotValue DEF TypeOK
  <2>2. QED
    BY <1>2, <2>1 DEF Wrap
<1>6. CoveredTo(Number(Pos(s)))
  BY <1>2 DEF Cover
<1>7. ASSUME sync_cursor' # head' \/ count' < N
      PROVE  CoveredTo(Number(Pos(sync_cursor)))'
  <2>1. s # Wrap(N, head + 1) \/ count + 1 < N
    BY <1>3, <1>5, <1>7
  <2>2. Dist(N, tail, Wrap(N, head + 1), count + 1, s) = Dist(N, tail, head, count, s)
    BY <1>2, <1>4, <2>1, FreePlace DEF Pos
  <2>3. Pos(sync_cursor)' = Pos(s)
    BY <1>3, <1>5, <2>2 DEF Pos
  <2>4. Pos(s) \in Nat
    BY <1>1, <1>2, PosFacts DEF Shape, TypeOK
  <2>5. Number(Pos(sync_cursor))' = Number(Pos(s))
    BY <1>2, <1>3, <2>3, <2>4 DEF Number
  <2>6. Number(Pos(s)) \in Int /\ Number(Pos(s)) <= Logged
    BY <1>2, <2>4 DEF Number
  <2> DEFINE n == Number(Pos(s))
  <2>7. n \in Int /\ n <= Logged /\ CoveredTo(n) /\ Number(Pos(sync_cursor))' = n
    BY <1>6, <2>5, <2>6
  <2> HIDE DEF n
  <2>8. Fits' => \A x \in Slot : events'[x] <= n => Covered(events[x])'
    BY <1>1, <2>7, RecordKeepsCovered
  <2>9. QED
    BY <2>7, <2>8 DEF CoveredTo
<1>8. QED
  BY <1>1, <1>2, <1>7, RecordFacts DEF Cover

\* In a full ring a cursor that is not pushed along stays on its event.
LEMMA FullKeepsCover ==
    ASSUME IInv, Cover, NEW type \in EventType, LogOverOldest(type)
    PROVE  Cover'
<1> DEFINE s  == sync_cursor
           t2 == Wrap(N, tail + 1)
<1>1. TypeOK /\ Shape /\ Record(type) /\ (\A x \in Slot : events[x] <= Logged)
  BY DEF IInv, LogOverOldest, Cover
<1>2. /\ N \in Nat /\ tail \in Nat /\ head \in Nat /\ count = N /\ s \in Nat
      /\ tail < N /\ head < N /\ s < N /\ Logged \in Nat
      /\ pc = "idle" /\ Pos(s) <= count
  BY <1>1, IndexFacts, SizeFacts DEF LogOverOldest, Shape, N
<1>3. /\ tail' = NextSlot(tail) /\ count' = count
      /\ sync_cursor' = IF s = tail THEN NextSlot(tail) ELSE s
      /\ Logged' = Logged + 1 /\ head' = NextSlot(head)
  BY <1>1 DEF LogOverOldest, Record, Logged, TypeOK
<1>4. head = tail
  <2>1. head = IF tail + N < N THEN tail + N ELSE tail + N - N
    BY <1>1, <1>2, HeadValue DEF Shape
  <2>2. QED
    BY <1>2, <2>1
<1>5. NextSlot(tail) = t2
  <2>1. NextSlot(tail) = IF tail + 1 < N THEN tail + 1 ELSE 0
    BY <1>1, NextSlotValue DEF TypeOK
  <2>2. QED
    BY <1>2, <2>1 DEF Wrap
<1>6. ASSUME sync_cursor' # head' \/ count' < N
      PROVE  CoveredTo(Number(Pos(sync_cursor)))'
  <2>1. s # tail /\ s # t2 /\ sync_cursor' = s
    BY <1>2, <1>3, <1>4, <1>5, <1>6
  <2>2. Dist(N, t2, t2, N, s) = Dist(N, tail, tail, N, s) - 1
    BY <1>2, <2>1, FullPlace
  <2>3. Pos(sync_cursor)' = Pos(s) - 1
    BY <1>2, <1>3, <1>4, <1>5, <2>1, <2>2 DEF Pos
  <2>4. Pos(s) \in Nat
    BY <1>1, <1>2, PosFacts DEF Shape, TypeOK
  <2>5. Number(Pos(sync_cursor))' = Number(Pos(s))
    BY <1>2, <1>3, <2>3, <2>4 DEF Number
  <2>6. Number(Pos(s)) \in Int /\ Number(Pos(s)) <= Logged
    BY <1>2, <2>4 DEF Number
  <2>7. CoveredTo(Number(Pos(s)))
    BY <1>2, <1>4, <2>1 DEF Cover
  <2> DEFINE n == Number(Pos(s))
  <2>8. n \in Int /\ n <= Logged /\ CoveredTo(n) /\ Number(Pos(sync_cursor))' = n
    BY <2>5, <2>6, <2>7
  <2> HIDE DEF n
  <2>9. Fits' => \A x \in Slot : events'[x] <= n => Covered(events[x])'
    BY <1>1, <2>8, RecordKeepsCovered
  <2>10. QED
    BY <2>8, <2>9 DEF CoveredTo
<1>7. QED
  BY <1>1, <1>2, <1>6, RecordFacts DEF Cover

\* What is covered stays so, as long as the ledger fits its sector.
Dealt(e) == Persisted(e) \/ e \in lost

KeepsDealt ==
    Fits' => Fits /\ \A e \in 1 .. MaxEvents : Dealt(e) => Persisted(e)' \/ e \in lost'

LEMMA SyncKeepsCovered ==
    ASSUME TypeOK, SyncFrame, KeepsDealt, NEW n, CoveredTo(n)
    PROVE  Fits' => \A s \in Slot : events'[s] <= n => Covered(events[s])'
<1>1. events' = events /\ history' = history
  BY DEF SyncFrame, ringVars
<1>2. SUFFICES ASSUME Fits', NEW s \in Slot, events[s] <= n
               PROVE  Covered(events[s])'
  BY <1>1
<1>3. PICK c \in 0 .. MaxEvents : c = events[s]
  BY DEF TypeOK
<1>4. Covered(c)
  BY <1>2, <1>3 DEF CoveredTo, KeepsDealt
<1>5. c # Blank => c \in 1 .. MaxEvents
  BY BoundAssumption DEF Blank
<1>6. c # Blank /\ history'[c] = "LEDGER_COMMIT" => Persisted(c)' \/ c \in lost'
  BY <1>1, <1>2, <1>4, <1>5 DEF Covered, KeepsDealt, Dealt
<1>7. QED
  BY <1>1, <1>3, <1>6, CoveredAfter

LEMMA KeptDealt ==
    ASSUME FileKept, lost' = lost
    PROVE  KeepsDealt
  BY FileKeptFacts, KeptPersisted DEF KeepsDealt, Dealt

LEMMA AppendKeepsPersisted ==
    ASSUME TypeOK, NEW x \in 0 .. MaxEvents, FileAppend(x), Fits',
           NEW e \in 1 .. MaxEvents, Persisted(e)
    PROVE  Persisted(e)'
<1>1. Fits /\ size <= size' /\ \A i \in Place : i < size => sector'[i] = sector[i]
  BY AppendKeepsPrefix
<1>2. /\ size \in Nat /\ size' \in Nat /\ SECTOR \in Nat /\ size < SECTOR
      /\ TextLength[e] \in Nat
  <2>1. size' = size \/ \E d \in Nat : size' = size + d
    BY CopiedFacts DEF FileAppend, Appended, AppendFails
  <2>2. QED
    BY <1>1, <2>1, OffsetFacts, LedgerAssumption DEF Fits
<1>3. PICK i \in Written : /\ i + TextLength[e] <= size
                           /\ \A k \in 1 .. TextLength[e] : sector[i + k - 1] = Char(e, k)
  BY DEF Persisted
<1>4. i \in Place /\ i \in Nat /\ i \in Written'
  BY <1>1, <1>2, <1>3 DEF Written, Place
<1>5. i + TextLength[e] <= size'
  BY <1>1, <1>2, <1>3, <1>4
<1>6. ASSUME NEW k \in 1 .. TextLength[e]
      PROVE  sector'[i + k - 1] = Char(e, k)
  <2>1. i + k - 1 \in Place /\ i + k - 1 < size
    BY <1>2, <1>3, <1>4, <1>6 DEF Place
  <2>2. QED
    BY <1>1, <1>3, <2>1
<1>7. QED
  BY <1>4, <1>5, <1>6 DEF Persisted

LEMMA AppendKeepsCovered ==
    ASSUME TypeOK, NEW x \in 0 .. MaxEvents, FileAppend(x)
    PROVE  KeepsDealt
<1>1. lost \subseteq lost'
  BY DEF FileAppend, Appended, AppendFails
<1>2. Fits' => Fits
  BY AppendKeepsPrefix
<1>3. QED
  BY <1>1, <1>2, AppendKeepsPersisted DEF KeepsDealt, Dealt

\* The text itself has been handed over.
LEMMA AppendPersists ==
    ASSUME TypeOK, NEW e \in 1 .. MaxEvents, FileAppend(e), Fits'
    PROVE  Persisted(e)' \/ e \in lost'
<1>1. e \in 0 .. MaxEvents /\ e # NewLine /\ Length(e) = TextLength[e]
  BY BoundAssumption DEF NewLine, Length
<1>2. CASE AppendFails(e)
  BY <1>1, <1>2 DEF AppendFails
<1>3. CASE Appended(e)
  <2>1. /\ size \in Nat /\ size' = size + TextLength[e]
        /\ \A i \in Place : size <= i /\ i < size' => sector'[i] = Char(e, i - size + 1)
    BY <1>1, <1>3, AppendedText
  <2>2. /\ TextLength[e] \in Nat /\ TextLength[e] >= 1 /\ SECTOR \in Nat
        /\ size' < SECTOR
    BY <1>1, <1>3, LengthFacts, LedgerAssumption DEF Fits
  <2>3. size \in Written'
    BY <2>1, <2>2 DEF Written, Place
  <2>4. ASSUME NEW k \in 1 .. TextLength[e]
        PROVE  sector'[size + k - 1] = Char(e, k)
    <3>1. size + k - 1 \in Place /\ size <= size + k - 1 /\ size + k - 1 < size'
      BY <2>1, <2>2, <2>4 DEF Place
    <3>2. sector'[size + k - 1] = Char(e, (size + k - 1) - size + 1)
      BY <2>1, <3>1
    <3>3. (size + k - 1) - size + 1 = k
      BY <2>1, <2>2, <2>4
    <3>4. QED
      BY <3>2, <3>3
  <2>5. size + TextLength[e] <= size'
    BY <2>1, <2>2
  <2>6. QED
    BY <2>3, <2>4, <2>5 DEF Persisted
<1>4. QED
  BY <1>2, <1>3 DEF FileAppend

LEMMA SyncKeepsReports ==
    ASSUME TypeOK, SyncFrame, KeepsDealt, report' = report, Cover
    PROVE  /\ (\A s \in Slot : events[s] <= Logged)'
           /\ CompleteSyncCoversRing' /\ UpToDateBeforeWrap'
<1>1. /\ events' = events /\ history' = history /\ count' = count /\ Logged' = Logged
      /\ LiveCommits' = LiveCommits
  BY DEF SyncFrame, ringVars, Logged, LiveCommits, Live
<1>2. \A e \in LiveCommits : e \in 1 .. MaxEvents
  BY BoundAssumption DEF LiveCommits, Live, TypeOK, Blank
<1>3. RingPersisted => RingPersisted'
  BY <1>1, <1>2 DEF RingPersisted, KeepsDealt, Dealt
<1>4. QED
  BY <1>1, <1>3 DEF Cover, CompleteSyncCoversRing, UpToDateBeforeWrap

LEMMA EntryKeepsCover ==
    ASSUME IInv, Cover, SyncEntry
    PROVE  Cover'
<1> DEFINE n == Number(Pos(current))
           e == events[current]
<1>1. TypeOK /\ DumpIsLatestEvents /\ Shape
  BY DEF IInv
<1>2. /\ SyncFrame /\ pc = "entry" /\ pc' = "newline" /\ current # head
      /\ current' = current /\ report' = report /\ FileAppend(e) /\ e # Blank
  BY DEF SyncEntry, SyncFrame, InLedger
<1>3. current \in Slot /\ Pos(current) <= count /\ Pos(current) \in Nat
  BY <1>1, <1>2, PosFacts DEF TypeOK, Shape
<1>4. e = n + 1 /\ n \in Int
  BY <1>1, <1>2, <1>3, EventNumber, IndexFacts DEF Shape, Number
<1>5. CoveredTo(n) /\ n' = n
  BY <1>2, FrameFacts DEF Cover
<1>6. e \in 0 .. MaxEvents /\ e \in 1 .. MaxEvents
  BY <1>1, <1>2, <1>3, BoundAssumption DEF TypeOK, Blank
<1>k. KeepsDealt
  BY <1>1, <1>2, <1>6, AppendKeepsCovered
<1>c. PICK c \in 1 .. MaxEvents : c = e
  BY <1>6
<1>7. Fits' => Persisted(c)' \/ c \in lost'
  BY <1>1, <1>2, <1>c, AppendPersists
<1>8. events' = events /\ (\A s \in Slot : events[s] \in Nat)
  BY <1>1, <1>2, FrameFacts DEF TypeOK
<1> HIDE DEF n, e
<1>9. Fits' => \A s \in Slot : events'[s] <= n => Covered(events[s])'
  BY <1>1, <1>2, <1>5, <1>k, SyncKeepsCovered
<1>10. ASSUME Fits', NEW s \in Slot, events'[s] <= n + 1
       PROVE  Covered(events[s])'
  <2>1. events[s] <= n \/ events[s] = e
    BY <1>4, <1>8, <1>10
  <2>2. CASE events[s] <= n
    BY <1>8, <1>9, <1>10, <2>2
  <2>3. CASE events[s] = e
    BY <1>7, <1>8, <1>10, <1>c, <2>3, CoveredAfter
  <2>4. QED
    BY <2>1, <2>2, <2>3
<1>11. CoveredTo(n + 1)'
  BY <1>5, <1>10 DEF CoveredTo
<1>12. QED
  BY <1>1, <1>2, <1>k, <1>11, SyncKeepsReports DEF Cover, n

LEMMA AdvanceKeepsCover ==
    ASSUME IInv, Cover, SyncNewLine \/ SyncSkip
    PROVE  Cover'
<1> DEFINE k == Pos(current)
           m == Number(k + 1)
<1>1. TypeOK /\ DumpIsLatestEvents /\ Shape /\ LedgerBound
  BY DEF IInv
<1>2. /\ SyncFrame /\ pc # "idle" /\ pc' = "entry" /\ current # head
      /\ current' = NextSlot(current) /\ report' = report
  BY <1>1 DEF SyncNewLine, SyncSkip, SyncFrame, LedgerBound
<1>3. k \in Nat /\ k < count /\ Pos(NextSlot(current)) = k + 1 /\ k <= count /\ current \in Slot
  BY <1>1, <1>2, PosFacts DEF TypeOK, Shape
<1>4. Pos(current)' = k + 1
  BY <1>2, <1>3, FrameFacts
<1>5. Number(k) \in Int /\ m = Number(k) + 1 /\ Number(Pos(current))' = m
  <2>1. Number(k) \in Int /\ m = Number(k) + 1
    BY <1>1, <1>3, NumberFacts
  <2>2. Number(Pos(current))' = m
    BY <1>1, <1>2, <1>3, <1>4, FrameFacts DEF Number
  <2>3. QED
    BY <2>1, <2>2
<1>6. CoveredTo(m)
  <2>1. CASE SyncNewLine
    BY <1>5, <2>1 DEF SyncNewLine, Cover
  <2>2. CASE SyncSkip
    <3>1. CoveredTo(Number(k)) /\ Covered(events[current])
      BY <2>2 DEF SyncSkip, Cover, InLedger, Covered
    <3>2. events[current] = m
      BY <1>1, <1>2, <1>3, <1>5, EventNumber DEF Shape
    <3>3. \A s \in Slot : events[s] \in Nat
      BY <1>1 DEF TypeOK
    <3> HIDE DEF k, m
    <3>4. ASSUME Fits, NEW s \in Slot, events[s] <= m
          PROVE  Covered(events[s])
      <4>1. events[s] <= Number(k) \/ events[s] = m
        BY <1>5, <3>3, <3>4
      <4>2. QED
        BY <3>1, <3>2, <3>4, <4>1 DEF CoveredTo
    <3>5. QED
      BY <3>4 DEF CoveredTo
  <2>3. QED
    BY <2>1, <2>2
<1>7. KeepsDealt
  <2>1. CASE SyncNewLine
    BY <1>1, <2>1, BoundAssumption, AppendKeepsCovered DEF SyncNewLine, NewLine
  <2>2. CASE SyncSkip
    BY <2>2, KeptDealt DEF SyncSkip, diskVars, FileKept
  <2>3. QED
    BY <2>1, <2>2
<1> HIDE DEF m
<1>8. Fits' => \A s \in Slot : events'[s] <= m => Covered(events[s])'
  BY <1>1, <1>2, <1>6, <1>7, SyncKeepsCovered
<1>9. CoveredTo(Number(Pos(current)))'
  BY <1>5, <1>8 DEF CoveredTo
<1>10. QED
  BY <1>1, <1>2, <1>7, <1>9, SyncKeepsReports DEF Cover

\* At the head everything in the ring is covered, be it a sync that ends there or
\* one that finds nothing to do in a ring that has not been full.
LEMMA EndpointKeepsCover ==
    ASSUME IInv, Cover, SyncUpToDate \/ SyncStart \/ SyncDone
    PROVE  Cover'
<1>1. TypeOK /\ Shape /\ (\A s \in Slot : events[s] <= Logged) /\ head \in Slot
  BY DEF IInv, Cover, TypeOK
<1>2. /\ SyncFrame /\ FileKept /\ lost' = lost
      /\ (\A s \in Slot : events[s] <= Logged)'
  BY <1>1 DEF SyncUpToDate, SyncStart, SyncDone, SyncFrame, ringVars, diskVars, FileKept, Logged
<1>k. KeepsDealt
  BY <1>2, KeptDealt
<1>3. \A n : CoveredTo(n) =>
          (Fits' => \A s \in Slot : events'[s] <= n => Covered(events[s])')
  <2>1. TypeOK /\ SyncFrame /\ KeepsDealt
    BY <1>1, <1>2, <1>k
  <2>2. QED
    BY <2>1, SyncKeepsCovered
<1>4. Number(Pos(head)) = Logged
  BY <1>1, IndexFacts DEF Pos, Dist, Number
<1>5. /\ events' = events /\ head' = head /\ count' = count /\ history' = history
      /\ LiveCommits' = LiveCommits
  BY <1>2 DEF SyncFrame, ringVars, LiveCommits, Live
<1>r. RingPersisted => RingPersisted'
  BY <1>2, <1>5, FileKeptFacts, KeptPersisted DEF RingPersisted
<1>6. CASE SyncUpToDate
  <2>1. /\ pc = "idle" /\ pc' = "idle" /\ sync_cursor = head /\ sync_cursor' = sync_cursor
        /\ report' = "up_to_date"
    BY <1>6 DEF SyncUpToDate
  <2>2. count < N => CoveredTo(Logged)
    BY <1>4, <2>1 DEF Cover
  <2>3. count < N => CoveredTo(Number(Pos(sync_cursor)))'
    <3>1. Number(Pos(sync_cursor))' = Logged
      BY <1>2, <1>4, <2>1, FrameFacts
    <3>2. QED
      BY <1>3, <2>2, <3>1 DEF CoveredTo
  <2>4. count < N => RingPersisted
    BY <1>1, <2>2, CoveredAll
  <2>5. CompleteSyncCoversRing' /\ UpToDateBeforeWrap'
    BY <1>5, <1>r, <2>1, <2>4 DEF CompleteSyncCoversRing, UpToDateBeforeWrap, N
  <2>6. QED
    BY <1>2, <1>5, <2>1, <2>3, <2>5 DEF Cover
<1>7. CASE SyncStart
  <2>1. /\ pc = "idle" /\ pc' = "entry" /\ sync_cursor # head /\ current' = sync_cursor
        /\ report' = report
    BY <1>7 DEF SyncStart
  <2>2. CoveredTo(Number(Pos(sync_cursor)))
    BY <2>1 DEF Cover
  <2>3. Number(Pos(current))' = Number(Pos(sync_cursor))
    BY <1>2, <2>1, FrameFacts
  <2>4. CoveredTo(Number(Pos(current)))'
    BY <1>3, <2>2, <2>3 DEF CoveredTo
  <2>5. QED
    BY <1>1, <1>2, <1>k, <2>1, <2>4, SyncKeepsReports DEF Cover
<1>8. CASE SyncDone
  <2>1. /\ pc = "entry" /\ pc' = "idle" /\ current = head /\ sync_cursor' = head
        /\ report' = "complete"
    BY <1>8 DEF SyncDone
  <2>2. CoveredTo(Logged)
    BY <1>4, <2>1 DEF Cover
  <2>3. CoveredTo(Number(Pos(sync_cursor)))'
    <3>1. Number(Pos(sync_cursor))' = Logged
      BY <1>2, <1>4, <2>1, FrameFacts
    <3>2. QED
      BY <1>3, <2>2, <3>1 DEF CoveredTo
  <2>4. RingPersisted
    BY <1>1, <2>2, CoveredAll
  <2>5. CompleteSyncCoversRing' /\ UpToDateBeforeWrap'
    BY <1>r, <2>1, <2>4 DEF CompleteSyncCoversRing, UpToDateBeforeWrap
  <2>6. QED
    BY <1>2, <2>1, <2>3, <2>5 DEF Cover
<1>9. QED
  BY <1>6, <1>7, <1>8

\* An empty ring holds nothing that waits.
LEMMA FreshCover ==
    ASSUME TypeOK, events = [s \in Slot |-> Blank], pc = "idle", report = "none"
    PROVE  Cover
<1>1. Logged \in Nat
  BY IndexFacts
<1>2. \A s \in Slot : events[s] = 0 /\ events[s] <= Logged /\ Covered(events[s])
  BY <1>1 DEF Blank, Covered
<1>3. QED
  BY <1>2 DEF Cover, CoveredTo, CompleteSyncCoversRing, UpToDateBeforeWrap

LEMMA InitCover == Init => Cover
  BY InitType, FreshCover DEF Init

LEMMA StepCover == IInv /\ Cover /\ [Next]_vars => Cover'
<1> SUFFICES ASSUME IInv, Cover, [Next]_vars
             PROVE  Cover'
  OBVIOUS
<1>1. CASE \E type \in EventType : watcher_log_event(type)
  BY <1>1, FreeKeepsCover, FullKeepsCover DEF watcher_log_event
<1>2. CASE SyncUpToDate \/ SyncStart \/ SyncDone
  BY <1>2, EndpointKeepsCover
<1>3. CASE SyncEntry
  BY <1>3, EntryKeepsCover
<1>4. CASE SyncNewLine \/ SyncSkip
  BY <1>4, AdvanceKeepsCover
<1>5. CASE Reboot
  <2>1. TypeOK'
    BY StepType DEF IInv
  <2>2. (TypeOK /\ events = [s \in Slot |-> Blank] /\ pc = "idle" /\ report = "none"
           => Cover)'
    BY FreshCover, PTL
  <2>3. QED
    BY <1>5, <2>1, <2>2 DEF Reboot, Fresh
<1>6. CASE UNCHANGED vars
  <2>k. TypeOK /\ KeepsDealt
    BY <1>6, KeptDealt DEF vars, diskVars, FileKept, IInv
  <2>1. /\ SyncFrame /\ pc' = pc
        /\ current' = current /\ sync_cursor' = sync_cursor /\ report' = report
    BY <1>6 DEF vars, syncVars, ringVars, SyncFrame
  <2>2. /\ Number(Pos(sync_cursor))' = Number(Pos(sync_cursor))
        /\ Number(Pos(current))' = Number(Pos(current))
        /\ head' = head /\ count' = count
    BY <2>1, FrameFacts
  <2>3. \A n : CoveredTo(n) =>
            (Fits' => \A s \in Slot : events'[s] <= n => Covered(events[s])')
    BY <2>k, <2>1, SyncKeepsCovered
  <2>4. /\ pc' = "idle" /\ (sync_cursor' # head' \/ count' < N)
             => CoveredTo(Number(Pos(sync_cursor)))'
        /\ pc' = "entry"   => CoveredTo(Number(Pos(current)))'
        /\ pc' = "newline" => CoveredTo(Number(Pos(current)) + 1)'
    BY <2>1, <2>2, <2>3 DEF Cover, CoveredTo
  <2>5. QED
    BY <2>k, <2>1, <2>4, SyncKeepsReports DEF Cover
<1>7. QED
  BY <1>1, <1>2, <1>3, <1>4, <1>5, <1>6 DEF Next, SyncStep

LEMMA SpecCover == Spec => []Cover
  BY InitCover, StepCover, SpecIInv, PTL DEF Spec

(***************************************************************************)
(* The results.                                                            *)
(***************************************************************************)
\* agent.why shows exactly the newest events of this boot, oldest first, for
\* every size of the ring: eviction in watcher_log_event skips and repeats none.
THEOREM DumpShowsLatest == Spec => []DumpIsLatestEvents
  BY SpecIInv, PTL DEF IInv

LEMMA IInvRingShape == IInv => RingShape
<1> SUFFICES ASSUME IInv
             PROVE  RingShape
  OBVIOUS
<1>1. TypeOK /\ Shape
  BY DEF IInv
<1>2. sync_cursor \in Slot /\ current \in Slot /\ count \in Nat
  BY <1>1, IndexFacts DEF TypeOK
<1>3. \E k \in 0 .. count : sync_cursor = After(tail, k)
  <2>1. Pos(sync_cursor) \in 0 .. count /\ sync_cursor = After(tail, Pos(sync_cursor))
    BY <1>1, <1>2, PosFacts DEF Shape
  <2>2. QED
    BY <2>1
<1>4. pc # "idle" => \E k \in 0 .. count : current = After(tail, k)
  <2>1. SUFFICES ASSUME pc # "idle"
                 PROVE  \E k \in 0 .. count : current = After(tail, k)
    OBVIOUS
  <2>2. Pos(current) \in 0 .. count /\ current = After(tail, Pos(current))
    BY <1>1, <1>2, <2>1, PosFacts DEF Shape
  <2>3. QED
    BY <2>2
<1>5. QED
  BY <1>1, <1>3, <1>4 DEF RingShape, Shape

\* head, tail, count and the cursors of watcher_sync_to_disk agree, for every
\* size of the ring, so a sync never reads a slot outside the window of events.
THEOREM RingKeepsShape == Spec => []RingShape
  BY SpecIInv, IInvRingShape, PTL

\* As long as LEDGER.LOG fits its sector and each write of its data has been carried out,
\* watcher_sync_to_disk puts no text there twice, none out of the order of the commits and
\* none within another: for every size of the ring and of the sector, every length of
\* the texts, and over any number of syncs, appends that fail and boots.
THEOREM LedgerIsIdempotent == Spec => []LedgerInOrderWithoutDuplicates
  BY SpecIInv, PTL DEF IInv

\* "Sync Complete" is true, for every size of the ring and any mixture of events,
\* syncs, failed appends and boots, as long as LEDGER.LOG fits its sector: each commit the
\* ring holds is in the file, all of its text, or its append has failed.
THEOREM CompleteIsComplete == Spec => []CompleteSyncCoversRing
  BY SpecCover, PTL DEF Cover

\* So is "Ledger is up to date", as long as the ring has room.
THEOREM UpToDateWithRoom == Spec => []UpToDateBeforeWrap
  BY SpecCover, PTL DEF Cover

LEMMA WedgedStep ==
    IInv /\ [Next]_vars =>
        [Wedged => boots' = boots + 1 \/ (Wedged' /\ UNCHANGED <<sector, size>>)]_vars
<1> SUFFICES ASSUME IInv, Next, Wedged
             PROVE  boots' = boots + 1 \/ (Wedged' /\ UNCHANGED <<sector, size>>)
  BY DEF vars
<1>1. TypeOK /\ Shape /\ pc = "idle" /\ sync_cursor = head /\ count = N
  BY DEF IInv, Wedged, N
<1>2. head = tail
  <2>1. head = IF tail + N < N THEN tail + N ELSE tail + N - N
    BY <1>1, HeadValue DEF Shape
  <2>2. QED
    BY <1>1, <2>1, IndexFacts
<1>3. ~ \E type \in EventType : LogIntoFree(type)
  BY <1>1, IndexFacts DEF LogIntoFree, N
<1>4. ASSUME NEW type \in EventType, LogOverOldest(type)
      PROVE  Wedged' /\ UNCHANGED <<sector, size>>
  BY <1>1, <1>2, <1>4 DEF LogOverOldest, Record, Wedged, N, diskVars
<1>5. CASE SyncUpToDate
  BY <1>5 DEF SyncUpToDate, Wedged, ringVars, diskVars
<1>6. ~SyncStart /\ ~SyncStep
  BY <1>1 DEF SyncStart, SyncStep, SyncEntry, SyncNewLine, SyncSkip, SyncDone
<1>7. CASE Reboot
  BY <1>7 DEF Reboot
<1>8. QED
  BY <1>3, <1>4, <1>5, <1>6, <1>7 DEF Next, watcher_log_event

\* Once the ring is full with the cursor on the head, no event reaches
\* LEDGER.LOG before the next boot, however many syncs are asked for.
THEOREM WedgedForGood == Spec => WedgedUntilBoot
  BY SpecIInv, WedgedStep, PTL DEF Spec, WedgedUntilBoot

(***************************************************************************)
(* Syncs come to an end.                                                   *)
(***************************************************************************)
\* What a running sync has left: an entry and its newline for each slot up to the head,
\* and the report.
ToWrite ==
    IF pc = "idle" THEN 0
    ELSE 2 * (count - Pos(current)) + (IF pc = "entry" THEN 1 ELSE 0)

LEMMA ToWriteBounds ==
    ASSUME IInv
    PROVE  ToWrite \in 0 .. 2 * N + 1 /\ (pc # "idle" => ToWrite >= 1)
<1>1. TypeOK /\ Shape /\ LedgerBound
  BY DEF IInv
<1>2. current \in Slot /\ head = After(tail, count) /\ count \in Nat /\ count <= N /\ N \in Nat
  BY <1>1, IndexFacts DEF TypeOK, Shape
<1>3. CASE pc = "idle"
  BY <1>2, <1>3 DEF ToWrite
<1>4. CASE pc # "idle"
  <2>1. /\ Pos(current) \in Nat /\ Pos(current) <= count
        /\ current # head => Pos(current) < count
    BY <1>1, <1>2, <1>4, PosFacts DEF Shape
  <2>2. pc = "entry" \/ current # head
    BY <1>1, <1>4 DEF TypeOK, LedgerBound
  <2>3. ToWrite = 2 * (count - Pos(current)) + (IF pc = "entry" THEN 1 ELSE 0)
    BY <1>4 DEF ToWrite
  <2>4. QED
    BY <1>2, <2>1, <2>2, <2>3
<1>5. QED
  BY <1>3, <1>4

LEMMA AdvanceGetsOn ==
    ASSUME IInv, SyncNewLine \/ SyncSkip
    PROVE  ToWrite' < ToWrite
<1>1. TypeOK /\ Shape /\ LedgerBound
  BY DEF IInv
<1>2. /\ SyncFrame /\ pc \in {"entry", "newline"} /\ pc' = "entry" /\ current # head
      /\ current' = NextSlot(current) /\ (SyncSkip => pc = "entry")
  BY <1>1 DEF SyncNewLine, SyncSkip, SyncFrame, LedgerBound
<1>3. /\ Pos(current) \in Nat /\ Pos(current) < count
      /\ Pos(NextSlot(current)) = Pos(current) + 1 /\ count \in Nat
  BY <1>1, <1>2, PosFacts, IndexFacts DEF TypeOK, Shape
<1>4. count' = count /\ Pos(current)' = Pos(current) + 1
  BY <1>2, <1>3, FrameFacts DEF Pos
<1>5. ToWrite' = 2 * (count - (Pos(current) + 1)) + 1
  BY <1>2, <1>4 DEF ToWrite
<1>6. ToWrite \in {2 * (count - Pos(current)), 2 * (count - Pos(current)) + 1}
  BY <1>2, <1>3 DEF ToWrite
<1>7. QED
  BY <1>3, <1>5, <1>6

LEMMA SyncGetsOn ==
    ASSUME IInv, Next, pc # "idle"
    PROVE  ToWrite' < ToWrite
<1>1. CASE SyncEntry
  <2>1. SyncFrame /\ pc = "entry" /\ pc' = "newline" /\ current' = current /\ current # head
    BY <1>1 DEF SyncEntry, SyncFrame
  <2>2. Pos(current) \in Nat /\ Pos(current) < count /\ count \in Nat
    BY <2>1, PosFacts, IndexFacts DEF IInv, TypeOK, Shape
  <2>3. count' = count /\ Pos(current)' = Pos(current)
    BY <2>1, FrameFacts DEF Pos
  <2>4. ToWrite = 2 * (count - Pos(current)) + 1 /\ ToWrite' = 2 * (count - Pos(current)) + 0
    BY <2>1, <2>3 DEF ToWrite
  <2>5. QED
    BY <2>2, <2>4
<1>2. CASE SyncNewLine \/ SyncSkip
  BY <1>2, AdvanceGetsOn
<1>3. CASE SyncDone \/ Reboot
  <2>1. ToWrite' = 0
    BY <1>3 DEF SyncDone, Reboot, Fresh, ToWrite
  <2>2. QED
    BY <2>1, ToWriteBounds, SizeFacts
<1>4. QED
  BY <1>1, <1>2, <1>3 DEF Next, SyncStep, watcher_log_event, LogIntoFree, LogOverOldest,
     SyncUpToDate, SyncStart

\* The loop of watcher_sync_to_disk around the ring: each of its steps leaves less to
\* write, so a sync makes at most two appends for each event of the ring, wherever its
\* cursor stands and whichever of the appends fail.
THEOREM SyncsGetOn == Spec => [][pc # "idle" => ToWrite' < ToWrite]_vars
<1>1. IInv /\ [Next]_vars => [pc # "idle" => ToWrite' < ToWrite]_vars
  BY SyncGetsOn
<1>2. QED
  BY <1>1, SpecIInv, PTL DEF Spec

LEMMA SyncsAreBounded == Spec => [](ToWrite \in 0 .. 2 * N + 1)
<1>1. IInv => ToWrite \in 0 .. 2 * N + 1
  BY ToWriteBounds
<1>2. QED
  BY <1>1, SpecIInv, PTL
=============================================================================

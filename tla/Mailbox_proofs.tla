--------------------------- MODULE Mailbox_proofs ---------------------------
(***************************************************************************)
(* For every queue size, message type and payload: the types of the        *)
(* mailbox ring, and that the ring implements the bounded FIFO.            *)
(***************************************************************************)
EXTENDS Mailbox, TLAPS

\* The modulo of ipc_kernel_send and SYS_IPC_RECV wraps only at the last slot.
LEMMA NextSlotValue ==
    ASSUME NEW i \in Slot
    PROVE  /\ NextSlot(i) = IF i + 1 < IPC_QUEUE_SIZE THEN i + 1 ELSE 0
           /\ NextSlot(i) \in Slot
<1> USE QueueSizeAssumption
<1>1. CASE i + 1 < IPC_QUEUE_SIZE
  <2>1. (i + 1) % IPC_QUEUE_SIZE = i + 1
    BY <1>1 DEF Slot
  <2>2. QED
    BY <1>1, <2>1 DEF NextSlot, Slot
<1>2. CASE i + 1 = IPC_QUEUE_SIZE
  <2>1. (i + 1) % IPC_QUEUE_SIZE = 0
    BY <1>2 DEF Slot
  <2>2. QED
    BY <1>2, <2>1 DEF NextSlot, Slot
<1>3. QED
  BY <1>1, <1>2 DEF Slot

(***************************************************************************)
(* The head and tail indices never leave the ring and every slot holds a   *)
(* message: the accesses of ipc_kernel_send and SYS_IPC_RECV are in bounds.*)
(***************************************************************************)
LEMMA SendKeepsTypes ==
    ASSUME TypeOK, NEW m \in Message, ipc_kernel_send(m)
    PROVE  TypeOK'
<1>1. CASE SendDropped(m)
  BY <1>1 DEF SendDropped, TypeOK, vars
<1>2. CASE SendStored(m)
  BY <1>2, NextSlotValue DEF SendStored, TypeOK
<1>3. QED
  BY <1>1, <1>2 DEF ipc_kernel_send

LEMMA ReceiveKeepsTypes ==
    ASSUME TypeOK, SYS_IPC_RECV
    PROVE  TypeOK'
<1>1. CASE ReceiveNothing
  BY <1>1 DEF ReceiveNothing, RxBuffer, TypeOK
<1>2. CASE ReceiveMessage
  BY <1>2, NextSlotValue DEF ReceiveMessage, RxBuffer, Message, TypeOK
<1>3. QED
  BY <1>1, <1>2 DEF SYS_IPC_RECV

THEOREM MailboxTypeCorrect == Spec => []TypeOK
<1>1. Init => TypeOK
  BY QueueSizeAssumption DEF Init, TypeOK, Slot, RxBuffer, Message
<1>2. TypeOK /\ Next => TypeOK'
  BY SendKeepsTypes, ReceiveKeepsTypes DEF Next
<1>3. TypeOK /\ UNCHANGED vars => TypeOK'
  BY DEF TypeOK, vars
<1>4. QED
  BY <1>1, <1>2, <1>3, PTL DEF Spec

(***************************************************************************)
(* The shape of the pending messages.                                      *)
(***************************************************************************)
LEMMA CountRange ==
    ASSUME TypeOK
    PROVE  /\ Count \in 0 .. IPC_QUEUE_SIZE - 1
           /\ Count = 0 <=> ipc_head = ipc_tail
           /\ NextSlot(ipc_tail) = ipc_head <=> Count = IPC_QUEUE_SIZE - 1
<1>1. /\ ipc_head \in Nat /\ ipc_head < IPC_QUEUE_SIZE
      /\ ipc_tail \in Nat /\ ipc_tail < IPC_QUEUE_SIZE
  BY QueueSizeAssumption DEF TypeOK, Slot
<1>2. NextSlot(ipc_tail) = IF ipc_tail + 1 < IPC_QUEUE_SIZE THEN ipc_tail + 1 ELSE 0
  BY NextSlotValue DEF TypeOK
<1>3. QED
  BY <1>1, <1>2, QueueSizeAssumption DEF Count

LEMMA SlotAtRange ==
    ASSUME TypeOK, NEW k \in 0 .. IPC_QUEUE_SIZE - 1
    PROVE  /\ SlotAt(k) \in Slot
           /\ SlotAt(k) = ipc_tail => k = Count
  BY QueueSizeAssumption DEF TypeOK, Count, SlotAt, Slot

LEMMA SlotAtCount ==
    ASSUME TypeOK
    PROVE  SlotAt(Count) = ipc_tail
  BY QueueSizeAssumption DEF TypeOK, Count, SlotAt, Slot

PendingWellFormed ==
    /\ Pending \in Seq(Message)
    /\ Len(Pending) = Count
    /\ DOMAIN Pending = 1 .. Count

LEMMA PendingIsSequence == TypeOK => PendingWellFormed
<1> SUFFICES ASSUME TypeOK
             PROVE  PendingWellFormed
  OBVIOUS
<1>1. Count \in Nat /\ Count <= IPC_QUEUE_SIZE - 1
  BY CountRange, QueueSizeAssumption
<1>2. \A i \in 1 .. Count : ipc_queue[SlotAt(i - 1)] \in Message
  <2> TAKE i \in 1 .. Count
  <2>1. i - 1 \in 0 .. IPC_QUEUE_SIZE - 1
    BY <1>1, QueueSizeAssumption
  <2>2. SlotAt(i - 1) \in Slot
    BY <2>1, SlotAtRange
  <2>3. QED
    BY <2>2 DEF TypeOK
<1>3. Pending \in [1 .. Count -> Message]
  BY <1>2 DEF Pending
<1>4. QED
  BY <1>1, <1>3 DEF PendingWellFormed

\* The same of the state after a step.
LEMMA PendingIsSequenceNext == TypeOK' => PendingWellFormed'
  BY PendingIsSequence, PTL

(***************************************************************************)
(* The step of each operation on the pending messages.                     *)
(***************************************************************************)
\* A stored message becomes the youngest pending one and moves no other.
LEMMA StoredIsAppended ==
    ASSUME TypeOK, TypeOK', NEW m \in Message, SendStored(m)
    PROVE  Pending' = Append(Pending, m)
<1>1. Count' = Count + 1
  <2>1. /\ ipc_head \in Nat /\ ipc_head < IPC_QUEUE_SIZE
        /\ ipc_tail \in Nat /\ ipc_tail < IPC_QUEUE_SIZE
    BY QueueSizeAssumption DEF TypeOK, Slot
  <2>2. ipc_tail' = IF ipc_tail + 1 < IPC_QUEUE_SIZE THEN ipc_tail + 1 ELSE 0
    BY NextSlotValue DEF TypeOK, SendStored
  <2>3. ipc_head' = ipc_head /\ ipc_tail' # ipc_head
    BY DEF SendStored
  <2>4. QED
    BY <2>1, <2>2, <2>3, QueueSizeAssumption DEF Count
<1>2. Count < IPC_QUEUE_SIZE - 1
  BY CountRange, QueueSizeAssumption DEF SendStored
<1>3. \A k \in 0 .. Count : SlotAt(k)' = SlotAt(k)
  BY DEF SendStored, SlotAt
<1>4. \A i \in 1 .. Count : Pending'[i] = Pending[i]
  <2> TAKE i \in 1 .. Count
  <2>1. i - 1 \in 0 .. IPC_QUEUE_SIZE - 1 /\ i - 1 \in 0 .. Count /\ i - 1 # Count
    BY CountRange, QueueSizeAssumption
  <2>2. SlotAt(i - 1) \in Slot /\ SlotAt(i - 1) # ipc_tail
    BY <2>1, SlotAtRange
  <2>3. ipc_queue'[SlotAt(i - 1)] = ipc_queue[SlotAt(i - 1)]
    BY <2>2 DEF SendStored, TypeOK
  <2>4. i \in 1 .. Count'
    BY <1>1, CountRange, QueueSizeAssumption
  <2>5. Pending'[i] = ipc_queue'[SlotAt(i - 1)]
    BY <2>1, <2>4, <1>3 DEF Pending
  <2>6. QED
    BY <2>3, <2>5 DEF Pending
<1>5. Pending'[Count + 1] = m
  <2>1. Count \in 0 .. Count /\ (Count + 1) - 1 = Count /\ Count + 1 \in 1 .. Count'
    BY <1>1, CountRange, QueueSizeAssumption
  <2>2. Pending'[Count + 1] = ipc_queue'[ipc_tail]
    BY <2>1, <1>3, SlotAtCount DEF Pending
  <2>3. QED
    BY <2>2 DEF SendStored, TypeOK
<1>6. Count \in Nat
  BY CountRange
<1>7. Pending' \in Seq(Message) /\ Len(Pending') = Count + 1
  BY <1>1, PendingIsSequenceNext DEF PendingWellFormed
<1>8. QED
  BY <1>4, <1>5, <1>6, <1>7, PendingIsSequence DEF PendingWellFormed

\* A received message is the oldest pending one and leaves the others in order.
LEMMA ReceivedIsHead ==
    ASSUME TypeOK, TypeOK', ReceiveMessage
    PROVE  /\ Pending # << >>
           /\ rx' = Head(Pending)
           /\ Pending' = Tail(Pending)
<1>1. Count > 0 /\ Count \in Nat /\ Count <= IPC_QUEUE_SIZE - 1
  BY CountRange, QueueSizeAssumption DEF ReceiveMessage
<1> DEFINE h == ipc_head
           n == IPC_QUEUE_SIZE
<1>a. /\ n \in Nat /\ h \in Nat /\ h < n
      /\ ipc_tail \in Nat /\ ipc_tail < n
  BY QueueSizeAssumption DEF TypeOK, Slot
<1>b. /\ ipc_head' = IF h + 1 < n THEN h + 1 ELSE 0
      /\ ipc_tail' = ipc_tail
      /\ h # ipc_tail
  BY NextSlotValue DEF TypeOK, ReceiveMessage
<1>2. Count' = Count - 1
  BY <1>a, <1>b DEF Count
<1>3. Pending \in Seq(Message) /\ Len(Pending) = Count
  BY PendingIsSequence DEF PendingWellFormed
<1>4. SlotAt(0) = ipc_head
  BY QueueSizeAssumption DEF SlotAt, TypeOK, Slot
<1>5. Pending[1] = ipc_queue[ipc_head]
  BY <1>1, <1>4 DEF Pending
<1>6. \A k \in 0 .. Count - 2 : SlotAt(k)' = SlotAt(k + 1)
  BY <1>1, <1>a, <1>b DEF SlotAt
<1>7. \A i \in 1 .. Count - 1 : Pending'[i] = Pending[i + 1]
  <2> TAKE i \in 1 .. Count - 1
  <2>1. /\ i \in 1 .. Count'
        /\ i - 1 \in 0 .. Count - 2
        /\ i + 1 \in 1 .. Count
        /\ (i - 1) + 1 = (i + 1) - 1
    BY <1>1, <1>2, QueueSizeAssumption
  <2>2. Pending'[i] = ipc_queue'[SlotAt(i - 1)']
    BY <2>1 DEF Pending
  <2>3. Pending'[i] = ipc_queue[SlotAt((i + 1) - 1)]
    BY <2>1, <2>2, <1>6 DEF ReceiveMessage
  <2>4. QED
    BY <2>1, <2>3 DEF Pending
<1>8. Pending' \in Seq(Message) /\ Len(Pending') = Count - 1
  BY <1>2, PendingIsSequenceNext DEF PendingWellFormed
<1>9. Pending' = Tail(Pending)
  BY <1>1, <1>3, <1>7, <1>8
<1>10. QED
  BY <1>1, <1>3, <1>5, <1>9 DEF ReceiveMessage

(***************************************************************************)
(* The ring of syscall.c implements the bounded first-in first-out queue,  *)
(* for every IPC_QUEUE_SIZE.                                               *)
(***************************************************************************)
THEOREM MailboxImplementsFifo == Spec => ImplementsFifo
<1>1. Init => Fifo!Init
  <2> SUFFICES ASSUME Init PROVE Fifo!Init
    OBVIOUS
  <2>1. TypeOK
    BY QueueSizeAssumption DEF Init, TypeOK, Slot, RxBuffer, Message
  <2>2. Count = 0
    BY DEF Init, Count
  <2>3. Pending = << >>
    BY <2>1, <2>2, PendingIsSequence DEF PendingWellFormed
  <2>4. QED
    BY <2>3 DEF Init, Fifo!Init, NONE, Fifo!NONE
<1>2. TypeOK /\ TypeOK' /\ [Next]_vars => [Fifo!Next]_(Fifo!vars)
  <2> SUFFICES ASSUME TypeOK, TypeOK', [Next]_vars
               PROVE  [Fifo!Next]_(Fifo!vars)
    OBVIOUS
  <2>1. ASSUME NEW m \in Message, SendStored(m)
        PROVE  Fifo!Send(m)
    <3>1. Len(Pending) < IPC_QUEUE_SIZE - 1
      BY <2>1, CountRange, PendingIsSequence, QueueSizeAssumption DEF SendStored, PendingWellFormed
    <3>2. Pending' = Append(Pending, m)
      BY <2>1, StoredIsAppended
    <3>3. QED
      BY <2>1, <3>1, <3>2 DEF Fifo!Send, Fifo!Enqueue, SendStored
  <2>2. ASSUME NEW m \in Message, SendDropped(m)
        PROVE  UNCHANGED Fifo!vars
    BY <2>2 DEF SendDropped, vars, Fifo!vars, Pending, Count, SlotAt
  <2>3. CASE ReceiveMessage
    BY <2>3, ReceivedIsHead DEF Fifo!Next, Fifo!Receive, Fifo!ReceiveMessage
  <2>4. CASE ReceiveNothing
    <3>1. Pending = << >>
      BY <2>4, CountRange, PendingIsSequence DEF ReceiveNothing, PendingWellFormed
    <3>2. Pending' = Pending
      BY <2>4 DEF ReceiveNothing, Pending, Count, SlotAt
    <3>3. QED
      BY <2>4, <3>1, <3>2
      DEF ReceiveNothing, Fifo!Next, Fifo!Receive, Fifo!ReceiveNothing, NONE, Fifo!NONE
  <2>5. Message = Fifo!Message
    BY DEF Message, Fifo!Message
  <2>6. UNCHANGED vars => UNCHANGED Fifo!vars
    BY DEF vars, Fifo!vars, Pending, Count, SlotAt
  <2>7. QED
    BY <2>6, <2>5, <2>1, <2>2, <2>3, <2>4
    DEF Next, ipc_kernel_send, SYS_IPC_RECV, Fifo!Next
<1>3. QED
  BY <1>1, <1>2, MailboxTypeCorrect, PTL DEF Spec, ImplementsFifo, Fifo!Spec
=============================================================================

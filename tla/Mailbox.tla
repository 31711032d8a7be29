------------------------------ MODULE Mailbox ------------------------------
(***************************************************************************)
(* The global IPC mailbox of kernel/syscall.c: a ring of IPC_QUEUE_SIZE    *)
(* slots with a head and a tail index and no counter.  One slot always     *)
(* stays empty, which is how head = tail means "empty" and nothing else.   *)
(* The kernel runs system calls to completion on one core with interrupts  *)
(* masked, so a send and a receive are each one step.                      *)
(***************************************************************************)
EXTENDS Naturals, Sequences

CONSTANTS IPC_QUEUE_SIZE, MsgType, Payload

ASSUME QueueSizeAssumption == IPC_QUEUE_SIZE \in Nat \ {0}
ASSUME MsgTypeAssumption == "NONE" \notin MsgType

NONE == "NONE"
Message  == [type : MsgType, payload : Payload]
RxBuffer == [type : MsgType \cup {NONE}, payload : Payload]
Slot     == 0 .. IPC_QUEUE_SIZE - 1

VARIABLES
    ipc_queue,  \* static os_message_t ipc_queue[IPC_QUEUE_SIZE]
    ipc_head,   \* the slot the next receive reads
    ipc_tail,   \* the slot the next send writes
    rx          \* the caller's buffer of SYS_IPC_RECV

vars == <<ipc_queue, ipc_head, ipc_tail, rx>>

\* Faulty variant: the index is not wrapped.
NextSlotUnwrapped(i) == i + 1

\* The successor of a slot: (i + 1) % IPC_QUEUE_SIZE.
NextSlot(i) == (i + 1) % IPC_QUEUE_SIZE

TypeOK ==
    /\ ipc_queue \in [Slot -> Message]
    /\ ipc_head \in Slot
    /\ ipc_tail \in Slot
    /\ rx \in RxBuffer

\* The slots are zeroed BSS that no receive reads before a send wrote them, so
\* their first contents are arbitrary.
Init ==
    /\ ipc_queue \in {[s \in Slot |-> m] : m \in Message}
    /\ ipc_head = 0
    /\ ipc_tail = 0
    /\ rx \in [type : {NONE}, payload : Payload]

(***************************************************************************)
(* ipc_kernel_send.  The two outcomes of its one test.                     *)
(***************************************************************************)
\* Faulty variant: a full mailbox is not noticed.
SendStoredUnchecked(m) ==
    /\ ipc_queue' = [ipc_queue EXCEPT ![ipc_tail] = m]
    /\ ipc_tail' = NextSlot(ipc_tail)
    /\ UNCHANGED <<ipc_head, rx>>

SendStored(m) ==
    /\ NextSlot(ipc_tail) # ipc_head
    /\ ipc_queue' = [ipc_queue EXCEPT ![ipc_tail] = m]
    /\ ipc_tail' = NextSlot(ipc_tail)
    /\ UNCHANGED <<ipc_head, rx>>

SendDropped(m) ==
    /\ NextSlot(ipc_tail) = ipc_head
    /\ UNCHANGED vars

ipc_kernel_send(m) == SendStored(m) \/ SendDropped(m)

(***************************************************************************)
(* SYS_IPC_RECV.                                                           *)
(***************************************************************************)
ReceiveMessage ==
    /\ ipc_head # ipc_tail
    /\ rx' = ipc_queue[ipc_head]
    /\ ipc_head' = NextSlot(ipc_head)
    /\ UNCHANGED <<ipc_queue, ipc_tail>>

ReceiveNothing ==
    /\ ipc_head = ipc_tail
    /\ rx' = [rx EXCEPT !.type = NONE]
    /\ UNCHANGED <<ipc_queue, ipc_head, ipc_tail>>

SYS_IPC_RECV == ReceiveMessage \/ ReceiveNothing

Next == (\E m \in Message : ipc_kernel_send(m)) \/ SYS_IPC_RECV

Spec == Init /\ [][Next]_vars

(***************************************************************************)
(* The mailbox as a queue.                                                 *)
(***************************************************************************)
\* How many messages wait between head and tail.
Count == IF ipc_tail >= ipc_head
         THEN ipc_tail - ipc_head
         ELSE ipc_tail - ipc_head + IPC_QUEUE_SIZE

\* The slot that lies k places after the head.
SlotAt(k) == IF ipc_head + k < IPC_QUEUE_SIZE
             THEN ipc_head + k
             ELSE ipc_head + k - IPC_QUEUE_SIZE

Pending == [i \in 1 .. Count |-> ipc_queue[SlotAt(i - 1)]]

Fifo == INSTANCE MailboxFifo
            WITH Capacity <- IPC_QUEUE_SIZE - 1, queue <- Pending

(***************************************************************************)
(* The ring of ipc_kernel_send and SYS_IPC_RECV is a bounded FIFO of       *)
(* IPC_QUEUE_SIZE - 1 messages: nothing is reordered, duplicated or        *)
(* overwritten, and only a send to a full mailbox loses its message.       *)
(***************************************************************************)
ImplementsFifo == Fifo!Spec
=============================================================================

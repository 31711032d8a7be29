---------------------------- MODULE MailboxFifo ----------------------------
(***************************************************************************)
(* What the kernel mailbox promises to its users: a bounded first-in       *)
(* first-out queue of messages.  A send to a full queue is dropped without *)
(* telling the sender (ipc_kernel_send is void); a receive never blocks,   *)
(* and on an empty queue it only marks the caller's buffer as holding no   *)
(* message, leaving the old payload bytes in place.                        *)
(***************************************************************************)
EXTENDS Naturals, Sequences

CONSTANTS
    Capacity,   \* how many messages the mailbox holds when it is full, a number
    MsgType,    \* the IPC_MSG_* values a queued message carries, not NONE
    Payload     \* the payloads the model distinguishes

NONE == "NONE"                       \* IPC_MSG_NONE

Message == [type : MsgType, payload : Payload]

\* The receiver's buffer (os_message_t *msg): after an empty receive its type
\* is NONE and its payload is whatever the buffer held before.
RxBuffer == [type : MsgType \cup {NONE}, payload : Payload]

VARIABLES
    queue,      \* the messages waiting, oldest first
    rx          \* the buffer of the last SYS_IPC_RECV

vars == <<queue, rx>>

TypeOK ==
    /\ queue \in Seq(Message)
    /\ Len(queue) <= Capacity
    /\ rx \in RxBuffer

Init ==
    /\ queue = << >>
    /\ rx \in [type : {NONE}, payload : Payload]

Enqueue(m) ==
    queue' = IF Len(queue) < Capacity THEN Append(queue, m) ELSE queue

Send(m) == Enqueue(m) /\ UNCHANGED rx

ReceiveMessage ==
    /\ queue # << >>
    /\ rx' = Head(queue)
    /\ queue' = Tail(queue)

ReceiveNothing ==
    /\ queue = << >>
    /\ rx' = [rx EXCEPT !.type = NONE]
    /\ UNCHANGED queue

Receive == ReceiveMessage \/ ReceiveNothing

Next == (\E m \in Message : Send(m)) \/ Receive

Spec == Init /\ [][Next]_vars
=============================================================================

------------------------------- MODULE Shell -------------------------------
(***************************************************************************)
(* The terminal shell (modules/shell_gui/main.c, the only EL0 program) and *)
(* the system calls it makes (kernel/syscall.c).  Its input comes from two *)
(* devices that the kernel polls: the VirtIO keyboard and the PL011 UART,  *)
(* where the host types commands and sends trades.                         *)
(*                                                                         *)
(* The shell is a polling loop.  Every system call runs to completion in   *)
(* the kernel, so a step is one system call, or one poll of a device where *)
(* a call polls in a loop.  The devices fill at any time; since the kernel *)
(* sees them only through its polls, a poll yields any character the host  *)
(* may have sent by then, or nothing.  The mailbox is the FIFO that the    *)
(* ring of kernel/syscall.c implements (see Mailbox).                      *)
(*                                                                         *)
(* A request may not return: a contract may panic, which loops for ever,   *)
(* or run over the kernel stack, and what contracts take of the DMA arena  *)
(* is not given back, so that later ones, and later transfers of the disk, *)
(* may run past its end.  The machine is lost then, and nothing is said    *)
(* about it.  Autarky and VirtioSync show when this happens.               *)
(***************************************************************************)
EXTENDS Naturals, Sequences, FiniteSets

CONSTANTS
    Capacity,       \* IPC_QUEUE_SIZE - 1 messages fill the mailbox
    CMD_MAX_LEN,    \* bytes of cmd_buffer
    LINE_MAX,       \* characters of a trade line (255)
    DATA_MAX,       \* characters of a line that fit the write request (242)
    TIMEOUT_MAX,    \* empty polls after which a partial line is abandoned
    Request,        \* the request types the shell may send
    KeyChar,        \* the characters a keyboard event may decode to
    UartChar,       \* the characters the host may send over the UART
    MaxKeys,        \* bound: keyboard characters in a behaviour
    MaxUart         \* bound: UART characters in a behaviour

ASSUME SizeAssumption ==
    /\ Capacity \in Nat \ {0}
    /\ CMD_MAX_LEN \in Nat \ {0}
    /\ LINE_MAX \in Nat \ {0}
    /\ DATA_MAX \in Nat \ {0}
    /\ TIMEOUT_MAX \in Nat

ASSUME InputAssumption ==
    /\ KeyChar \subseteq {"chr", "nl", "bs"}
    /\ UartChar \subseteq {"chr", "nl", "cr", "lbrace"}
    /\ MaxKeys \in Nat
    /\ MaxUart \in Nat

\* The response each request of syscall_handler is answered with.
RespType ==
    [ FS_LIST_REQ      |-> "FS_LIST_RESP",
      FS_READ_REQ      |-> "FS_READ_RESP",
      FS_WRITE_REQ     |-> "FS_WRITE_RESP",
      ATK_EXEC_REQ     |-> "ATK_EXEC_RESP",
      WATCHER_DUMP_REQ |-> "WATCHER_DUMP_RESP",
      WATCHER_SYNC_REQ |-> "WATCHER_SYNC_RESP" ]

ASSUME RequestAssumption ==
    Request \subseteq DOMAIN RespType /\ "FS_WRITE_REQ" \in Request

NoReq    == "none"
MsgType  == {"KEY_PRESS"} \cup {RespType[r] : r \in Request}
KeyPress == {"chr", "nl", "bs", "lbrace"}
Payload  == KeyPress \cup {"text"}

VARIABLES
    mailbox,         \* the messages between ipc_head and ipc_tail
    rx,              \* the buffer of the shell's last ipc_receive
    pc,              \* where the shell is
    req,             \* the request being sent or awaited, or NoReq
    cmd_idx,         \* characters in cmd_buffer
    key_count,       \* bound counter: keyboard characters polled so far
    uart,            \* history: every character the UART ever handed over
    trade_payload,   \* the line being read, as positions in uart
    timeout_counter, \* empty polls since the last character of the line
    trades,          \* history: the lines FS_WRITE_REQ was served with, oldest first
    contracts        \* whether the arena has memory of contracts, which it does not get back

mailVars  == <<mailbox, rx>>
hostVars  == <<key_count, uart>>
tradeVars == <<trade_payload, timeout_counter, trades>>
vars == <<mailVars, pc, req, cmd_idx, hostVars, tradeVars, contracts>>

Mail == INSTANCE MailboxFifo WITH queue <- mailbox

PC == {"drain_keys", "drain_uart", "receive", "send", "wait",
       "drain_keys_after", "drain_uart_after",
       "trade_read", "trade_send", "trade_wait", "halted"}

\* The two places where the shell loops until a response arrives.
Waiting == pc \in {"wait", "trade_wait"}

TypeOK ==
    /\ Mail!TypeOK
    /\ pc \in PC
    /\ req \in IF Waiting \/ pc = "send" THEN Request
               ELSE IF pc = "halted" THEN Request \cup {NoReq} ELSE {NoReq}
    /\ cmd_idx \in 0 .. CMD_MAX_LEN - 1
    /\ key_count \in 0 .. MaxKeys
    /\ uart \in Seq(UartChar)
    /\ Len(uart) <= MaxUart
    /\ trade_payload \in Seq(Nat)
    /\ Len(trade_payload) <= IF pc = "trade_read" THEN LINE_MAX - 1 ELSE LINE_MAX
    /\ pc = "trade_wait" => trade_payload = << >>
    /\ timeout_counter \in 0 .. TIMEOUT_MAX
    /\ trades \in Seq(Seq(Nat))
    /\ contracts \in BOOLEAN

\* shell_main begins its loop with an empty mailbox and an empty line.
Init ==
    /\ Mail!Init
    /\ pc = "drain_keys"
    /\ req = NoReq
    /\ cmd_idx = 0
    /\ key_count = 0
    /\ uart = << >>
    /\ trade_payload = << >>
    /\ timeout_counter = 0
    /\ trades = << >>
    /\ contracts = FALSE

(***************************************************************************)
(* SYS_HW_DRAIN: one poll of drain_hardware_queues per step.  The shell    *)
(* makes the call at the top of its loop and after every response; the two *)
(* places differ in what follows.  A poll that returns 0 ends its loop:    *)
(* nothing waits, or what was consumed is no character (the release of a   *)
(* key, a shift, a NUL byte), whatever waits behind it.                    *)
(***************************************************************************)
KeyMsg(c) == [type |-> "KEY_PRESS", payload |-> c]

DrainKey(c) ==
    /\ pc \in {"drain_keys", "drain_keys_after"}
    /\ key_count < MaxKeys
    /\ key_count' = key_count + 1
    /\ Mail!Send(KeyMsg(c))
    /\ UNCHANGED <<pc, req, cmd_idx, uart, tradeVars, contracts>>

DrainKeysDone ==
    /\ pc \in {"drain_keys", "drain_keys_after"}
    /\ pc' = IF pc = "drain_keys" THEN "drain_uart" ELSE "drain_uart_after"
    /\ UNCHANGED <<mailVars, req, cmd_idx, hostVars, tradeVars, contracts>>

\* uart_poll_rx hands over the next character of the host.
UartPoll(c) ==
    /\ Len(uart) < MaxUart
    /\ uart' = Append(uart, c)

DrainUart(c) ==
    /\ pc \in {"drain_uart", "drain_uart_after"}
    /\ UartPoll(c)
    /\ Mail!Send(KeyMsg(IF c = "cr" THEN "nl" ELSE c))
    /\ UNCHANGED <<pc, req, cmd_idx, key_count, tradeVars, contracts>>

DrainUartDone ==
    /\ pc \in {"drain_uart", "drain_uart_after"}
    /\ IF pc = "drain_uart"
       THEN pc' = "receive" /\ UNCHANGED cmd_idx
       ELSE pc' = "drain_keys" /\ cmd_idx' = 0
    /\ UNCHANGED <<mailVars, req, hostVars, tradeVars, contracts>>

(***************************************************************************)
(* The command line.  A line is known by what its parse yields: the        *)
(* namespace before the dot ("none" when there is no dot, as in "clear"),  *)
(* the verb after it and how many words follow.                            *)
(***************************************************************************)
Command == [ ns   : {"storage", "agent", "atk", "ledger", "trade", "none"},
             verb : {"list", "read", "write", "why", "run", "sync", "listen", "other"},
             args : 0 .. 2 ]

RequestOf(cmd) ==
    CASE cmd.ns = "storage" /\ cmd.verb = "list"                   -> "FS_LIST_REQ"
      [] cmd.ns = "storage" /\ cmd.verb = "read"  /\ cmd.args >= 1 -> "FS_READ_REQ"
      [] cmd.ns = "storage" /\ cmd.verb = "write" /\ cmd.args >= 2 -> "FS_WRITE_REQ"
      [] cmd.ns = "agent"   /\ cmd.verb = "why"                    -> "WATCHER_DUMP_REQ"
      [] cmd.ns = "atk"     /\ cmd.verb = "run"   /\ cmd.args >= 1 -> "ATK_EXEC_REQ"
      [] cmd.ns = "ledger"  /\ cmd.verb = "sync"                   -> "WATCHER_SYNC_REQ"
      [] OTHER                                                     -> NoReq

IsListen(cmd) == cmd.ns = "trade" /\ cmd.verb = "listen"

\* The requests that some line asks for.
Asked == {RequestOf(cmd) : cmd \in Command} \cap Request

(***************************************************************************)
(* The main loop: ipc_receive and what follows it.                         *)
(***************************************************************************)
\* An empty mailbox, or a message that is no key press: back to the top.
ReceiveIgnored ==
    /\ pc = "receive"
    /\ Mail!Receive
    /\ rx'.type # "KEY_PRESS"
    /\ pc' = "drain_keys"
    /\ UNCHANGED <<req, cmd_idx, hostVars, tradeVars, contracts>>

ReceiveKey ==
    /\ pc = "receive"
    /\ Mail!ReceiveMessage
    /\ rx'.type = "KEY_PRESS"
    /\ UNCHANGED <<hostVars, timeout_counter, trades, contracts>>

\* Faulty variant: no room is kept for the final NUL.
LineLengthUnbounded(c) ==
    IF c = "bs" THEN IF cmd_idx > 0 THEN cmd_idx - 1 ELSE cmd_idx
    ELSE cmd_idx + 1

\* How long cmd_buffer is after a key other than Enter.
LineLength(c) ==
    IF c = "bs" THEN IF cmd_idx > 0 THEN cmd_idx - 1 ELSE cmd_idx
    ELSE IF cmd_idx < CMD_MAX_LEN - 1 THEN cmd_idx + 1 ELSE cmd_idx

EditLine ==
    /\ ReceiveKey
    /\ rx'.payload # "nl"
    /\ cmd_idx' = LineLength(rx'.payload)
    /\ pc' = "drain_keys"
    /\ UNCHANGED <<req, trade_payload>>

\* Enter on a line that the shell serves by itself (empty, clear, help, an error).
EnterLocal ==
    /\ ReceiveKey
    /\ rx'.payload = "nl"
    /\ \/ cmd_idx = 0
       \/ \E cmd \in Command : RequestOf(cmd) = NoReq /\ ~IsListen(cmd)
    /\ cmd_idx' = 0
    /\ pc' = "drain_keys"
    /\ UNCHANGED <<req, trade_payload>>

EnterRequest ==
    /\ ReceiveKey
    /\ rx'.payload = "nl"
    /\ cmd_idx > 0
    /\ req' \in Asked
    /\ pc' = "send"
    /\ UNCHANGED <<cmd_idx, trade_payload>>

EnterTrade ==
    /\ ReceiveKey
    /\ rx'.payload = "nl"
    /\ cmd_idx > 0
    /\ \E cmd \in Command : IsListen(cmd)
    /\ pc' = "trade_read"
    /\ trade_payload' = << >>
    /\ UNCHANGED <<req, cmd_idx>>

\* Faulty variant: a request that fails is not answered.
RespondUnlessFailed(r) ==
    \/ Mail!Send([type |-> RespType[r], payload |-> "text"])
    \/ UNCHANGED mailVars

\* sys_ipc_send: the kernel serves the request at once and mails the response.
Respond(r) == Mail!Send([type |-> RespType[r], payload |-> "text"])

\* autarky_execute may panic, overrun the stack or exhaust the arena; once contracts have
\* run, so may any request that uses the disk, whose transfers take from the same arena.
MayNotReturn(r) == r = "ATK_EXEC_REQ" \/ (contracts /\ r # "WATCHER_DUMP_REQ")

SendRequest ==
    /\ pc = "send"
    /\ Respond(req)
    /\ pc' = "wait"
    /\ contracts' = (contracts \/ req = "ATK_EXEC_REQ")
    /\ UNCHANGED <<req, cmd_idx, hostVars, tradeVars>>

\* The kernel does not come back from the request: its ipc_kernel_send is not reached.
RequestNeverReturns ==
    /\ pc = "send"
    /\ MayNotReturn(req)
    /\ pc' = "halted"
    /\ UNCHANGED <<mailVars, req, cmd_idx, hostVars, tradeVars, contracts>>

\* Faulty variant: the first message that comes is taken for the response.
WaitAnyMessage ==
    /\ pc = "wait"
    /\ Mail!Receive
    /\ IF rx'.type # Mail!NONE
       THEN pc' = "drain_keys_after" /\ req' = NoReq
       ELSE UNCHANGED <<pc, req>>
    /\ UNCHANGED <<cmd_idx, hostVars, tradeVars, contracts>>

\* while (waiting) ipc_receive(&resp): whatever is not the response is discarded.
WaitResponse ==
    /\ pc = "wait"
    /\ Mail!Receive
    /\ IF rx'.type = RespType[req]
       THEN pc' = "drain_keys_after" /\ req' = NoReq
       ELSE UNCHANGED <<pc, req>>
    /\ UNCHANGED <<cmd_idx, hostVars, tradeVars, contracts>>

(***************************************************************************)
(* trade.listen: the shell polls the UART itself and never comes back.     *)
(***************************************************************************)
IsLineEnd(c) == c \in {"nl", "cr"}

\* Faulty variant: the loop drains the devices while it waits.
TradeEmptyPollDraining ==
    /\ pc = "trade_read"
    /\ \E c \in UartChar : UartPoll(c) /\ Mail!Send(KeyMsg(c))
    /\ UNCHANGED <<pc, req, cmd_idx, key_count, tradeVars, contracts>>

\* sys_uart_recv returned 0.  A partial line is abandoned after TIMEOUT_MAX of them.
TradeEmptyPoll ==
    /\ pc = "trade_read"
    /\ IF timeout_counter = TIMEOUT_MAX
       THEN timeout_counter' = 0 /\ trade_payload' = << >>
       ELSE timeout_counter' = timeout_counter + 1 /\ UNCHANGED trade_payload
    /\ UNCHANGED <<mailVars, pc, req, cmd_idx, hostVars, trades, contracts>>

TradeChar(c) ==
    /\ pc = "trade_read"
    /\ ~IsLineEnd(c)
    /\ UartPoll(c)
    /\ trade_payload' = Append(trade_payload, Len(uart'))
    /\ timeout_counter' = 0
    /\ pc' = IF Len(trade_payload') < LINE_MAX THEN "trade_read" ELSE "trade_send"
    /\ UNCHANGED <<mailVars, req, cmd_idx, key_count, trades, contracts>>

TradeLineEnd(c) ==
    /\ pc = "trade_read"
    /\ IsLineEnd(c)
    /\ UartPoll(c)
    /\ timeout_counter' = 0
    /\ pc' = "trade_send"
    /\ UNCHANGED <<mailVars, req, cmd_idx, key_count, trade_payload, trades, contracts>>

IsTrade(line) == line # << >> /\ uart[line[1]] = "lbrace"

\* The part of a line that fits the request buffer next to the file name.
Fitting(line) == SubSeq(line, 1, IF Len(line) < DATA_MAX THEN Len(line) ELSE DATA_MAX)

\* Faulty variant: the captured line is not cleared.
TradeCapturedKept ==
    /\ pc = "trade_send"
    /\ IsTrade(trade_payload)
    /\ Respond("FS_WRITE_REQ")
    /\ req' = "FS_WRITE_REQ"
    /\ trades' = Append(trades, Fitting(trade_payload))
    /\ pc' = "trade_wait"
    /\ UNCHANGED <<cmd_idx, hostVars, timeout_counter, trade_payload, contracts>>

TradeCaptured ==
    /\ pc = "trade_send"
    /\ IsTrade(trade_payload)
    /\ Respond("FS_WRITE_REQ")
    /\ req' = "FS_WRITE_REQ"
    /\ trades' = Append(trades, Fitting(trade_payload))
    /\ trade_payload' = << >>
    /\ pc' = "trade_wait"
    /\ UNCHANGED <<cmd_idx, hostVars, timeout_counter, contracts>>

TradeNeverReturns ==
    /\ pc = "trade_send"
    /\ IsTrade(trade_payload)
    /\ MayNotReturn("FS_WRITE_REQ")
    /\ pc' = "halted"
    /\ UNCHANGED <<mailVars, req, cmd_idx, hostVars, tradeVars, contracts>>

TradeRefused ==
    /\ pc = "trade_send"
    /\ ~IsTrade(trade_payload)
    /\ trade_payload' = << >>
    /\ pc' = "trade_read"
    /\ UNCHANGED <<mailVars, req, cmd_idx, hostVars, timeout_counter, trades, contracts>>

TradeWait ==
    /\ pc = "trade_wait"
    /\ Mail!Receive
    /\ IF rx'.type = RespType[req]
       THEN pc' = "trade_read" /\ req' = NoReq
       ELSE UNCHANGED <<pc, req>>
    /\ UNCHANGED <<cmd_idx, hostVars, tradeVars, contracts>>

\* What has not returned does not return any more.
Halted ==
    /\ pc = "halted"
    /\ UNCHANGED vars

Next ==
    \/ \E c \in KeyChar : DrainKey(c)
    \/ DrainKeysDone
    \/ \E c \in UartChar : DrainUart(c)
    \/ DrainUartDone
    \/ ReceiveIgnored \/ EditLine \/ EnterLocal \/ EnterRequest \/ EnterTrade
    \/ SendRequest \/ RequestNeverReturns \/ WaitResponse
    \/ TradeEmptyPoll
    \/ \E c \in UartChar : TradeChar(c) \/ TradeLineEnd(c)
    \/ TradeCaptured \/ TradeNeverReturns \/ TradeRefused \/ TradeWait
    \/ Halted

\* The shell owns the processor: nothing preempts it, so it always goes on.
Spec == Init /\ [][Next]_vars /\ WF_vars(Next)

(***************************************************************************)
(* Properties.                                                             *)
(***************************************************************************)
IsKeyPress(m) == m.type = "KEY_PRESS"
Last(s) == s[Len(s)]

\* ipc_kernel_send drops silently, and the shell waits for its answer without
\* a timeout: a response dropped by a mailbox full of typed-ahead keys would
\* hang the shell for good.  While the shell waits, the awaited response is in
\* the mailbox, once, behind every key press, with nothing after it.
AwaitedResponseIsQueued ==
    Waiting =>
        /\ mailbox # << >>
        /\ Last(mailbox).type = RespType[req]
        /\ \A i \in 1 .. Len(mailbox) - 1 : IsKeyPress(mailbox[i])

\* When the shell is not waiting no response is left over: a later request of
\* the same type cannot be answered by an earlier response.
NoStaleResponse ==
    ~Waiting =>
        \A i \in 1 .. Len(mailbox) : IsKeyPress(mailbox[i])

\* A request is sent only from a mailbox with a free slot, however fast the
\* host types: each drain is followed by a receive before any send.
RoomForResponse ==
    pc \in {"send", "trade_read", "trade_send"} => Len(mailbox) < Capacity

\* trade.listen hands FS_WRITE_REQ only unbroken stretches of one line of the
\* host.  A timeout, an over-long line or the switch of modes in the middle of a
\* line may cut it, but two lines are never spliced and no character is missing.
CapturedTradesAreUnspliced ==
    \A n \in 1 .. Len(trades) :
        LET line == trades[n] IN
        /\ line # << >> /\ uart[line[1]] = "lbrace"
        /\ \A i \in 1 .. Len(line) : ~IsLineEnd(uart[line[i]])
        /\ \A i \in 1 .. Len(line) - 1 : line[i + 1] = line[i] + 1

\* No character of the host is written to TRADES.LOG twice, and the trades are
\* written in the order in which the host sent them.
TradesKeepHostOrder ==
    \A n \in 1 .. Len(trades) - 1 :
        Last(trades[n]) < trades[n + 1][1]

\* The shell waits without a timeout.  Once the kernel is back from a request its answer
\* is found, behind whatever the host has typed ahead; and from a request that can only
\* come back, as all do but those of contracts, and of the disk after contracts, the
\* kernel does come back and the wait ends.
EveryRequestIsAnswered ==
    (Waiting \/ (pc = "send" /\ ~MayNotReturn(req)))
        ~> pc \notin {"wait", "trade_wait", "send", "halted"}
=============================================================================

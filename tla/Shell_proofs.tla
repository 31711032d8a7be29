---------------------------- MODULE Shell_proofs ----------------------------
(***************************************************************************)
(* For every mailbox size, buffer size, timeout and input: the types of    *)
(* the shell, that the response it waits for is never dropped, and what    *)
(* trade.listen captures.  What happens to the mailbox is a behaviour of   *)
(* MailboxFifo.                                                            *)
(***************************************************************************)
EXTENDS Shell, TLAPS

\* What every step does to the mailbox, whoever takes it.
LEMMA EnqueueFacts ==
    ASSUME mailbox \in Seq(Mail!Message), Len(mailbox) <= Capacity,
           NEW m \in Mail!Message, Mail!Enqueue(m)
    PROVE  /\ mailbox' \in Seq(Mail!Message)
           /\ Len(mailbox') <= Capacity
           /\ Len(mailbox) < Capacity => mailbox' = Append(mailbox, m)
           /\ \A i \in 1 .. Len(mailbox') :
                 mailbox'[i] = m \/ (i \in 1 .. Len(mailbox) /\ mailbox'[i] = mailbox[i])
  BY SizeAssumption DEF Mail!Enqueue

LEMMA ReceiveFacts ==
    ASSUME mailbox \in Seq(Mail!Message), mailbox # << >>, Mail!ReceiveMessage
    PROVE  /\ rx' = mailbox[1]
           /\ rx' \in Mail!Message
           /\ Len(mailbox) \in Nat \ {0}
           /\ mailbox' \in Seq(Mail!Message)
           /\ Len(mailbox') = Len(mailbox) - 1
           /\ \A i \in 1 .. Len(mailbox') : mailbox'[i] = mailbox[i + 1]
  BY DEF Mail!ReceiveMessage

\* Key presses and responses are messages of the mailbox.
LEMMA MessageTypes ==
    /\ \A c \in KeyPress : KeyMsg(c) \in Mail!Message /\ IsKeyPress(KeyMsg(c))
    /\ \A r \in Request :
          /\ [type |-> RespType[r], payload |-> "text"] \in Mail!Message
          /\ RespType[r] # "KEY_PRESS"
          /\ RespType[r] # "NONE"
  BY RequestAssumption DEF KeyMsg, IsKeyPress, Mail!Message, MsgType, Payload, RespType

(***************************************************************************)
(* Types.                                                                  *)
(***************************************************************************)
LEMMA InitType == Init => TypeOK
<1> SUFFICES ASSUME Init
             PROVE  TypeOK
  OBVIOUS
<1>1. /\ pc = "drain_keys" /\ req = NoReq /\ ~Waiting /\ contracts \in BOOLEAN
      /\ trade_payload = << >>
  BY DEF Init, Waiting
<1>2. Mail!TypeOK
  BY SizeAssumption DEF Init, Mail!Init, Mail!TypeOK, Mail!RxBuffer, Mail!NONE
<1>3. /\ uart \in Seq(UartChar) /\ Len(uart) <= MaxUart /\ trades \in Seq(Seq(Nat))
      /\ trade_payload \in Seq(Nat) /\ Len(trade_payload) <= LINE_MAX
      /\ cmd_idx \in 0 .. CMD_MAX_LEN - 1 /\ key_count \in 0 .. MaxKeys
      /\ timeout_counter \in 0 .. TIMEOUT_MAX
  BY SizeAssumption, InputAssumption DEF Init
<1>4. QED
  BY <1>1, <1>2, <1>3 DEF TypeOK, PC

LEMMA StepType == TypeOK /\ [Next]_vars => TypeOK'
<1> SUFFICES ASSUME TypeOK, [Next]_vars
             PROVE  TypeOK'
  OBVIOUS
<1> USE DEF TypeOK, PC, Waiting, mailVars, hostVars, tradeVars
<1>m. /\ mailbox \in Seq(Mail!Message) /\ Len(mailbox) <= Capacity
      /\ rx \in Mail!RxBuffer
  BY DEF Mail!TypeOK
<1>s. ASSUME NEW m \in Mail!Message, Mail!Send(m)
      PROVE  Mail!TypeOK'
  BY <1>m, <1>s, EnqueueFacts DEF Mail!TypeOK, Mail!Send
<1>r. ASSUME Mail!Receive
      PROVE  Mail!TypeOK'
  <2>1. CASE Mail!ReceiveMessage
    <3>1. mailbox # << >>
      BY <2>1 DEF Mail!ReceiveMessage
    <3>2. rx' \in Mail!Message
      BY <1>m, <2>1, <3>1, ReceiveFacts
    <3>3. rx' \in Mail!RxBuffer
      BY <3>2 DEF Mail!RxBuffer, Mail!Message
    <3>4. mailbox' \in Seq(Mail!Message) /\ Len(mailbox') <= Capacity
      BY <1>m, <2>1, <3>1, ReceiveFacts, SizeAssumption
    <3>5. QED
      BY <3>3, <3>4 DEF Mail!TypeOK
  <2>2. CASE Mail!ReceiveNothing
    BY <1>m, <2>2 DEF Mail!TypeOK, Mail!ReceiveNothing, Mail!RxBuffer
  <2>3. QED
    BY <1>r, <2>1, <2>2 DEF Mail!Receive
<1>u. ASSUME UNCHANGED mailVars
      PROVE  Mail!TypeOK'
  BY <1>m, <1>u DEF Mail!TypeOK
<1>e. << >> \in Seq(Nat) /\ Len(<< >>) = 0
  OBVIOUS
<1>1. ASSUME NEW c \in KeyChar, DrainKey(c)
      PROVE  TypeOK'
  <2>1. KeyMsg(c) \in Mail!Message
    BY InputAssumption, MessageTypes DEF KeyPress
  <2>2. Mail!TypeOK'
    BY <1>1, <2>1, <1>s DEF DrainKey
  <2>3. QED
    BY <1>1, <2>2, InputAssumption DEF DrainKey
<1>2. CASE DrainKeysDone
  BY <1>2, <1>u DEF DrainKeysDone
<1>3. ASSUME NEW c \in UartChar, DrainUart(c)
      PROVE  TypeOK'
  <2>1. KeyMsg(IF c = "cr" THEN "nl" ELSE c) \in Mail!Message
    BY InputAssumption, MessageTypes DEF KeyPress
  <2>2. Mail!TypeOK'
    BY <1>3, <2>1, <1>s DEF DrainUart
  <2>3. uart' \in Seq(UartChar) /\ Len(uart') <= MaxUart
    BY <1>3, InputAssumption DEF DrainUart, UartPoll
  <2>4. QED
    BY <1>3, <2>2, <2>3 DEF DrainUart
<1>4. CASE DrainUartDone
  BY <1>4, <1>u, SizeAssumption DEF DrainUartDone
<1>5. CASE ReceiveIgnored
  BY <1>5, <1>r DEF ReceiveIgnored
<1>k. ASSUME ReceiveKey
      PROVE  Mail!TypeOK'
  BY <1>k, <1>r DEF ReceiveKey, Mail!Receive
<1>6. CASE EditLine
  BY <1>6, <1>k, SizeAssumption DEF EditLine, LineLength, ReceiveKey
<1>7. CASE EnterLocal
  BY <1>7, <1>k, SizeAssumption DEF EnterLocal, ReceiveKey
<1>8. CASE EnterRequest
  BY <1>8, <1>k DEF EnterRequest, ReceiveKey, Asked
<1>9. CASE EnterTrade
  BY <1>9, <1>k, SizeAssumption DEF EnterTrade, ReceiveKey
<1>10. CASE SendRequest
  <2>1. Mail!TypeOK'
    BY <1>10, <1>s, MessageTypes DEF SendRequest, Respond
  <2>2. QED
    BY <1>10, <2>1 DEF SendRequest
<1>11. CASE WaitResponse
  BY <1>11, <1>r DEF WaitResponse
<1>12. CASE TradeEmptyPoll
  <2>1. trade_payload' \in Seq(Nat) /\ Len(trade_payload') <= LINE_MAX - 1
    <3>1. Len(trade_payload) \in Nat /\ Len(trade_payload) <= LINE_MAX - 1
      BY <1>12 DEF TradeEmptyPoll
    <3>2. trade_payload' = << >> \/ trade_payload' = trade_payload
      BY <1>12 DEF TradeEmptyPoll
    <3>3. 0 <= LINE_MAX - 1
      BY SizeAssumption
    <3>4. QED
      BY <1>e, <3>1, <3>2, <3>3
  <2>2. timeout_counter' \in 0 .. TIMEOUT_MAX
    BY <1>12, SizeAssumption DEF TradeEmptyPoll
  <2>3. QED
    BY <1>12, <1>u, <2>1, <2>2 DEF TradeEmptyPoll
<1>13. ASSUME NEW c \in UartChar, TradeChar(c)
       PROVE  TypeOK'
  <2>1. uart' \in Seq(UartChar) /\ Len(uart') <= MaxUart /\ Len(uart') \in Nat
    BY <1>13, InputAssumption DEF TradeChar, UartPoll
  <2>2. /\ trade_payload' \in Seq(Nat)
        /\ Len(trade_payload') = Len(trade_payload) + 1
        /\ Len(trade_payload') <= LINE_MAX
        /\ pc' = "trade_read" => Len(trade_payload') <= LINE_MAX - 1
    BY <1>13, <2>1, SizeAssumption DEF TradeChar
  <2>3. QED
    BY <1>13, <1>u, <2>1, <2>2, SizeAssumption DEF TradeChar
<1>14. ASSUME NEW c \in UartChar, TradeLineEnd(c)
       PROVE  TypeOK'
  <2>1. uart' \in Seq(UartChar) /\ Len(uart') <= MaxUart
    BY <1>14, InputAssumption DEF TradeLineEnd, UartPoll
  <2>2. QED
    BY <1>14, <1>u, <2>1, SizeAssumption DEF TradeLineEnd
<1>15. CASE TradeCaptured
  <2>1. Mail!TypeOK' /\ "FS_WRITE_REQ" \in Request
    BY <1>15, <1>s, MessageTypes, RequestAssumption DEF TradeCaptured, Respond
  <2>2. Fitting(trade_payload) \in Seq(Nat)
    BY SizeAssumption DEF Fitting
  <2>3. trades' \in Seq(Seq(Nat))
    BY <1>15, <2>2 DEF TradeCaptured
  <2>4. QED
    BY <1>15, <1>e, <2>1, <2>3, SizeAssumption DEF TradeCaptured
<1>16. CASE TradeRefused
  BY <1>16, <1>e, <1>u, SizeAssumption DEF TradeRefused
<1>17. CASE TradeWait
  <2>1. Mail!TypeOK'
    BY <1>17, <1>r DEF TradeWait
  <2>2. trade_payload = << >>
    BY <1>17 DEF TradeWait
  <2>3. QED
    BY <1>17, <1>e, <2>1, <2>2, SizeAssumption DEF TradeWait
<1>18. CASE RequestNeverReturns
  BY <1>18, <1>u DEF RequestNeverReturns
<1>19. CASE TradeNeverReturns
  BY <1>19, <1>u DEF TradeNeverReturns
<1>20. CASE Halted \/ UNCHANGED vars
  BY <1>20, <1>u DEF Halted, vars
<1>21. QED
  BY <1>1, <1>2, <1>3, <1>4, <1>5, <1>6, <1>7, <1>8, <1>9, <1>10, <1>11, <1>12,
     <1>13, <1>14, <1>15, <1>16, <1>17, <1>18, <1>19, <1>20 DEF Next

(***************************************************************************)
(* Every buffer index of the shell stays in its buffer and the mailbox     *)
(* never holds more than Capacity messages.                                *)
(***************************************************************************)
THEOREM ShellTypeCorrect == Spec => []TypeOK
  BY InitType, StepType, PTL DEF Spec

(***************************************************************************)
(* The response is never dropped.  None of the three properties of the     *)
(* mailbox is inductive alone: a response fits because of RoomForResponse, *)
(* it is unique because of NoStaleResponse, and it is the last message     *)
(* because nothing is sent while the shell waits.                          *)
(***************************************************************************)
MailInv == TypeOK /\ RoomForResponse /\ AwaitedResponseIsQueued /\ NoStaleResponse

LEMMA InitMailInv == Init => MailInv
  BY InitType, SizeAssumption
  DEF Init, MailInv, RoomForResponse, AwaitedResponseIsQueued, NoStaleResponse,
      Mail!Init, Waiting

LEMMA StepMailInv == MailInv /\ [Next]_vars => MailInv'
<1> SUFFICES ASSUME MailInv, [Next]_vars
             PROVE  /\ RoomForResponse'
                    /\ AwaitedResponseIsQueued'
                    /\ NoStaleResponse'
  BY StepType DEF MailInv
<1> USE DEF RoomForResponse, AwaitedResponseIsQueued, NoStaleResponse, Waiting, Last
<1>t. TypeOK
  BY DEF MailInv
<1>m. /\ mailbox \in Seq(Mail!Message) /\ Len(mailbox) <= Capacity
      /\ Len(mailbox) \in Nat /\ Capacity \in Nat
  BY <1>t, SizeAssumption DEF TypeOK, Mail!TypeOK
<1>i. RoomForResponse /\ AwaitedResponseIsQueued /\ NoStaleResponse
  BY DEF MailInv
\* A key press sent while the shell drains leaves only key presses behind.
<1>d. ASSUME NEW m \in Mail!Message, IsKeyPress(m), Mail!Send(m), ~Waiting
      PROVE  \A i \in 1 .. Len(mailbox') : IsKeyPress(mailbox'[i])
  BY <1>m, <1>i, <1>d, EnqueueFacts DEF Mail!Send
\* A response sent from a mailbox with room becomes its last message.
<1>p. ASSUME NEW r \in Request, Respond(r), ~Waiting, Len(mailbox) < Capacity
      PROVE  /\ mailbox' # << >>
             /\ Last(mailbox').type = RespType[r]
             /\ \A i \in 1 .. Len(mailbox') - 1 : IsKeyPress(mailbox'[i])
  <2> DEFINE m == [type |-> RespType[r], payload |-> "text"]
  <2>1. m \in Mail!Message
    BY MessageTypes
  <2>2. mailbox' = Append(mailbox, m)
    BY <1>m, <1>p, <2>1, EnqueueFacts DEF Respond, Mail!Send
  <2>3. /\ Len(mailbox') = Len(mailbox) + 1
        /\ mailbox'[Len(mailbox) + 1] = m
        /\ \A i \in 1 .. Len(mailbox) : mailbox'[i] = mailbox[i]
    BY <1>m, <2>1, <2>2
  <2>4. m.type = RespType[r]
    OBVIOUS
  <2> HIDE DEF m
  <2>5. QED
    BY <1>m, <1>i, <1>p, <2>3, <2>4
\* Receiving in the main loop removes a key press and makes room.
<1>k. ASSUME Mail!ReceiveMessage, ~Waiting
      PROVE  /\ Len(mailbox') < Capacity
             /\ \A i \in 1 .. Len(mailbox') : IsKeyPress(mailbox'[i])
  <2>1. mailbox # << >>
    BY <1>k DEF Mail!ReceiveMessage
  <2>2. QED
    BY <1>m, <1>i, <1>k, <2>1, ReceiveFacts
\* Receiving while waiting either takes the response, the last message, or a
\* key press before it.
<1>w. ASSUME Mail!Receive, Waiting
      PROVE  /\ Len(mailbox') < Capacity
             /\ rx'.type = RespType[req] => Len(mailbox') = 0
             /\ rx'.type # RespType[req] =>
                   /\ mailbox' # << >>
                   /\ Last(mailbox').type = RespType[req]
                   /\ \A i \in 1 .. Len(mailbox') - 1 : IsKeyPress(mailbox'[i])
  <2>1. mailbox # << >> /\ Mail!ReceiveMessage
    BY <1>i, <1>w DEF Mail!Receive, Mail!ReceiveNothing
  <2>2. /\ rx' = mailbox[1]
        /\ Len(mailbox) \in Nat \ {0}
        /\ mailbox' \in Seq(Mail!Message)
        /\ Len(mailbox') = Len(mailbox) - 1
        /\ \A i \in 1 .. Len(mailbox') : mailbox'[i] = mailbox[i + 1]
    BY <1>m, <2>1, ReceiveFacts
  <2>3. req \in Request
    BY <1>t, <1>w DEF TypeOK
  <2>4. CASE Len(mailbox) = 1
    BY <1>i, <1>m, <1>w, <2>2, <2>4
  <2>5. CASE Len(mailbox) > 1
    <3>1. rx'.type = "KEY_PRESS"
      BY <1>i, <1>w, <2>2, <2>5 DEF IsKeyPress
    <3>2. rx'.type # RespType[req]
      BY <2>3, <3>1, MessageTypes
    <3>3. Len(mailbox') \in Nat \ {0} /\ mailbox'[Len(mailbox')] = mailbox[Len(mailbox)]
      BY <2>2, <2>5
    <3>4. \A i \in 1 .. Len(mailbox') - 1 : IsKeyPress(mailbox'[i])
      BY <1>i, <1>w, <2>2, <2>5
    <3>5. QED
      BY <1>i, <1>m, <1>w, <2>2, <3>2, <3>3, <3>4
  <2>6. QED
    BY <2>2, <2>4, <2>5
<1>1. ASSUME NEW c \in KeyChar, DrainKey(c)
      PROVE  RoomForResponse' /\ AwaitedResponseIsQueued' /\ NoStaleResponse'
  <2>1. KeyMsg(c) \in Mail!Message /\ IsKeyPress(KeyMsg(c))
    BY InputAssumption, MessageTypes DEF KeyPress
  <2>2. QED
    BY <1>1, <1>d, <2>1 DEF DrainKey
<1>2. CASE DrainKeysDone
  BY <1>2, <1>i DEF DrainKeysDone, mailVars
<1>3. ASSUME NEW c \in UartChar, DrainUart(c)
      PROVE  RoomForResponse' /\ AwaitedResponseIsQueued' /\ NoStaleResponse'
  <2> DEFINE m == KeyMsg(IF c = "cr" THEN "nl" ELSE c)
  <2>1. m \in Mail!Message /\ IsKeyPress(m)
    BY InputAssumption, MessageTypes DEF KeyPress
  <2>2. QED
    BY <1>3, <1>d, <2>1 DEF DrainUart
<1>4. CASE DrainUartDone
  BY <1>4, <1>i DEF DrainUartDone, mailVars
<1>5. CASE ReceiveIgnored
  <2>1. CASE Mail!ReceiveMessage
    BY <1>5, <1>k, <2>1 DEF ReceiveIgnored
  <2>2. CASE Mail!ReceiveNothing
    BY <1>5, <1>i, <2>2 DEF ReceiveIgnored, Mail!ReceiveNothing
  <2>3. QED
    BY <1>5, <2>1, <2>2 DEF ReceiveIgnored, Mail!Receive
<1>6. CASE EditLine
  BY <1>6, <1>k DEF EditLine, ReceiveKey
<1>7. CASE EnterLocal
  BY <1>7, <1>k DEF EnterLocal, ReceiveKey
<1>8. CASE EnterRequest
  BY <1>8, <1>k DEF EnterRequest, ReceiveKey
<1>9. CASE EnterTrade
  BY <1>9, <1>k DEF EnterTrade, ReceiveKey
<1>10. CASE SendRequest
  <2>1. req \in Request
    BY <1>10, <1>t DEF SendRequest, TypeOK
  <2>2. QED
    BY <1>10, <1>i, <1>p, <2>1 DEF SendRequest
<1>11. CASE WaitResponse
  BY <1>11, <1>w DEF WaitResponse
<1>12. CASE TradeEmptyPoll
  BY <1>12, <1>i DEF TradeEmptyPoll, mailVars
<1>13. ASSUME NEW c \in UartChar, TradeChar(c)
       PROVE  RoomForResponse' /\ AwaitedResponseIsQueued' /\ NoStaleResponse'
  BY <1>13, <1>i DEF TradeChar, mailVars
<1>14. ASSUME NEW c \in UartChar, TradeLineEnd(c)
       PROVE  RoomForResponse' /\ AwaitedResponseIsQueued' /\ NoStaleResponse'
  BY <1>14, <1>i DEF TradeLineEnd, mailVars
<1>15. CASE TradeCaptured
  BY <1>15, <1>i, <1>p, RequestAssumption DEF TradeCaptured
<1>16. CASE TradeRefused
  BY <1>16, <1>i DEF TradeRefused, mailVars
<1>17. CASE TradeWait
  BY <1>17, <1>w DEF TradeWait
<1>18. CASE RequestNeverReturns \/ TradeNeverReturns
  BY <1>18, <1>i DEF RequestNeverReturns, TradeNeverReturns, mailVars
<1>19. CASE Halted \/ UNCHANGED vars
  BY <1>19, <1>i DEF Halted, vars, mailVars
<1>20. QED
  BY <1>1, <1>2, <1>3, <1>4, <1>5, <1>6, <1>7, <1>8, <1>9, <1>10, <1>11, <1>12,
     <1>13, <1>14, <1>15, <1>16, <1>17, <1>18, <1>19 DEF Next

LEMMA SpecMailInv == Spec => []MailInv
  BY InitMailInv, StepMailInv, PTL DEF Spec

(***************************************************************************)
(* While the shell waits, the awaited response is the last message of the  *)
(* mailbox and only key presses precede it: ipc_kernel_send never drops    *)
(* it, however full of typed-ahead keys the mailbox was.                   *)
(***************************************************************************)
THEOREM ResponseNeverDropped == Spec => []AwaitedResponseIsQueued
<1>1. MailInv => AwaitedResponseIsQueued
  BY DEF MailInv
<1>2. QED
  BY <1>1, SpecMailInv, PTL

\* Outside its wait loops the shell finds only key presses in the mailbox.
THEOREM NoResponseLeftOver == Spec => []NoStaleResponse
<1>1. MailInv => NoStaleResponse
  BY DEF MailInv
<1>2. QED
  BY <1>1, SpecMailInv, PTL

\* Whenever the shell is about to send a request the mailbox has a free slot.
THEOREM ResponseHasRoom == Spec => []RoomForResponse
<1>1. MailInv => RoomForResponse
  BY DEF MailInv
<1>2. QED
  BY <1>1, SpecMailInv, PTL

(***************************************************************************)
(* The captured trades.  The line that is being read ends with the last    *)
(* character of the host, so that the next one continues it; and all that  *)
(* was captured before lies before it.                                     *)
(***************************************************************************)
\* Characters of the host in a row, none of which ends a line.
Stretch(line) ==
    /\ line \in Seq(Nat)
    /\ \A i \in 1 .. Len(line) : line[i] \in 1 .. Len(uart) /\ ~IsLineEnd(uart[line[i]])
    /\ \A i \in 1 .. Len(line) - 1 : line[i + 1] = line[i] + 1

Captured ==
    \A n \in 1 .. Len(trades) :
        Stretch(trades[n]) /\ trades[n] # << >> /\ uart[trades[n][1]] = "lbrace"

TradeInv ==
    /\ TypeOK
    /\ Stretch(trade_payload) /\ Captured /\ TradesKeepHostOrder
    /\ pc = "trade_read" /\ trade_payload # << >> => Last(trade_payload) = Len(uart)
    /\ trades # << >> /\ trade_payload # << >> => Last(trades[Len(trades)]) < trade_payload[1]

LEMMA InitTradeInv == Init => TradeInv
<1> SUFFICES ASSUME Init
             PROVE  TradeInv
  OBVIOUS
<1>1. trade_payload = << >> /\ trades = << >> /\ Len(<< >>) = 0 /\ << >> \in Seq(Nat)
  BY DEF Init
<1>2. QED
  BY <1>1, InitType DEF TradeInv, Stretch, Captured, TradesKeepHostOrder

\* What was captured does not change when the host sends more.
LEMMA MoreCharacters ==
    ASSUME uart \in Seq(UartChar), NEW c \in UartChar, UartPoll(c), NEW line, Stretch(line)
    PROVE  /\ Stretch(line)'
           /\ \A i \in 1 .. Len(line) : line[i] < Len(uart') /\ uart'[line[i]] = uart[line[i]]
<1>1. /\ Len(uart') = Len(uart) + 1 /\ Len(uart) \in Nat
      /\ \A k \in 1 .. Len(uart) : uart'[k] = uart[k]
  BY DEF UartPoll
<1>2. line \in Seq(Nat) /\ \A i \in 1 .. Len(line) : line[i] \in 1 .. Len(uart)
  BY DEF Stretch
<1>3. \A i \in 1 .. Len(line) : line[i] \in 1 .. Len(uart') /\ line[i] < Len(uart')
                                /\ uart'[line[i]] = uart[line[i]]
  BY <1>1, <1>2
<1>4. QED
  BY <1>3 DEF Stretch

\* A step in which the host sends a character that is not captured with the line.
LEMMA CapturedStay ==
    ASSUME TradeInv, UNCHANGED trades, NEW c \in UartChar, UartPoll(c)
    PROVE  Captured'
<1>1. uart \in Seq(UartChar) /\ Captured
  BY DEF TradeInv, TypeOK
<1>2. SUFFICES ASSUME NEW n \in 1 .. Len(trades)
               PROVE  Stretch(trades[n])' /\ trades[n] # << >> /\ uart'[trades[n][1]] = "lbrace"
  BY DEF Captured
<1>3. Stretch(trades[n]) /\ trades[n] # << >> /\ uart[trades[n][1]] = "lbrace"
  BY <1>1 DEF Captured
<1> DEFINE line == trades[n]
<1>4. trades'[n] = trades[n] /\ 1 \in 1 .. Len(line)
  BY <1>3 DEF Stretch
<1> HIDE DEF line
<1>5. Stretch(line) /\ 1 \in 1 .. Len(line)
  BY <1>3, <1>4 DEF line
<1>6. uart'[line[1]] = uart[line[1]]
  BY <1>1, <1>5, MoreCharacters
<1>7. \A i \in 1 .. Len(line) : line[i] < Len(uart') /\ uart'[line[i]] = uart[line[i]]
  BY <1>1, <1>5, MoreCharacters
<1>8. Len(uart) \in Nat /\ Len(uart') = Len(uart) + 1
  BY <1>1 DEF UartPoll
<1>9. Stretch(trades[n])'
  BY <1>3, <1>4, <1>7, <1>8 DEF Stretch, line
<1>10. QED
  BY <1>3, <1>6, <1>9 DEF line

\* The part that fits a request is a stretch that begins where the line begins.
LEMMA FittingIsStretch ==
    ASSUME NEW line, Stretch(line), line # << >>
    PROVE  /\ Stretch(Fitting(line)) /\ Fitting(line) # << >>
           /\ Fitting(line)[1] = line[1]
<1> DEFINE n == IF Len(line) < DATA_MAX THEN Len(line) ELSE DATA_MAX
<1>1. line \in Seq(Nat) /\ Len(line) \in Nat \ {0} /\ n \in 1 .. Len(line)
  BY SizeAssumption DEF Stretch
<1>2. Fitting(line) = SubSeq(line, 1, n)
  BY DEF Fitting
<1> HIDE DEF n
<1>3. /\ Fitting(line) \in Seq(Nat) /\ Len(Fitting(line)) = n
      /\ \A i \in 1 .. n : Fitting(line)[i] = line[i]
  BY <1>1, <1>2
<1>4. /\ 1 \in 1 .. n /\ \A i \in 1 .. n : i \in 1 .. Len(line)
      /\ \A i \in 1 .. n - 1 : i \in 1 .. Len(line) - 1 /\ i \in 1 .. n /\ i + 1 \in 1 .. n
  BY <1>1
<1>5. Stretch(Fitting(line))
  BY <1>3, <1>4 DEF Stretch
<1>6. QED
  BY <1>3, <1>4, <1>5

LEMMA StepTradeInv == TradeInv /\ [Next]_vars => TradeInv'
<1> SUFFICES ASSUME TradeInv, [Next]_vars
             PROVE  TradeInv'
  OBVIOUS
<1>1. TypeOK /\ TypeOK' /\ Stretch(trade_payload) /\ Captured /\ TradesKeepHostOrder
  BY StepType DEF TradeInv
<1>2. /\ uart \in Seq(UartChar) /\ Len(uart) \in Nat /\ trades \in Seq(Seq(Nat))
      /\ trade_payload \in Seq(Nat) /\ Len(trades) \in Nat /\ Len(trade_payload) \in Nat
  <2>1. uart \in Seq(UartChar) /\ trades \in Seq(Seq(Nat)) /\ trade_payload \in Seq(Nat)
    BY <1>1 DEF TypeOK
  <2>2. QED
    BY <2>1
\* The host and the captured lines stand still: the line is the same or is dropped.
<1>3. ASSUME uart' = uart, trades' = trades,
             trade_payload' = << >> \/ (trade_payload' = trade_payload
                                        /\ (pc' = "trade_read" => pc = "trade_read"))
      PROVE  TradeInv'
  <2>1. CASE trade_payload' = << >>
    <3>1. Stretch(trade_payload)'
      <4>1. << >> \in Seq(Nat) /\ Len(<< >>) = 0
        OBVIOUS
      <4>2. QED
        BY <2>1, <4>1 DEF Stretch
    <3>2. Captured' /\ TradesKeepHostOrder'
      BY <1>1, <1>3 DEF Captured, Stretch, TradesKeepHostOrder
    <3>3. QED
      BY <1>1, <2>1, <3>1, <3>2 DEF TradeInv
  <2>2. CASE trade_payload' = trade_payload /\ (pc' = "trade_read" => pc = "trade_read")
    <3>1. Stretch(trade_payload)' /\ Captured' /\ TradesKeepHostOrder'
      BY <1>1, <1>3, <2>2 DEF Captured, Stretch, TradesKeepHostOrder
    <3>2. QED
      BY <1>1, <1>3, <2>2, <3>1 DEF TradeInv
  <2>3. QED
    BY <1>3, <2>1, <2>2
\* The host sends a character that the line does not get.
<1>4. ASSUME NEW c \in UartChar, UartPoll(c), trades' = trades, trade_payload' = trade_payload,
             pc' # "trade_read"
      PROVE  TradeInv'
  <2>1. Captured'
    BY <1>4, CapturedStay
  <2>2. Stretch(trade_payload)'
    <3>1. \A i \in 1 .. Len(trade_payload) :
                trade_payload[i] < Len(uart') /\ uart'[trade_payload[i]] = uart[trade_payload[i]]
      BY <1>1, <1>2, <1>4, MoreCharacters
    <3>2. Len(uart') = Len(uart) + 1
      BY <1>2, <1>4 DEF UartPoll
    <3>3. QED
      BY <1>1, <1>2, <1>4, <3>1, <3>2 DEF Stretch
  <2>3. TradesKeepHostOrder'
    BY <1>1, <1>4 DEF TradesKeepHostOrder
  <2>4. QED
    BY <1>1, <1>4, <2>1, <2>2, <2>3 DEF TradeInv
<1>5. ASSUME NEW c \in UartChar, TradeChar(c)
      PROVE  TradeInv'
  <2>1. /\ UartPoll(c) /\ ~IsLineEnd(c) /\ pc = "trade_read" /\ trades' = trades
        /\ trade_payload' = Append(trade_payload, Len(uart'))
    BY <1>5 DEF TradeChar
  <2>2. /\ Len(uart') = Len(uart) + 1 /\ uart'[Len(uart')] = c
    BY <1>2, <2>1 DEF UartPoll
  <2>3. /\ trade_payload' \in Seq(Nat) /\ Len(trade_payload') = Len(trade_payload) + 1
        /\ trade_payload'[Len(trade_payload) + 1] = Len(uart) + 1
        /\ \A i \in 1 .. Len(trade_payload) : trade_payload'[i] = trade_payload[i]
    BY <1>2, <2>1, <2>2
  <2>4. \A i \in 1 .. Len(trade_payload) :
            trade_payload[i] \in 1 .. Len(uart) /\ uart'[trade_payload[i]] = uart[trade_payload[i]]
            /\ ~IsLineEnd(uart[trade_payload[i]])
    BY <1>1, <1>2, <2>1, MoreCharacters DEF Stretch
  <2>5. Stretch(trade_payload)'
    <3>1. ASSUME NEW i \in 1 .. Len(trade_payload')
          PROVE  trade_payload'[i] \in 1 .. Len(uart') /\ ~IsLineEnd(uart'[trade_payload'[i]])
      <4>1. CASE i = Len(trade_payload) + 1
        BY <1>2, <2>1, <2>2, <2>3, <4>1
      <4>2. CASE i # Len(trade_payload) + 1
        <5>1. i \in 1 .. Len(trade_payload)
          BY <1>2, <2>3, <4>2
        <5>2. /\ trade_payload'[i] = trade_payload[i] /\ trade_payload[i] \in 1 .. Len(uart)
              /\ uart'[trade_payload[i]] = uart[trade_payload[i]]
              /\ ~IsLineEnd(uart[trade_payload[i]])
          BY <2>3, <2>4, <5>1
        <5>3. \A k \in 1 .. Len(uart) : k \in 1 .. Len(uart')
          BY <1>2, <2>2
        <5>4. QED
          BY <5>2, <5>3, Zenon
      <4>3. QED
        BY <4>1, <4>2
    <3>2. ASSUME NEW i \in 1 .. Len(trade_payload') - 1
          PROVE  trade_payload'[i + 1] = trade_payload'[i] + 1
      <4>1. CASE i = Len(trade_payload)
        <5>1. Last(trade_payload) = Len(uart) /\ i \in 1 .. Len(trade_payload)
          BY <1>2, <2>1, <4>1 DEF TradeInv
        <5>2. trade_payload'[i] = Len(uart)
          BY <2>3, <4>1, <5>1 DEF Last
        <5>3. QED
          BY <2>3, <4>1, <5>2
      <4>2. CASE i # Len(trade_payload)
        <5>1. i \in 1 .. Len(trade_payload) - 1 /\ i \in 1 .. Len(trade_payload)
              /\ i + 1 \in 1 .. Len(trade_payload)
          BY <1>2, <2>3, <4>2
        <5>2. trade_payload[i + 1] = trade_payload[i] + 1
          BY <1>1, <5>1 DEF Stretch
        <5>3. QED
          BY <2>3, <5>1, <5>2
      <4>3. QED
        BY <4>1, <4>2
    <3>3. QED
      BY <2>3, <3>1, <3>2 DEF Stretch
  <2>6. Captured' /\ TradesKeepHostOrder'
    <3>1. Captured'
      BY <2>1, CapturedStay
    <3>2. QED
      BY <1>1, <2>1, <3>1 DEF TradesKeepHostOrder
  <2>7. Last(trade_payload)' = Len(uart')
    BY <1>2, <2>2, <2>3 DEF Last
  <2>8. ASSUME trades # << >>
        PROVE  Last(trades[Len(trades)]) < trade_payload'[1]
    <3>1. CASE trade_payload = << >>
      <4>1. trade_payload'[1] = Len(uart) + 1
        BY <2>3, <3>1
      <4>2. Len(trades) \in 1 .. Len(trades)
        BY <1>2, <2>8
      <4>3. Stretch(trades[Len(trades)]) /\ trades[Len(trades)] # << >>
        BY <1>1, <4>2 DEF Captured
      <4>4. Last(trades[Len(trades)]) \in 1 .. Len(uart)
        BY <4>3 DEF Stretch, Last
      <4>5. QED
        BY <1>2, <4>1, <4>4
    <3>2. CASE trade_payload # << >>
      <4>1. trade_payload'[1] = trade_payload[1]
        BY <1>2, <2>3, <3>2
      <4>2. QED
        BY <2>8, <3>2, <4>1 DEF TradeInv
    <3>3. QED
      BY <3>1, <3>2
  <2>9. QED
    BY <1>1, <2>1, <2>5, <2>6, <2>7, <2>8 DEF TradeInv
<1>6. CASE TradeCaptured
  <2>1. /\ IsTrade(trade_payload) /\ trades' = Append(trades, Fitting(trade_payload))
        /\ trade_payload' = << >> /\ uart' = uart
    BY <1>6 DEF TradeCaptured, hostVars
  <2> DEFINE line == Fitting(trade_payload)
  <2>2. Stretch(line) /\ line # << >> /\ line[1] = trade_payload[1]
    BY <1>1, <2>1, FittingIsStretch DEF IsTrade
  <2>3. uart[line[1]] = "lbrace" /\ line \in Seq(Nat)
    BY <2>1, <2>2 DEF IsTrade, Stretch
  <2> HIDE DEF line
  <2>4. /\ Len(trades') = Len(trades) + 1 /\ trades'[Len(trades) + 1] = line
        /\ \A n \in 1 .. Len(trades) : trades'[n] = trades[n]
    <3>1. trades' = Append(trades, line)
      BY <2>1 DEF line
    <3>2. QED
      BY <1>2, <2>3, <3>1
  <2>5. ASSUME NEW n \in 1 .. Len(trades')
        PROVE  Stretch(trades[n])' /\ trades'[n] # << >> /\ uart'[trades'[n][1]] = "lbrace"
    <3>1. CASE n = Len(trades) + 1
      BY <3>1, <2>2, <2>4, <2>1, <2>3 DEF Stretch
    <3>2. CASE n # Len(trades) + 1
      <4>1. n \in 1 .. Len(trades)
        BY <1>2, <2>4, <3>2
      <4>2. QED
        BY <1>1, <2>1, <2>4, <4>1 DEF Captured, Stretch
    <3>3. QED
      BY <3>1, <3>2
  <2>6. ASSUME NEW n \in 1 .. Len(trades') - 1
        PROVE  Last(trades'[n]) < trades'[n + 1][1]
    <3>1. CASE n = Len(trades)
      <4>1. n \in 1 .. Len(trades) /\ trades # << >> /\ trade_payload # << >>
        BY <1>2, <2>1, <2>6, <3>1 DEF IsTrade
      <4>2. Last(trades[Len(trades)]) < trade_payload[1]
        BY <4>1 DEF TradeInv
      <4>3. QED
        BY <2>2, <2>4, <3>1, <4>1, <4>2
    <3>2. CASE n # Len(trades)
      <4>1. n \in 1 .. Len(trades) - 1 /\ n \in 1 .. Len(trades) /\ n + 1 \in 1 .. Len(trades)
        BY <1>2, <2>4, <3>2
      <4>2. QED
        BY <1>1, <2>4, <4>1 DEF TradesKeepHostOrder
    <3>3. QED
      BY <3>1, <3>2
  <2>7. Stretch(trade_payload)'
    <3>1. << >> \in Seq(Nat) /\ Len(<< >>) = 0
      OBVIOUS
    <3>2. QED
      BY <2>1, <3>1 DEF Stretch
  <2>8. Captured' /\ TradesKeepHostOrder'
    BY <2>5, <2>6 DEF Captured, TradesKeepHostOrder, Last
  <2>9. QED
    BY <1>1, <2>1, <2>7, <2>8 DEF TradeInv
<1>7. CASE DrainKeysDone \/ DrainUartDone \/ ReceiveIgnored \/ EditLine \/ EnterLocal
             \/ EnterRequest \/ EnterTrade \/ SendRequest \/ WaitResponse \/ TradeEmptyPoll
             \/ TradeRefused \/ RequestNeverReturns \/ TradeNeverReturns \/ Halted
             \/ UNCHANGED vars \/ \E c \in KeyChar : DrainKey(c)
  BY <1>3, <1>7 DEF RequestNeverReturns, TradeNeverReturns, Halted, DrainKeysDone,
     DrainUartDone, ReceiveIgnored, EditLine, EnterLocal, EnterRequest, EnterTrade,
     SendRequest, WaitResponse, TradeEmptyPoll, TradeRefused, DrainKey, ReceiveKey,
     hostVars, tradeVars, vars
<1>8. CASE TradeWait
  <2>1. trade_payload' = << >> /\ uart' = uart /\ trades' = trades
    BY <1>1, <1>8 DEF TradeWait, TypeOK, hostVars, tradeVars
  <2>2. QED
    BY <1>3, <2>1
<1>9. ASSUME NEW c \in UartChar, DrainUart(c) \/ TradeLineEnd(c)
      PROVE  TradeInv'
  BY <1>4, <1>9 DEF DrainUart, TradeLineEnd, tradeVars
<1>10. QED
  BY <1>5, <1>6, <1>7, <1>8, <1>9 DEF Next

LEMMA SpecTradeInv == Spec => []TradeInv
  BY InitTradeInv, StepTradeInv, PTL DEF Spec

\* However the timeout, the limit of a line and the two readers of the UART cut what the
\* host sends, each line that trade.listen hands to FS_WRITE_REQ is an unbroken stretch
\* of one line of the host that begins with a brace: for every limit and every timeout.
THEOREM TradesAreUnspliced == Spec => []CapturedTradesAreUnspliced
<1>1. TradeInv => CapturedTradesAreUnspliced
  BY DEF TradeInv, Captured, Stretch, CapturedTradesAreUnspliced
<1>2. QED
  BY <1>1, SpecTradeInv, PTL

\* No character of the host is captured twice, and the trades keep the host's order.
THEOREM TradesAreInOrder == Spec => []TradesKeepHostOrder
<1>1. TradeInv => TradesKeepHostOrder
  BY DEF TradeInv
<1>2. QED
  BY <1>1, SpecTradeInv, PTL

(***************************************************************************)
(* Waits come to an end.                                                   *)
(***************************************************************************)
\* How many messages the shell has to receive yet, at most, until it has its response;
\* none when the kernel will not come back from the request.
Unanswered ==
    IF pc = "send" THEN Capacity + 1 ELSE IF Waiting THEN Len(mailbox) ELSE 0

LEMMA UnansweredBounds ==
    ASSUME MailInv
    PROVE  /\ mailbox \in Seq(Mail!Message) /\ Len(mailbox) \in Nat /\ Capacity \in Nat
           /\ Len(mailbox) <= Capacity
           /\ Unanswered \in 0 .. Capacity + 1
           /\ (Waiting \/ pc = "send") => Unanswered >= 1
<1>1. /\ mailbox \in Seq(Mail!Message) /\ Len(mailbox) <= Capacity
      /\ Len(mailbox) \in Nat /\ Capacity \in Nat
  BY SizeAssumption DEF MailInv, TypeOK, Mail!TypeOK
<1>2. Waiting => Len(mailbox) >= 1
  <2>1. Waiting => mailbox # << >>
    BY DEF MailInv, AwaitedResponseIsQueued
  <2>2. QED
    BY <1>1, <2>1
<1>3. QED
  BY <1>1, <1>2 DEF Unanswered

\* A loop that waits discards a message, or has its response.
LEMMA WaitGetsOn ==
    ASSUME MailInv, WaitResponse \/ TradeWait
    PROVE  Unanswered' < Unanswered
<1>1. Waiting /\ pc # "send" /\ pc' # "send" /\ Mail!Receive
  BY DEF WaitResponse, TradeWait, Waiting
<1>2. mailbox # << >> /\ Mail!ReceiveMessage
  BY <1>1 DEF MailInv, AwaitedResponseIsQueued, Mail!Receive, Mail!ReceiveNothing
<1>3. Len(mailbox') = Len(mailbox) - 1 /\ Len(mailbox) \in Nat \ {0}
  BY <1>2, UnansweredBounds, ReceiveFacts
<1>4. Unanswered = Len(mailbox) /\ Unanswered' \in {Len(mailbox'), 0}
  BY <1>1 DEF Unanswered
<1>5. QED
  BY <1>3, <1>4

LEMMA SendGetsOn ==
    ASSUME MailInv, TypeOK', SendRequest
    PROVE  Unanswered' < Unanswered
<1>1. pc = "send" /\ pc' = "wait"
  BY DEF SendRequest
<1>2. Unanswered = Capacity + 1 /\ Unanswered' = Len(mailbox')
  BY <1>1 DEF Unanswered, Waiting
<1>3. Len(mailbox') \in Nat /\ Len(mailbox') <= Capacity /\ Capacity \in Nat
  BY SizeAssumption DEF TypeOK, Mail!TypeOK
<1>4. QED
  BY <1>2, <1>3

\* A machine that is lost in a request waits no more.
LEMMA LostGetsOn ==
    ASSUME MailInv, RequestNeverReturns
    PROVE  Unanswered' < Unanswered
<1>1. pc = "send" /\ pc' = "halted"
  BY DEF RequestNeverReturns
<1>2. Unanswered' = 0
  BY <1>1 DEF Unanswered, Waiting
<1>3. QED
  BY <1>1, <1>2, UnansweredBounds

\* The two loops without a timeout: each turn leaves fewer messages before the response,
\* so a request from which the kernel comes back has its response after at most as many
\* receives as the mailbox has room.
THEOREM WaitsGetOn == Spec => [][Waiting \/ pc = "send" => Unanswered' < Unanswered]_vars
<1>1. ASSUME MailInv, Next, Waiting \/ pc = "send"
      PROVE  Unanswered' < Unanswered
  <2>1. TypeOK'
    BY <1>1, StepType DEF MailInv
  <2>2. WaitResponse \/ TradeWait \/ SendRequest \/ RequestNeverReturns
    BY <1>1 DEF Next, Waiting, Halted, TradeNeverReturns, DrainKey, DrainKeysDone, DrainUart,
       DrainUartDone, ReceiveIgnored, ReceiveKey, EditLine, EnterLocal, EnterRequest, EnterTrade,
       TradeEmptyPoll, TradeChar, TradeLineEnd, TradeCaptured, TradeRefused
  <2>3. QED
    BY <1>1, <2>1, <2>2, WaitGetsOn, SendGetsOn, LostGetsOn
<1>2. MailInv /\ [Next]_vars => [Waiting \/ pc = "send" => Unanswered' < Unanswered]_vars
  BY <1>1
<1>3. QED
  BY <1>2, SpecMailInv, PTL DEF Spec

(***************************************************************************)
(* The shell and the mailbox.                                              *)
(***************************************************************************)
\* What the devices, the kernel and the shell do to the mailbox is what it allows.
LEMMA SendsAreOfMailbox ==
    ASSUME TypeOK, NEW m \in Mail!Message, Mail!Send(m)
    PROVE  Mail!Next
  BY DEF Mail!Next

LEMMA StepOfMailbox == TypeOK /\ [Next]_vars => [Mail!Next]_Mail!vars
<1> SUFFICES ASSUME TypeOK, [Next]_vars
             PROVE  [Mail!Next]_Mail!vars
  OBVIOUS
<1>1. ASSUME NEW c \in KeyChar, DrainKey(c)
      PROVE  Mail!Next
  <2>1. KeyMsg(c) \in Mail!Message
    BY InputAssumption, MessageTypes DEF KeyPress
  <2>2. QED
    BY <1>1, <2>1, SendsAreOfMailbox DEF DrainKey
<1>2. ASSUME NEW c \in UartChar, DrainUart(c)
      PROVE  Mail!Next
  <2>1. KeyMsg(IF c = "cr" THEN "nl" ELSE c) \in Mail!Message
    BY InputAssumption, MessageTypes DEF KeyPress
  <2>2. QED
    BY <1>2, <2>1, SendsAreOfMailbox DEF DrainUart
<1>3. CASE SendRequest \/ TradeCaptured
  <2>1. PICK r \in Request : Respond(r)
    BY <1>3, RequestAssumption DEF SendRequest, TradeCaptured, TypeOK, Waiting
  <2>2. [type |-> RespType[r], payload |-> "text"] \in Mail!Message
    BY MessageTypes
  <2>3. QED
    BY <2>1, <2>2, SendsAreOfMailbox DEF Respond, Mail!Next
<1>4. CASE ReceiveIgnored \/ EditLine \/ EnterLocal \/ EnterRequest \/ EnterTrade
             \/ WaitResponse \/ TradeWait
  BY <1>4 DEF ReceiveIgnored, EditLine, EnterLocal, EnterRequest, EnterTrade, ReceiveKey,
     WaitResponse, TradeWait, Mail!Receive, Mail!Next
<1>5. CASE DrainKeysDone \/ DrainUartDone \/ TradeEmptyPoll \/ TradeRefused
             \/ RequestNeverReturns \/ TradeNeverReturns \/ Halted \/ UNCHANGED vars
             \/ \E c \in UartChar : TradeChar(c) \/ TradeLineEnd(c)
  BY <1>5 DEF DrainKeysDone, DrainUartDone, TradeEmptyPoll, TradeRefused, TradeChar,
     TradeLineEnd, RequestNeverReturns, TradeNeverReturns, Halted, vars, mailVars, Mail!vars
<1>6. QED
  BY <1>1, <1>2, <1>3, <1>4, <1>5 DEF Next

\* Between the shell and the kernel lies the queue that the ring of kernel/syscall.c
\* implements (ImplementsFifo): no step of the shell, of a device or of a request served
\* does more to it than one send of a message of its types or one receive.
THEOREM ShellUsesMailbox == Spec => Mail!Spec
<1>1. Init => Mail!Init
  BY DEF Init
<1>2. QED
  BY <1>1, StepOfMailbox, ShellTypeCorrect, PTL DEF Spec, Mail!Spec
=============================================================================

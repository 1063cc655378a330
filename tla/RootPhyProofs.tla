----------------------------- MODULE RootPhyProofs -----------------------------
(***************************************************************************)
(* The two UART threads of the root's driver share the modem without a     *)
(* lock: RootPhy's OneCommand, AnswersEndCommands and LostOnlyWhenFull,    *)
(* proved for every size of the buffers and every number of commands.      *)
(***************************************************************************)
EXTENDS RootPhy, TLAPS, SequenceTheorems

-----------------------------------------------------------------------------
(* The inductive invariant *)

UartLine == {"ok", "radio_tx_ok", "radio_err", "radio_rx"}

\* Nothing of the last command is left: it has ended and its lines are processed.
Idle == radio = NoCommand /\ lines = << >> /\ uart_rx = "read"

\* _can_send is only believed between the clearing and the next write: before the
\* clearing it may be set by the answer of the command just written.
SendsWhenIdle == uart_tx # "reset" /\ (can_send \/ uart_tx \in {"get", "write"}) => Idle

\* Between the Get and the end of the command, last_sended is that command.
LastWritten ==
  /\ uart_tx \in {"write", "reset"} => last_sended \in Cmd
  /\ radio.cmd # "none" => last_sended = radio.cmd

\* What a command that has started, or that has ended, may have printed so far.
Started == lines \in {<< >>, <<"ok">>}
Ended ==
  \/ lines = << >>
  \/ \E l \in Replies(last_sended) :
       lines = <<l>> \/ (last_sended \in {"tx", "rx"} /\ lines = <<"ok", l>>)

\* The lines are those of last_sended, in the order in which the modem printed them.
LinesOfLast ==
  /\ radio.started => radio.cmd \in {"tx", "rx"} /\ Started
  /\ radio.cmd # "none" /\ ~radio.started => lines = << >> /\ uart_rx = "read"
  /\ radio.cmd = "none" => Ended
  /\ uart_rx = "process" => lines # << >>

IInv == TypeOK /\ SendsWhenIdle /\ LastWritten /\ LinesOfLast /\ AnswersEndCommands

-----------------------------------------------------------------------------
(* Type correctness *)

\* What a line is added to, and what is left when one is taken, for the few lines
\* that a command prints.
LEMMA FewLines ==
  ASSUME NEW l \in UartLine
  PROVE  /\ Append(<< >>, l) = <<l>> /\ Append(<<"ok">>, l) = <<"ok", l>>
         /\ Head(<<l>>) = l /\ Tail(<<l>>) = << >>
         /\ Head(<<"ok", l>>) = "ok" /\ Tail(<<"ok", l>>) = <<l>>
<1>1. Append(<< >>, l) = <<l>> OBVIOUS
<1>2. Append(<<"ok">>, l) = <<"ok", l>>
  <2> DEFINE both == Append(<<"ok">>, l)
             pair == <<"ok", l>>
  <2>1. "ok" \in UartLine BY DEF UartLine
  <2>2. /\ both \in Seq(UartLine) /\ Len(both) = 2
        /\ both[1] = "ok" /\ both[2] = l
    BY <2>1
  <2>3. /\ pair \in Seq(UartLine) /\ Len(pair) = 2
        /\ pair[1] = "ok" /\ pair[2] = l
    BY <2>1
  <2>4. \A i \in 1..2 : both[i] = pair[i]
    <3> HIDE DEF both, pair
    <3> QED BY <2>2, <2>3
  <2> HIDE DEF both, pair
  <2>5. both = pair
    BY <2>2, <2>3, <2>4, SeqEqual
  <2> QED BY <2>5 DEF both, pair
<1>3. Head(<<l>>) = l /\ Head(<<"ok", l>>) = "ok" OBVIOUS
<1>4. Tail(<<l>>) = << >> OBVIOUS
<1>5. Tail(<<"ok", l>>) = <<l>> OBVIOUS
<1> QED BY <1>1, <1>2, <1>3, <1>4, <1>5

\* A command put into the buffer leaves it a buffer, full or not.
LEMMA SendPhyType ==
  ASSUME TypeOK, NEW c \in Cmd, SendPhy(c)
  PROVE  buffer' \in Seq(Cmd) /\ Len(buffer') <= TxBufSize
BY SizeAssumption DEF TypeOK, SendPhy, Full

\* Every line of a reply is a line.
LEMMA RepliesType == ASSUME NEW c \in Cmd PROVE Replies(c) \subseteq UartLine
BY DEF Cmd, Replies, UartLine

\* The types hold when the driver starts.
LEMMA InitType == Init => TypeOK
<1> SUFFICES ASSUME Init PROVE TypeOK
  OBVIOUS
<1>1. ConfQueued \in Nat /\ ConfQueued <= TxBufSize
  BY SizeAssumption DEF ConfQueued
<1>2. buffer \in Seq(Cmd) /\ Len(buffer) <= TxBufSize
  BY <1>1 DEF Init, Cmd
<1>3. lines \in Seq(UartLine) /\ radio \in [cmd : Cmd \cup {"none"}, started : BOOLEAN]
  BY DEF Init, NoCommand
<1>4. rx_buffer \in 0..RxBufSize
  BY SizeAssumption DEF Init
<1> QED BY <1>2, <1>3, <1>4 DEF Init, TypeOK, UartLine

\* The transmitting thread keeps the types.
LEMMA UartTxType == ASSUME TypeOK, LastWritten, UartTx PROVE TypeOK'
<1> USE DEF rxVars, modemVars
<1>1. CASE Test
  BY <1>1 DEF TypeOK, Test
<1>2. CASE Wait
  BY <1>2 DEF TypeOK, Wait
<1>3. CASE Get
  <2>1. buffer' \in Seq(Cmd) /\ Len(buffer') <= TxBufSize /\ last_sended' \in Cmd
    BY <1>3, SizeAssumption DEF TypeOK, Get
  <2> QED BY <1>3, <2>1 DEF TypeOK, Get
<1>4. CASE Write
  BY <1>4 DEF TypeOK, Write
<1>5. CASE Reset
  BY <1>5 DEF TypeOK, Reset, Cleared
<1> QED BY <1>1, <1>2, <1>3, <1>4, <1>5 DEF UartTx

\* So does the modem.
LEMMA ModemType == ASSUME TypeOK, Modem PROVE TypeOK'
<1> USE DEF txVars, rxVars
<1>1. CASE PrintStart
  <2>1. lines' \in Seq(UartLine)
    BY <1>1 DEF TypeOK, PrintStart, UartLine
  <2>2. radio' \in [cmd : Cmd \cup {"none"}, started : BOOLEAN]
    BY <1>1 DEF TypeOK, PrintStart
  <2> QED BY <1>1, <2>1, <2>2 DEF TypeOK, PrintStart, UartLine
<1>2. CASE PrintEnd
  <2>1. PICK l \in Replies(radio.cmd) : lines' = Append(lines, l)
    BY <1>2 DEF PrintEnd
  <2>2. l \in UartLine
    BY <2>1, RepliesType DEF TypeOK, Replies, Cmd
  <2>3. lines' \in Seq(UartLine)
    BY <2>1, <2>2 DEF TypeOK, UartLine
  <2> QED BY <1>2, <2>3 DEF TypeOK, PrintEnd, NoCommand, UartLine
<1> QED BY <1>1, <1>2 DEF Modem

\* So does the receiving thread.
LEMMA UartRxType == ASSUME TypeOK, LinesOfLast, UartRx PROVE TypeOK'
<1> USE DEF txVars, modemVars
<1>1. CASE ReadLine
  BY <1>1 DEF TypeOK, ReadLine, EndsListening
<1>2. CASE Unexpected
  <2>1. lines' \in Seq(UartLine)
    BY <1>2 DEF TypeOK, LinesOfLast, Unexpected, UartLine
  <2> QED BY <1>2, <2>1 DEF TypeOK, Unexpected, UartLine
<1>3. CASE ProcessResponse
  <2>1. lines' \in Seq(UartLine)
    BY <1>3 DEF TypeOK, LinesOfLast, ProcessResponse, UartLine
  <2>2. rx_buffer' \in 0..RxBufSize
    BY <1>3, SizeAssumption DEF TypeOK, ProcessResponse
  <2>3. uart_rx' \in {"read", "process", "listen", "notify"} /\ is_listen' \in BOOLEAN
    BY <1>3 DEF TypeOK, ProcessResponse
  <2>4. UNCHANGED <<buffer, mac, radio, can_send, last_sended, uart_tx>>
    BY <1>3 DEF ProcessResponse
  <2> QED BY <2>1, <2>2, <2>3, <2>4 DEF TypeOK, UartLine
<1>4. CASE ListenAgain
  BY <1>4, SendPhyType DEF TypeOK, ListenAgain, Cmd
<1>5. CASE Notify
  BY <1>5 DEF TypeOK, Notify
<1> QED BY <1>1, <1>2, <1>3, <1>4, <1>5 DEF UartRx

\* So does the MAC.
LEMMA MacType == ASSUME TypeOK, MacThread PROVE TypeOK'
<1> USE DEF txVars, rxVars, modemVars
<1>1. CASE Timeout
  BY <1>1, SendPhyType DEF TypeOK, Timeout, Cmd
<1>2. CASE GetFrame
  BY <1>2, SizeAssumption DEF TypeOK, GetFrame
<1>3. CASE PhySend
  BY <1>3, SendPhyType DEF TypeOK, PhySend, Cmd
<1>4. CASE MacListen
  BY <1>4 DEF TypeOK, MacListen
<1>5. CASE PhyRxMark
  BY <1>5 DEF TypeOK, PhyRxMark
<1>6. CASE PhyRxPut
  BY <1>6, SendPhyType DEF TypeOK, PhyRxPut, Cmd
<1> QED BY <1>1, <1>2, <1>3, <1>4, <1>5, <1>6 DEF MacThread

-----------------------------------------------------------------------------
(* Who writes, and when *)

\* The transmitting thread writes when the modem is idle, and what it has written
\* is what the modem executes.
LEMMA UartTxControl ==
  ASSUME IInv, UartTx
  PROVE  SendsWhenIdle' /\ LastWritten' /\ LinesOfLast' /\ AnswersEndCommands'
<1> USE DEF IInv, rxVars, modemVars
<1>1. CASE Test
  <2>1. SendsWhenIdle'
    BY <1>1 DEF Test, SendsWhenIdle, Idle
  <2>2. LastWritten' /\ LinesOfLast' /\ AnswersEndCommands'
    BY <1>1 DEF Test, LastWritten, LinesOfLast, Started, Ended, AnswersEndCommands
  <2> QED BY <2>1, <2>2
<1>2. CASE Wait
  <2>1. SendsWhenIdle'
    BY <1>2 DEF Wait, SendsWhenIdle, Idle
  <2>2. LastWritten' /\ LinesOfLast' /\ AnswersEndCommands'
    BY <1>2 DEF Wait, LastWritten, LinesOfLast, Started, Ended, AnswersEndCommands
  <2> QED BY <2>1, <2>2
<1>3. CASE Get
  <2>1. Idle
    BY <1>3 DEF Get, SendsWhenIdle
  <2>2. SendsWhenIdle' /\ AnswersEndCommands'
    BY <1>3, <2>1 DEF Get, SendsWhenIdle, AnswersEndCommands, Idle
  <2>3. last_sended' \in Cmd
    BY <1>3 DEF Get, TypeOK
  <2>4. LastWritten' /\ LinesOfLast'
    BY <1>3, <2>1, <2>3
       DEF Get, LastWritten, LinesOfLast, Started, Ended, Idle, NoCommand
  <2> QED BY <2>2, <2>4
<1>4. CASE Write
  <2>1. Idle
    BY <1>4 DEF Write, SendsWhenIdle
  <2>2. SendsWhenIdle' /\ AnswersEndCommands'
    BY <1>4, <2>1 DEF Write, SendsWhenIdle, AnswersEndCommands, Idle
  <2>3. LastWritten' /\ LinesOfLast'
    BY <1>4, <2>1
       DEF Write, LastWritten, LinesOfLast, Started, Ended, Idle, NoCommand, Cmd
  <2> QED BY <2>2, <2>3
<1>5. CASE Reset
  <2>1. SendsWhenIdle'
    BY <1>5 DEF Reset, Cleared, SendsWhenIdle
  <2>2. LastWritten' /\ LinesOfLast' /\ AnswersEndCommands'
    BY <1>5 DEF Reset, LastWritten, LinesOfLast, Started, Ended, AnswersEndCommands
  <2> QED BY <2>1, <2>2
<1> QED BY <1>1, <1>2, <1>3, <1>4, <1>5 DEF UartTx

\* What the modem prints belongs to the command last written.
LEMMA ModemControl ==
  ASSUME IInv, Modem
  PROVE  SendsWhenIdle' /\ LastWritten' /\ LinesOfLast' /\ AnswersEndCommands'
<1> USE DEF IInv, txVars, rxVars
<1>1. ~Idle /\ radio # NoCommand
  BY DEF Modem, PrintStart, PrintEnd, Idle, NoCommand, TypeOK, Cmd
<1>2. SendsWhenIdle' /\ AnswersEndCommands'
  BY <1>1 DEF Modem, PrintStart, PrintEnd, SendsWhenIdle, AnswersEndCommands
<1>3. CASE PrintStart
  <2>1. lines = << >> /\ lines' = <<"ok">> /\ uart_rx = "read"
    <3>1. lines = << >> /\ uart_rx = "read" /\ "ok" \in UartLine
      BY <1>3 DEF PrintStart, LinesOfLast, UartLine
    <3> QED BY <1>3, <3>1, FewLines DEF PrintStart
  <2>2. radio'.started /\ radio'.cmd = radio.cmd
    BY <1>3 DEF PrintStart, TypeOK
  <2> QED BY <1>2, <1>3, <2>1, <2>2 DEF PrintStart, LastWritten, LinesOfLast, Started
<1>4. CASE PrintEnd
  <2>1. PICK l \in Replies(last_sended) : lines' = Append(lines, l)
    BY <1>1, <1>4 DEF PrintEnd, LastWritten, TypeOK, NoCommand, Replies, Cmd
  <2>2. \/ lines = << >>
        \/ last_sended \in {"tx", "rx"} /\ lines = <<"ok">>
    BY <1>4 DEF PrintEnd, LinesOfLast, LastWritten, Started, TypeOK
  <2>3. \/ lines' = <<l>>
        \/ last_sended \in {"tx", "rx"} /\ lines' = <<"ok", l>>
    <3>1. l \in UartLine
      BY <2>1, RepliesType DEF TypeOK, Replies, Cmd
    <3> QED BY <2>1, <2>2, <3>1, FewLines
  <2>4. lines' # << >> /\ radio'.cmd = "none" /\ ~radio'.started /\ last_sended' = last_sended
    BY <1>4, <2>3 DEF PrintEnd, NoCommand
  <2>5. Ended'
    BY <2>3, <2>4 DEF Ended
  <2>6. LinesOfLast'
    BY <2>4, <2>5 DEF LinesOfLast
  <2> QED BY <1>2, <1>4, <2>4, <2>6 DEF PrintEnd, LastWritten
<1> QED BY <1>3, <1>4 DEF Modem

\* A response that ends the wait is the last line of the command.
LEMMA UartRxControl ==
  ASSUME IInv, UartRx
  PROVE  SendsWhenIdle' /\ LastWritten' /\ LinesOfLast' /\ AnswersEndCommands'
<1> USE DEF IInv, txVars, modemVars
<1>1. CASE ReadLine
  <2>1. SendsWhenIdle' /\ LastWritten' /\ AnswersEndCommands'
    BY <1>1 DEF ReadLine, SendsWhenIdle, Idle, LastWritten, AnswersEndCommands
  <2>2. LinesOfLast'
    BY <1>1 DEF ReadLine, LinesOfLast, Started, Ended
  <2> QED BY <2>1, <2>2
<1>2. CASE Unexpected
  <2>1. lines # << >> /\ ~Idle
    BY <1>2 DEF Unexpected, LinesOfLast, Idle
  <2>2. SendsWhenIdle' /\ LastWritten' /\ AnswersEndCommands'
    BY <1>2, <2>1 DEF Unexpected, SendsWhenIdle, LastWritten, AnswersEndCommands
  <2>3. CASE radio.started
    <3>1. lines = <<"ok">> /\ "ok" \in UartLine
      BY <2>1, <2>3 DEF LinesOfLast, Started, UartLine
    <3>2. lines' = << >>
      BY <1>2, <3>1, FewLines DEF Unexpected
    <3> QED BY <1>2, <2>2, <2>3, <3>2 DEF Unexpected, LinesOfLast, Started, TypeOK
  <2>4. CASE ~radio.started
    <3>1. radio.cmd = "none" /\ Ended
      BY <1>2, <2>4 DEF Unexpected, LinesOfLast
    <3>2. PICK l \in Replies(last_sended) :
            lines = <<l>> \/ (last_sended \in {"tx", "rx"} /\ lines = <<"ok", l>>)
      BY <2>1, <3>1 DEF Ended
    <3>3. l \in ExpectedResponse(last_sended)
      BY <3>2 DEF TypeOK, Replies, ExpectedResponse, Cmd
    <3>4. lines' = <<l>>
      <4>1. l \in UartLine
        BY <3>2, RepliesType DEF TypeOK, Replies, Cmd
      <4> QED BY <1>2, <3>2, <3>3, <4>1, FewLines DEF Unexpected
    <3>5. Ended'
      BY <1>2, <3>2, <3>4 DEF Unexpected, Ended
    <3> QED BY <1>2, <2>2, <2>4, <3>1, <3>5 DEF Unexpected, LinesOfLast
  <2> QED BY <2>2, <2>3, <2>4 DEF TypeOK
<1>3. CASE ProcessResponse
  <2>1. lines # << >> /\ ~Idle
    BY <1>3 DEF ProcessResponse, LinesOfLast, Idle
  <2>2. Head(lines) # "ok" \/ last_sended = "set"
    BY <1>3 DEF ProcessResponse, ExpectedResponse, TypeOK, Cmd
  <2>3. ~radio.started
    BY <2>1, <2>2 DEF LinesOfLast, Started, LastWritten, TypeOK
  <2>4. radio.cmd = "none" /\ Ended
    BY <1>3, <2>3 DEF ProcessResponse, LinesOfLast
  <2>5. radio = NoCommand
    BY <2>3, <2>4 DEF TypeOK, NoCommand
  <2>6. PICK l \in Replies(last_sended) : lines = <<l>>
    BY <2>1, <2>2, <2>4 DEF Ended
  <2>7. lines' = << >>
    BY <1>3, <2>6 DEF ProcessResponse
  <2>8. SendsWhenIdle' /\ LastWritten' /\ AnswersEndCommands'
    BY <1>3, <2>1, <2>5, <2>7
       DEF ProcessResponse, SendsWhenIdle, LastWritten, AnswersEndCommands
  <2>9. LinesOfLast'
    BY <1>3, <2>3, <2>4, <2>7 DEF ProcessResponse, LinesOfLast, Ended
  <2> QED BY <2>8, <2>9
<1>4. CASE ListenAgain
  BY <1>4 DEF ListenAgain, SendsWhenIdle, Idle, LastWritten, LinesOfLast, Started, Ended,
              AnswersEndCommands
<1>5. CASE Notify
  <2>1. Idle'
    BY <1>5 DEF Notify, AnswersEndCommands, Idle
  <2>2. SendsWhenIdle' /\ AnswersEndCommands'
    BY <1>5, <2>1 DEF Notify, SendsWhenIdle, AnswersEndCommands, Idle
  <2>3. LastWritten' /\ LinesOfLast'
    BY <1>5, <2>1 DEF Notify, LastWritten, LinesOfLast, Started, Ended, Idle, NoCommand
  <2> QED BY <2>2, <2>3
<1> QED BY <1>1, <1>2, <1>3, <1>4, <1>5 DEF UartRx

-----------------------------------------------------------------------------
(* The theorems *)

\* What the MAC thread changes, none of the control facts mentions.
LEMMA MacControl ==
  ASSUME IInv, MacThread \/ UNCHANGED vars
  PROVE  SendsWhenIdle' /\ LastWritten' /\ LinesOfLast' /\ AnswersEndCommands'
<1>1. UNCHANGED <<can_send, last_sended, uart_tx, uart_rx, radio, lines>>
  BY DEF MacThread, Timeout, GetFrame, PhySend, MacListen, PhyRxMark, PhyRxPut, vars, txVars,
         rxVars, modemVars
<1>2. SendsWhenIdle' /\ LastWritten' /\ AnswersEndCommands'
  BY <1>1 DEF IInv, SendsWhenIdle, Idle, LastWritten, AnswersEndCommands
<1>3. LinesOfLast'
  BY <1>1 DEF IInv, LinesOfLast, Started, Ended
<1> QED BY <1>2, <1>3

\* The inductive invariant of the driver: types, and the agreement between the two
\* threads, the modem and last_sended.
THEOREM Invariance == Spec => []IInv
<1>1. Init => IInv
  <2> SUFFICES ASSUME Init PROVE IInv
    OBVIOUS
  <2>1. Idle /\ radio.cmd = "none" /\ ~radio.started /\ lines = << >>
    BY DEF Init, Idle, NoCommand
  <2>2. SendsWhenIdle /\ LastWritten /\ LinesOfLast /\ AnswersEndCommands
    BY <2>1 DEF Init, SendsWhenIdle, LastWritten, LinesOfLast, Ended, AnswersEndCommands
  <2> QED BY <2>2, InitType DEF IInv
<1>2. IInv /\ [Next]_vars => IInv'
  <2> SUFFICES ASSUME IInv, [Next]_vars PROVE IInv'
    OBVIOUS
  <2>1. CASE UartTx
    BY <2>1, UartTxType, UartTxControl DEF IInv
  <2>2. CASE Modem
    BY <2>2, ModemType, ModemControl DEF IInv
  <2>3. CASE UartRx
    BY <2>3, UartRxType, UartRxControl DEF IInv
  <2>4. CASE MacThread
    BY <2>4, MacType, MacControl DEF IInv
  <2>5. CASE UNCHANGED vars
    <3>1. TypeOK'
      BY <2>5 DEF IInv, TypeOK, vars, txVars, rxVars, modemVars
    <3> QED BY <2>5, <3>1, MacControl DEF IInv
  <2> QED BY <2>1, <2>2, <2>3, <2>4, <2>5 DEF Next
<1> QED BY <1>1, <1>2, PTL DEF Spec

\* The buffers of the driver stay within their sizes, whatever the three threads put.
THEOREM TypeCorrect == Spec => []TypeOK
<1>1. IInv => TypeOK
  BY DEF IInv
<1> QED BY <1>1, Invariance, PTL

\* No command is written while the modem executes one, or while a line of it waits.
THEOREM OneCommandHolds == Spec => []OneCommand
<1>1. IInv => OneCommand
  BY DEF IInv, SendsWhenIdle, Idle, OneCommand
<1> QED BY <1>1, Invariance, PTL

\* What _process_response takes for the end of a command is its end.
THEOREM AnswersEndCommandsHolds == Spec => []AnswersEndCommands
<1>1. IInv => AnswersEndCommands
  BY DEF IInv
<1> QED BY <1>1, Invariance, PTL

-----------------------------------------------------------------------------
(* Where a reception is lost *)

\* The reception that the modem executes, or has ended without the driver having
\* read that.
Executing ==
  /\ last_sended = "rx"
  /\ \/ uart_tx = "write" \/ radio.cmd = "rx"
     \/ lines # << >> /\ (uart_rx = "process" => Len(lines) > 1)

\* A command that is not a reception adds none to the buffer.
LEMMA OtherPut ==
  ASSUME TypeOK, NEW c \in Cmd \ {"rx"}, SendPhy(c)
  PROVE  Rx' = Rx
<1>1. CASE Full
  BY <1>1 DEF SendPhy, Rx
<1>2. CASE ~Full
  BY <1>2 DEF SendPhy, Rx, TypeOK
<1> QED BY <1>1, <1>2

\* A command that is not dropped makes the buffer longer by one.
LEMMA PutLen ==
  ASSUME TypeOK, NEW c \in Cmd, SendPhy(c)
  PROVE  /\ Len(buffer') <= Len(buffer) + 1
         /\ ~Full => /\ Len(buffer') = Len(buffer) + 1
                     /\ Rx' = Rx \cup (IF c = "rx" THEN {Len(buffer')} ELSE {})
<1>1. CASE Full
  BY <1>1 DEF SendPhy, TypeOK
<1>2. CASE ~Full
  <2>1. buffer \in Seq(Cmd) /\ buffer' = Append(buffer, c)
    BY <1>2 DEF SendPhy, TypeOK
  <2>2. Len(buffer') = Len(buffer) + 1
    BY <2>1
  <2>3. Rx' = Rx \cup (IF c = "rx" THEN {Len(buffer')} ELSE {})
    BY <2>1, <2>2 DEF Rx
  <2> QED BY <2>2, <2>3, <2>1
<1> QED BY <1>1, <1>2

\* The thread that writes takes a reception from the buffer to the modem.
LEMMA UartTxReception ==
  ASSUME IInv, UartTx, Reception
  PROVE  Reception'
<1>b. TypeOK /\ SendsWhenIdle /\ LastWritten
  BY DEF IInv
<1>a. Rx # {} \/ mac = "put" \/ uart_rx = "listen" \/ Executing
  BY DEF Reception, Executing
<1> USE DEF rxVars, modemVars
<1>1. CASE Get
  <2>1. Idle /\ buffer # << >> /\ buffer' = Tail(buffer) /\ last_sended' = Head(buffer)
        /\ uart_tx' = "write" /\ UNCHANGED <<mac, uart_rx>> /\ uart_tx = "get"
    BY <1>1, <1>b DEF Get, SendsWhenIdle
  <2>2. Rx # {} \/ mac = "put"
    BY <1>a, <2>1 DEF Executing, Idle, NoCommand
  <2>3. CASE Rx # {}
    <3>1. PICK i \in Rx : TRUE
      BY <2>3
    <3>2. CASE i = 1
      BY <1>b, <2>1, <3>1, <3>2 DEF Rx, TypeOK, Reception
    <3>3. CASE i # 1
      <4>1. i - 1 \in 1..Len(buffer') /\ buffer'[i - 1] = buffer[i]
        BY <1>b, <2>1, <3>1, <3>3 DEF Rx, TypeOK
      <4> QED BY <3>1, <4>1 DEF Rx, Reception
    <3> QED BY <3>2, <3>3
  <2> QED BY <2>1, <2>2, <2>3 DEF Reception
<1>2. CASE Write
  <2>1. UNCHANGED <<buffer, mac, uart_rx, last_sended, lines>>
        /\ uart_tx = "write" /\ radio'.cmd = last_sended
    BY <1>2 DEF Write
  <2> QED BY <1>a, <2>1 DEF Reception, Executing, Rx
<1>3. CASE Test \/ Wait \/ Reset
  <2>1. UNCHANGED <<buffer, mac, uart_rx, last_sended, lines, radio>> /\ uart_tx # "write"
    BY <1>3 DEF Test, Wait, Reset
  <2> QED BY <1>a, <2>1 DEF Reception, Executing, Rx
<1> QED BY <1>1, <1>2, <1>3 DEF UartTx

\* The modem's lines keep it, until the one that ends it is read.
LEMMA ModemReception ==
  ASSUME IInv, Modem, Reception
  PROVE  Reception'
<1>b. TypeOK /\ LastWritten /\ LinesOfLast
  BY DEF IInv
<1>1. UNCHANGED <<buffer, mac, last_sended, uart_tx, uart_rx>>
  BY DEF Modem, PrintStart, PrintEnd, txVars, rxVars
<1>2. PICK l \in UartLine : lines' = Append(lines, l)
  <2>1. CASE PrintStart
    BY <2>1 DEF PrintStart, UartLine
  <2>2. CASE PrintEnd
    <3>1. PICK l \in Replies(radio.cmd) : lines' = Append(lines, l)
      BY <2>2 DEF PrintEnd
    <3> QED BY <1>b, <3>1, RepliesType DEF TypeOK, Replies, Cmd
  <2> QED BY <2>1, <2>2 DEF Modem
<1>3. lines \in Seq(UartLine)
  BY <1>b DEF TypeOK, UartLine
<1>4. lines' # << >> /\ Len(lines') = Len(lines) + 1 /\ Len(lines) \in Nat
  BY <1>2, <1>3
<1>5. uart_rx = "process" => Len(lines') > 1
  <2>1. uart_rx = "process" => lines # << >>
    BY <1>b DEF LinesOfLast
  <2>2. lines # << >> => Len(lines) > 0
    BY <1>3
  <2> QED BY <1>4, <2>1, <2>2
<1> QED BY <1>1, <1>4, <1>5 DEF Reception, Rx

\* The thread that reads forgets _is_listen with the end of the reception, and
\* when it listens itself it puts a reception unless the buffer is full.
LEMMA UartRxReception ==
  ASSUME IInv, UartRx, is_listen => Reception, is_listen', ~(Full /\ ListenAgain)
  PROVE  Reception'
<1>b. TypeOK /\ SendsWhenIdle /\ LastWritten /\ LinesOfLast
  BY DEF IInv
<1>a. is_listen => Rx # {} \/ mac = "put" \/ uart_rx = "listen" \/ Executing
  BY DEF Reception, Executing
<1> USE DEF txVars, modemVars
<1>1. CASE ReadLine
  <2>1. UNCHANGED <<buffer, mac, last_sended, uart_tx, radio, lines>> /\ is_listen
        /\ uart_rx = "read" /\ lines # << >> /\ ~EndsListening(Head(lines))
    BY <1>1 DEF ReadLine
  <2>2. CASE Rx # {} \/ mac = "put"
    BY <2>1, <2>2 DEF Reception, Rx
  <2>3. CASE Executing /\ (uart_tx = "write" \/ radio.cmd = "rx")
    BY <2>1, <2>3 DEF Reception, Executing
  <2>4. CASE Executing /\ ~(uart_tx = "write" \/ radio.cmd = "rx")
    <3>1. last_sended = "rx" /\ radio.cmd = "none"
      BY <1>b, <2>4 DEF Executing, LastWritten, TypeOK
    <3>2. PICK l \in Replies("rx") : lines = <<l>> \/ lines = <<"ok", l>>
      BY <1>b, <2>1, <3>1 DEF LinesOfLast, Ended
    <3>3. EndsListening(l)
      BY <3>2 DEF Replies, EndsListening
    <3>4. lines = <<"ok", l>>
      BY <2>1, <3>2, <3>3
    <3>5. Len(lines) > 1
      BY <3>4
    <3> QED BY <2>1, <3>1, <3>5 DEF Reception
  <2> QED BY <1>a, <2>1, <2>2, <2>3, <2>4
<1>2. CASE Unexpected
  <2>1. UNCHANGED <<buffer, mac, last_sended, uart_tx, radio>> /\ is_listen
        /\ uart_rx = "process" /\ uart_rx' = "read" /\ lines' = Tail(lines)
    BY <1>2 DEF Unexpected
  <2>2. CASE Rx # {} \/ mac = "put"
    BY <2>1, <2>2 DEF Reception, Rx
  <2>3. CASE Executing /\ (uart_tx = "write" \/ radio.cmd = "rx")
    BY <2>1, <2>3 DEF Reception, Executing
  <2>4. CASE Executing /\ ~(uart_tx = "write" \/ radio.cmd = "rx")
    <3>1. last_sended = "rx" /\ lines # << >> /\ Len(lines) > 1
      BY <2>1, <2>4 DEF Executing
    <3>2. lines \in Seq(UartLine)
      BY <1>b DEF TypeOK, UartLine
    <3>3. Len(lines') = Len(lines) - 1 /\ Len(lines) \in Nat
      BY <2>1, <3>1, <3>2
    <3>4. lines' # << >>
      BY <3>1, <3>3
    <3> QED BY <2>1, <3>1, <3>4 DEF Reception
  <2> QED BY <1>a, <2>1, <2>2, <2>3, <2>4
<1>3. CASE ProcessResponse
  <2>1. UNCHANGED <<buffer, mac>> /\ uart_rx = "process"
        /\ (uart_rx' = "listen" \/ is_listen)
    BY <1>3 DEF ProcessResponse
  <2>2. CASE uart_rx' = "listen"
    BY <2>2 DEF Reception
  <2>3. CASE Rx # {} \/ mac = "put"
    BY <2>1, <2>3 DEF Reception, Rx
  <2>4. ~Executing
    <3>1. SUFFICES ASSUME Executing PROVE FALSE
      OBVIOUS
    <3>2. lines # << >> /\ Head(lines) # "ok" /\ last_sended = "rx"
      BY <1>3, <1>b, <3>1 DEF ProcessResponse, LinesOfLast, Executing, ExpectedResponse
    <3>3. ~radio.started
      BY <3>2, <1>b DEF LinesOfLast, Started
    <3>4. radio.cmd = "none"
      BY <3>2, <3>3, <2>1, <1>b DEF LinesOfLast
    <3>5. uart_tx # "write"
      BY <2>1, <1>b DEF SendsWhenIdle, Idle
    <3>6. PICK l \in Replies("rx") : lines = <<l>>
      BY <3>2, <3>4, <1>b DEF LinesOfLast, Ended
    <3>7. Len(lines) = 1
      BY <3>6
    <3> QED BY <2>1, <3>1, <3>4, <3>5, <3>7 DEF Executing
  <2> QED BY <1>a, <2>1, <2>2, <2>3, <2>4
<1>4. CASE ListenAgain
  <2>1. ~Full /\ SendPhy("rx") /\ "rx" \in Cmd
    BY <1>4 DEF ListenAgain, Cmd
  <2>2. Rx' # {}
    BY <1>b, <2>1, PutLen
  <2> QED BY <2>2 DEF Reception
<1>5. CASE Notify
  <2>1. UNCHANGED <<buffer, mac, last_sended, radio, lines>> /\ is_listen
        /\ uart_rx = "notify" /\ uart_rx' = "read" /\ (uart_tx = "write" => uart_tx' = "write")
    BY <1>5 DEF Notify
  <2> QED BY <1>a, <2>1 DEF Reception, Executing, Rx
<1> QED BY <1>1, <1>2, <1>3, <1>4, <1>5 DEF UartRx

\* So does the MAC thread, which sets _is_listen just before it puts its own.
LEMMA MacReception ==
  ASSUME IInv, MacThread, is_listen => Reception, is_listen', ~(Full /\ PhyRxPut)
  PROVE  Reception'
<1>b. TypeOK
  BY DEF IInv
<1>a. is_listen => Rx # {} \/ mac = "put" \/ uart_rx = "listen" \/ Executing
  BY DEF Reception, Executing
<1>0. UNCHANGED <<last_sended, uart_tx, uart_rx, radio, lines>>
  BY DEF MacThread, Timeout, GetFrame, PhySend, MacListen, PhyRxMark, PhyRxPut, txVars,
         rxVars, modemVars
<1>1. CASE PhyRxMark
  BY <1>1 DEF PhyRxMark, Reception
<1>2. CASE PhyRxPut
  <2>1. ~Full /\ SendPhy("rx") /\ "rx" \in Cmd
    BY <1>2 DEF PhyRxPut, Cmd
  <2>2. Rx' # {}
    BY <1>b, <2>1, PutLen
  <2> QED BY <2>2 DEF Reception
<1>3. CASE Timeout \/ PhySend
  <2>1. PICK c \in Cmd \ {"rx"} : SendPhy(c)
    BY <1>3 DEF Timeout, PhySend, Cmd
  <2>2. Rx' = Rx
    BY <1>b, <2>1, OtherPut
  <2>3. is_listen /\ mac # "put"
    BY <1>3 DEF Timeout, PhySend
  <2> QED BY <1>0, <1>a, <2>2, <2>3 DEF Reception, Executing
<1>4. CASE GetFrame \/ MacListen
  <2>1. UNCHANGED buffer /\ is_listen /\ mac # "put"
    BY <1>4 DEF GetFrame, MacListen
  <2> QED BY <1>0, <1>a, <2>1 DEF Reception, Executing, Rx
<1> QED BY <1>1, <1>2, <1>3, <1>4 DEF MacThread

\* For every size of the buffers the driver goes deaf only by a reception that it
\* drops because the buffer is full.
THEOREM LostOnlyWhenFullHolds == Spec => LostOnlyWhenFull
<1>1. IInv /\ [Next]_vars => [Deaf' => Deaf \/ (Full /\ (ListenAgain \/ PhyRxPut))]_vars
  <2> SUFFICES ASSUME IInv, Next, ~Deaf, is_listen', ~(Full /\ (ListenAgain \/ PhyRxPut))
               PROVE  Reception'
    BY DEF Deaf
  <2>1. is_listen => Reception
    BY DEF Deaf
  <2>2. CASE UartTx
    <3>1. is_listen
      BY <2>2 DEF UartTx, Test, Wait, Get, Write, Reset
    <3> QED BY <2>1, <2>2, <3>1, UartTxReception
  <2>3. CASE Modem
    <3>1. is_listen
      BY <2>3 DEF Modem, PrintStart, PrintEnd
    <3> QED BY <2>1, <2>3, <3>1, ModemReception
  <2>4. CASE UartRx
    BY <2>1, <2>4, UartRxReception
  <2>5. CASE MacThread
    BY <2>1, <2>5, MacReception
  <2> QED BY <2>2, <2>3, <2>4, <2>5 DEF Next
<1> QED BY <1>1, Invariance, PTL DEF Spec, LostOnlyWhenFull
=============================================================================

-------------------------------- MODULE RootPhy --------------------------------
(***************************************************************************)
(* The driver of the root's RN2483 modem (pyloramac/lora_phy.py).          *)
(*                                                                         *)
(* Two threads share it: _uart_tx writes the commands of the buffer to the *)
(* modem one by one, _uart_rx reads the lines the modem prints.  They meet *)
(* in _can_send, which one clears and the other sets, and in a condition   *)
(* variable.  A third thread, the MAC, takes the received frames, sends    *)
(* and listens; of its handlers only the calls of the PHY are kept (one    *)
(* phy_send at most, then _listen).                                        *)
(*                                                                         *)
(* The modem is external.  It prints "ok" when it starts a radio tx or a   *)
(* radio rx and a second line when that ends; other commands end with the  *)
(* first line, which is "ok" here for mac pause too.                       *)
(***************************************************************************)
EXTENDS Integers, Sequences

CONSTANTS
  TxBufSize,      \* txBufSize
  RxBufSize,      \* rxBufSize
  NumConf         \* the commands of init: mac pause and the radio parameters

ASSUME SizeAssumption == /\ TxBufSize \in Nat \ {0} /\ RxBufSize \in Nat \ {0}
                         /\ NumConf \in Nat

VARIABLES
  buffer,         \* the commands to write
  rx_buffer,      \* how many received frames wait for the MAC
  can_send,       \* _can_send
  last_sended,    \* the command whose answer is expected
  is_listen,      \* _is_listen
  uart_tx,        \* where the thread _uart_tx is
  uart_rx,        \* where the thread _uart_rx is
  mac,            \* where the MAC thread is
  radio,          \* the command the modem executes, and whether it has started
  lines           \* the lines printed; the first one may be being processed

txVars == <<can_send, last_sended, uart_tx>>
rxVars == <<rx_buffer, uart_rx>>
modemVars == <<radio, lines>>
vars == <<buffer, mac, txVars, rxVars, is_listen, modemVars>>

Cmd == {"set", "tx", "rx"}

\* The lines with which the modem ends a command.
Replies(c) ==
  CASE c = "set" -> {"ok"}
    [] c = "tx" -> {"radio_tx_ok", "radio_err"}
    [] c = "rx" -> {"radio_rx", "radio_err"}
    [] OTHER -> {}

\* The lines that expected_response lists for a command.
\* Mutant: the "ok" with which the modem starts a radio command is its answer.
ExpectedResponse_Ok(c) ==
  CASE c = "set" -> {"ok"}
    [] c = "tx" -> {"ok"}
    [] c = "rx" -> {"ok", "radio_err", "radio_rx"}
    [] OTHER -> {}
ExpectedResponse(c) ==
  CASE c = "set" -> {"ok"}
    [] c = "tx" -> {"radio_tx_ok", "radio_err"}
    [] c = "rx" -> {"radio_err", "radio_rx"}
    [] OTHER -> {}

\* Mutant: the queue takes one more.
Full_Late == Len(buffer) > TxBufSize
Full == Len(buffer) = TxBufSize

\* _send_phy: a command for a full buffer is dropped.
SendPhy(c) == buffer' = IF Full THEN buffer ELSE Append(buffer, c)

-----------------------------------------------------------------------------
(* _uart_tx *)

\* The test of _can_send, outside the condition ...
Test ==
  /\ uart_tx = "test"
  /\ uart_tx' = IF can_send THEN "get" ELSE "acquire"
  /\ UNCHANGED <<buffer, can_send, last_sended, mac, rxVars, is_listen, modemVars>>

\* ... and the wait in it.
Wait ==
  /\ uart_tx = "acquire"
  /\ uart_tx' = "wait"
  /\ UNCHANGED <<buffer, can_send, last_sended, mac, rxVars, is_listen, modemVars>>

Get ==
  /\ uart_tx = "get" /\ buffer # << >>
  /\ last_sended' = Head(buffer)
  /\ buffer' = Tail(buffer)
  /\ uart_tx' = "write"
  /\ UNCHANGED <<can_send, mac, rxVars, is_listen, modemVars>>

Write ==
  /\ uart_tx = "write"
  /\ radio' = [cmd |-> last_sended, started |-> FALSE]
  /\ uart_tx' = "reset"
  /\ UNCHANGED <<buffer, can_send, last_sended, mac, lines, rxVars, is_listen>>

\* Mutant: the thread goes on without waiting for the answer.
Cleared_Not == can_send
Cleared == FALSE

\* _can_send is cleared after the write: the answer may have come already.
Reset ==
  /\ uart_tx = "reset"
  /\ can_send' = Cleared
  /\ uart_tx' = "test"
  /\ UNCHANGED <<buffer, last_sended, mac, rxVars, is_listen, modemVars>>

UartTx == Test \/ Wait \/ Get \/ Write \/ Reset

-----------------------------------------------------------------------------
(* _uart_rx *)

NoCommand == [cmd |-> "none", started |-> FALSE]

\* The modem starts its radio command ...
PrintStart ==
  /\ radio.cmd \in {"tx", "rx"} /\ ~radio.started
  /\ lines' = Append(lines, "ok")
  /\ radio' = [radio EXCEPT !.started = TRUE]
  /\ UNCHANGED <<buffer, mac, txVars, rxVars, is_listen>>

\* ... or ends its command.
PrintEnd ==
  /\ radio.cmd = "set" \/ radio.started
  /\ \E l \in Replies(radio.cmd) : lines' = Append(lines, l)
  /\ radio' = NoCommand
  /\ UNCHANGED <<buffer, mac, txVars, rxVars, is_listen>>

Modem == PrintStart \/ PrintEnd

\* Mutant: an error does not end the listening.
EndsListening_NotError(l) == l = "radio_rx"
EndsListening(l) == l \in {"radio_rx", "radio_err"}

\* A line is read; the end of a reception, or an error, ends the listening.
ReadLine ==
  /\ uart_rx = "read" /\ lines # << >>
  /\ uart_rx' = "process"
  /\ is_listen' = (is_listen /\ ~EndsListening(Head(lines)))
  /\ UNCHANGED <<buffer, rx_buffer, mac, txVars, modemVars>>

Unexpected ==
  /\ uart_rx = "process" /\ Head(lines) \notin ExpectedResponse(last_sended)
  /\ uart_rx' = "read" /\ lines' = Tail(lines)
  /\ UNCHANGED <<buffer, rx_buffer, mac, radio, txVars, is_listen>>

\* The driver is built with listen_on_error = True (__init__.py).
ListensOn(l) == l = "radio_err"

\* The frame goes to the MAC, or is dropped when too many wait; after an error
\* the driver itself listens again.
ProcessResponse ==
  /\ uart_rx = "process" /\ Head(lines) \in ExpectedResponse(last_sended)
  /\ lines' = Tail(lines)
  /\ rx_buffer' = IF Head(lines) = "radio_rx" /\ rx_buffer < RxBufSize THEN rx_buffer + 1
                  ELSE rx_buffer
  /\ IF ListensOn(Head(lines))
     THEN uart_rx' = "listen" /\ is_listen' = TRUE
     ELSE uart_rx' = "notify" /\ UNCHANGED is_listen
  /\ UNCHANGED <<buffer, mac, radio, txVars>>

\* The second half of phy_rx.
ListenAgain ==
  /\ uart_rx = "listen"
  /\ SendPhy("rx")
  /\ uart_rx' = "notify"
  /\ UNCHANGED <<rx_buffer, mac, txVars, is_listen, modemVars>>

\* can_send is set and whoever waits in the condition is woken up.
Notify ==
  /\ uart_rx = "notify"
  /\ can_send' = TRUE
  /\ uart_tx' = IF uart_tx = "wait" THEN "test" ELSE uart_tx
  /\ uart_rx' = "read"
  /\ UNCHANGED <<buffer, rx_buffer, last_sended, mac, is_listen, modemVars>>

UartRx == ReadLine \/ Unexpected \/ ProcessResponse \/ ListenAgain \/ Notify

-----------------------------------------------------------------------------
(* The MAC thread *)

\* phy_timeout(0) of the MAC's init, which then listens.
Timeout ==
  /\ mac = "init"
  /\ SendPhy("set")
  /\ mac' = "listen"
  /\ UNCHANGED <<txVars, rxVars, is_listen, modemVars>>

GetFrame ==
  /\ mac = "get" /\ rx_buffer > 0
  /\ rx_buffer' = rx_buffer - 1
  /\ mac' \in {"send", "listen", "get", "end"}
  /\ UNCHANGED <<buffer, uart_rx, txVars, is_listen, modemVars>>

PhySend ==
  /\ mac = "send"
  /\ SendPhy("tx")
  /\ mac' = "listen"
  /\ UNCHANGED <<txVars, rxVars, is_listen, modemVars>>

MacListen ==
  /\ mac = "listen"
  /\ mac' = IF is_listen THEN "get" ELSE "phy_rx"
  /\ UNCHANGED <<buffer, txVars, rxVars, is_listen, modemVars>>

\* The two halves of phy_rx.
PhyRxMark ==
  /\ mac = "phy_rx"
  /\ is_listen' = TRUE
  /\ mac' = "put"
  /\ UNCHANGED <<buffer, txVars, rxVars, modemVars>>

PhyRxPut ==
  /\ mac = "put"
  /\ SendPhy("rx")
  /\ mac' = "get"
  /\ UNCHANGED <<txVars, rxVars, is_listen, modemVars>>

MacThread == Timeout \/ GetFrame \/ PhySend \/ MacListen \/ PhyRxMark \/ PhyRxPut

-----------------------------------------------------------------------------
\* init puts its commands with _send_phy: those for a full buffer are dropped.
ConfQueued == IF NumConf <= TxBufSize THEN NumConf ELSE TxBufSize

Init ==
  /\ buffer = [i \in 1..ConfQueued |-> "set"]
  /\ rx_buffer = 0
  /\ can_send = TRUE /\ last_sended = "none" /\ is_listen = FALSE
  /\ uart_tx = "test" /\ uart_rx = "read" /\ mac = "init"
  /\ radio = NoCommand /\ lines = << >>

Next == UartTx \/ Modem \/ UartRx \/ MacThread

Spec == Init /\ [][Next]_vars

-----------------------------------------------------------------------------
(* Properties *)

Rx == {i \in 1..Len(buffer) : buffer[i] = "rx"}

\* Every variable holds a value of its Python type, within the buffer sizes.
TypeOK ==
  /\ buffer \in Seq(Cmd) /\ Len(buffer) <= TxBufSize
  /\ rx_buffer \in 0..RxBufSize
  /\ can_send \in BOOLEAN /\ last_sended \in Cmd \cup {"none"} /\ is_listen \in BOOLEAN
  /\ uart_tx \in {"test", "acquire", "wait", "get", "write", "reset"}
  /\ uart_rx \in {"read", "process", "listen", "notify"}
  /\ mac \in {"init", "get", "send", "listen", "phy_rx", "put", "end"}
  /\ radio \in [cmd : Cmd \cup {"none"}, started : BOOLEAN]
  /\ lines \in Seq({"ok", "radio_tx_ok", "radio_err", "radio_rx"})

\* A command is never written while the modem executes another one or a line of
\* it waits to be processed, whatever the two threads do between the write and
\* the clearing of _can_send.
OneCommand ==
  uart_tx \in {"get", "write"} => radio = NoCommand /\ lines = << >> /\ uart_rx = "read"

\* A response taken for the end of a command is that: the modem is idle then and
\* has printed nothing more, though the "ok" of a radio command and that of a
\* set look the same and last_sended is all that tells them apart.
AnswersEndCommands ==
  uart_rx \in {"listen", "notify"} => radio = NoCommand /\ lines = << >>

\* The reception that _is_listen stands for: in the buffer, about to be put there,
\* or at the modem with its end not yet read.
Reception ==
  \/ Rx # {} \/ mac = "put" \/ uart_rx = "listen"
  \/ /\ last_sended = "rx"
     /\ \/ uart_tx = "write" \/ radio.cmd = "rx"
        \/ lines # << >> /\ (uart_rx = "process" => Len(lines) > 1)

\* The driver believes that it listens, so that the MAC never asks it to, and no
\* reception is left.
Deaf == is_listen /\ ~Reception

\* The driver goes deaf in one way only: it sets _is_listen, and the reception is
\* then dropped because the buffer is full.  Neither the two threads that listen,
\* nor the time between the read of a line and its processing, nor an error of
\* the modem (phy_rx on listen_on_error) can do it otherwise.
LostOnlyWhenFull == [][Deaf' => Deaf \/ (Full /\ (ListenAgain \/ PhyRxPut))]_vars
=============================================================================

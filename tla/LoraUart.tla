------------------------------- MODULE LoraUart -------------------------------
(***************************************************************************)
(* The characters between a node and its modem: lorabuf_c, which uart_rx   *)
(* fills in the interrupt and the main loop fills with the next command    *)
(* (loraphy.c, lorabuf.c), and the codecs of LoraFramer at both ends of    *)
(* the air.  LoraNode has whole lines and frames in their place.           *)
(*                                                                         *)
(* One element of lorabuf_c or of a line is one character, except that the *)
(* first stands for the word and the blanks a line begins with: a command  *)
(* copied while a word is read leaves a mixture of the two that contains a *)
(* response only if the word alone does and the command came before it.    *)
(*                                                                         *)
(* Of the MAC there is only where its process waits (pc), the phy_done     *)
(* posted to it, and the timer that writes into the buffer or the expected *)
(* responses; it begins when the six radio parameters are set.  Timers are *)
(* untimed.  A command is copied and written in one step, unless the modem *)
(* prints at the same time: the characters written may then be mixed with  *)
(* those of its line.                                                      *)
(***************************************************************************)
EXTENDS LoraFramer

CONSTANTS
  Uplink,         \* what the node sends: a frame, and the packet in it or << >>
  Downlink,       \* what the root sends; its payload (digits) if there is no packet
  Trailing,       \* what may follow the arrays of parse in memory: see Strtol
  BufSize,        \* length of lorabuf_c
  MaxDone         \* bound of the model: the process is served while that many events wait

ASSUME JobAssumption ==
  /\ Uplink \subseteq [frame : FrameOf({<< >>}), packet : Seq(Byte)]
  /\ Downlink \subseteq [frame : FrameOf(Seq(Digit)), packet : Seq(Byte)]
  \* A packet has at least its IPv6 header.
  /\ \A job \in Uplink \cup Downlink : job.packet # << >> => Len(job.packet) >= 40
ASSUME BufSizeAssumption == BufSize \in Nat \ {0}
ASSUME MaxDoneAssumption == MaxDone \in Nat \ {0}

VARIABLES
  lorabuf_c, datalen_c,  \* lorabuf.c
  exp,                   \* the two LORABUF_ATTR_UART_EXP_RESP attributes
  ready,                 \* loraphy.c:18
  start, cr, index,      \* the statics of uart_rx
  pc, done, timer,       \* where the process waits, phy_done posted, retransmit_timer
  modem, replies,        \* what the modem executes, and its answers still to print
  line,                  \* the characters of the line it is printing
  up, on_air,            \* what the node sent last, and its characters on the air
  down, heard,           \* what the root sent last, and what parse made of it
  disturbed              \* buffer or responses were replaced while the modem worked

bufVars == <<lorabuf_c, datalen_c>>
rxVars == <<start, cr, index>>
modemVars == <<modem, replies, line>>
airVars == <<up, on_air, down, heard>>
vars == <<bufVars, exp, ready, rxVars, pc, done, timer, modemVars, airVars, disturbed>>

\* The characters that are no digits; the words of the commands and of the responses.
CR == 16
LF == 17
NOISE == 18
RADIO_SET == 21
RADIO_RX == 22
RADIO_TX == 23
SYS_SLEEP == 24
OK == 30
RADIO_ERR == 31
RADIO_RX_LINE == 32
RADIO_TX_OK == 33
BUSY == 34
INVALID_PARAM == 35
NONE == 36

IDLE == 0

NoFrame == [heard |-> FALSE]

UpFrame(job) ==
  IF job.packet = << >> THEN job.frame
  ELSE [job.frame EXCEPT !.src_addr = Ipv62Lora(SubSeq(job.packet, 9, 24)),
                         !.payload = Output(job.packet)]
DownFrame(job) ==
  IF job.packet = << >> THEN job.frame
  ELSE [job.frame EXCEPT !.dest_addr = Ipv62Lora(SubSeq(job.packet, 25, 40)),
                         !.payload = SerializeIpPacket(HexBytes(job.packet))]

-----------------------------------------------------------------------------
(* The driver: sending *)

\* lorabuf_c_copy_from; what was behind the copied characters stays.
CopyFrom(text) ==
  /\ lorabuf_c' = [i \in 1..BufSize |-> IF i <= Len(text) THEN text[i] ELSE lorabuf_c[i]]
  /\ datalen_c' = Len(text)

PrepareData(command, value, exp1, exp2) ==
  /\ CopyFrom(<<command>> \o value)
  /\ exp' = <<exp1, exp2>>

Silent == line = << >> /\ replies = << >>

\* A command reaches the modem, which hears nothing in its sleep, and does not
\* understand a command mixed with characters of a line.
Give(command) ==
  \/ modem = SYS_SLEEP /\ UNCHANGED <<modem, replies>>
  \/ /\ modem = IDLE /\ command \in {RADIO_TX, RADIO_RX}
     /\ modem' = command /\ replies' = Append(replies, OK)
  \/ /\ modem = IDLE /\ command = SYS_SLEEP
     /\ modem' = command /\ UNCHANGED replies
  \/ /\ modem \in {RADIO_TX, RADIO_RX} /\ command # RADIO_SET
     /\ replies' = Append(replies, BUSY) /\ UNCHANGED modem
  \/ /\ modem # SYS_SLEEP /\ command = RADIO_SET
     /\ replies' = Append(replies, OK) /\ UNCHANGED modem
  \/ /\ modem # SYS_SLEEP /\ ~Silent
     /\ replies' = Append(replies, INVALID_PARAM) /\ UNCHANGED modem

\* loraphy_prepare_data; loraphy_send, which drops the command while an answer is
\* outstanding: the buffer and the expected responses are those of the command by then.
PhySend(command, value, exp1, exp2) ==
  /\ PrepareData(command, value, exp1, exp2)
  /\ disturbed' = ~(ready /\ modem = IDLE /\ Silent)
  /\ IF ready
     THEN ready' = FALSE /\ Give(command)
     ELSE UNCHANGED <<ready, modem, replies>>
  /\ UNCHANGED <<rxVars, line>>

-----------------------------------------------------------------------------
(* The process of the MAC, and its timer *)

\* create, and radio tx of the characters it left in lorabuf_c.
Transmit(job) ==
  /\ pc = "idle" /\ pc' = "tx"
  /\ PhySend(RADIO_TX, Create(UpFrame(job)), RADIO_TX_OK, RADIO_ERR)
  /\ IF ready /\ modem = IDLE
     THEN /\ up' = job
          /\ on_air' = IF Silent THEN SubSeq(lorabuf_c', 2, datalen_c') ELSE << >>
     ELSE UNCHANGED <<up, on_air>>
  /\ UNCHANGED <<done, timer, down, heard>>

PhyDone(at, next) ==
  /\ pc = at /\ pc' = next
  /\ done > 0 /\ done' = done - 1

SetWatchdog ==
  /\ PhyDone("tx", "wdt")
  /\ PhySend(RADIO_SET, <<1, 2, 0, 0, 0>>, OK, NONE)
  /\ UNCHANGED <<timer, airVars>>

Listen ==
  /\ PhyDone("wdt", "rx")
  /\ timer' = TRUE
  /\ PhySend(RADIO_RX, <<0>>, RADIO_RX_LINE, RADIO_ERR)
  /\ UNCHANGED airVars

\* No command follows the first radio set wdt, a reception, or a frame that needs no
\* response; and a phy_done that the process does not wait for is lost.
NoCommand ==
  /\ \E at \in {"wdt0", "rx", "tx", "idle"} : PhyDone(at, "idle")
  /\ UNCHANGED <<bufVars, exp, ready, rxVars, timer, modemVars, airVars, disturbed>>

\* on_retransmit_timeout after the last JOIN: sys sleep, and the timer once more.
GiveUp ==
  /\ timer
  /\ PhySend(SYS_SLEEP, <<6, 0, 0, 0, 0>>, OK, NONE)
  /\ UNCHANGED <<pc, done, timer, airVars>>

\* lorabuf_clear before the frame is copied back: both responses become "ok".
RetransmitCopy ==
  /\ timer /\ timer' = FALSE
  /\ exp' = <<OK, OK>>
  /\ disturbed' = (disturbed \/ modem # IDLE \/ ~Silent)
  /\ UNCHANGED <<bufVars, ready, rxVars, pc, done, modemVars, airVars>>

-----------------------------------------------------------------------------
(* The modem (external), and the root behind it *)

Prints(word, digits) == line = << >> /\ line' = <<word>> \o digits \o <<CR, LF>>

\* Answers come at once: before the end of what the modem executes.
ModemAnswers ==
  /\ replies # << >>
  /\ Prints(Head(replies), << >>)
  /\ replies' = Tail(replies)
  /\ UNCHANGED <<bufVars, exp, ready, rxVars, pc, done, timer, modem, airVars, disturbed>>

\* The radio command, or the sleep, is over.
ModemEnds ==
  /\ modem # IDLE /\ modem' = IDLE
  /\ replies = << >>
  /\ \/ modem = SYS_SLEEP /\ Prints(OK, << >>) /\ UNCHANGED <<down, heard>>
     \/ /\ modem \in {RADIO_TX, RADIO_RX}
        /\ Prints(RADIO_ERR, << >>) /\ UNCHANGED <<down, heard>>
     \/ modem = RADIO_TX /\ Prints(RADIO_TX_OK, << >>) /\ UNCHANGED <<down, heard>>
     \/ /\ modem = RADIO_RX
        /\ down' \in Downlink
        /\ Prints(RADIO_RX_LINE, ToHex(DownFrame(down')))
        /\ heard' = NoFrame
  /\ UNCHANGED <<bufVars, exp, ready, rxVars, pc, done, timer, replies, up, on_air,
                 disturbed>>

-----------------------------------------------------------------------------
(* The driver: receiving *)

\* Mutant: the arguments of strstr swapped.
Shows_Swapped(response) ==
  lorabuf_c[1] = response \/ (lorabuf_c[1] = OK /\ response = RADIO_TX_OK)
\* strstr(lorabuf_c, response).
Shows(response) ==
  lorabuf_c[1] = response \/ (lorabuf_c[1] = RADIO_TX_OK /\ response = OK)

Accepted == Shows(exp[1]) \/ Shows(exp[2]) \/ Shows(RADIO_ERR)

\* The response compared last, which phy_callback is told.
Response == IF Shows(exp[1]) THEN exp[1] ELSE exp[2]

\* loraphy_input; a frame is parsed before the MAC gets it, and may stop the timer.
Input ==
  IF ready \/ Accepted
  THEN /\ ready' = TRUE
       /\ done < MaxDone /\ done' = done + 1
       /\ IF ~ready /\ Response = RADIO_RX_LINE
          THEN /\ \E after \in Trailing :
                    heard' = Parse(SubSeq(lorabuf_c, 2, BufSize), index - 1, after)
               /\ timer' \in {FALSE, timer}
          ELSE UNCHANGED <<heard, timer>>
  ELSE UNCHANGED <<ready, done, heard, timer>>

\* The first character of a line empties the buffer.
Cleared == IF start THEN 0 ELSE datalen_c

\* Mutant: the next line is written behind this one.
NextIndex_Kept == index
NextIndex == 0

RxEnd ==
  /\ Input
  /\ datalen_c' = index
  /\ cr' = FALSE /\ start' = TRUE /\ index' = NextIndex
  /\ UNCHANGED lorabuf_c

\* Mutant: only the characters before a line are filtered.
RxSkip_Stores(c) ==
  /\ IF index = 0 THEN UNCHANGED <<lorabuf_c, index>>
     ELSE /\ lorabuf_c' = [lorabuf_c EXCEPT ![index + 1] = c]
          /\ index' = index + 1
  /\ cr' = (cr \/ c = CR) /\ start' = FALSE /\ datalen_c' = Cleared
  /\ UNCHANGED <<ready, done, heard, timer>>
RxSkip(c) ==
  /\ cr' = (cr \/ c = CR) /\ start' = FALSE /\ datalen_c' = Cleared
  /\ UNCHANGED <<lorabuf_c, index, ready, done, heard, timer>>

RxStore(c) ==
  /\ lorabuf_c' = [lorabuf_c EXCEPT ![index + 1] = c]
  /\ index' = index + 1
  /\ start' = FALSE /\ datalen_c' = Cleared
  /\ UNCHANGED <<cr, ready, done, heard, timer>>

\* uart_rx: the interrupt for the next character of the line.
UartRx ==
  /\ line # << >>
  /\ line' = Tail(line)
  /\ \/ Head(line) = LF /\ cr /\ RxEnd
     \/ Head(line) = CR /\ RxSkip(CR)
     \/ Head(line) \notin {CR, LF} /\ RxStore(Head(line))
  /\ UNCHANGED <<exp, pc, modem, replies, up, on_air, down, disturbed>>

\* Inside a line there may be characters that uart_rx filters.
UartNoise ==
  /\ line # << >>
  /\ RxSkip(NOISE)
  /\ UNCHANGED <<exp, pc, modemVars, up, on_air, down, disturbed>>

-----------------------------------------------------------------------------
\* set_conf has set the last radio parameter and started the process, which has sent
\* the first radio set wdt.
Init ==
  /\ lorabuf_c = [i \in 1..BufSize |-> IF i = 1 THEN RADIO_SET ELSE 0] /\ datalen_c = 6
  /\ exp = <<OK, NONE>> /\ ready = FALSE
  /\ start = TRUE /\ cr = FALSE /\ index = 0
  /\ pc = "wdt0" /\ done = 0 /\ timer = FALSE
  /\ modem = IDLE /\ replies = <<OK>> /\ line = << >>
  /\ up \in Uplink /\ on_air = << >>
  /\ down \in Downlink /\ heard = NoFrame /\ disturbed = FALSE

Next ==
  \/ \E job \in Uplink : Transmit(job)
  \/ SetWatchdog \/ Listen \/ NoCommand \/ GiveUp \/ RetransmitCopy
  \/ ModemAnswers \/ ModemEnds \/ UartRx \/ UartNoise

Spec == Init /\ [][Next]_vars

-----------------------------------------------------------------------------
(* What the properties ask of the constants (the code checks none of it)      *)

\* Every command and every line is shorter than lorabuf_c.
LinesFit ==
  /\ BufSize >= 6
  /\ \A job \in Uplink : Len(Create(UpFrame(job))) < BufSize
  /\ \A job \in Downlink : Len(ToHex(DownFrame(job))) < BufSize

\* The packets are those of the LoRa network: the sender of every packet has the
\* address that lora2ipv6 makes, and so has the receiver of a packet that comes down.
\* (A packet that goes up may have any receiver: it is sent to the root.)
IsLora(ip) == ip = Lora2Ipv6(Ipv62Lora(ip))
LoraPackets ==
  /\ \A job \in Uplink : job.packet # << >> => IsLora(SubSeq(job.packet, 9, 24))
  /\ \A job \in Downlink : job.packet # << >> =>
       /\ SubSeq(job.packet, 9, 24) = Lora2Ipv6(job.frame.src_addr)
       /\ IsLora(SubSeq(job.packet, 25, 40))

-----------------------------------------------------------------------------
(* Properties *)

\* lorabuf_c is long enough for every line and command.
TypeOK ==
  /\ Len(lorabuf_c) = BufSize /\ datalen_c \in 0..BufSize /\ index \in 0..BufSize
  /\ ready \in BOOLEAN /\ start \in BOOLEAN /\ cr \in BOOLEAN
  /\ pc \in {"wdt0", "idle", "tx", "wdt", "rx"} /\ done \in 0..MaxDone
  /\ timer \in BOOLEAN /\ disturbed \in BOOLEAN
  /\ modem \in {IDLE, RADIO_TX, RADIO_RX, SYS_SLEEP}
  /\ replies \in Seq({OK, BUSY, INVALID_PARAM})

\* The packet of the node, as the root hands it over: its receiver has become the one
\* of the frame.
AtRoot(job) ==
  SubSeq(job.packet, 1, 24) \o Lora2Ipv6(job.frame.dest_addr)
    \o SubSeq(job.packet, 41, Len(job.packet))

\* What the root builds from the characters on the air is the frame the node sent,
\* and the packet in it, with its sender's address, though output cut both its addresses.
UpIntact ==
  LET f == Build(on_air)
  IN on_air # << >> =>
     /\ IsFrame(on_air)
     /\ [f EXCEPT !.payload = << >>] = [UpFrame(up) EXCEPT !.payload = << >>]
     /\ IF up.packet = << >> THEN f.payload = << >>
        ELSE BuildIpPacket(f.src_addr, f.dest_addr, f.payload) = HexBytes(AtRoot(up))

\* A frame the MAC is handed is the one the root sent, and bridge_input makes its
\* packet of it, though commands may be copied into lorabuf_c in the middle of the line.
DownIntact ==
  heard # NoFrame =>
    /\ [heard EXCEPT !.payload = << >>] = [DownFrame(down) EXCEPT !.payload = << >>]
    /\ IF down.packet # << >>
       THEN BridgeInput(heard.src_addr, heard.dest_addr, heard.payload) = down.packet
       ELSE ToHex([heard EXCEPT !.payload = HexBytes(heard.payload)]) = ToHex(DownFrame(down))

\* The driver takes the modem for free only when it is, not at the "ok" with which the
\* modem begins a radio tx or a radio rx: unless other responses were stored while the
\* modem worked (a command that was not written, or lorabuf_clear).
FreeIsIdle == ready /\ ~disturbed => modem = IDLE /\ Silent

\* The end of every command, of a sleep too, is seen: only responses or a command that
\* were stored while the modem worked can make the driver miss it.
AnswerSeen == modem = IDLE /\ Silent /\ ~ready => disturbed
=============================================================================

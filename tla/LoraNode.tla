------------------------------- MODULE LoraNode -------------------------------
(***************************************************************************)
(* The LoRaMAC stack of one RPL root (Contiki-NG, src/code/prototype/      *)
(* rpl_root/loramacv2): the MAC (loramac.c), the driver of the RN2483      *)
(* modem (loraphy.c), the buffer they share (lorabuf.c) and the bridge to  *)
(* uIP (lorabridge.c).                                                     *)
(*                                                                         *)
(* Two contexts run this code.  The UART interrupt runs uart_rx ->         *)
(* loraphy_input -> phy_callback -> loramac_input to completion, at any    *)
(* instant.  The main loop runs the MAC process, the two timers and the    *)
(* fallback output of uIP one after the other; an interrupt may come       *)
(* between two of their steps, so the handlers in which that matters are   *)
(* split (variable cpu) and the process stops at pc = "top" between the    *)
(* event that woke it and the test of pending.                             *)
(*                                                                         *)
(* The modem is external.  It answers a command at once (variable reply):  *)
(* "ok" also when it starts a radio tx or a radio rx, "busy" when it       *)
(* executes one already; what it executes (variable radio) ends with a     *)
(* line of its own.  A sys sleep has only the "ok" of its end.  Timers are *)
(* untimed: an armed timer may expire at any point, because the timer of   *)
(* the retransmission and the watchdog of the modem have the same nominal  *)
(* 12 s on two clocks.                                                     *)
(***************************************************************************)
EXTENDS LoraFrame

CONSTANTS
  MaxRetransmit,  \* LORAMAC_MAX_RETRANSMIT
  NumRadioParam,  \* LORAPHY_NUM_RADIO_PARAM
  Confirmed,      \* LORA_MAC_CONFIRMED
  NodeId,         \* node_id of this node (also its address prefix until it joins)
  PacketHost,     \* PacketHost[p]: the id of the host of this DAG that sent p
  Downlink,       \* the frames this node's radio may pick up
  MaxQueue        \* bound of the model: the process is served while that many events wait

ASSUME MaxRetransmitAssumption == MaxRetransmit \in Nat \ {0}
ASSUME NumRadioParamAssumption == NumRadioParam \in Nat \ {0}
ASSUME ConfirmedAssumption == Confirmed \in BOOLEAN
ASSUME NodeIdAssumption == NodeId \in Hosts \cap Prefixes
ASSUME PacketAssumption == PacketHost \in [Packets -> Hosts]
ASSUME DownlinkAssumption ==
  /\ Downlink \subseteq Frame
  /\ \A f \in Downlink : f.command = "DATA" => f.data.kind = "packet"

VARIABLES
  state, lora_node_addr,            \* loramac.c:25, loraaddr.c
  next_seq, expected_seq, retransmit_attempt,
  last_sent_frame,                  \* with last_sent_data
  pending, pending_query, is_retransmission,
  retransmit_timer, query_timer,    \* TRUE while armed
  lorabuf,                          \* attributes, addresses and data of lorabuf.c
  exp_resp,                         \* the LORABUF_ATTR_UART_EXP_RESP attributes
  ready,                            \* loraphy.c:18
  radio,                            \* the radio command the modem executes, or its sleep
  on_air,                           \* the frame of that command if it is radio tx
  reply,                            \* the modem's answer to the last command, until read
  conf,                             \* the static i of set_conf
  events,                           \* events posted to loramac_process
  pc,                               \* where loramac_process waits
  cpu,                              \* the main-loop handler an interrupt may preempt
  uip                               \* what bridge_input last put in uip_buf

macVars == <<state, lora_node_addr, next_seq, expected_seq, retransmit_attempt,
             last_sent_frame, is_retransmission, retransmit_timer, query_timer>>
sendVars == <<pending, pending_query, lorabuf>>
modemVars == <<radio, on_air, reply>>
phyVars == <<exp_resp, ready, modemVars>>
vars == <<macVars, sendVars, phyVars, conf, events, pc, cpu, uip>>

-----------------------------------------------------------------------------
(* The driver                                                              *)

RadioCommand == {"radio_tx", "radio_rx", "sys_sleep"}
Answer == {"u_int", "ok", "busy"}
Line == Answer \cup {"radio_tx_ok", "radio_rx", "radio_err"}

\* The lines with which the modem ends what it executes.
Ends(command) ==
  CASE command = "radio_tx" -> {"radio_tx_ok", "radio_err"}
    [] command = "radio_rx" -> {"radio_rx", "radio_err"}
    [] command = "sys_sleep" -> {"ok"}
    [] OTHER -> {}

\* A command reaches the modem, which is awake: the driver is not ready while the
\* modem sleeps.
Give(command, frame) ==
  IF command \in RadioCommand /\ radio = "none"
  THEN /\ radio' = command /\ on_air' = frame
       /\ reply' = IF command = "sys_sleep" THEN "none" ELSE "ok"
  ELSE /\ reply' = IF command \in RadioCommand THEN "busy" ELSE "ok"
       /\ UNCHANGED <<radio, on_air>>

\* The two responses that prepare_data stores for a command ("none", which no
\* line contains, is left out).
Expected(command) ==
  CASE command = "mac_pause" -> {"u_int"}
    [] command \in {"radio_set", "sys_sleep"} -> {"ok"}
    [] command = "radio_tx" -> {"radio_tx_ok", "radio_err"}
    [] command = "radio_rx" -> {"radio_rx", "radio_err"}

\* Mutant: lorabuf_clear only zeroes the attributes of the frame.
ClearedResp_Kept == exp_resp

\* Both attributes zeroed: LORAPHY_CMD_RESPONSE_OK.
ClearedResp == {"ok"}

\* Mutant: loraphy_send forgets ready = false.
PhySend_StaysReady(command, frame) ==
  /\ exp_resp' = Expected(command)
  /\ IF ready
     THEN Give(command, frame) /\ UNCHANGED ready
     ELSE UNCHANGED <<ready, modemVars>>

\* loraphy_prepare_data; loraphy_send.  The expected responses are stored
\* before the driver sees that an answer is still outstanding.
PhySend(command, frame) ==
  /\ exp_resp' = Expected(command)
  /\ IF ready
     THEN ready' = FALSE /\ Give(command, frame)
     ELSE UNCHANGED <<ready, modemVars>>

\* loraphy_input looks at the expected responses while it is not ready, and
\* compares with strstr: "radio_tx_ok" contains "ok".  A radio_err is always
\* accepted.
Accepted(line) ==
  \/ ready
  \/ line \in exp_resp \cup {"radio_err"}
  \/ line = "radio_tx_ok" /\ "ok" \in exp_resp

ModemPrints(line) ==
  /\ cpu # "fault" /\ Len(events) < MaxQueue
  /\ IF reply # "none" THEN line = reply ELSE line \in Ends(radio)

\* What the modem executes, once the line is printed.
RadioGoesOn ==
  IF reply # "none" THEN UNCHANGED <<radio, on_air>>
  ELSE radio' = "none" /\ on_air' = NullFrame
Printed == RadioGoesOn /\ reply' = "none"

-----------------------------------------------------------------------------
(* Sending                                                                 *)

SendFrame(evs) ==
  /\ pending' = TRUE
  /\ events' = Append(evs, "output")

\* send_query leaves the attributes confirmed, seqno and next of the buffer
\* as they are.
Query(buf) == [buf EXCEPT !.src_addr = lora_node_addr, !.dest_addr = RootAddr,
                          !.data = NoData, !.command = "QUERY"]

SendQuery(buf, evs) ==
  /\ lorabuf' = Query(buf)
  /\ SendFrame(evs)

\* set_state(READY), with the query that waited for it.
QueryWaits == state = "WAIT_RESPONSE" /\ pending_query

\* Mutants: the waiting query is forgotten; or it is taken, and not sent.
SetReady_NoQuery(buf, evs) ==
  /\ state' = "READY"
  /\ lorabuf' = buf
  /\ events' = evs
  /\ UNCHANGED <<pending, pending_query>>
SetReady_QueryNotSent(buf, evs) ==
  /\ state' = IF QueryWaits THEN state ELSE "READY"
  /\ pending_query' = FALSE
  /\ lorabuf' = buf
  /\ events' = evs
  /\ UNCHANGED pending

SetReady(buf, evs) ==
  IF QueryWaits
  THEN /\ pending_query' = FALSE
       /\ SendQuery(buf, evs)
       /\ UNCHANGED state
  ELSE /\ state' = "READY"
       /\ lorabuf' = buf
       /\ events' = evs
       /\ UNCHANGED <<pending, pending_query>>

\* bridge_input copies len - 8 bytes after the 8 of the header: on a frame
\* without a packet the length wraps and the copy runs over the memory.
BridgeInput(buf) ==
  IF buf.data.kind = "packet"
  THEN /\ uip' = [src |-> buf.src_addr, dst |-> buf.dest_addr, data |-> buf.data]
       /\ UNCHANGED cpu
  ELSE /\ cpu' = "fault"
       /\ UNCHANGED uip

-----------------------------------------------------------------------------
(* The UART interrupt                                                      *)

\* A line that is not an expected one: the callback is not called and the
\* driver goes on waiting.
UartIgnored(line) ==
  /\ ModemPrints(line) /\ ~Accepted(line)
  /\ Printed
  /\ UNCHANGED <<macVars, sendVars, exp_resp, ready, conf, events, pc, cpu, uip>>

\* loraphy_input calls back with LORAPHY_SENT_DONE: every accepted line but a
\* radio_rx that is an expected one.
SentDone(line) == ModemPrints(line) /\ Accepted(line) /\ (ready \/ line # "radio_rx")

\* LORAPHY_SET_PARAM in the interrupt, which has just made the driver ready.
SetParam ==
  /\ exp_resp' = Expected("radio_set") /\ ready' = FALSE
  /\ RadioGoesOn /\ reply' = "ok"

\* set_conf while parameters remain.
SetConfParam(line) ==
  /\ SentDone(line) /\ conf < NumRadioParam
  /\ conf' = conf + 1
  /\ SetParam
  /\ UNCHANGED <<macVars, sendVars, events, pc, cpu, uip>>

\* set_conf when all are set: process_start runs the process up to its first
\* WAIT_PHY, then send_join_request.
SetConfStart(line) ==
  /\ SentDone(line) /\ conf = NumRadioParam
  /\ conf' = conf + 1
  /\ pc' = "wdt0"
  /\ SetParam
  /\ lorabuf' = [lorabuf EXCEPT !.src_addr = lora_node_addr, !.dest_addr = RootAddr,
                                !.data = NoData, !.command = "JOIN"]
  /\ SendFrame(events)
  /\ UNCHANGED <<macVars, pending_query, cpu, uip>>

\* set_conf ever after.
SetConfDone(line) ==
  /\ SentDone(line) /\ conf > NumRadioParam
  /\ events' = Append(events, "phy_done")
  /\ ready' = TRUE /\ Printed
  /\ UNCHANGED <<macVars, sendVars, exp_resp, conf, pc, cpu, uip>>

\* LORAPHY_INPUT_DATA: the frame is parsed into lorabuf, phy_done is posted,
\* then loramac_input handles it.
InputData(f) ==
  /\ ModemPrints("radio_rx") /\ ~ready /\ Accepted("radio_rx")
  /\ ready' = TRUE /\ Printed
  /\ UNCHANGED <<exp_resp, conf, pc>>
\* Mutant: a received frame does not wake the process.
InputEvents_NotPosted == events
InputEvents == Append(events, "phy_done")
InDag(f) == f.dest_addr.prefix = lora_node_addr.prefix

IsJoinResponse(f) ==
  /\ InDag(f) /\ f.command = "JOIN_RESPONSE" /\ state = "ALONE"
  /\ f.dest_addr = lora_node_addr /\ f.data.kind = "prefix" /\ f.seqno = 0
\* Mutant: the number of a DATA frame is not looked at.
IsFreshData_Any(f) == InDag(f) /\ f.command = "DATA" /\ state # "ALONE"
\* Mutant: every frame of the DAG with a new number is taken for DATA.
IsFreshData_AnyCommand(f) == InDag(f) /\ state # "ALONE" /\ f.seqno >= expected_seq
IsFreshData(f) ==
  /\ InDag(f) /\ f.command = "DATA" /\ state # "ALONE"
  /\ f.seqno >= expected_seq
IsAck(f) ==
  /\ InDag(f) /\ f.command = "ACK" /\ state # "ALONE"
  /\ f.dest_addr = lora_node_addr /\ f.seqno = last_sent_frame.seqno

OnJoinResponse(f) ==
  /\ InputData(f) /\ IsJoinResponse(f)
  /\ retransmit_timer' = FALSE
  /\ retransmit_attempt' = 0
  /\ lora_node_addr' = [prefix |-> f.data.val, id |-> NodeId]
  /\ query_timer' = TRUE
  /\ expected_seq' = (expected_seq + 1) % SeqMod
  /\ SetReady(f, InputEvents)
  /\ UNCHANGED <<next_seq, last_sent_frame, is_retransmission, cpu, uip>>

AcceptData(f) ==
  /\ InputData(f) /\ IsFreshData(f)
  /\ retransmit_timer' = FALSE
  /\ retransmit_attempt' = 0
  /\ expected_seq' = (f.seqno + 1) % SeqMod
  /\ UNCHANGED <<lora_node_addr, next_seq, last_sent_frame, is_retransmission>>

\* Another frame follows: ask for it at once, the query timer stays stopped.
OnDataNext(f) ==
  /\ AcceptData(f) /\ f.next
  /\ query_timer' = FALSE
  /\ BridgeInput(f)
  /\ SendQuery(f, InputEvents)
  /\ UNCHANGED <<state, pending_query>>

\* The last frame: set_state comes before bridge_input, which reads lorabuf.
OnDataLast(f) ==
  /\ AcceptData(f) /\ ~f.next
  /\ query_timer' = TRUE
  /\ SetReady(f, InputEvents)
  /\ BridgeInput(IF QueryWaits THEN Query(f) ELSE f)

\* Mutant: the timer that polls the root is restarted by DATA only.
QueryAnswered_Never == FALSE
QueryAnswered == last_sent_frame.command = "QUERY"
OnAck(f) ==
  /\ InputData(f) /\ IsAck(f)
  /\ retransmit_timer' = FALSE
  /\ retransmit_attempt' = 0
  /\ query_timer' = (query_timer \/ QueryAnswered)
  /\ SetReady(f, InputEvents)
  /\ UNCHANGED <<lora_node_addr, next_seq, expected_seq, last_sent_frame,
                 is_retransmission, cpu, uip>>

\* Every other frame only leaves its content in lorabuf.
InputDropped(f) ==
  /\ InputData(f)
  /\ ~IsJoinResponse(f) /\ ~IsFreshData(f) /\ ~IsAck(f)
  /\ lorabuf' = f
  /\ events' = InputEvents
  /\ UNCHANGED <<macVars, pending, pending_query, cpu, uip>>

UartInput ==
  \/ \E line \in Line : UartIgnored(line) \/ SetConfParam(line) \/ SetConfStart(line)
                        \/ SetConfDone(line)
  \/ \E f \in Downlink : OnJoinResponse(f) \/ OnDataNext(f) \/ OnDataLast(f)
                         \/ OnAck(f) \/ InputDropped(f)

-----------------------------------------------------------------------------
(* The process                                                             *)

WaitsPhy == pc \in {"wdt0", "tx", "wdt", "rx"}

\* The process is given the event e.
Dispatch(e) ==
  /\ cpu = "free" /\ events # << >> /\ Head(events) = e

\* An event that WAIT_PHY or WAIT_EVENT_UNTIL does not wait for is lost.
EventLost ==
  /\ \/ Dispatch("output") /\ WaitsPhy
     \/ Dispatch("phy_done") /\ pc = "idle"
  /\ events' = Tail(events)
  /\ UNCHANGED <<macVars, sendVars, phyVars, conf, pc, cpu, uip>>

OutputEvent ==
  /\ Dispatch("output") /\ pc = "idle"
  /\ pc' = "top"
  /\ events' = Tail(events)
  /\ UNCHANGED <<macVars, sendVars, phyVars, conf, cpu, uip>>

\* Mutant: the loop waits for an event before it looks at pending.
PhyWaitOver_NoTest ==
  /\ Dispatch("phy_done") /\ pc \in {"wdt0", "rx"}
  /\ pc' = "idle"
  /\ events' = Tail(events)
  /\ UNCHANGED <<macVars, sendVars, phyVars, conf, cpu, uip>>

\* End of the wait for the first radio set wdt, or for the reception.
PhyWaitOver ==
  /\ Dispatch("phy_done") /\ pc \in {"wdt0", "rx"}
  /\ pc' = "top"
  /\ events' = Tail(events)
  /\ UNCHANGED <<macVars, sendVars, phyVars, conf, cpu, uip>>

NothingPending ==
  /\ cpu = "free" /\ pc = "top" /\ ~pending
  /\ pc' = "idle"
  /\ UNCHANGED <<macVars, sendVars, phyVars, conf, events, cpu, uip>>

\* Mutant: is_retransmission is not reset.
RetransmissionOver_Kept == is_retransmission
RetransmissionOver == FALSE

\* prepare_last_sent_frame: the frame that create() writes is the buffer's;
\* last_sent_frame and the sequence number only change for a new frame.
Transmit ==
  /\ cpu = "free" /\ pc = "top" /\ pending
  /\ pending' = FALSE
  /\ LET frame == IF is_retransmission THEN lorabuf
                  ELSE [lorabuf EXCEPT !.seqno = next_seq]
     IN /\ lorabuf' = frame
        /\ IF is_retransmission
           THEN UNCHANGED <<next_seq, last_sent_frame>>
           ELSE /\ next_seq' = (next_seq + 1) % SeqMod
                /\ last_sent_frame' = frame
        /\ PhySend("radio_tx", frame)
  /\ is_retransmission' = RetransmissionOver
  /\ state' = IF last_sent_frame'.command # "JOIN" THEN "WAIT_RESPONSE" ELSE state
  /\ pc' = "tx"
  /\ UNCHANGED <<lora_node_addr, expected_seq, retransmit_attempt, retransmit_timer,
                 query_timer, pending_query, conf, events, cpu, uip>>

NeedsResponse == last_sent_frame.confirmed \/ last_sent_frame.command \in {"QUERY", "JOIN"}

TxDoneWait ==
  /\ Dispatch("phy_done") /\ pc = "tx" /\ NeedsResponse
  /\ PhySend("radio_set", NullFrame)
  /\ pc' = "wdt"
  /\ events' = Tail(events)
  /\ UNCHANGED <<macVars, sendVars, conf, cpu, uip>>

TxDoneNoWait ==
  /\ Dispatch("phy_done") /\ pc = "tx" /\ ~NeedsResponse
  /\ SetReady(lorabuf, Tail(events))
  /\ pc' = "top"
  /\ UNCHANGED <<lora_node_addr, next_seq, expected_seq, retransmit_attempt,
                 last_sent_frame, is_retransmission, retransmit_timer, query_timer,
                 phyVars, conf, cpu, uip>>

Listen ==
  /\ Dispatch("phy_done") /\ pc = "wdt"
  /\ retransmit_timer' = TRUE
  /\ PhySend("radio_rx", NullFrame)
  /\ pc' = "rx"
  /\ events' = Tail(events)
  /\ UNCHANGED <<state, lora_node_addr, next_seq, expected_seq, retransmit_attempt,
                 last_sent_frame, is_retransmission, query_timer, sendVars, conf, cpu,
                 uip>>

Process == EventLost \/ OutputEvent \/ PhyWaitOver \/ NothingPending \/ Transmit
           \/ TxDoneWait \/ TxDoneNoWait \/ Listen

-----------------------------------------------------------------------------
(* Timers and output                                                       *)

MainLoopFree == cpu = "free" /\ pc # "top" /\ Len(events) < MaxQueue

\* The expiry of a timer is itself an event of Contiki's queue, behind which
\* interrupts and the handlers before it may have posted others.

\* on_query_timeout looks at the state ...
QueryTimeout ==
  /\ MainLoopFree /\ query_timer
  /\ query_timer' = FALSE
  /\ cpu' = IF state = "READY" THEN "query_send" ELSE "query_wait"
  /\ UNCHANGED <<state, lora_node_addr, next_seq, expected_seq, retransmit_attempt,
                 last_sent_frame, is_retransmission, retransmit_timer, sendVars, phyVars,
                 conf, events, pc, uip>>

\* ... and acts on what it has seen, an interrupt later perhaps.
QueryNow ==
  /\ cpu = "query_send"
  /\ cpu' = "free"
  /\ SendQuery(lorabuf, events)
  /\ UNCHANGED <<macVars, pending_query, phyVars, conf, pc, uip>>

QueryLater ==
  /\ cpu = "query_wait"
  /\ cpu' = "free"
  /\ pending_query' = TRUE
  /\ UNCHANGED <<macVars, pending, lorabuf, phyVars, conf, events, pc, uip>>

\* Mutant: one attempt too many.
AttemptsLeft_OneMore == retransmit_attempt <= MaxRetransmit
AttemptsLeft == retransmit_attempt < MaxRetransmit

\* The modem answers a command at once: the 12 s of the timer that is set with a
\* reception are not over before the "ok" that starts it.
RetransmitExpires == MainLoopFree /\ retransmit_timer /\ (radio = "radio_rx" => reply # "ok")

\* on_retransmit_timeout up to lorabuf_clear.
RetransmitTimeout ==
  /\ RetransmitExpires /\ AttemptsLeft
  /\ retransmit_timer' = FALSE
  /\ is_retransmission' = TRUE
  /\ cpu' = "retransmit"
  /\ UNCHANGED <<state, lora_node_addr, next_seq, expected_seq, retransmit_attempt,
                 last_sent_frame, query_timer, sendVars, phyVars, conf, events, pc, uip>>

\* The rest of it: lorabuf_clear also zeroes the expected UART responses.
RetransmitCopy ==
  /\ cpu = "retransmit"
  /\ cpu' = "free"
  /\ exp_resp' = ClearedResp
  /\ lorabuf' = last_sent_frame
  /\ retransmit_attempt' = retransmit_attempt + 1
  /\ SendFrame(events)
  /\ UNCHANGED <<state, lora_node_addr, next_seq, expected_seq, last_sent_frame,
                 is_retransmission, retransmit_timer, query_timer, pending_query,
                 ready, modemVars, conf, pc, uip>>

\* Mutant: nothing wakes the node after the sleep of the radio.
SleepTimer_NotSet == FALSE
\* ctimer_set with the random interval.
SleepTimer == TRUE

RetransmitGiveUp ==
  /\ RetransmitExpires /\ ~AttemptsLeft
  /\ retransmit_attempt' = 0
  /\ \/ /\ last_sent_frame.command = "JOIN"
        /\ retransmit_timer' = SleepTimer
        /\ PhySend("sys_sleep", NullFrame)
        /\ UNCHANGED <<state, query_timer, sendVars, events>>
     \/ /\ last_sent_frame.command # "JOIN"
        /\ retransmit_timer' = FALSE
        /\ query_timer' = (query_timer \/ QueryAnswered)
        /\ SetReady(lorabuf, events)
        /\ UNCHANGED phyVars
  /\ UNCHANGED <<lora_node_addr, next_seq, expected_seq, last_sent_frame,
                 is_retransmission, conf, pc, cpu, uip>>

\* The fallback output of uIP writes the packet into lorabuf ...
OutputBegin(p) ==
  /\ MainLoopFree /\ state # "ALONE"
  /\ cpu' = "output"
  /\ lorabuf' = [lorabuf EXCEPT
                   !.data = [kind |-> "packet", val |-> p],
                   !.src_addr = [prefix |-> lora_node_addr.prefix, id |-> PacketHost[p]],
                   !.confirmed = Confirmed]
  /\ UNCHANGED <<macVars, pending, pending_query, phyVars, conf, events, pc, uip>>

\* ... before loramac_send looks at the state.
OutputEnd ==
  /\ cpu = "output"
  /\ cpu' = "free"
  /\ IF state = "READY"
     THEN /\ lorabuf' = [lorabuf EXCEPT !.command = "DATA", !.dest_addr = RootAddr]
          /\ SendFrame(events)
     ELSE UNCHANGED <<lorabuf, pending, events>>
  /\ UNCHANGED <<macVars, pending_query, phyVars, conf, pc, uip>>

MainLoop == QueryTimeout \/ QueryNow \/ QueryLater \/ RetransmitTimeout \/ RetransmitCopy \/ RetransmitGiveUp
            \/ OutputEnd \/ \E p \in Packets : OutputBegin(p)

-----------------------------------------------------------------------------
\* lorabridge init and loramac_root_start: mac pause is sent to the modem.
Init ==
  /\ state = "ALONE"
  /\ lora_node_addr = [prefix |-> NodeId, id |-> NodeId]
  /\ next_seq = 0 /\ expected_seq = 0 /\ retransmit_attempt = 0
  /\ last_sent_frame = NullFrame
  /\ pending = FALSE /\ pending_query = FALSE /\ is_retransmission = FALSE
  /\ retransmit_timer = FALSE /\ query_timer = FALSE
  /\ lorabuf = NullFrame
  /\ exp_resp = Expected("mac_pause")
  /\ ready = FALSE /\ radio = "none" /\ on_air = NullFrame /\ reply = "u_int"
  /\ conf = 0 /\ events = << >> /\ pc = "off" /\ cpu = "free"
  /\ uip = [src |-> NullAddr, dst |-> NullAddr, data |-> NoData]

\* The node is reset: its variables have their first values again.  The modem goes
\* on with what it executes and answers the mac pause, unless it sleeps.
Restart ==
  /\ state' = "ALONE"
  /\ lora_node_addr' = [prefix |-> NodeId, id |-> NodeId]
  /\ next_seq' = 0 /\ expected_seq' = 0 /\ retransmit_attempt' = 0
  /\ last_sent_frame' = NullFrame
  /\ pending' = FALSE /\ pending_query' = FALSE /\ is_retransmission' = FALSE
  /\ retransmit_timer' = FALSE /\ query_timer' = FALSE
  /\ lorabuf' = NullFrame
  /\ exp_resp' = Expected("mac_pause")
  /\ ready' = FALSE
  /\ reply' = IF radio = "sys_sleep" THEN "none" ELSE "u_int"
  /\ conf' = 0 /\ events' = << >> /\ pc' = "off" /\ cpu' = "free"
  /\ uip' = [src |-> NullAddr, dst |-> NullAddr, data |-> NoData]
  /\ UNCHANGED <<radio, on_air>>

Next == UartInput \/ Process \/ MainLoop

Spec == Init /\ [][Next]_vars

\* The modem ends every command: a reception ends at the latest when the watchdog
\* set before it expires.  Contiki's queue is first-in first-out, so an event
\* posted is delivered and a timer that expired is served whatever else is posted
\* (strong fairness: the process and the timers cannot run while another handler
\* does), and the handler an interrupt preempted is resumed.
Fairness ==
  /\ WF_vars(UartInput) /\ SF_vars(Process)
  /\ WF_vars(QueryTimeout) /\ SF_vars(RetransmitTimeout \/ RetransmitGiveUp)
  /\ WF_vars(RetransmitCopy \/ OutputEnd \/ QueryNow \/ QueryLater)
FairSpec == Spec /\ Fairness

-----------------------------------------------------------------------------
(* Properties *)

\* Every variable holds a value its C type can hold; retransmit_attempt stays
\* within the limit of on_retransmit_timeout.
TypeOK ==
  /\ state \in {"ALONE", "READY", "WAIT_RESPONSE"}
  /\ lora_node_addr \in Addr
  /\ next_seq \in Seqno /\ expected_seq \in Seqno
  /\ retransmit_attempt \in 0..MaxRetransmit
  /\ last_sent_frame \in Frame
  /\ pending \in BOOLEAN /\ pending_query \in BOOLEAN /\ is_retransmission \in BOOLEAN
  /\ retransmit_timer \in BOOLEAN /\ query_timer \in BOOLEAN
  /\ lorabuf \in Frame
  /\ exp_resp \in SUBSET Line
  /\ ready \in BOOLEAN /\ on_air \in Frame
  /\ radio \in RadioCommand \cup {"none"} /\ reply \in Answer \cup {"none"}
  /\ conf \in 0..(NumRadioParam + 1)
  /\ events \in Seq({"output", "phy_done"})
  /\ pc \in {"off", "wdt0", "idle", "top", "tx", "wdt", "rx"}
  /\ cpu \in {"free", "retransmit", "output", "query_send", "query_wait", "fault"}
  /\ uip \in [src : Addr, dst : Addr, data : Data]

Posted(event) == \E i \in 1..Len(events) : events[i] = event

\* The driver waits for an answer and the modem has nothing left to answer:
\* nothing is sent or received any more.  Or the processor has faulted.
Deaf == ~ready /\ radio = "none" /\ reply = "none"
Dead == Deaf \/ cpu = "fault"

(* Safety *)

\* The driver believes the modem free while it executes a command in one case
\* only: the "ok" with which the modem starts was taken for the answer, because
\* the expected responses had been replaced by those of a radio set that was not
\* written, or cleared (lorabuf_clear), after the command.
FreeOnlyByOk == ready => reply = "none" /\ (radio = "none" \/ exp_resp = {"ok"})

\* The process never waits for a modem that the driver knows to be free: whenever
\* the driver is ready the phy_done that ends the wait is on its way, although
\* events are lost in the waits and some phy_done belong to no wait.
FreeWakes == WaitsPhy /\ ready => Posted("phy_done")

\* While the node is alone only JOIN frames leave it, retransmissions included:
\* what it transmits is the content of a buffer into which the interrupt parses
\* every frame it receives, those of other nodes too.
NoDataBeforeJoin ==
  state = "ALONE" => on_air.command = "JOIN" /\ last_sent_frame.command = "JOIN"

\* A node in WAIT_RESPONSE is always on its way out of it: its timer runs, or
\* a frame is about to be sent or being sent, after which the timer is set.
WaitingIsGuarded ==
  state = "WAIT_RESPONSE" =>
    retransmit_timer \/ pending \/ pc \in {"tx", "wdt"} \/ cpu = "retransmit"

\* is_retransmission is never left set with no frame to send, or the next new
\* frame would keep an old number.  (The frame that goes out under it need not be
\* the one copied: an interrupt may write another into the buffer.)
RetransmissionPending == is_retransmission => pending \/ cpu = "retransmit"

\* A frame handed to the process is never forgotten: if the process sleeps
\* waiting for an output event, one is on its way (events that arrive in
\* WAIT_PHY are lost, so the flag must be tested again).
PendingSeen == pending /\ pc = "idle" => Posted("output")

\* After a QUERY has been answered or given up, the timer of the next one runs, or
\* a frame is about to be sent: no downward traffic reaches a node that does not
\* poll.  (After a JOIN it may not: a QUERY sent under is_retransmission leaves
\* the JOIN in last_sent_frame, and its answer does not restart the timer.)
QueryTimerKept ==
  state = "READY" /\ last_sent_frame.command = "QUERY" =>
    query_timer \/ pending \/ cpu = "query_send"

\* bridge_input finds no packet in the buffer, and copies a negative length, in one
\* case only: set_state, called before it, has sent the query that waited.
OnlyQueryFaults == cpu = "fault" => lorabuf.command = "QUERY" /\ pending

(* Liveness *)

\* Every exchange ends: with an answer, after MaxRetransmit retransmissions,
\* or with the next frame.
ExchangeEnds ==
  \A s \in Seqno : (state = "WAIT_RESPONSE" /\ last_sent_frame.seqno = s) ~>
      (state = "READY" \/ last_sent_frame.seqno # s \/ Dead)

\* A node that is alone transmits its JOIN again and again.
KeepsJoining == []<>(state # "ALONE" \/ radio = "radio_tx" \/ Dead)

=============================================================================

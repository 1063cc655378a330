----------------------------- MODULE LoraNodeProofs -----------------------------
(***************************************************************************)
(* The safety invariants of LoraNode, proved for every number of sequence  *)
(* numbers, addresses, packets, retransmissions and received frames.       *)
(***************************************************************************)
EXTENDS LoraNode, TLAPS

-----------------------------------------------------------------------------
(* The helpers keep the types *)

Event == {"output", "phy_done"}
Cpu == {"free", "retransmit", "output", "query_send", "query_wait", "fault"}
CommandToModem == {"mac_pause", "radio_set"} \cup RadioCommand
State == {"ALONE", "READY", "WAIT_RESPONSE"}

\* The constant frames and addresses are of their types.
LEMMA ConstantTypes ==
  /\ RootAddr \in Addr /\ NullAddr \in Addr
  /\ NullFrame \in Frame /\ NoData \in Data
  /\ 0 \in Seqno
BY SeqModAssumption, AddressAssumption
   DEF RootAddr, NullAddr, Addr, NullFrame, Frame, NoData, Data, Seqno, Command

\* Counting modulo SeqMod stays in Seqno.
LEMMA SeqnoSucc == ASSUME NEW s \in Seqno PROVE (s + 1) % SeqMod \in Seqno
BY SeqModAssumption DEF Seqno

\* What the driver may be told to expect is a set of lines.
LEMMA ExpectedType ==
  ASSUME NEW command \in CommandToModem
  PROVE  Expected(command) \in SUBSET Line
BY DEF Expected, Line, Answer, CommandToModem, RadioCommand

\* The query that send_query makes from the buffer is a frame.
LEMMA QueryType ==
  ASSUME TypeOK, NEW buf \in Frame
  PROVE  Query(buf) \in Frame
<1>1. "QUERY" \in Command BY DEF Command
<1> QED BY <1>1, ConstantTypes DEF TypeOK, Query, Frame

\* Posting an event keeps the queue a queue.
LEMMA PostType ==
  ASSUME NEW evs \in Seq(Event), NEW e \in Event
  PROVE  Append(evs, e) \in Seq(Event)
OBVIOUS

\* So does delivering one.
LEMMA TailType ==
  ASSUME TypeOK, events # << >>
  PROVE  Tail(events) \in Seq(Event)
BY DEF TypeOK, Event

\* set_state(READY) keeps the types of what it changes.
LEMMA SetReadyType ==
  ASSUME TypeOK, NEW buf \in Frame, NEW evs \in Seq(Event), SetReady(buf, evs)
  PROVE  /\ state' \in State /\ lorabuf' \in Frame /\ events' \in Seq(Event)
         /\ pending' \in BOOLEAN /\ pending_query' \in BOOLEAN
<1>1. CASE QueryWaits
  <2>1. /\ state' \in State /\ lorabuf' \in Frame
        /\ pending' \in BOOLEAN /\ pending_query' \in BOOLEAN
    BY <1>1, QueryType DEF TypeOK, State, SetReady, SendQuery, SendFrame
  <2>2. events' \in Seq(Event)
    BY <1>1 DEF SetReady, SendQuery, SendFrame, Event
  <2> QED BY <2>1, <2>2
<1>2. CASE ~QueryWaits
  BY <1>2 DEF TypeOK, State, SetReady
<1> QED BY <1>1, <1>2

\* The types of what the driver and the modem change.
PhyType ==
  /\ exp_resp \in SUBSET Line
  /\ ready \in BOOLEAN /\ on_air \in Frame
  /\ radio \in RadioCommand \cup {"none"} /\ reply \in Answer \cup {"none"}

\* The commands given to the modem keep them.
LEMMA PhySendType ==
  ASSUME TypeOK, NEW frame \in Frame, NEW command \in CommandToModem,
         PhySend(command, frame)
  PROVE  PhyType'
<1>1. exp_resp' \in SUBSET Line
  BY ExpectedType DEF PhySend
<1>2. CASE ready
  BY <1>1, <1>2 DEF TypeOK, PhyType, PhySend, Give, Answer
<1>3. CASE ~ready
  BY <1>1, <1>3 DEF TypeOK, PhyType, PhySend, modemVars
<1> QED BY <1>2, <1>3 DEF TypeOK

\* So do the frames given to uIP.
LEMMA BridgeInputType ==
  ASSUME TypeOK, NEW buf \in Frame, BridgeInput(buf)
  PROVE  cpu' \in Cpu /\ uip' \in [src : Addr, dst : Addr, data : Data]
BY DEF TypeOK, BridgeInput, Frame, Cpu

-----------------------------------------------------------------------------
(* Type correctness *)

\* The types hold when the node starts.
LEMMA InitType == Init => TypeOK
<1> SUFFICES ASSUME Init PROVE TypeOK
  OBVIOUS
<1>1. lora_node_addr \in Addr
  BY NodeIdAssumption DEF Init, Addr
<1>2. exp_resp \in SUBSET Line
  BY ExpectedType DEF Init, CommandToModem
<1>3. retransmit_attempt \in 0..MaxRetransmit /\ conf \in 0..(NumRadioParam + 1)
  BY MaxRetransmitAssumption, NumRadioParamAssumption DEF Init
<1>4. events \in Seq(Event)
  BY DEF Init
<1> QED BY <1>1, <1>2, <1>3, <1>4, ConstantTypes DEF Init, TypeOK, Answer, Event

\* The lines that do not carry a frame.
LEMMA LineType ==
  ASSUME TypeOK, NEW line \in Line,
         UartIgnored(line) \/ SetConfParam(line) \/ SetConfStart(line) \/ SetConfDone(line)
  PROVE  TypeOK'
<1> USE DEF macVars, sendVars
<1>0. (Printed \/ SetParam) => on_air' \in Frame /\ radio' \in RadioCommand \cup {"none"}
                               /\ reply' \in Answer \cup {"none"}
  BY ConstantTypes DEF TypeOK, Printed, SetParam, RadioGoesOn, Answer
<1>a. SetParam => PhyType'
  BY <1>0, ExpectedType DEF SetParam, PhyType, CommandToModem
<1>1. ASSUME UartIgnored(line) PROVE TypeOK'
  BY <1>0, <1>1 DEF TypeOK, UartIgnored
<1>2. ASSUME SetConfParam(line) PROVE TypeOK'
  <2>2. conf' \in 0..(NumRadioParam + 1)
    BY <1>2, NumRadioParamAssumption DEF TypeOK, SetConfParam
  <2>3. PhyType'
    BY <1>2, <1>a DEF SetConfParam
  <2> QED BY <1>2, <2>2, <2>3 DEF TypeOK, SetConfParam, PhyType
<1>3. ASSUME SetConfStart(line) PROVE TypeOK'
  <2>2. conf' \in 0..(NumRadioParam + 1)
    BY <1>3, NumRadioParamAssumption DEF TypeOK, SetConfStart
  <2>3. PhyType'
    BY <1>3, <1>a DEF SetConfStart
  <2>4. lorabuf' \in Frame
    BY <1>3, ConstantTypes DEF TypeOK, SetConfStart, Frame, Command
  <2>5. events' \in Seq(Event) /\ pending' \in BOOLEAN /\ pc' = "wdt0"
    BY <1>3, PostType DEF TypeOK, SetConfStart, SendFrame, Event
  <2> QED BY <1>3, <2>2, <2>3, <2>4, <2>5 DEF TypeOK, SetConfStart, Event, PhyType
<1>4. ASSUME SetConfDone(line) PROVE TypeOK'
  <2>1. events' \in Seq(Event)
    BY <1>4, PostType DEF TypeOK, SetConfDone, Event
  <2> QED BY <1>0, <1>4, <2>1 DEF TypeOK, SetConfDone, Event
<1> QED BY <1>1, <1>2, <1>3, <1>4

\* The frames of the root: DATA has a packet.
Received == {f \in Frame : f.command = "DATA" => f.data.kind = "packet"}
LEMMA DownlinkReceived == Downlink \subseteq Received
BY DownlinkAssumption DEF Received

\* What every received frame does.
LEMMA InputDataType ==
  ASSUME TypeOK, NEW f \in Frame, InputData(f)
  PROVE  /\ InputEvents \in Seq(Event)
         /\ PhyType'
         /\ conf' \in 0..(NumRadioParam + 1)
         /\ pc' \in {"off", "wdt0", "idle", "top", "tx", "wdt", "rx"}
<1>1. InputEvents \in Seq(Event)
  BY PostType DEF TypeOK, InputEvents, Event
<1>2. PhyType'
  BY ConstantTypes DEF TypeOK, PhyType, InputData, Printed, RadioGoesOn, Answer
<1> QED BY <1>1, <1>2 DEF TypeOK, InputData

\* The frames, each with its handler.
LEMMA FrameType ==
  ASSUME TypeOK, NEW f \in Frame,
         OnJoinResponse(f) \/ OnDataNext(f) \/ OnDataLast(f) \/ OnAck(f) \/ InputDropped(f)
  PROVE  TypeOK'
<1> USE DEF macVars, sendVars, PhyType
<1>1. ASSUME OnJoinResponse(f) PROVE TypeOK'
  <2>1. InputData(f) BY <1>1 DEF OnJoinResponse
  <2>2. lora_node_addr' \in Addr
    <3>1. f.data \in Data /\ f.data.kind = "prefix"
      BY <1>1 DEF OnJoinResponse, IsJoinResponse, Frame
    <3>2. f.data.val \in Prefixes
      BY <3>1 DEF Data, NoData
    <3> QED BY <1>1, <3>2, NodeIdAssumption DEF OnJoinResponse, Addr
  <2>3. /\ state' \in State /\ lorabuf' \in Frame /\ events' \in Seq(Event)
        /\ pending' \in BOOLEAN /\ pending_query' \in BOOLEAN
    BY <1>1, <2>1, SetReadyType, InputDataType DEF OnJoinResponse
  <2>4. expected_seq' \in Seqno /\ retransmit_attempt' \in 0..MaxRetransmit
    BY <1>1, SeqnoSucc, MaxRetransmitAssumption DEF TypeOK, OnJoinResponse
  <2> QED BY <1>1, <2>1, <2>2, <2>3, <2>4, InputDataType
             DEF TypeOK, OnJoinResponse, State, Event
<1>2. ASSUME AcceptData(f)
      PROVE  /\ InputData(f)
             /\ expected_seq' \in Seqno /\ retransmit_attempt' \in 0..MaxRetransmit
             /\ retransmit_timer' = FALSE
             /\ UNCHANGED <<lora_node_addr, next_seq, last_sent_frame, is_retransmission>>
  <2>1. f.seqno \in Seqno
    BY DEF Frame
  <2> QED BY <1>2, <2>1, SeqnoSucc, MaxRetransmitAssumption DEF TypeOK, AcceptData
<1>3. ASSUME OnDataNext(f) PROVE TypeOK'
  <2>1. AcceptData(f) BY <1>3 DEF OnDataNext
  <2>2. lorabuf' \in Frame
    BY <1>3, QueryType DEF OnDataNext, SendQuery
  <2>3. events' \in Seq(Event) /\ pending' \in BOOLEAN
    BY <1>2, <1>3, <2>1, InputDataType, PostType DEF OnDataNext, SendQuery, SendFrame, Event
  <2>4. cpu' \in Cpu /\ uip' \in [src : Addr, dst : Addr, data : Data]
    BY <1>3, BridgeInputType DEF OnDataNext
  <2> QED BY <1>2, <1>3, <2>1, <2>2, <2>3, <2>4, InputDataType
             DEF TypeOK, OnDataNext, Cpu, Event
<1>4. ASSUME OnDataLast(f) PROVE TypeOK'
  <2>1. AcceptData(f) BY <1>4 DEF OnDataLast
  <2>2. /\ state' \in State /\ lorabuf' \in Frame /\ events' \in Seq(Event)
        /\ pending' \in BOOLEAN /\ pending_query' \in BOOLEAN
    BY <1>2, <1>4, <2>1, SetReadyType, InputDataType DEF OnDataLast
  <2>3. cpu' \in Cpu /\ uip' \in [src : Addr, dst : Addr, data : Data]
    BY <1>4, QueryType, BridgeInputType DEF OnDataLast
  <2> QED BY <1>2, <1>4, <2>1, <2>2, <2>3, InputDataType
             DEF TypeOK, OnDataLast, Cpu, State, Event
<1>5. ASSUME OnAck(f) PROVE TypeOK'
  <2>1. InputData(f) BY <1>5 DEF OnAck
  <2>2. /\ state' \in State /\ lorabuf' \in Frame /\ events' \in Seq(Event)
        /\ pending' \in BOOLEAN /\ pending_query' \in BOOLEAN
    BY <1>5, <2>1, SetReadyType, InputDataType DEF OnAck
  <2>3. query_timer' \in BOOLEAN /\ retransmit_attempt' \in 0..MaxRetransmit
    BY <1>5, MaxRetransmitAssumption DEF OnAck
  <2> QED BY <1>5, <2>1, <2>2, <2>3, InputDataType DEF TypeOK, OnAck, State, Event
<1>6. ASSUME InputDropped(f) PROVE TypeOK'
  <2>1. InputData(f) BY <1>6 DEF InputDropped
  <2> QED BY <1>6, <2>1, InputDataType DEF TypeOK, InputDropped, Event
<1> QED BY <1>1, <1>3, <1>4, <1>5, <1>6

\* The steps of the process.
LEMMA ProcessType == ASSUME TypeOK, Process PROVE TypeOK'
<1> USE DEF macVars, sendVars, phyVars, modemVars
<1>1. ASSUME EventLost PROVE TypeOK'
  BY <1>1, TailType DEF TypeOK, EventLost, Dispatch, Event
<1>2. ASSUME OutputEvent PROVE TypeOK'
  BY <1>2, TailType DEF TypeOK, OutputEvent, Dispatch, Event
<1>3. ASSUME PhyWaitOver PROVE TypeOK'
  BY <1>3, TailType DEF TypeOK, PhyWaitOver, Dispatch, Event
<1>4. ASSUME NothingPending PROVE TypeOK'
  BY <1>4 DEF TypeOK, NothingPending
<1>5. ASSUME Transmit PROVE TypeOK'
  <2> DEFINE frame == IF is_retransmission THEN lorabuf
                      ELSE [lorabuf EXCEPT !.seqno = next_seq]
  <2>1. frame \in Frame
    BY DEF TypeOK, Frame
  <2>2. lorabuf' \in Frame /\ last_sent_frame' \in Frame
    BY <1>5, <2>1 DEF TypeOK, Transmit
  <2>3. next_seq' \in Seqno
    BY <1>5, SeqnoSucc DEF TypeOK, Transmit
  <2>4. PhyType'
    <3>1. PhySend("radio_tx", frame) BY <1>5 DEF Transmit
    <3> QED BY <2>1, <3>1, PhySendType DEF CommandToModem, RadioCommand
  <2>5. state' \in State
    BY <1>5 DEF TypeOK, Transmit, State
  <2>6. is_retransmission' \in BOOLEAN
    BY <1>5 DEF Transmit, RetransmissionOver
  <2> QED BY <1>5, <2>2, <2>3, <2>4, <2>5, <2>6 DEF TypeOK, Transmit, State, PhyType
<1>6. ASSUME TxDoneWait PROVE TypeOK'
  <2>1. PhyType'
    BY <1>6, ConstantTypes, PhySendType DEF TxDoneWait, CommandToModem
  <2> QED BY <1>6, <2>1, TailType DEF TypeOK, TxDoneWait, Dispatch, Event, PhyType
<1>7. ASSUME TxDoneNoWait PROVE TypeOK'
  <2>1. /\ state' \in State /\ lorabuf' \in Frame /\ events' \in Seq(Event)
        /\ pending' \in BOOLEAN /\ pending_query' \in BOOLEAN
    BY <1>7, SetReadyType, TailType DEF TypeOK, TxDoneNoWait, Dispatch
  <2> QED BY <1>7, <2>1 DEF TypeOK, TxDoneNoWait, State, Event
<1>8. ASSUME Listen PROVE TypeOK'
  <2>1. PhyType'
    BY <1>8, ConstantTypes, PhySendType DEF Listen, CommandToModem, RadioCommand
  <2> QED BY <1>8, <2>1, TailType DEF TypeOK, Listen, Dispatch, Event, PhyType
<1> QED BY <1>1, <1>2, <1>3, <1>4, <1>5, <1>6, <1>7, <1>8 DEF Process

\* A retransmission that has begun is within the limit.
CopyAllowed == cpu = "retransmit" => retransmit_attempt < MaxRetransmit

\* The timers and the output, which need CopyAllowed for the last attempt.
LEMMA MainLoopType == ASSUME TypeOK, CopyAllowed, MainLoop PROVE TypeOK'
<1> USE DEF macVars, sendVars, phyVars, modemVars
<1>0. events \in Seq(Event)
  BY DEF TypeOK, Event
<1>1. ASSUME QueryTimeout PROVE TypeOK'
  <2>1. cpu' \in {"free", "retransmit", "output", "query_send", "query_wait", "fault"}
    BY <1>1 DEF QueryTimeout
  <2>2. query_timer' \in BOOLEAN
    BY <1>1 DEF QueryTimeout
  <2>3. UNCHANGED <<state, lora_node_addr, next_seq, expected_seq, retransmit_attempt,
                    last_sent_frame, is_retransmission, retransmit_timer, sendVars, phyVars,
                    conf, events, pc, uip>>
    BY <1>1 DEF QueryTimeout
  <2> QED BY <2>1, <2>2, <2>3 DEF TypeOK
<1>8. ASSUME QueryLater PROVE TypeOK'
  BY <1>8 DEF TypeOK, QueryLater
<1>7. ASSUME QueryNow PROVE TypeOK'
  <2>1. lorabuf' \in Frame
    BY <1>7, QueryType DEF TypeOK, QueryNow, SendQuery
  <2>2. events' \in Seq(Event)
    BY <1>0, <1>7, PostType DEF QueryNow, SendQuery, SendFrame, Event
  <2>3. pending' = TRUE
    BY <1>7 DEF QueryNow, SendQuery, SendFrame
  <2> QED BY <1>7, <2>1, <2>2, <2>3 DEF TypeOK, QueryNow, Event
<1>2. ASSUME RetransmitTimeout PROVE TypeOK'
  BY <1>2 DEF TypeOK, RetransmitTimeout
<1>3. ASSUME RetransmitCopy PROVE TypeOK'
  <2>1. events' \in Seq(Event) /\ pending' = TRUE
    BY <1>0, <1>3, PostType DEF RetransmitCopy, SendFrame, Event
  <2>2. retransmit_attempt' \in 0..MaxRetransmit
    BY <1>3, MaxRetransmitAssumption DEF TypeOK, CopyAllowed, RetransmitCopy
  <2>3. exp_resp' \in SUBSET Line
    BY <1>3 DEF RetransmitCopy, ClearedResp, Line, Answer
  <2> QED BY <1>3, <2>1, <2>2, <2>3 DEF TypeOK, RetransmitCopy, Event
<1>4. ASSUME RetransmitGiveUp PROVE TypeOK'
  <2>1. retransmit_attempt' \in 0..MaxRetransmit
    BY <1>4, MaxRetransmitAssumption DEF RetransmitGiveUp
  <2>2. CASE last_sent_frame.command = "JOIN"
    <3>1. PhyType'
      BY <1>4, <2>2, ConstantTypes, PhySendType
         DEF RetransmitGiveUp, CommandToModem, RadioCommand
    <3>2. retransmit_timer' \in BOOLEAN
      BY <1>4, <2>2 DEF RetransmitGiveUp, SleepTimer
    <3> QED BY <1>4, <2>1, <2>2, <3>1, <3>2 DEF TypeOK, RetransmitGiveUp, PhyType
  <2>3. CASE last_sent_frame.command # "JOIN"
    <3>1. lorabuf \in Frame
      BY DEF TypeOK
    <3>2. /\ state' \in State /\ lorabuf' \in Frame /\ events' \in Seq(Event)
          /\ pending' \in BOOLEAN /\ pending_query' \in BOOLEAN
      BY <1>0, <1>4, <2>3, <3>1, SetReadyType DEF RetransmitGiveUp
    <3>3. retransmit_timer' \in BOOLEAN /\ query_timer' \in BOOLEAN
      BY <1>4, <2>3 DEF RetransmitGiveUp
    <3> QED BY <1>4, <2>1, <2>3, <3>2, <3>3 DEF TypeOK, RetransmitGiveUp, State, Event
  <2> QED BY <2>2, <2>3
<1>5. ASSUME NEW p \in Packets, OutputBegin(p) PROVE TypeOK'
  <2>1. [kind |-> "packet", val |-> p] \in Data
    BY DEF Data
  <2>2. [prefix |-> lora_node_addr.prefix, id |-> PacketHost[p]] \in Addr
    BY PacketAssumption DEF TypeOK, Addr
  <2>3. lorabuf' \in Frame
    BY <1>5, <2>1, <2>2, ConfirmedAssumption DEF TypeOK, OutputBegin, Frame
  <2> QED BY <1>5, <2>3 DEF TypeOK, OutputBegin
<1>6. ASSUME OutputEnd PROVE TypeOK'
  <2>1. CASE state = "READY"
    <3>1. lorabuf' \in Frame
      <4>1. lorabuf \in Frame /\ RootAddr \in Addr
        BY ConstantTypes DEF TypeOK
      <4>2. lorabuf' = [lorabuf EXCEPT !.command = "DATA", !.dest_addr = RootAddr]
        BY <1>6, <2>1 DEF OutputEnd
      <4> QED BY <4>1, <4>2 DEF Frame, Command
    <3>2. events' \in Seq(Event) /\ pending' = TRUE
      BY <1>0, <1>6, <2>1, PostType DEF OutputEnd, SendFrame, Event
    <3> QED BY <1>6, <3>1, <3>2 DEF TypeOK, OutputEnd, Event
  <2>2. CASE state # "READY"
    BY <1>6, <2>2 DEF TypeOK, OutputEnd
  <2> QED BY <2>1, <2>2
<1> QED BY <1>1, <1>2, <1>3, <1>4, <1>5, <1>6, <1>7, <1>8 DEF MainLoop

\* A copy only starts with an attempt left, and nothing counts one until it ends.
LEMMA CopyAllowedNext ==
  ASSUME TypeOK, CopyAllowed, [Next]_vars
  PROVE  CopyAllowed'
<1> USE MaxRetransmitAssumption DEF CopyAllowed, macVars, sendVars, phyVars
<1>1. ASSUME UartInput PROVE CopyAllowed'
  <2>1. ASSUME NEW line \in Line, UartIgnored(line) PROVE CopyAllowed'
    BY <2>1 DEF UartIgnored
  <2>2. ASSUME NEW line \in Line, SetConfParam(line) PROVE CopyAllowed'
    BY <2>2 DEF SetConfParam
  <2>3. ASSUME NEW line \in Line, SetConfStart(line) PROVE CopyAllowed'
    BY <2>3 DEF SetConfStart
  <2>4. ASSUME NEW line \in Line, SetConfDone(line) PROVE CopyAllowed'
    BY <2>4 DEF SetConfDone
  <2>5. ASSUME NEW f \in Downlink, OnJoinResponse(f) PROVE CopyAllowed'
    BY <2>5 DEF OnJoinResponse
  <2>6. ASSUME NEW f \in Downlink, AcceptData(f) PROVE CopyAllowed'
    BY <2>6 DEF AcceptData
  <2>7. ASSUME NEW f \in Downlink, OnAck(f) PROVE CopyAllowed'
    BY <2>7 DEF OnAck
  <2>8. ASSUME NEW f \in Downlink, InputDropped(f) PROVE CopyAllowed'
    BY <2>8 DEF InputDropped
  <2> QED BY <1>1, <2>1, <2>2, <2>3, <2>4, <2>5, <2>6, <2>7, <2>8
             DEF UartInput, OnDataNext, OnDataLast
<1>2. ASSUME Process PROVE CopyAllowed'
  BY <1>2 DEF Process, EventLost, OutputEvent, PhyWaitOver, NothingPending, Transmit,
              TxDoneWait, TxDoneNoWait, Listen
<1>3. ASSUME MainLoop PROVE CopyAllowed'
  BY <1>3 DEF TypeOK, MainLoop, QueryTimeout, QueryNow, QueryLater, RetransmitTimeout,
              AttemptsLeft, RetransmitCopy, RetransmitGiveUp, OutputBegin, OutputEnd,
              RetransmitExpires, MainLoopFree
<1>4. ASSUME UNCHANGED vars PROVE CopyAllowed'
  BY <1>4 DEF vars
<1> QED BY <1>1, <1>2, <1>3, <1>4 DEF Next

\* The types are preserved by every step.
LEMMA TypeNext ==
  ASSUME TypeOK, CopyAllowed, [Next]_vars
  PROVE  TypeOK'
<1>1. ASSUME UartInput PROVE TypeOK'
  BY <1>1, LineType, FrameType, DownlinkAssumption DEF UartInput
<1>2. ASSUME UNCHANGED vars PROVE TypeOK'
  BY <1>2 DEF TypeOK, vars, macVars, sendVars, phyVars, modemVars
<1> QED BY <1>1, <1>2, ProcessType, MainLoopType DEF Next

\* Every variable of the node always holds a value of its C type.
THEOREM TypeCorrect == Spec => [](TypeOK /\ CopyAllowed)
<1>1. Init => TypeOK /\ CopyAllowed
  BY InitType DEF Init, CopyAllowed
<1>2. TypeOK /\ CopyAllowed /\ [Next]_vars => (TypeOK /\ CopyAllowed)'
  BY CopyAllowedNext, TypeNext
<1> QED BY <1>1, <1>2, PTL DEF Spec

-----------------------------------------------------------------------------
(* The strengthenings *)

\* The process starts when the last radio parameter is set.
Started == conf <= NumRadioParam => pc = "off"

\* The modem's banner is the answer to the mac pause; a response "ok" is expected
\* alone, and "busy" never is.
Answers ==
  /\ reply = "u_int" => conf = 0
  /\ "ok" \in exp_resp => exp_resp = {"ok"}
  /\ "busy" \notin exp_resp

\* Before the JOIN_RESPONSE: a JOIN that is pending is the content of lorabuf,
\* and stays so until it is transmitted, because the radio cannot deliver a
\* frame and neither timer nor output can run.
JoinOnly ==
  state = "ALONE" =>
    /\ last_sent_frame.command = "JOIN"
    /\ ~query_timer /\ ~pending_query
    /\ cpu \in {"free", "retransmit"}
    /\ pending => /\ lorabuf.command = "JOIN" /\ "radio_rx" \notin exp_resp
                  /\ pc \notin {"tx", "wdt"} /\ ~retransmit_timer /\ cpu = "free"
    /\ retransmit_timer => cpu = "free"
    /\ retransmit_timer \/ cpu = "retransmit" => pc \notin {"off", "wdt0", "tx", "wdt"}

\* So what a node that is alone has on the air is a JOIN (until it is reset, which
\* does not stop its modem).
AirJoin == state = "ALONE" => on_air.command = "JOIN"

\* All that a reset keeps, but the two invariants about the queue of events.
Control ==
  /\ FreeOnlyByOk /\ Answers /\ WaitingIsGuarded /\ RetransmissionPending
  /\ QueryTimerKept /\ Started /\ JoinOnly
IInv == TypeOK /\ CopyAllowed /\ Control /\ AirJoin /\ PendingSeen /\ FreeWakes

-----------------------------------------------------------------------------
(* Control is preserved *)

\* The lines that do not carry a frame.
LEMMA LineControl ==
  ASSUME TypeOK, Control, NEW line \in Line,
         UartIgnored(line) \/ SetConfParam(line) \/ SetConfStart(line) \/ SetConfDone(line)
  PROVE  Control'
<1> USE DEF macVars, sendVars, phyVars, modemVars, Control, FreeOnlyByOk, Answers,
            WaitingIsGuarded, RetransmissionPending, QueryTimerKept, Started, JoinOnly
<1>1. ASSUME UartIgnored(line) PROVE Control'
  BY <1>1 DEF UartIgnored, Accepted, Printed, RadioGoesOn
<1>2. ASSUME SetConfParam(line) PROVE Control'
  <2>1. conf <= NumRadioParam
    BY <1>2, NumRadioParamAssumption DEF TypeOK, SetConfParam
  <2> QED BY <1>2, <2>1 DEF SetConfParam, SetParam, Expected
<1>3. ASSUME SetConfStart(line) PROVE Control'
  <2>1. pc = "off" /\ conf' > NumRadioParam
    BY <1>3, NumRadioParamAssumption DEF SetConfStart
  <2>2. lorabuf'.command = "JOIN" /\ pending' = TRUE
    BY <1>3 DEF TypeOK, SetConfStart, Frame, SendFrame
  <2> QED BY <1>3, <2>1, <2>2, NumRadioParamAssumption DEF SetConfStart, SetParam, Expected
<1>4. ASSUME SetConfDone(line) PROVE Control'
  \* The driver becomes free by the end of a command, or by the "ok" of its start.
  <2>1. FreeOnlyByOk'
    <3>1. reply' = "none" /\ exp_resp' = exp_resp
      BY <1>4 DEF SetConfDone, Printed
    <3>2. CASE reply = "none"
      BY <1>4, <3>1, <3>2 DEF SetConfDone, Printed, RadioGoesOn
    <3>3. CASE reply # "none"
      <4>1. line = reply /\ line # "u_int" /\ line \in Answer
        BY <1>4, <3>3, NumRadioParamAssumption DEF SetConfDone, SentDone, ModemPrints, TypeOK
      <4>2. line = "ok" /\ exp_resp = {"ok"}
        BY <1>4, <3>3, <4>1 DEF SetConfDone, SentDone, Accepted, Answer
      <4> QED BY <3>1, <4>2
    <3> QED BY <3>2, <3>3
  <2>2. Answers'
    BY <1>4 DEF SetConfDone, Printed
  <2> QED BY <1>4, <2>1, <2>2, NumRadioParamAssumption DEF SetConfDone, TypeOK
<1> QED BY <1>1, <1>2, <1>3, <1>4

\* The driver is free after a frame, and the modem too.
LEMMA InputFree ==
  ASSUME TypeOK, Control, NEW f, InputData(f)
  PROVE  FreeOnlyByOk' /\ Answers' /\ "radio_rx" \in exp_resp
<1>1. reply = "none"
  BY DEF InputData, ModemPrints, TypeOK, Answer
<1>2. radio' = "none" /\ reply' = "none" /\ exp_resp' = exp_resp
  BY <1>1 DEF InputData, Printed, RadioGoesOn
<1> QED BY <1>2 DEF InputData, Accepted, FreeOnlyByOk, Answers, Control

\* The frames: the only one accepted in ALONE is the JOIN_RESPONSE.
LEMMA FrameControl ==
  ASSUME TypeOK, Control, NEW f \in Received,
         OnJoinResponse(f) \/ OnDataNext(f) \/ OnDataLast(f) \/ OnAck(f) \/ InputDropped(f)
  PROVE  Control'
<1>0. FreeOnlyByOk' /\ Answers' /\ "radio_rx" \in exp_resp /\ UNCHANGED <<exp_resp, conf, pc>>
  BY InputFree DEF OnJoinResponse, OnDataNext, OnDataLast, AcceptData, OnAck, InputDropped,
                   InputData
<1> USE <1>0 DEF macVars, sendVars, TypeOK, Control, WaitingIsGuarded, RetransmissionPending,
                 QueryTimerKept, Started, JoinOnly
<1>1. ASSUME OnJoinResponse(f) PROVE Control'
  BY <1>1 DEF OnJoinResponse, IsJoinResponse, SetReady, QueryWaits
<1>2. ASSUME OnDataNext(f) PROVE Control'
  BY <1>2 DEF Received, OnDataNext, AcceptData, IsFreshData, SendQuery, SendFrame,
              BridgeInput
<1>3. ASSUME OnDataLast(f) PROVE Control'
  BY <1>3 DEF Received, OnDataLast, AcceptData, IsFreshData, SetReady, QueryWaits,
              SendQuery, SendFrame, BridgeInput
<1>4. ASSUME OnAck(f) PROVE Control'
  BY <1>4 DEF OnAck, IsAck, SetReady, QueryWaits, SendQuery, SendFrame, QueryAnswered
<1>5. ASSUME InputDropped(f) PROVE Control'
  \* A pending JOIN is not overwritten: the radio cannot deliver.
  BY <1>5 DEF InputDropped
<1> QED BY <1>1, <1>2, <1>3, <1>4, <1>5

\* A command of the main loop: the driver is free only if it was and refused it ...
LEMMA PhySendControl ==
  ASSUME TypeOK, Control, NEW command \in CommandToModem, NEW frame, PhySend(command, frame)
  PROVE  FreeOnlyByOk' /\ ready' = FALSE /\ exp_resp' = Expected(command)
<1>1. ready' = FALSE /\ exp_resp' = Expected(command)
  BY DEF PhySend, TypeOK
<1> QED BY <1>1 DEF FreeOnlyByOk

\* ... and none of them resets the modem.
LEMMA PhySendAnswers ==
  ASSUME TypeOK, Control, NEW command \in CommandToModem, NEW frame,
         PhySend(command, frame), conf' = conf
  PROVE  Answers'
<1>1. \/ exp_resp' \in {{"u_int"}, {"ok"}}
      \/ exp_resp' \in {{"radio_tx_ok", "radio_err"}, {"radio_rx", "radio_err"}}
  BY PhySendControl DEF Expected, CommandToModem, RadioCommand
<1>2. ("ok" \in exp_resp' => exp_resp' = {"ok"}) /\ "busy" \notin exp_resp'
  BY <1>1
<1>3. reply' = "u_int" => reply = "u_int"
  BY DEF PhySend, Give, modemVars
<1> QED BY <1>2, <1>3 DEF Answers, Control

\* The steps of the process.
LEMMA ProcessControl == ASSUME TypeOK, Control, Process PROVE Control'
<1> USE DEF macVars, sendVars, phyVars, modemVars, TypeOK, Control,
            WaitingIsGuarded, RetransmissionPending, QueryTimerKept, Started, JoinOnly
<1>0. ASSUME UNCHANGED <<phyVars, conf>> PROVE FreeOnlyByOk' /\ Answers'
  BY <1>0 DEF FreeOnlyByOk, Answers
<1>a. ASSUME NEW command \in CommandToModem, NEW frame, PhySend(command, frame), conf' = conf
      PROVE  FreeOnlyByOk' /\ Answers' /\ exp_resp' = Expected(command)
  BY <1>a, PhySendControl, PhySendAnswers
<1>1. ASSUME EventLost PROVE Control'
  BY <1>0, <1>1 DEF EventLost
<1>2. ASSUME OutputEvent PROVE Control'
  BY <1>0, <1>2 DEF OutputEvent
<1>3. ASSUME PhyWaitOver PROVE Control'
  BY <1>0, <1>3 DEF PhyWaitOver
<1>4. ASSUME NothingPending PROVE Control'
  BY <1>0, <1>4 DEF NothingPending
<1>5. ASSUME Transmit PROVE Control'
  <2>1. /\ FreeOnlyByOk' /\ Answers' /\ exp_resp' = {"radio_tx_ok", "radio_err"}
    BY <1>5, <1>a DEF Transmit, CommandToModem, RadioCommand, Expected
  <2> QED BY <1>5, <2>1 DEF Transmit, RetransmissionOver, Frame
<1>6. ASSUME TxDoneWait PROVE Control'
  <2>1. /\ FreeOnlyByOk' /\ Answers' /\ exp_resp' = {"ok"}
    BY <1>6, <1>a DEF TxDoneWait, CommandToModem, RadioCommand, Expected
  <2> QED BY <1>6, <2>1 DEF TxDoneWait
<1>7. ASSUME TxDoneNoWait PROVE Control'
  BY <1>0, <1>7 DEF TxDoneNoWait, NeedsResponse, SetReady, QueryWaits, SendQuery, SendFrame
<1>8. ASSUME Listen PROVE Control'
  <2>1. /\ FreeOnlyByOk' /\ Answers'
    BY <1>8, <1>a DEF Listen, CommandToModem, RadioCommand
  <2> QED BY <1>8, <2>1 DEF Listen
<1> QED BY <1>1, <1>2, <1>3, <1>4, <1>5, <1>6, <1>7, <1>8 DEF Process

\* The timers and the output.
LEMMA MainLoopControl == ASSUME TypeOK, Control, MainLoop PROVE Control'
<1> USE DEF macVars, sendVars, phyVars, modemVars, TypeOK, Control,
            WaitingIsGuarded, RetransmissionPending, QueryTimerKept, Started, JoinOnly,
            RetransmitExpires, MainLoopFree
<1>0. ASSUME UNCHANGED <<phyVars, conf>> PROVE FreeOnlyByOk' /\ Answers'
  BY <1>0 DEF FreeOnlyByOk, Answers
<1>1. ASSUME QueryTimeout PROVE Control'
  BY <1>0, <1>1 DEF QueryTimeout
<1>7. ASSUME QueryNow PROVE Control'
  BY <1>0, <1>7 DEF QueryNow, SendQuery, SendFrame
<1>8. ASSUME QueryLater PROVE Control'
  BY <1>0, <1>8 DEF QueryLater
<1>2. ASSUME RetransmitTimeout PROVE Control'
  BY <1>0, <1>2 DEF RetransmitTimeout
<1>3. ASSUME RetransmitCopy PROVE Control'
  <2>1. FreeOnlyByOk' /\ Answers'
    BY <1>3 DEF RetransmitCopy, ClearedResp, FreeOnlyByOk, Answers
  <2> QED BY <1>3, <2>1 DEF RetransmitCopy, SendFrame, ClearedResp
<1>4. ASSUME RetransmitGiveUp PROVE Control'
  <2>1. CASE last_sent_frame.command = "JOIN"
    <3>1. /\ FreeOnlyByOk' /\ Answers' /\ exp_resp' = {"ok"}
      BY <1>4, <2>1, PhySendControl, PhySendAnswers
         DEF RetransmitGiveUp, CommandToModem, RadioCommand, Expected
    <3> QED BY <1>4, <2>1, <3>1 DEF RetransmitGiveUp, SleepTimer
  <2>2. CASE last_sent_frame.command # "JOIN"
    <3>0. FreeOnlyByOk' /\ Answers'
      BY <1>0, <1>4, <2>2 DEF RetransmitGiveUp
    <3> USE <1>4, <2>2 DEF RetransmitGiveUp, SetReady, QueryWaits, SendQuery, SendFrame
    <3>1. QueryTimerKept'
      BY DEF QueryAnswered
    <3>2. JoinOnly'
      OBVIOUS
    <3>3. WaitingIsGuarded'
      OBVIOUS
    <3> QED BY <3>0, <3>1, <3>2, <3>3
  <2> QED BY <2>1, <2>2
<1>5. ASSUME NEW p \in Packets, OutputBegin(p) PROVE Control'
  BY <1>0, <1>5 DEF OutputBegin
<1>6. ASSUME OutputEnd PROVE Control'
  BY <1>0, <1>6 DEF OutputEnd, SendFrame
<1> QED BY <1>1, <1>2, <1>3, <1>4, <1>5, <1>6, <1>7, <1>8 DEF MainLoop

\* Control is preserved by every step.
LEMMA ControlNext == ASSUME TypeOK, Control, [Next]_vars PROVE Control'
<1>1. ASSUME UartInput PROVE Control'
  BY <1>1, LineControl, FrameControl, DownlinkReceived DEF UartInput
<1>2. ASSUME UNCHANGED vars PROVE Control'
  BY <1>2 DEF vars, macVars, sendVars, phyVars, modemVars, Control, FreeOnlyByOk, Answers,
              WaitingIsGuarded, RetransmissionPending, QueryTimerKept, Started, JoinOnly
<1> QED BY <1>1, <1>2, ProcessControl, MainLoopControl DEF Next

-----------------------------------------------------------------------------
(* PendingSeen is preserved *)

In(e, evs) == \E i \in 1..Len(evs) : evs[i] = e

\* An event just posted is in the queue, and so is every one before it.
LEMMA InAppend ==
  ASSUME NEW evs \in Seq(Event), NEW e \in Event, NEW d \in Event
  PROVE  /\ In(e, Append(evs, e))
         /\ In(d, evs) => In(d, Append(evs, e))
<1>1. Append(evs, e)[Len(evs) + 1] = e /\ Len(evs) + 1 \in 1..Len(Append(evs, e))
  OBVIOUS
<1>2. ASSUME In(d, evs) PROVE In(d, Append(evs, e))
  <2>1. PICK i \in 1..Len(evs) : evs[i] = d
    BY <1>2 DEF In
  <2>2. Append(evs, e)[i] = d /\ i \in 1..Len(Append(evs, e))
    BY <2>1
  <2> QED BY <2>2 DEF In
<1> QED BY <1>1, <1>2 DEF In

\* Delivering an event takes that one only.
LEMMA InTail ==
  ASSUME NEW evs \in Seq(Event), NEW d \in Event, In(d, evs), Head(evs) # d
  PROVE  In(d, Tail(evs))
<1>1. PICK i \in 1..Len(evs) : evs[i] = d
  BY DEF In
<1>2. i # 1
  BY <1>1
<1>3. Tail(evs)[i - 1] = d /\ i - 1 \in 1..Len(Tail(evs))
  BY <1>1, <1>2
<1> QED BY <1>3 DEF In

\* The three ways in which a step can touch the flag and the queue.
LEMMA PendingSeenStep ==
  ASSUME TypeOK, PendingSeen,
         \/ pc' # "idle" \/ pending' = FALSE
         \/ \E evs \in Seq(Event) : events' = Append(evs, "output")
         \/ /\ pending' = pending /\ pc' = pc
            /\ events' \in {events, Append(events, "phy_done")}
         \/ /\ pending' = pending /\ pc' = pc
            /\ events # << >> /\ Head(events) = "phy_done" /\ events' = Tail(events)
  PROVE  PendingSeen'
<1> USE DEF Event
<1>1. events \in Seq(Event)
  BY DEF TypeOK
<1>2. PendingSeen' <=> (pending' /\ pc' = "idle" => In("output", events'))
  BY DEF PendingSeen, Posted, In
<1>3. pending /\ pc = "idle" => In("output", events)
  BY DEF PendingSeen, Posted, In
<1>4. CASE \E evs \in Seq(Event) : events' = Append(evs, "output")
  BY <1>2, <1>4, InAppend
<1>5. CASE /\ pending' = pending /\ pc' = pc
           /\ events' \in {events, Append(events, "phy_done")}
  BY <1>1, <1>2, <1>3, <1>5, InAppend
<1>6. CASE /\ pending' = pending /\ pc' = pc
           /\ events # << >> /\ Head(events) = "phy_done" /\ events' = Tail(events)
  BY <1>1, <1>2, <1>3, <1>6, InTail
<1> QED BY <1>2, <1>4, <1>5, <1>6

\* set_state(READY) sends the query that waits, or leaves the flag alone.
LEMMA SetReadySeen ==
  ASSUME TypeOK, NEW buf, NEW evs \in Seq(Event), SetReady(buf, evs)
  PROVE  \/ events' = Append(evs, "output")
         \/ pending' = pending /\ events' = evs
BY DEF SetReady, SendQuery, SendFrame

\* A pending frame is posted or will be looked at, whatever the step.
LEMMA PendingSeenNext ==
  ASSUME TypeOK, PendingSeen, [Next]_vars
  PROVE  PendingSeen'
<1> USE DEF macVars, sendVars, phyVars, modemVars
<1>0. events \in Seq(Event) /\ InputEvents \in Seq(Event)
  BY PostType DEF TypeOK, InputEvents, Event
<1>1. ASSUME NEW line \in Line,
             UartIgnored(line) \/ SetConfParam(line) \/ SetConfStart(line) \/ SetConfDone(line)
      PROVE  PendingSeen'
  BY <1>1, PendingSeenStep DEF UartIgnored, SetConfParam, SetConfStart, SetConfDone
<1>2. ASSUME NEW f \in Downlink,
             OnJoinResponse(f) \/ OnDataNext(f) \/ OnDataLast(f) \/ OnAck(f) \/ InputDropped(f)
      PROVE  PendingSeen'
  <2>1. pc' = pc
    BY <1>2 DEF OnJoinResponse, OnDataNext, OnDataLast, AcceptData, OnAck, InputDropped,
                InputData
  <2>2. CASE OnDataNext(f)
    BY <1>0, <2>2, PendingSeenStep DEF OnDataNext, SendQuery, SendFrame
  <2>3. CASE InputDropped(f)
    BY <2>1, <2>3, PendingSeenStep DEF InputDropped, InputEvents
  <2>4. CASE OnJoinResponse(f) \/ OnDataLast(f) \/ OnAck(f)
    <3>1. SetReady(f, InputEvents)
      BY <2>4 DEF OnJoinResponse, OnDataLast, OnAck
    <3> QED BY <1>0, <2>1, <3>1, SetReadySeen, PendingSeenStep DEF InputEvents
  <2> QED BY <1>2, <2>2, <2>3, <2>4
<1>3. ASSUME Process PROVE PendingSeen'
  <2>1. CASE EventLost
    BY <2>1, PendingSeenStep DEF EventLost, Dispatch, WaitsPhy
  <2>2. CASE NothingPending
    BY <2>2, PendingSeenStep DEF NothingPending, TypeOK
  <2>3. CASE OutputEvent \/ PhyWaitOver \/ Transmit \/ TxDoneWait \/ TxDoneNoWait \/ Listen
    <3>1. pc' # "idle"
      BY <2>3 DEF OutputEvent, PhyWaitOver, Transmit, TxDoneWait, TxDoneNoWait, Listen
    <3> QED BY <3>1, PendingSeenStep
  <2> QED BY <1>3, <2>1, <2>2, <2>3 DEF Process
<1>4. ASSUME MainLoop PROVE PendingSeen'
  <2>1. CASE QueryNow
    BY <1>0, <2>1, PendingSeenStep DEF QueryNow, SendQuery, SendFrame
  <2>2. CASE QueryTimeout \/ QueryLater \/ RetransmitTimeout
    BY <2>2, PendingSeenStep DEF QueryTimeout, QueryLater, RetransmitTimeout
  <2>3. CASE RetransmitCopy
    BY <1>0, <2>3, PendingSeenStep DEF RetransmitCopy, SendFrame
  <2>4. CASE RetransmitGiveUp
    <3>1. pc' = pc /\ (SetReady(lorabuf, events) \/ UNCHANGED <<pending, events>>)
      BY <2>4 DEF RetransmitGiveUp
    <3> QED BY <1>0, <3>1, SetReadySeen, PendingSeenStep
  <2>5. CASE \E p \in Packets : OutputBegin(p)
    BY <2>5, PendingSeenStep DEF OutputBegin
  <2>6. CASE OutputEnd
    BY <1>0, <2>6, PendingSeenStep DEF OutputEnd, SendFrame
  <2> QED BY <1>4, <2>1, <2>2, <2>3, <2>4, <2>5, <2>6 DEF MainLoop
<1>5. ASSUME UNCHANGED vars PROVE PendingSeen'
  BY <1>5, PendingSeenStep DEF vars
<1> QED BY <1>1, <1>2, <1>3, <1>4, <1>5 DEF Next, UartInput

-----------------------------------------------------------------------------
(* FreeWakes is preserved *)

\* The ways in which a step can touch the driver and the queue.
LEMMA FreeWakesStep ==
  ASSUME TypeOK, FreeWakes,
         \/ ready' = FALSE \/ pc' \in {"off", "idle", "top"}
         \/ events' \in {InputEvents, Append(InputEvents, "output")}
         \/ /\ ready' = ready /\ pc' = pc
            /\ events' \in {events, Append(events, "output")}
         \/ /\ ready' = ready /\ pc' = pc
            /\ events # << >> /\ Head(events) = "output" /\ events' = Tail(events)
  PROVE  FreeWakes'
<1> USE DEF Event
<1>0. events \in Seq(Event) /\ InputEvents \in Seq(Event)
  BY PostType DEF TypeOK, InputEvents
<1>1. FreeWakes' <=> (WaitsPhy' /\ ready' => In("phy_done", events'))
  BY DEF FreeWakes, Posted, In
<1>2. WaitsPhy /\ ready => In("phy_done", events)
  BY DEF FreeWakes, Posted, In
<1>3. CASE events' \in {InputEvents, Append(InputEvents, "output")}
  <2>1. In("phy_done", InputEvents)
    BY <1>0, InAppend DEF InputEvents
  <2>2. In("phy_done", Append(InputEvents, "output"))
    BY <1>0, <2>1, InAppend
  <2> QED BY <1>1, <1>3, <2>1, <2>2
<1>4. CASE ready' = ready /\ pc' = pc /\ events' \in {events, Append(events, "output")}
  <2>1. In("phy_done", events) => In("phy_done", Append(events, "output"))
    BY <1>0, InAppend
  <2> QED BY <1>1, <1>2, <1>4, <2>1 DEF WaitsPhy
<1>5. CASE /\ ready' = ready /\ pc' = pc
           /\ events # << >> /\ Head(events) = "output" /\ events' = Tail(events)
  <2>1. In("phy_done", events) => In("phy_done", Tail(events))
    BY <1>0, <1>5, InTail
  <2> QED BY <1>1, <1>2, <1>5, <2>1 DEF WaitsPhy
<1>6. CASE ready' = FALSE \/ pc' \in {"off", "idle", "top"}
  BY <1>1, <1>6 DEF WaitsPhy
<1> QED BY <1>3, <1>4, <1>5, <1>6

\* A driver that becomes free posts the event of the wait, whatever the step.
LEMMA FreeWakesNext ==
  ASSUME TypeOK, FreeWakes, [Next]_vars
  PROVE  FreeWakes'
<1> USE DEF macVars, sendVars, phyVars, modemVars
<1>0. events \in Seq(Event) /\ InputEvents \in Seq(Event)
  BY PostType DEF TypeOK, InputEvents, Event
<1>a. ASSUME NEW command, NEW frame, PhySend(command, frame) PROVE ready' = FALSE
  BY <1>a DEF PhySend, TypeOK
<1>1. ASSUME NEW line \in Line,
             UartIgnored(line) \/ SetConfParam(line) \/ SetConfStart(line) \/ SetConfDone(line)
      PROVE  FreeWakes'
  BY <1>1, FreeWakesStep
     DEF UartIgnored, SetConfParam, SetConfStart, SetConfDone, SetParam, InputEvents
<1>2. ASSUME NEW f \in Downlink,
             OnJoinResponse(f) \/ OnDataNext(f) \/ OnDataLast(f) \/ OnAck(f) \/ InputDropped(f)
      PROVE  FreeWakes'
  <2>1. CASE OnDataNext(f)
    BY <1>0, <2>1, FreeWakesStep DEF OnDataNext, SendQuery, SendFrame
  <2>2. CASE InputDropped(f)
    BY <2>2, FreeWakesStep DEF InputDropped
  <2>3. CASE OnJoinResponse(f) \/ OnDataLast(f) \/ OnAck(f)
    <3>1. SetReady(f, InputEvents)
      BY <2>3 DEF OnJoinResponse, OnDataLast, OnAck
    <3> QED BY <1>0, <3>1, SetReadySeen, FreeWakesStep
  <2> QED BY <1>2, <2>1, <2>2, <2>3
<1>3. ASSUME Process PROVE FreeWakes'
  <2>1. CASE EventLost
    BY <2>1, FreeWakesStep DEF EventLost, Dispatch, WaitsPhy
  <2>2. CASE OutputEvent \/ PhyWaitOver \/ NothingPending \/ TxDoneNoWait
    <3>1. pc' \in {"idle", "top"}
      BY <2>2 DEF OutputEvent, PhyWaitOver, NothingPending, TxDoneNoWait
    <3> QED BY <3>1, FreeWakesStep
  <2>3. CASE Transmit \/ TxDoneWait \/ Listen
    <3>1. ready' = FALSE
      BY <2>3, <1>a DEF Transmit, TxDoneWait, Listen
    <3> QED BY <3>1, FreeWakesStep
  <2> QED BY <1>3, <2>1, <2>2, <2>3 DEF Process
<1>4. ASSUME MainLoop PROVE FreeWakes'
  <2>1. CASE QueryNow
    BY <2>1, FreeWakesStep DEF QueryNow, SendQuery, SendFrame
  <2>2. CASE QueryTimeout \/ QueryLater \/ RetransmitTimeout
    BY <2>2, FreeWakesStep DEF QueryTimeout, QueryLater, RetransmitTimeout
  <2>3. CASE RetransmitCopy
    BY <2>3, FreeWakesStep DEF RetransmitCopy, SendFrame
  <2>4. CASE RetransmitGiveUp
    <3>1. \/ ready' = FALSE
          \/ ready' = ready /\ SetReady(lorabuf, events)
      BY <2>4, <1>a DEF RetransmitGiveUp
    <3>2. pc' = pc
      BY <2>4 DEF RetransmitGiveUp
    <3> QED BY <1>0, <3>1, <3>2, SetReadySeen, FreeWakesStep
  <2>5. CASE \E p \in Packets : OutputBegin(p)
    BY <2>5, FreeWakesStep DEF OutputBegin
  <2>6. CASE OutputEnd
    BY <2>6, FreeWakesStep DEF OutputEnd, SendFrame
  <2> QED BY <1>4, <2>1, <2>2, <2>3, <2>4, <2>5, <2>6 DEF MainLoop
<1>5. ASSUME UNCHANGED vars PROVE FreeWakes'
  BY <1>5, FreeWakesStep DEF vars
<1> QED BY <1>1, <1>2, <1>3, <1>4, <1>5 DEF Next, UartInput

-----------------------------------------------------------------------------
(* Before the JOIN_RESPONSE only a JOIN is transmitted *)

\* A node that is alone, or becomes so, was alone.
LEMMA AirJoinNext ==
  ASSUME TypeOK, Control, AirJoin, [Next]_vars
  PROVE  AirJoin'
<1> USE DEF macVars, sendVars, phyVars, modemVars
<1>0. NullFrame.command = "JOIN"
  BY DEF NullFrame
<1>1. ASSUME NEW line \in Line,
             UartIgnored(line) \/ SetConfParam(line) \/ SetConfStart(line) \/ SetConfDone(line)
      PROVE  AirJoin'
  BY <1>0, <1>1 DEF AirJoin, UartIgnored, SetConfParam, SetConfStart, SetConfDone, SetParam,
                    Printed, RadioGoesOn
<1>2. ASSUME NEW f \in Downlink, OnJoinResponse(f) \/ OnDataNext(f) \/ OnDataLast(f)
      PROVE  AirJoin'
  BY <1>2 DEF AirJoin, OnJoinResponse, IsJoinResponse, OnDataNext, OnDataLast, AcceptData,
              IsFreshData, SetReady, QueryWaits
<1>3. ASSUME NEW f \in Downlink, OnAck(f) \/ InputDropped(f)
      PROVE  AirJoin'
  BY <1>0, <1>3 DEF AirJoin, OnAck, IsAck, InputDropped, InputData, SetReady, QueryWaits,
                    Printed, RadioGoesOn
<1>4. ASSUME Process PROVE AirJoin'
  <2>1. CASE Transmit
    <3>1. CASE state' = "ALONE"
      <4>1. state = "ALONE"
        BY <2>1, <3>1 DEF Transmit
      <4>2. lorabuf.command = "JOIN" /\ lorabuf \in Frame
        BY <2>1, <4>1 DEF Control, JoinOnly, Transmit, TypeOK
      <4>3. [lorabuf EXCEPT !.seqno = next_seq].command = "JOIN"
        BY <4>2 DEF Frame
      <4>4. on_air' \in {on_air, lorabuf, [lorabuf EXCEPT !.seqno = next_seq]}
        BY <2>1 DEF Transmit, PhySend, Give
      <4> QED BY <4>1, <4>2, <4>3, <4>4 DEF AirJoin
    <3> QED BY <3>1 DEF AirJoin
  <2>2. CASE TxDoneWait \/ Listen
    BY <1>0, <2>2 DEF AirJoin, TxDoneWait, Listen, PhySend, Give
  <2>3. CASE TxDoneNoWait
    BY <2>3 DEF AirJoin, TxDoneNoWait, SetReady
  <2> QED BY <1>4, <2>1, <2>2, <2>3 DEF AirJoin, Process, EventLost, OutputEvent, PhyWaitOver,
                                        NothingPending
<1>5. ASSUME MainLoop PROVE AirJoin'
  <2>1. CASE RetransmitGiveUp
    BY <1>0, <2>1 DEF AirJoin, RetransmitGiveUp, SetReady, PhySend, Give
  <2> QED BY <1>5, <2>1 DEF AirJoin, MainLoop, QueryTimeout, QueryNow, QueryLater,
                            RetransmitTimeout, RetransmitCopy, OutputBegin, OutputEnd
<1>6. ASSUME UNCHANGED vars PROVE AirJoin'
  BY <1>6 DEF AirJoin, vars
<1> QED BY <1>1, <1>2, <1>3, <1>4, <1>5, <1>6 DEF Next, UartInput

-----------------------------------------------------------------------------
(* The theorems *)

\* The inductive invariant holds when the node starts.
LEMMA InitInv == Init => IInv
<1> SUFFICES ASSUME Init PROVE IInv
  OBVIOUS
<1>1. Control
  BY NumRadioParamAssumption
     DEF Init, Control, FreeOnlyByOk, Answers, WaitingIsGuarded, NullFrame, Expected,
         RetransmissionPending, QueryTimerKept, Started, JoinOnly
<1> QED BY <1>1, InitType
           DEF Init, IInv, CopyAllowed, PendingSeen, FreeWakes, AirJoin, NullFrame

\* The inductive invariant holds in every reachable state.
THEOREM Invariance == Spec => []IInv
<1>1. IInv /\ [Next]_vars => IInv'
  BY TypeNext, CopyAllowedNext, ControlNext, AirJoinNext, PendingSeenNext, FreeWakesNext
     DEF IInv
<1> QED BY <1>1, InitInv, PTL DEF Spec

\* The driver believes a busy modem free only after the "ok" of a start.
THEOREM FreeOnlyByOkHolds == Spec => []FreeOnlyByOk
<1>1. IInv => FreeOnlyByOk
  BY DEF IInv, Control
<1> QED BY <1>1, Invariance, PTL

\* The process does not wait for a modem that the driver knows to be free.
THEOREM FreeWakesHolds == Spec => []FreeWakes
<1>1. IInv => FreeWakes
  BY DEF IInv
<1> QED BY <1>1, Invariance, PTL

\* Only JOIN frames leave a node that has no prefix.
THEOREM NoDataBeforeJoinHolds == Spec => []NoDataBeforeJoin
<1>1. IInv => NoDataBeforeJoin
  BY DEF IInv, AirJoin, Control, JoinOnly, NoDataBeforeJoin
<1> QED BY <1>1, Invariance, PTL

\* A node that waits for a response is on its way out of the wait.
THEOREM WaitingIsGuardedHolds == Spec => []WaitingIsGuarded
<1>1. IInv => WaitingIsGuarded
  BY DEF IInv, Control
<1> QED BY <1>1, Invariance, PTL

\* The flag of a retransmission is never left set with nothing to send.
THEOREM RetransmissionPendingHolds == Spec => []RetransmissionPending
<1>1. IInv => RetransmissionPending
  BY DEF IInv, Control
<1> QED BY <1>1, Invariance, PTL

\* A frame handed to the process is not forgotten.
THEOREM PendingSeenHolds == Spec => []PendingSeen
<1>1. IInv => PendingSeen
  BY DEF IInv
<1> QED BY <1>1, Invariance, PTL

\* The node goes on polling after a query has been answered or given up.
THEOREM QueryTimerKeptHolds == Spec => []QueryTimerKept
<1>1. IInv => QueryTimerKept
  BY DEF IInv, Control
<1> QED BY <1>1, Invariance, PTL

-----------------------------------------------------------------------------
(* The processor faults for one reason only *)

\* A packet is handed to uIP with its data, unless set_state has just replaced it
\* by the query that waited.
LEMMA OnlyQueryFaultsFrame ==
  ASSUME TypeOK, OnlyQueryFaults, NEW f \in Received,
         OnJoinResponse(f) \/ OnDataNext(f) \/ OnDataLast(f) \/ OnAck(f) \/ InputDropped(f)
  PROVE  OnlyQueryFaults'
<1>0. cpu # "fault"
  BY DEF OnJoinResponse, OnDataNext, OnDataLast, AcceptData, OnAck, InputDropped, InputData,
         ModemPrints
<1>1. CASE OnDataNext(f)
  <2>1. f.data.kind = "packet"
    BY <1>1 DEF Received, OnDataNext, AcceptData, IsFreshData
  <2> QED BY <1>0, <1>1, <2>1 DEF OnDataNext, BridgeInput, OnlyQueryFaults
<1>2. CASE OnDataLast(f)
  <2>1. f.data.kind = "packet"
    BY <1>2 DEF Received, OnDataLast, AcceptData, IsFreshData
  <2>2. CASE QueryWaits
    <3>1. lorabuf' = Query(f) /\ pending' = TRUE
      BY <1>2, <2>2 DEF OnDataLast, SetReady, SendQuery, SendFrame
    <3>2. Query(f).command = "QUERY"
      BY DEF Received, Query, Frame
    <3> QED BY <3>1, <3>2 DEF OnlyQueryFaults
  <2>3. CASE ~QueryWaits
    BY <1>0, <1>2, <2>1, <2>3 DEF OnDataLast, BridgeInput, OnlyQueryFaults
  <2> QED BY <2>2, <2>3
<1>3. CASE OnJoinResponse(f) \/ OnAck(f) \/ InputDropped(f)
  BY <1>0, <1>3 DEF OnJoinResponse, OnAck, InputDropped, OnlyQueryFaults
<1> QED BY <1>1, <1>2, <1>3

\* After a fault nothing runs any more; before it no other step can cause one.
LEMMA OnlyQueryFaultsNext ==
  ASSUME TypeOK, OnlyQueryFaults, [Next]_vars
  PROVE  OnlyQueryFaults'
<1>1. CASE \E line \in Line : UartIgnored(line) \/ SetConfParam(line) \/ SetConfStart(line)
                               \/ SetConfDone(line)
  BY <1>1 DEF UartIgnored, SetConfParam, SetConfStart, SetConfDone, SentDone, ModemPrints,
              OnlyQueryFaults
<1>2. CASE Process
  BY <1>2 DEF Process, EventLost, OutputEvent, PhyWaitOver, NothingPending, Transmit,
              TxDoneWait, TxDoneNoWait, Listen, Dispatch, OnlyQueryFaults
<1>3. CASE MainLoop
  BY <1>3 DEF MainLoop, QueryTimeout, QueryNow, QueryLater, RetransmitTimeout, RetransmitCopy,
              RetransmitGiveUp, RetransmitExpires, OutputBegin, OutputEnd, MainLoopFree,
              OnlyQueryFaults
<1>4. CASE UNCHANGED vars
  BY <1>4 DEF vars, sendVars, OnlyQueryFaults
<1> QED BY <1>1, <1>2, <1>3, <1>4, OnlyQueryFaultsFrame, DownlinkReceived DEF Next, UartInput

\* The copy with a negative length is reached through the query that waited only.
THEOREM OnlyQueryFaultsHolds == Spec => []OnlyQueryFaults
<1>1. Init => OnlyQueryFaults
  BY DEF Init, OnlyQueryFaults
<1>2. TypeOK /\ OnlyQueryFaults /\ [Next]_vars => OnlyQueryFaults'
  BY OnlyQueryFaultsNext
<1>3. IInv => TypeOK
  BY DEF IInv
<1> QED BY <1>1, <1>2, <1>3, Invariance, PTL DEF Spec

-----------------------------------------------------------------------------
(* The node in a network: whatever it receives, and when it is reset *)

LineStep ==
  \E line \in Line : UartIgnored(line) \/ SetConfParam(line) \/ SetConfStart(line)
                     \/ SetConfDone(line)
LocalStep == LineStep \/ Process \/ MainLoop
Handled(f) ==
  OnJoinResponse(f) \/ OnDataNext(f) \/ OnDataLast(f) \/ OnAck(f) \/ InputDropped(f)

\* What does not depend on the frames received before.
Safe == TypeOK /\ CopyAllowed /\ Control /\ OnlyQueryFaults

\* The steps of the node alone keep it.
LEMMA LocalSafe == ASSUME Safe, LocalStep PROVE Safe'
<1>1. Next
  BY DEF LocalStep, LineStep, Next, UartInput
<1> QED BY <1>1, TypeNext, CopyAllowedNext, ControlNext, OnlyQueryFaultsNext DEF Safe

\* So does every frame of a root.
LEMMA HandledSafe ==
  ASSUME Safe, NEW f \in Received, Handled(f)
  PROVE  Safe'
<1>1. f \in Frame
  BY DEF Received
<1>2. CopyAllowed'
  <2>1. cpu' \in {cpu, "fault"}
    BY DEF Handled, OnJoinResponse, OnDataNext, OnDataLast, OnAck, InputDropped, BridgeInput
  <2>2. retransmit_attempt' \in {0, retransmit_attempt}
    BY DEF Handled, OnJoinResponse, OnDataNext, OnDataLast, AcceptData, OnAck, InputDropped,
           macVars
  <2> QED BY <2>1, <2>2, MaxRetransmitAssumption DEF Safe, CopyAllowed
<1> QED BY <1>1, <1>2, FrameType, FrameControl, OnlyQueryFaultsFrame DEF Safe, Handled

\* So does a reset, which leaves the modem alone.
LEMMA RestartSafe == ASSUME Safe, Restart PROVE Safe'
<1> USE DEF Restart
<1>1. TypeOK'
  <2>1. lora_node_addr' \in Addr
    BY NodeIdAssumption DEF Addr
  <2>2. exp_resp' \in SUBSET Line
    BY ExpectedType DEF CommandToModem
  <2>3. retransmit_attempt' \in 0..MaxRetransmit /\ conf' \in 0..(NumRadioParam + 1)
    BY MaxRetransmitAssumption, NumRadioParamAssumption
  <2>4. events' \in Seq(Event)
    OBVIOUS
  <2>5. on_air' \in Frame /\ radio' \in RadioCommand \cup {"none"}
        /\ reply' \in Answer \cup {"none"}
    BY DEF Safe, TypeOK, Answer
  <2> QED BY <2>1, <2>2, <2>3, <2>4, <2>5, ConstantTypes DEF TypeOK, Event
<1>2. Control'
  BY NumRadioParamAssumption
     DEF Control, FreeOnlyByOk, Answers, WaitingIsGuarded, NullFrame, Expected,
         RetransmissionPending, QueryTimerKept, Started, JoinOnly
<1> QED BY <1>1, <1>2 DEF Safe, CopyAllowed, OnlyQueryFaults

\* Without a frame received a node neither joins nor becomes alone again: what it
\* transmits while it is alone are JOIN frames.
LEMMA LocalAlone ==
  ASSUME Safe, LocalStep
  PROVE  /\ state' = "ALONE" <=> state = "ALONE"
         /\ UNCHANGED <<lora_node_addr, expected_seq>>
<1> USE DEF macVars
<1>1. CASE LineStep
  BY <1>1 DEF LineStep, UartIgnored, SetConfParam, SetConfStart, SetConfDone
<1>2. CASE Process
  <2>1. CASE Transmit
    <3>1. UNCHANGED <<lora_node_addr, expected_seq>>
      BY <2>1 DEF Transmit
    <3>2. CASE state = "ALONE"
      <4>1. last_sent_frame.command = "JOIN" /\ lorabuf.command = "JOIN" /\ lorabuf \in Frame
        BY <2>1, <3>2 DEF Safe, TypeOK, Control, JoinOnly, Transmit
      <4>2. last_sent_frame'.command = "JOIN"
        BY <2>1, <4>1 DEF Transmit, Frame
      <4> QED BY <2>1, <3>1, <3>2, <4>2 DEF Transmit
    <3>3. CASE state # "ALONE"
      BY <2>1, <3>1, <3>3 DEF Transmit
    <3> QED BY <3>2, <3>3
  <2>2. CASE TxDoneNoWait
    <3>1. state # "ALONE"
      BY <2>2 DEF TxDoneNoWait, NeedsResponse, Safe, Control, JoinOnly
    <3> QED BY <2>2, <3>1 DEF TxDoneNoWait, SetReady
  <2> QED BY <1>2, <2>1, <2>2 DEF Process, EventLost, OutputEvent, PhyWaitOver,
                                  NothingPending, TxDoneWait, Listen
<1>3. CASE MainLoop
  <2>1. CASE RetransmitGiveUp
    <3>1. state = "ALONE" => last_sent_frame.command = "JOIN"
      BY DEF Safe, Control, JoinOnly
    <3> QED BY <2>1, <3>1 DEF RetransmitGiveUp, SetReady
  <2> QED BY <1>3, <2>1 DEF MainLoop, QueryTimeout, QueryNow, QueryLater, RetransmitTimeout,
                            RetransmitCopy, OutputBegin, OutputEnd
<1> QED BY <1>1, <1>2, <1>3 DEF LocalStep

\* A JOIN_RESPONSE ends being alone, once, with the prefix it brings ...
LEMMA JoinedBy ==
  ASSUME NEW f, OnJoinResponse(f)
  PROVE  /\ state = "ALONE" /\ state' # "ALONE"
         /\ f.data.kind = "prefix" /\ lora_node_addr'.prefix = f.data.val
         /\ expected_seq' = (expected_seq + 1) % SeqMod
BY DEF OnJoinResponse, IsJoinResponse, SetReady, QueryWaits

\* ... DATA of the own prefix moves the expectation past its number, and is handed
\* to uIP, or faults ...
LEMMA DataBy ==
  ASSUME NEW f \in Received, OnDataNext(f) \/ OnDataLast(f)
  PROVE  /\ state # "ALONE" /\ state' # "ALONE"
         /\ f.command = "DATA" /\ f.dest_addr.prefix = lora_node_addr.prefix
         /\ f.seqno >= expected_seq /\ expected_seq' = (f.seqno + 1) % SeqMod
         /\ lora_node_addr' = lora_node_addr
         /\ cpu' # "fault" => uip'.data = f.data
<1>1. AcceptData(f)
  BY DEF OnDataNext, OnDataLast
<1>2. CASE OnDataNext(f)
  BY <1>1, <1>2 DEF OnDataNext, AcceptData, IsFreshData, InDag, BridgeInput
<1>3. CASE OnDataLast(f)
  <2>1. cpu' # "fault" => uip'.data = f.data
    <3>1. CASE QueryWaits
      <4>1. Query(f).data.kind # "packet"
        BY DEF Query, Received, Frame, NoData
      <4> QED BY <1>3, <3>1, <4>1 DEF OnDataLast, BridgeInput
    <3>2. CASE ~QueryWaits
      BY <1>3, <3>2 DEF OnDataLast, BridgeInput
    <3> QED BY <3>1, <3>2
  <2> QED BY <1>1, <1>3, <2>1 DEF OnDataLast, AcceptData, IsFreshData, InDag, SetReady,
                                  QueryWaits
<1> QED BY <1>2, <1>3

\* ... and the other frames do neither.
LEMMA OtherBy ==
  ASSUME NEW f, OnAck(f) \/ InputDropped(f)
  PROVE  /\ state' = "ALONE" <=> state = "ALONE"
         /\ UNCHANGED <<lora_node_addr, expected_seq>>
BY DEF OnAck, IsAck, InputDropped, SetReady, QueryWaits, macVars

\* Data and source of a frame go together: what the node has under an address that
\* is not the root's is nothing, or a packet of its own DAG.
Upward(f) ==
  f.src_addr.prefix # 1 => f.data = NoData \/ f.data \in [kind : {"packet"}, val : Packets]
CarriesUpward == Upward(lorabuf) /\ Upward(last_sent_frame) /\ Upward(on_air)

\* What a node with this in its three buffers does keeps it so.
LEMMA UpwardParts ==
  /\ Upward(NullFrame)
  /\ \A f \in Frame : Upward(Query(f))
  /\ \A f \in Frame : \A s : Upward(f) => Upward([f EXCEPT !.seqno = s])
BY DEF Upward, NullFrame, Query, Frame

\* The steps of the node alone.
LEMMA LocalUpward ==
  ASSUME TypeOK, CarriesUpward, LocalStep
  PROVE  CarriesUpward'
<1> USE DEF macVars, sendVars, phyVars, modemVars
<1>0. lorabuf \in Frame /\ last_sent_frame \in Frame
  BY DEF TypeOK
<1>1. CASE LineStep
  <2>1. PICK line \in Line : UartIgnored(line) \/ SetConfParam(line) \/ SetConfStart(line)
                             \/ SetConfDone(line)
    BY <1>1 DEF LineStep
  <2>2. CASE SetConfStart(line)
    <3>1. lorabuf' = [lorabuf EXCEPT !.src_addr = lora_node_addr, !.dest_addr = RootAddr,
                                     !.data = NoData, !.command = "JOIN"]
          /\ on_air' \in {on_air, NullFrame} /\ last_sent_frame' = last_sent_frame
      BY <2>2 DEF SetConfStart, SetParam, RadioGoesOn
    <3>2. Upward(lorabuf')
      BY <1>0, <3>1 DEF Upward, Frame
    <3> QED BY <3>1, <3>2, UpwardParts DEF CarriesUpward, Upward
  <2>3. CASE UartIgnored(line) \/ SetConfParam(line) \/ SetConfDone(line)
    <3>1. UNCHANGED <<lorabuf, last_sent_frame>> /\ on_air' \in {on_air, NullFrame}
      BY <2>3 DEF UartIgnored, SetConfParam, SetConfDone, SetParam, Printed, RadioGoesOn
    <3> QED BY <3>1, UpwardParts DEF CarriesUpward, Upward
  <2> QED BY <2>1, <2>2, <2>3
<1>2. CASE Process
  <2>1. CASE Transmit
    <3> DEFINE frame == IF is_retransmission THEN lorabuf
                        ELSE [lorabuf EXCEPT !.seqno = next_seq]
    <3>1. Upward(frame)
      BY <1>0, UpwardParts DEF CarriesUpward
    <3>2. /\ lorabuf' = frame
          /\ last_sent_frame' \in {frame, last_sent_frame} /\ on_air' \in {frame, on_air}
      BY <2>1 DEF Transmit, PhySend, Give
    <3> HIDE DEF frame
    <3> QED BY <3>1, <3>2 DEF CarriesUpward, Upward
  <2>2. CASE TxDoneNoWait
    <3>1. /\ lorabuf' \in {lorabuf, Query(lorabuf)}
          /\ UNCHANGED <<last_sent_frame, on_air>>
      BY <2>2 DEF TxDoneNoWait, SetReady, SendQuery
    <3>2. Upward(lorabuf')
      BY <1>0, <3>1, UpwardParts DEF CarriesUpward
    <3> QED BY <3>1, <3>2 DEF CarriesUpward, Upward
  <2>3. CASE TxDoneWait \/ Listen
    <3>1. UNCHANGED <<lorabuf, last_sent_frame>> /\ on_air' \in {on_air, NullFrame}
      BY <2>3 DEF TxDoneWait, Listen, PhySend, Give
    <3> QED BY <3>1, UpwardParts DEF CarriesUpward, Upward
  <2>4. CASE EventLost \/ OutputEvent \/ PhyWaitOver \/ NothingPending
    BY <2>4 DEF EventLost, OutputEvent, PhyWaitOver, NothingPending, CarriesUpward, Upward
  <2> QED BY <1>2, <2>1, <2>2, <2>3, <2>4 DEF Process
<1>3. CASE MainLoop
  <2>1. CASE QueryNow \/ RetransmitGiveUp
    <3>1. /\ lorabuf' \in {lorabuf, Query(lorabuf)} /\ UNCHANGED last_sent_frame
          /\ on_air' \in {on_air, NullFrame}
      BY <2>1 DEF QueryNow, RetransmitGiveUp, SetReady, SendQuery, PhySend, Give
    <3>2. Upward(lorabuf')
      BY <1>0, <3>1, UpwardParts DEF CarriesUpward
    <3> QED BY <3>1, <3>2, UpwardParts DEF CarriesUpward, Upward
  <2>2. CASE QueryTimeout \/ QueryLater \/ RetransmitTimeout \/ RetransmitCopy
    BY <2>2 DEF QueryTimeout, QueryLater, RetransmitTimeout, RetransmitCopy, CarriesUpward,
                Upward
  <2>3. ASSUME NEW p \in Packets, OutputBegin(p) PROVE CarriesUpward'
    <3>1. lorabuf'.data = [kind |-> "packet", val |-> p]
      BY <1>0, <2>3 DEF OutputBegin, Frame
    <3>2. UNCHANGED <<last_sent_frame, on_air>>
      BY <2>3 DEF OutputBegin
    <3> QED BY <3>1, <3>2 DEF CarriesUpward, Upward
  <2>4. CASE OutputEnd
    <3>1. /\ lorabuf' = lorabuf
             \/ lorabuf' = [lorabuf EXCEPT !.command = "DATA", !.dest_addr = RootAddr]
          /\ UNCHANGED <<last_sent_frame, on_air>>
      BY <2>4 DEF OutputEnd
    <3>2. Upward(lorabuf')
      BY <1>0, <3>1 DEF CarriesUpward, Upward, Frame
    <3> QED BY <3>1, <3>2 DEF CarriesUpward, Upward
  <2> QED BY <1>3, <2>1, <2>2, <2>3, <2>4 DEF MainLoop
<1> QED BY <1>1, <1>2, <1>3 DEF LocalStep

\* A received frame is the root's.
LEMMA HandledUpward ==
  ASSUME CarriesUpward, NEW f \in Frame, Upward(f), Handled(f)
  PROVE  CarriesUpward'
<1>1. lorabuf' \in {f, Query(f)} /\ on_air' \in {on_air, NullFrame}
      /\ last_sent_frame' = last_sent_frame
  BY DEF Handled, OnJoinResponse, OnDataNext, OnDataLast, AcceptData, OnAck, InputDropped,
         InputData, Printed, RadioGoesOn, SetReady, SendQuery, macVars
<1>2. Upward(lorabuf')
  BY <1>1, UpwardParts
<1> QED BY <1>1, <1>2, UpwardParts DEF CarriesUpward, Upward

\* All of it, for a step of a network: one of the node alone, or none ...
Own == Safe /\ CarriesUpward
LEMMA OwnLocal == ASSUME Own, LocalStep \/ UNCHANGED vars PROVE Own'
<1>1. CASE LocalStep
  BY <1>1, LocalSafe, LocalUpward DEF Own, Safe
<1>2. CASE UNCHANGED vars
  <2>1. Safe'
    BY <1>2, TypeNext, CopyAllowedNext, ControlNext, OnlyQueryFaultsNext DEF Own, Safe
  <2>2. CarriesUpward'
    BY <1>2 DEF Own, CarriesUpward, Upward, vars, macVars, sendVars, phyVars, modemVars
  <2> QED BY <2>1, <2>2 DEF Own
<1> QED BY <1>1, <1>2

\* ... a frame of a root received ...
LEMMA OwnHandled ==
  ASSUME Own, NEW f \in Received, Upward(f), Handled(f) PROVE Own'
<1>1. f \in Frame
  BY DEF Received
<1> QED BY <1>1, HandledSafe, HandledUpward DEF Own

\* ... a reset, and the start.
LEMMA OwnRestart == ASSUME Own, Restart PROVE Own'
<1>1. CarriesUpward'
  BY DEF Own, Restart, CarriesUpward, Upward, NullFrame
<1> QED BY <1>1, RestartSafe DEF Own

LEMMA OwnInit == Init => Own
<1>1. Init => CarriesUpward
  BY DEF Init, CarriesUpward, Upward, NullFrame
<1> QED BY <1>1, InitInv DEF Init, IInv, Safe, OnlyQueryFaults, Own

\* Only the transmission of a new frame and a reset change the number of the next one.
LEMMA NextSeqKept ==
  ASSUME LineStep \/ (\E p \in Packets : OutputBegin(p)) \/ (\E f : Handled(f))
         \/ UNCHANGED vars
  PROVE  next_seq' = next_seq
BY DEF LineStep, UartIgnored, SetConfParam, SetConfStart, SetConfDone, OutputBegin, Handled,
       OnJoinResponse, OnDataNext, OnDataLast, AcceptData, OnAck, InputDropped, macVars, vars
=============================================================================

------------------------------- MODULE LoraLink -------------------------------
(***************************************************************************)
(* One node and the LoRa root, joined: LoraNode and LoraRoot over the air  *)
(* that is between them, with the applications that hand packets to both.  *)
(* Every step is a step of one of the two modules; what they leave open    *)
(* (the frame received) is what the other one has sent.                    *)
(*                                                                         *)
(* The air loses frames, never repeats or reorders them.  A frame that the *)
(* node has transmitted waits in phy_rx, the receive buffer of the root's  *)
(* PHY; a frame of the root waits in phy_tx and reaches the node only if   *)
(* its modem listens when the root transmits.  The node may restart, and   *)
(* then begins again from its initial state, the root unaware of it.       *)
(***************************************************************************)
EXTENDS LoraFrame

CONSTANTS
  MaxRetransmit, NumRadioParam, Confirmed, NodeId, PacketHost, MaxQueue,  \* of the node
  PrefixMod, MinPrefix, MaxPrefix, TxBufSize, PhyBufSize, Modes,          \* of the root
  RxBufSize,      \* rxBufSize of the PHY of the root
  MaxUp, MaxDown, \* bounds of the model: the packets of each direction,
  MaxRestarts,    \* the restarts of the node
  MaxFrames       \* and the frames it numbers, before and after them

\* Packets are numbered in the order in which they are handed over.
ASSUME NumberedAssumption ==
  MaxUp \in Nat /\ MaxDown \in Nat /\ Packets = 1..MaxUp /\ Payloads = 1..MaxDown
\* Those of the two ends; the application that answers in its callback is left out.
ASSUME NodeAssumption ==
  /\ MaxRetransmit \in Nat \ {0} /\ NumRadioParam \in Nat \ {0} /\ Confirmed \in BOOLEAN
  /\ NodeId \in Hosts \cap Prefixes /\ PacketHost \in [Packets -> Hosts]
ASSUME RootAssumption ==
  /\ PrefixMod \in Nat \ {0} /\ TxBufSize \in Nat \ {0} /\ PhyBufSize \in Nat \ {0}
  /\ MinPrefix \in Nat /\ MaxPrefix \in Nat /\ MinPrefix <= MaxPrefix
  /\ MinPrefix..MaxPrefix \subseteq Prefixes \ {1}
  /\ Modes \subseteq {"RECEIVER", "SENDER"}
ASSUME LinkAssumption == RxBufSize \in Nat /\ MaxRestarts \in Nat /\ MaxFrames \in Nat

VARIABLES
  state, lora_node_addr, next_seq, expected_seq, retransmit_attempt, last_sent_frame,
  pending, pending_query, is_retransmission, retransmit_timer, query_timer, lorabuf,
  exp_resp, ready, radio, on_air, reply, conf, events, pc, cpu, uip,
  mode, next_prefix, childs, not_joined_childs, child, sender, senders, rx, phy_tx, tx_lock,
  phy_rx,         \* the frames the PHY of the root has received
  up, down,       \* the packets of each direction: see Delivery
  restarts, spent \* how often the node was reset; the frames it had numbered before

N == INSTANCE LoraNode WITH Downlink <- {}
R == INSTANCE LoraRoot WITH Uplink <- {}, Replies <- Payloads

nodeVars == <<state, lora_node_addr, next_seq, expected_seq, retransmit_attempt,
              last_sent_frame, pending, pending_query, is_retransmission, retransmit_timer,
              query_timer, lorabuf, exp_resp, ready, radio, on_air, reply, conf, events,
              pc, cpu, uip>>
rootVars == <<mode, next_prefix, childs, not_joined_childs, child, sender, senders, rx,
              phy_tx, tx_lock>>
linkVars == <<phy_rx, up, down, restarts, spent>>
vars == <<nodeVars, rootVars, linkVars>>

Delivered(ch, packet) == [ch EXCEPT !.got = packet, !.count = @ + 1]

-----------------------------------------------------------------------------
(* The node *)

NodeWorks ==
  /\ N!Process \/ N!QueryTimeout \/ N!QueryNow \/ N!QueryLater \/ N!RetransmitTimeout
     \/ N!RetransmitCopy \/ N!RetransmitGiveUp \/ N!OutputEnd
  /\ spent + next_seq' <= MaxFrames
  /\ UNCHANGED <<rootVars, linkVars>>

\* The next packet of the DAG is handed to output.
NodeHandsOver ==
  /\ up.sent + 1 \in Packets
  /\ N!OutputBegin(up.sent + 1)
  /\ up' = [up EXCEPT !.sent = @ + 1]
  /\ UNCHANGED <<rootVars, phy_rx, down, restarts, spent>>

\* The modem ends a command without a frame received.  A frame it has
\* transmitted may have been received by the root.
ModemAnswers ==
  /\ \E line \in N!Line :
       /\ N!UartIgnored(line) \/ N!SetConfParam(line) \/ N!SetConfStart(line)
          \/ N!SetConfDone(line)
       /\ \/ UNCHANGED phy_rx
          \/ /\ line = "radio_tx_ok" /\ Len(phy_rx) < RxBufSize
             /\ phy_rx' = Append(phy_rx, on_air)
  /\ UNCHANGED <<rootVars, up, down, restarts, spent>>

NodeInput(f) ==
  \/ /\ N!OnJoinResponse(f) \/ N!OnAck(f) \/ N!InputDropped(f)
     /\ UNCHANGED down
  \/ /\ N!OnDataNext(f) \/ N!OnDataLast(f)
     /\ down' = IF cpu' = "fault" THEN down ELSE Delivered(down, uip'.data.val)

\* A new start: the statics of loramac.c have their initial values again.
Restart ==
  /\ restarts < MaxRestarts
  /\ restarts' = restarts + 1 /\ spent' = spent + next_seq
  /\ N!Restart
  /\ UNCHANGED <<rootVars, phy_rx, up, down>>

-----------------------------------------------------------------------------
(* The root *)

\* The PHY transmits; the node may receive it.
RootTransmits ==
  /\ R!PhyTransmit
  /\ \/ UNCHANGED <<nodeVars, down>>
     \/ NodeInput(Head(phy_tx))
  /\ UNCHANGED <<phy_rx, up, restarts, spent>>

RootReceives ==
  /\ phy_rx # << >>
  /\ R!RxFrame(Head(phy_rx))
  /\ phy_rx' = Tail(phy_rx)
  /\ UNCHANGED <<nodeVars, up, down, restarts, spent>>

RootWorks ==
  /\ \/ /\ R!Deliver
        /\ up' = IF rx'.pc = "dead" THEN up ELSE Delivered(up, rx.frame.data.val)
     \/ /\ R!AnswerAck \/ R!AnswerTake \/ R!AnswerSend
        /\ UNCHANGED up
  /\ UNCHANGED <<nodeVars, phy_rx, down, restarts, spent>>

\* An application thread hands over the next packet.
RootHandsOver ==
  /\ down.sent + 1 \in Payloads
  /\ \E a \in senders :
       \/ R!SenderCall(a) /\ UNCHANGED down
       \/ /\ R!SenderPut(a)
          /\ child'[a.prefix].tx_buf[Len(child'[a.prefix].tx_buf)].data.val = down.sent + 1
          /\ down' = [down EXCEPT !.sent = @ + 1]
  /\ UNCHANGED <<nodeVars, phy_rx, up, restarts, spent>>

-----------------------------------------------------------------------------
NothingYet == [sent |-> 0, got |-> 0, count |-> 0]

Init ==
  /\ N!Init /\ R!Init
  /\ phy_rx = << >> /\ up = NothingYet /\ down = NothingYet /\ restarts = 0 /\ spent = 0

Next == NodeWorks \/ NodeHandsOver \/ ModemAnswers \/ Restart
        \/ RootTransmits \/ RootReceives \/ RootWorks \/ RootHandsOver

Spec == Init /\ [][Next]_vars

-----------------------------------------------------------------------------
(* Properties *)

\* The types of both ends, and the frames that wait between them.
TypeOK ==
  /\ N!TypeOK /\ R!TypeOK
  /\ phy_rx \in Seq(Frame) /\ Len(phy_rx) <= RxBufSize
  /\ up \in [sent : 0..MaxUp, got : 0..MaxUp, count : Nat]
  /\ down \in [sent : 0..MaxDown, got : 0..MaxDown, count : Nat]
  /\ restarts \in 0..MaxRestarts /\ spent \in 0..MaxFrames

Up == INSTANCE Delivery WITH sent <- up.sent, got <- up.got, count <- up.count
Down == INSTANCE Delivery WITH sent <- down.sent, got <- down.got, count <- down.count

\* The packets that output hands to the node reach the application of the root at
\* most once and in order: through losses, the retransmissions of the node and the
\* numbers that compare_update_expected_sn checks.
UpDelivery == Up!Spec

\* The packets of mac_send reach uIP at most once and in order, though the root
\* repeats its last frame for every number it has seen (_retransmit).
DownDelivery == Down!Spec

\* The node never expects a number that the root has not reached: on_data would
\* drop every frame from then on.
NodeNotAhead ==
  state # "ALONE" /\ lora_node_addr.prefix \in childs
    => expected_seq <= child[lora_node_addr.prefix].next_sn

(* What the sources say and the code does not do *)

\* loramac.h:39: a confirmed frame gets an ack in return; an ACK that the node will
\* take for that of a DATA frame means that the root has the packet.
AckIsTrue ==
  phy_tx # << >> /\ N!IsAck(Head(phy_tx))
    /\ last_sent_frame.command = "DATA" /\ last_sent_frame.data.kind = "packet"
  => \/ up.got >= last_sent_frame.data.val
     \/ rx.pc = "deliver" /\ rx.frame.data = last_sent_frame.data

\* lora_mac.py:296: the thread fetches the frames received by the PHY; as long as
\* the only node in range is one of its children, it never stops.
RootListens == rx.pc # "dead"
=============================================================================

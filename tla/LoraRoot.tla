------------------------------- MODULE LoraRoot -------------------------------
(***************************************************************************)
(* The MAC of the LoRa root (pyloramac/lora_mac.py) with the application   *)
(* on top of it (example-udp-rpl-lora/lora-root-node/lora-root.py).        *)
(*                                                                         *)
(* One thread runs _rx_process: it takes the received frames one by one    *)
(* and runs their handlers.  Application threads call mac_send.  A child   *)
(* object is named by its prefix, which is never given twice; it outlives  *)
(* its removal from the dictionaries, because a thread may hold it.  The   *)
(* handlers are split where a thread may block or another may come between *)
(* two of their steps.                                                     *)
(*                                                                         *)
(* The PHY below is reduced to its two ends: a frame of Uplink may be      *)
(* received whenever the thread asks for one, and the frames given to      *)
(* phy_send wait in a bounded buffer, which drops when it is full.         *)
(***************************************************************************)
EXTENDS LoraFrame

CONSTANTS
  PrefixMod,      \* 256: the provisional prefix of a node is its id modulo this
  MinPrefix, MaxPrefix,
  MaxRetransmit,  \* MAX_RETRANSMIT
  TxBufSize,      \* CHILD_TX_BUF_SIZE
  PhyBufSize,     \* txBufSize of the PHY
  Modes,          \* the modes lora-root.py is run with
  Replies,        \* the packets the application may send
  Uplink          \* the frames the radio may pick up

LowByte(id) == id % PrefixMod
RootPrefixes == MinPrefix..MaxPrefix

ASSUME PrefixModAssumption == PrefixMod \in Nat \ {0}
ASSUME PrefixAssumption ==
  /\ MinPrefix \in Nat /\ MaxPrefix \in Nat /\ MinPrefix <= MaxPrefix
  /\ RootPrefixes \subseteq Prefixes /\ 1 \notin RootPrefixes
ASSUME BoundAssumption ==
  /\ MaxRetransmit \in Nat \ {0} /\ TxBufSize \in Nat \ {0} /\ PhyBufSize \in Nat \ {0}
ASSUME ModesAssumption == Modes \subseteq {"PINGPONG", "RECEIVER", "SENDER"}
ASSUME RepliesAssumption == Replies \subseteq Payloads
\* A node joins from the address {node_id mod 256, node_id} (loramac.c:352).
ASSUME UplinkAssumption ==
  /\ Uplink \subseteq Frame
  /\ \A f \in Uplink :
       f.command = "JOIN" => /\ f.src_addr.id \in Hosts
                             /\ f.src_addr.prefix = LowByte(f.src_addr.id)

VARIABLES
  mode,               \* the mode of this run of lora-root.py
  next_prefix,
  childs,             \* the prefixes that are keys of the dictionary childs
  not_joined_childs,  \* not_joined_childs[k]: the child under key k
  child,              \* child[p]: the object of the child with prefix p
  sender,             \* the addresses whose application thread is in mac_send
  senders,            \* the addresses that have an application thread
  rx,                 \* the thread of _rx_process: where it is, with which frame
  phy_tx,             \* the frames given to phy_send and not yet transmitted
  tx_lock             \* the lock of phy_send

phyVars == <<phy_tx, tx_lock>>
vars == <<mode, next_prefix, childs, not_joined_childs, child, sender, senders, rx, phyVars>>

\* LoraChild.  last_send_frame is NullFrame for None.
NewChild(id) == [node_id |-> id, expected_sn |-> 1, next_sn |-> 0,
                 last_send_frame |-> NullFrame, tx_buf |-> << >>, transmit_count |-> 0]
ChildType == [node_id : Hosts \cup {0}, expected_sn : Seqno, next_sn : Seqno,
              last_send_frame : Frame, tx_buf : Seq(Frame),
              transmit_count : 0..MaxRetransmit]

FromRoot(command, dest, data, seqno) ==
  [confirmed |-> FALSE, seqno |-> seqno, next |-> FALSE, command |-> command,
   src_addr |-> RootAddr, dest_addr |-> dest, data |-> data]

\* Mutant: the duplicate of the last number is not recognised.
Compare_NoWrap(expected, sn) ==
  IF sn = expected THEN [expected |-> (expected + 1) % SeqMod, r |-> 0]
  ELSE IF sn < expected THEN [expected |-> expected, r |-> -1]
  ELSE LET updated == (sn + 1) % SeqMod IN [expected |-> updated, r |-> sn - updated]

\* Mutant: the expectation is not moved on.
Compare_Stays(expected, sn) ==
  [expected |-> expected, r |-> IF sn < expected THEN -1 ELSE 0]

\* compare_update_expected_sn.  A later number is expected after it, and the
\* difference is then taken with the updated expectation, which makes it -1
\* but for the last number.
Compare(expected, sn) ==
  IF sn = expected THEN [expected |-> (expected + 1) % SeqMod, r |-> 0]
  ELSE IF sn < expected \/ (expected = 0 /\ sn = SeqMod - 1)
  THEN [expected |-> expected, r |-> -1]
  ELSE LET updated == (sn + 1) % SeqMod IN [expected |-> updated, r |-> sn - updated]

-----------------------------------------------------------------------------
(* The thread of _rx_process                                               *)

Source(f) == f.src_addr.prefix
Known(f) == Source(f) \in childs
ChildAddr(p) == [prefix |-> p, id |-> child[p].node_id]

\* getFrame returns a frame for the root.
Receive(f) == rx.pc = "get" /\ f.dest_addr = RootAddr
At(pc, f, p) == [pc |-> pc, frame |-> f, child |-> p]
Goto(pc, f, p) == rx' = At(pc, f, p)
Waiting == At("get", NullFrame, MinPrefix)
\* _listen and back to getFrame.
Listen == rx' = Waiting

\* phy_send(f) in a handler that makes the children before the call, and
\* after it, what is given, and then is at next.  It returns with the lock
\* taken when f is None, so that the next call blocks; sending to a full
\* buffer loses the frame.
PhySend(f, before, after, next) ==
  \/ /\ tx_lock
     /\ child' = before
     /\ Goto("blocked", NullFrame, MinPrefix)
     /\ UNCHANGED phyVars
  \/ /\ ~tx_lock
     /\ child' = after
     /\ rx' = next
     /\ tx_lock' = (f = NullFrame)
     /\ phy_tx' = IF f # NullFrame /\ Len(phy_tx) < PhyBufSize THEN Append(phy_tx, f)
                  ELSE phy_tx
Updated(p, c) == [child EXCEPT ![p] = c]

\* A frame for someone else ends the thread: return, not continue.
Misaddressed(f) ==
  /\ rx.pc = "get" /\ f.dest_addr # RootAddr
  /\ Goto("dead", NullFrame, MinPrefix)
  /\ UNCHANGED <<mode, next_prefix, childs, not_joined_childs, child, sender, senders,
                 phyVars>>

\* The number 1 from a known child ends its join procedure.
Completes(f) == Known(f) /\ f.seqno = 1
\* Mutant: the child stays among those that have not joined.
Without_Kept(key) == not_joined_childs
Without(key) == [k \in DOMAIN not_joined_childs \ {key} |-> not_joined_childs[k]]
MarkJoined(f) ==
  not_joined_childs' = IF Completes(f) THEN Without(LowByte(child[Source(f)].node_id))
                       ELSE not_joined_childs
\* The object of the sender of f when its handler starts.
Sender(f) == IF Completes(f) THEN [child[Source(f)] EXCEPT !.transmit_count = 0]
             ELSE child[Source(f)]

\* A frame of a child that is not known.
IgnoreFrame(f) ==
  /\ Receive(f) /\ ~Known(f) /\ f.command \in {"QUERY", "DATA"}
  /\ Listen
  /\ UNCHANGED <<next_prefix, childs, not_joined_childs, child, mode, sender, senders,
                 phyVars>>

\* A command without handler: back to getFrame, and nobody has called _listen.  The
\* radio is deaf from then on, unless another reception or frame is on its way.
UnknownCommand(f) ==
  /\ Receive(f) /\ f.command \in {"JOIN_RESPONSE", "ACK"}
  /\ MarkJoined(f)
  /\ child' = IF Known(f) THEN [child EXCEPT ![Source(f)] = Sender(f)] ELSE child
  /\ Listen \/ Goto("deaf", NullFrame, MinPrefix)
  /\ UNCHANGED <<next_prefix, childs, mode, sender, senders, phyVars>>

Verdict(f) == Compare(Sender(f).expected_sn, f.seqno)
ReceiveFromChild(f) ==
  /\ Receive(f) /\ Known(f) /\ f.command \in {"QUERY", "DATA"}
  /\ MarkJoined(f)
  /\ UNCHANGED <<next_prefix, childs, mode, sender, senders>>

\* _on_query and _on_data when r < 0: _retransmit.
Retransmit(f) ==
  /\ ReceiveFromChild(f) /\ Verdict(f).r < 0
  /\ LET p == Source(f)
         c == [Sender(f) EXCEPT !.expected_sn = Verdict(f).expected]
     IN \/ /\ c.last_send_frame = NullFrame
           /\ child' = Updated(p, c)
           /\ Listen /\ UNCHANGED phyVars
        \/ /\ c.last_send_frame # NullFrame /\ c.transmit_count < MaxRetransmit
           /\ PhySend(c.last_send_frame, Updated(p, c),
                      Updated(p, [c EXCEPT !.transmit_count = @ + 1]), Waiting)
        \/ /\ c.last_send_frame # NullFrame /\ c.transmit_count >= MaxRetransmit
           /\ child' = Updated(p, [c EXCEPT !.transmit_count = 0])
           /\ Listen /\ UNCHANGED phyVars

\* _on_query when r >= 0: first the data it carries, if any, goes up.
AcceptQuery(f) ==
  /\ ReceiveFromChild(f) /\ f.command = "QUERY" /\ Verdict(f).r >= 0
  /\ child' = Updated(Source(f), [Sender(f) EXCEPT !.expected_sn = Verdict(f).expected])
  /\ Goto(IF f.data = NoData THEN "answer" ELSE "deliver", f, Source(f))
  /\ UNCHANGED phyVars

Ack(f) == FromRoot("ACK", ChildAddr(Source(f)), NoData, f.seqno)

\* _on_data when r >= 0: the ACK is sent before the data goes up.
AcceptData(f) ==
  /\ ReceiveFromChild(f) /\ f.command = "DATA" /\ Verdict(f).r >= 0
  /\ LET p == Source(f)
         c == [Sender(f) EXCEPT !.expected_sn = Verdict(f).expected]
         Last(frame) == Updated(p, [c EXCEPT !.last_send_frame = frame])
     IN IF f.confirmed
        THEN PhySend(Ack(f), Updated(p, c), Last(Ack(f)), At("deliver", f, p))
        ELSE child' = Last(NullFrame) /\ Goto("deliver", f, p) /\ UNCHANGED phyVars

\* After the application has the data of a frame.
AfterDelivery == IF rx.frame.command = "QUERY" THEN Goto("answer", rx.frame, rx.child)
                 ELSE Listen

\* Mutant: a SENDER answers in the thread that receives.
SendsInCallback_Always == mode # "RECEIVER"
SendsInCallback == mode = "PINGPONG"

\* build_ip_packet puts the addresses back; of nothing else than a packet it
\* makes no IPv6 header, and raises.
BuildsPacket == rx.frame.data.kind = "packet"

\* upper_layer: what the application does with the data.  What build_ip_packet
\* raises ends this thread.  In PINGPONG mode the application calls mac_send,
\* which finds the child, in this very thread.
Deliver ==
  /\ rx.pc = "deliver"
  /\ \/ /\ ~BuildsPacket
        /\ Goto("dead", NullFrame, MinPrefix)
        /\ UNCHANGED senders
     \/ /\ BuildsPacket /\ SendsInCallback
        /\ Goto("put", rx.frame, rx.child)
        /\ UNCHANGED senders
     \/ /\ BuildsPacket /\ ~SendsInCallback /\ mode = "SENDER"
        /\ senders' = senders \cup {rx.frame.src_addr}
        /\ AfterDelivery
     \/ /\ BuildsPacket /\ mode = "RECEIVER"
        /\ AfterDelivery
        /\ UNCHANGED senders
  /\ UNCHANGED <<next_prefix, childs, not_joined_childs, child, mode, sender, phyVars>>

\* tx_buf.put of mac_send: blocks while the buffer of the child is full.
\* Mutant: the buffer takes one more.
Room_OneMore(p) == Len(child[p].tx_buf) <= TxBufSize
Room(p) == Len(child[p].tx_buf) < TxBufSize
Put(p, dest) ==
  /\ Room(p)
  /\ \E r \in Replies :
       child' = [child EXCEPT ![p].tx_buf =
                   Append(@, FromRoot("DATA", dest, [kind |-> "packet", val |-> r], 0))]

PongPut ==
  /\ rx.pc = "put"
  /\ Put(rx.child, rx.frame.src_addr)
  /\ AfterDelivery
  /\ UNCHANGED <<next_prefix, childs, not_joined_childs, mode, sender, senders, phyVars>>

\* The end of _on_query: nothing to send, so an ACK ...
AnswerAck ==
  /\ rx.pc = "answer"
  /\ child[rx.child].tx_buf = << >>
  /\ PhySend(Ack(rx.frame), child,
             [child EXCEPT ![rx.child].last_send_frame = Ack(rx.frame)], Waiting)
  /\ UNCHANGED <<next_prefix, childs, not_joined_childs, mode, sender, senders>>

\* ... or the next frame is taken and numbered; an application thread may
\* put another one before has_next is computed.
AnswerTake ==
  /\ rx.pc = "answer"
  /\ child[rx.child].tx_buf # << >>
  /\ child' = [child EXCEPT ![rx.child].tx_buf = Tail(@),
                            ![rx.child].next_sn = (@ + 1) % SeqMod]
  /\ Goto("send", [Head(child[rx.child].tx_buf) EXCEPT !.seqno = child[rx.child].next_sn],
          rx.child)
  /\ UNCHANGED <<next_prefix, childs, not_joined_childs, mode, sender, senders, phyVars>>

\* Mutant: has_next is computed before the frame is taken out.
MoreFollows_Early == TRUE
MoreFollows == child[rx.child].tx_buf # << >>

AnswerSend ==
  /\ rx.pc = "send"
  /\ LET next_frame == [rx.frame EXCEPT !.next = MoreFollows]
     IN PhySend(next_frame, child,
                [child EXCEPT ![rx.child].last_send_frame = next_frame], Waiting)
  /\ UNCHANGED <<next_prefix, childs, not_joined_childs, mode, sender, senders>>

-----------------------------------------------------------------------------
(* _on_join                                                                *)

ReceiveJoin(f) == Receive(f) /\ f.command = "JOIN" /\ UNCHANGED <<mode, sender, senders>>

\* A wrong number, or a prefix that is a child's.
JoinIgnored(f) ==
  /\ ReceiveJoin(f)
  /\ f.seqno # 0 \/ Known(f)
  /\ MarkJoined(f)
  /\ child' = IF Known(f) THEN [child EXCEPT ![Source(f)] = Sender(f)] ELSE child
  /\ Listen
  /\ UNCHANGED <<next_prefix, childs, phyVars>>

JoinAccepted(f) == ReceiveJoin(f) /\ f.seqno = 0 /\ ~Known(f)
Retried(f) == not_joined_childs[Source(f)]

\* A JOIN under a key that waits for its first frame: the response again, or
\* rather the last frame of the child, which may be None.
JoinAgain(f) ==
  /\ JoinAccepted(f) /\ Source(f) \in DOMAIN not_joined_childs
  /\ child[Retried(f)].transmit_count < MaxRetransmit
  /\ PhySend(child[Retried(f)].last_send_frame, child,
             [child EXCEPT ![Retried(f)].transmit_count = @ + 1], Waiting)
  /\ UNCHANGED <<next_prefix, childs, not_joined_childs>>

\* ... until it has been sent often enough: the child is forgotten.
JoinGiveUp(f) ==
  /\ JoinAccepted(f) /\ Source(f) \in DOMAIN not_joined_childs
  /\ child[Retried(f)].transmit_count >= MaxRetransmit
  /\ child' = [child EXCEPT ![Retried(f)].transmit_count = 0]
  /\ not_joined_childs' = Without(LowByte(child[Retried(f)].node_id))
  /\ childs' = childs \ {Retried(f)}
  /\ Listen
  /\ UNCHANGED <<next_prefix, phyVars>>

\* Mutant: one prefix too many.
PrefixLeft_OneMore == next_prefix <= MaxPrefix + 1
PrefixLeft == next_prefix <= MaxPrefix

JoinFull(f) ==
  /\ JoinAccepted(f) /\ Source(f) \notin DOMAIN not_joined_childs
  /\ ~PrefixLeft
  /\ Listen
  /\ UNCHANGED <<next_prefix, childs, not_joined_childs, child, phyVars>>

\* Mutant: the prefix is given to the next child too.
NextPrefix_Same == next_prefix
NextPrefix == next_prefix + 1

\* Mutant: the JOIN_RESPONSE takes no number.
FirstSn_Zero == 0
\* The JOIN_RESPONSE has taken number 0 (get_sn).
FirstSn == 1

\* A new child gets the next prefix; its own frames start at 1.
JoinNew(f) ==
  /\ JoinAccepted(f) /\ Source(f) \notin DOMAIN not_joined_childs
  /\ PrefixLeft
  /\ LET p == next_prefix
         response == FromRoot("JOIN_RESPONSE", f.src_addr,
                              [kind |-> "prefix", val |-> p], 0)
     IN /\ next_prefix' = NextPrefix
        /\ childs' = childs \cup {p}
        /\ not_joined_childs' = [k \in DOMAIN not_joined_childs \cup {Source(f)} |->
                                   IF k = Source(f) THEN p ELSE not_joined_childs[k]]
        /\ LET c == Updated(p, [NewChild(f.src_addr.id) EXCEPT
                                !.next_sn = FirstSn, !.last_send_frame = response])
           IN PhySend(response, c, c, Waiting)

-----------------------------------------------------------------------------
(* Application threads and the PHY                                         *)

\* Child.send in SENDER mode: mac_send looks the child up ...
SenderCall(a) ==
  /\ a \in senders \ sender
  /\ a.prefix \in childs
  /\ sender' = sender \cup {a}
  /\ UNCHANGED <<next_prefix, childs, not_joined_childs, child, mode, senders, rx, phyVars>>

\* ... and puts into its buffer, removed or not.
SenderPut(a) ==
  /\ a \in sender
  /\ Put(a.prefix, a)
  /\ sender' = sender \ {a}
  /\ UNCHANGED <<next_prefix, childs, not_joined_childs, mode, senders, rx, phyVars>>

PhyTransmit ==
  /\ phy_tx # << >>
  /\ phy_tx' = Tail(phy_tx)
  /\ UNCHANGED <<mode, next_prefix, childs, not_joined_childs, child, sender, senders, rx,
                 tx_lock>>

RxFrame(f) ==
  \/ Misaddressed(f) \/ IgnoreFrame(f) \/ UnknownCommand(f) \/ Retransmit(f)
  \/ AcceptQuery(f) \/ AcceptData(f)
  \/ JoinIgnored(f) \/ JoinAgain(f) \/ JoinGiveUp(f) \/ JoinFull(f) \/ JoinNew(f)
RxStep == Deliver \/ PongPut \/ AnswerAck \/ AnswerTake \/ AnswerSend
AppStep == \E a \in senders : SenderCall(a) \/ SenderPut(a)

Init ==
  /\ mode \in Modes
  /\ next_prefix = MinPrefix
  /\ childs = {} /\ not_joined_childs = [k \in {} |-> MinPrefix]
  /\ child = [p \in RootPrefixes |-> NewChild(0)]
  /\ sender = {} /\ senders = {}
  /\ rx = Waiting
  /\ phy_tx = << >> /\ tx_lock = FALSE

Next == (\E f \in Uplink : RxFrame(f)) \/ RxStep \/ AppStep \/ PhyTransmit

Spec == Init /\ [][Next]_vars

\* The thread of _rx_process is scheduled, and so is the transmission thread.
FairSpec == Spec /\ WF_vars(RxStep) /\ WF_vars(PhyTransmit)

-----------------------------------------------------------------------------
(* Properties *)

RxPc == {"get", "deliver", "put", "answer", "send", "dead", "blocked", "deaf"}

\* Every variable holds a value of its Python type; the buffers stay within
\* their sizes and the retransmission counters within MAX_RETRANSMIT.
TypeOK ==
  /\ mode \in Modes
  /\ next_prefix \in MinPrefix..(MaxPrefix + 1)
  /\ childs \subseteq RootPrefixes
  /\ DOMAIN not_joined_childs \subseteq Prefixes \cup {0}
  /\ not_joined_childs \in [DOMAIN not_joined_childs -> RootPrefixes]
  /\ child \in [RootPrefixes -> ChildType]
  /\ \A p \in RootPrefixes : Len(child[p].tx_buf) <= TxBufSize
  /\ senders \subseteq Addr /\ sender \subseteq senders
  /\ rx \in [pc : RxPc, frame : Frame, child : RootPrefixes]
  /\ phy_tx \in Seq(Frame) /\ Len(phy_tx) <= PhyBufSize
  /\ tx_lock \in BOOLEAN

\* The two dictionaries agree: a child whose join is not finished is a child,
\* under the key its next JOIN will be looked up with.  (Both removals of
\* _on_join then find their entry: its two warnings are never logged.)
DictsAgree ==
  \A k \in DOMAIN not_joined_childs :
    /\ not_joined_childs[k] \in childs
    /\ LowByte(child[not_joined_childs[k]].node_id) = k

\* Prefixes are given in order: a child has one that was given before, so a
\* new child never takes the place of another.
PrefixesGiven == \A p \in childs : p < next_prefix

\* A frame that announces another one is not forgotten by it: while it may
\* be repeated, the next frame is in the buffer, whatever the application
\* threads do between the three looks at the buffer in _on_query.  (The next
\* frame leaves the buffer when it is about to take the place of that one.)
NextKept ==
  \A p \in childs : child[p].last_send_frame.next =>
    child[p].tx_buf # << >> \/ (rx.pc = "send" /\ rx.child = p) \/ rx.pc = "blocked"

\* A frame that repeats the last number accepted from a child is not accepted
\* again, at the wrap of the numbers neither: its data is delivered once.
NotAcceptedTwice ==
  [][\A p \in childs :
       rx.pc = "get" /\ rx'.pc \in {"deliver", "answer"} /\ rx'.child = p
         => (rx'.frame.seqno + 1) % SeqMod # child[p].expected_sn]_vars

\* A handler comes to its end, whatever the application threads put meanwhile.  Three
\* things can hold it for good: data that are no packet (build_ip_packet raises), a
\* lock that phy_send has kept, and an application that answers in its callback a
\* child whose buffer is full.
InHandler == rx.pc \in {"put", "answer", "send"} \/ (rx.pc = "deliver" /\ BuildsPacket)
AnswersFull == mode = "PINGPONG" /\ rx.pc = "put" /\ ~Room(rx.child)
ReturnsToGet == InHandler ~> rx.pc \in {"get", "blocked"} \/ AnswersFull

(* What the sources say and the code does not do *)

\* lora_phy.py:265: the lock is taken for the time of a call of phy_send; the
\* thread that calls it never comes back from it with the lock.
LockReleased == rx.pc = "get" => ~tx_lock
=============================================================================

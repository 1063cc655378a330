--------------------------- MODULE LoraTrafficProofs ---------------------------
(***************************************************************************)
(* The frames that the root has for its children, and their numbers: what  *)
(* the delivery of packets to a node rests on.  Every frame is in a buffer *)
(* of a child, where it has no number yet, or held: taken out, sent, or    *)
(* kept to be sent again.                                                  *)
(***************************************************************************)
EXTENDS LoraRootProofs

\* The prefixes given to a node so far.
Given(p) == p \in RootPrefixes /\ p < next_prefix

\* The frames that the root may still transmit, but for those in the buffers.
Held == {phy_tx[i] : i \in 1..Len(phy_tx)}
        \cup {child[p].last_send_frame : p \in RootPrefixes}
        \cup {f \in {rx.frame} : rx.pc = "send"}

DataFor(f, p) == f.command = "DATA" /\ f.dest_addr.prefix = p

\* A frame of the root: a prefix in it is given, and DATA has one of the n packets
\* handed over so far.
Proper(n, f) ==
  /\ f.src_addr.prefix = 1 \/ f.data = NoData
  /\ f.data.kind = "prefix" => Given(f.data.val)
  /\ f.command = "DATA" => f.data.kind = "packet" /\ f.data.val \in 1..n

\* The number of a held frame is one that its child has used.
Numbered(f) == \A p : DataFor(f, p) => Given(p) /\ f.seqno < child[p].next_sn

\* The numbers go up with the packets.
InOrder(f, g) ==
  \A p : DataFor(f, p) /\ DataFor(g, p) /\ f.seqno < g.seqno => f.data.val < g.data.val

\* The buffer of a child: its packets are in order, after those of the held frames,
\* and with the numbers used there are not more than the n packets and the response.
Buffered(n, p) ==
  LET buf == child[p].tx_buf
  IN /\ buf # << >> => Given(p)
     /\ Given(p) => child[p].next_sn >= 1
     /\ child[p].next_sn + Len(buf) <= n + 1
     /\ \A i \in 1..Len(buf) :
          /\ DataFor(buf[i], p) /\ Proper(n, buf[i])
          /\ \A f \in Held : DataFor(f, p) => f.data.val < buf[i].data.val
          /\ \A j \in 1..Len(buf) : i < j => buf[i].data.val < buf[j].data.val

\* The threads only have children that have been given a prefix.
ThreadsGiven ==
  /\ rx.pc \in {"deliver", "put", "answer", "send"} => Given(rx.child)
  /\ \A a \in sender : Given(a.prefix)

Traffic(n) ==
  /\ \A f \in Held : Proper(n, f) /\ Numbered(f)
  /\ \A f, g \in Held : InOrder(f, g)
  /\ \A p \in RootPrefixes : Buffered(n, p)
  /\ ThreadsGiven

\* What is left to send to the child p, in a frame whose number is at least e, comes
\* after the packet g.
Ahead(p, e, g) ==
  /\ \A f \in Held : DataFor(f, p) /\ f.seqno >= e => g < f.data.val
  /\ \A i \in 1..Len(child[p].tx_buf) : g < child[p].tx_buf[i].data.val

-----------------------------------------------------------------------------
(* The frames held *)

LEMMA HeldFrames ==
  \A f : f \in Held <=> \/ \E i \in 1..Len(phy_tx) : f = phy_tx[i]
                        \/ \E p \in RootPrefixes : f = child[p].last_send_frame
                        \/ rx.pc = "send" /\ f = rx.frame
BY DEF Held

LEMMA HeldFramesNext ==
  \A f : f \in Held' <=> \/ \E i \in 1..Len(phy_tx') : f = phy_tx'[i]
                         \/ \E p \in RootPrefixes : f = child'[p].last_send_frame
                         \/ rx'.pc = "send" /\ f = rx'.frame
BY DEF Held

\* What a child counts and keeps.
LEMMA ChildParts ==
  ASSUME TypeOK, NEW p \in RootPrefixes
  PROVE  /\ child[p].tx_buf \in Seq(Frame) /\ Len(child[p].tx_buf) \in Nat
         /\ child[p].next_sn \in Seqno /\ child[p].next_sn \in Nat
         /\ child[p].last_send_frame \in Frame
<1>1. child[p] \in Object
  BY TypeFacts
<1>2. /\ child[p].tx_buf \in Seq(Frame) /\ child[p].next_sn \in Seqno
      /\ child[p].last_send_frame \in Frame
  BY <1>1 DEF Object, ChildType
<1>3. Len(child[p].tx_buf) \in Nat
  BY <1>2
<1>4. \A sn \in Seqno : sn \in Nat
  BY SeqModAssumption DEF Seqno
<1> QED BY <1>2, <1>3, <1>4

\* They are frames.
LEMMA HeldType == ASSUME TypeOK PROVE Held \subseteq Frame
<1>1. /\ phy_tx \in Seq(Frame) /\ rx.frame \in Frame
      /\ \A p \in RootPrefixes : child[p].last_send_frame \in Frame
  BY TypeFacts, ChildParts DEF Thread
<1>2. \A i \in 1..Len(phy_tx) : phy_tx[i] \in Frame
  BY <1>1
<1> QED BY <1>1, <1>2, HeldFrames

\* The same frame, but for what it announces.
Same(f, g) ==
  /\ f.command = g.command /\ f.seqno = g.seqno /\ f.data = g.data
  /\ f.src_addr = g.src_addr /\ f.dest_addr = g.dest_addr

\* The steps by which the root repeats what it has, or has nothing to say.
HeldCopies == \A f \in Held' : Quiet(f) \/ \E g \in Held : Same(f, g)
BuffersKept ==
  /\ next_prefix' = next_prefix
  /\ \A p \in RootPrefixes :
       child'[p].tx_buf = child[p].tx_buf /\ child'[p].next_sn = child[p].next_sn

\* They keep the numbers and the order.
LEMMA QuietTraffic ==
  ASSUME NEW n, Traffic(n), HeldCopies, BuffersKept, ThreadsGiven'
  PROVE  Traffic(n)'
<1>1. \A p : Given(p)' <=> Given(p)
  BY DEF BuffersKept, Given
<1>2. ASSUME NEW f, NEW g, Same(f, g)
      PROVE  /\ \A p : DataFor(f, p) <=> DataFor(g, p)
             /\ f.seqno = g.seqno /\ f.data = g.data
             /\ Proper(n, g) => Proper(n, f)'
  BY <1>1, <1>2 DEF Same, DataFor, Proper
<1>3. ASSUME NEW f, Quiet(f) PROVE (\A p : ~DataFor(f, p)) /\ Proper(n, f)'
  BY <1>3 DEF Quiet, DataFor, Proper, NoData
<1>4. ASSUME NEW f \in Held' PROVE Proper(n, f)' /\ Numbered(f)'
  <2>1. CASE Quiet(f)
    BY <1>3, <2>1 DEF Numbered, DataFor
  <2>2. ASSUME NEW g \in Held, Same(f, g) PROVE Proper(n, f)' /\ Numbered(f)'
    <3>1. Proper(n, g) /\ Numbered(g)
      BY DEF Traffic
    <3>2. ASSUME NEW p, DataFor(f, p) PROVE Given(p)' /\ f.seqno < child'[p].next_sn
      <4>1. Given(p) /\ g.seqno < child[p].next_sn
        BY <1>2, <2>2, <3>1, <3>2 DEF Numbered
      <4> QED BY <1>1, <1>2, <2>2, <4>1 DEF BuffersKept, Given
    <3> QED BY <1>2, <2>2, <3>1, <3>2 DEF Numbered, DataFor
  <2> QED BY <2>1, <2>2 DEF HeldCopies
<1>5. ASSUME NEW f \in Held', NEW g \in Held', NEW p,
             DataFor(f, p), DataFor(g, p), f.seqno < g.seqno
      PROVE  f.data.val < g.data.val
  <2>1. ~Quiet(f) /\ ~Quiet(g)
    BY <1>3, <1>5
  <2>2. PICK f0 \in Held : Same(f, f0)
    BY <2>1 DEF HeldCopies
  <2>3. PICK g0 \in Held : Same(g, g0)
    BY <2>1 DEF HeldCopies
  <2>4. InOrder(f0, g0)
    BY DEF Traffic
  <2> QED BY <1>2, <1>5, <2>2, <2>3, <2>4 DEF InOrder
<1>6. ASSUME NEW p \in RootPrefixes PROVE Buffered(n, p)'
  <2>1. PICK buf : buf = child[p].tx_buf /\ buf = child'[p].tx_buf
    BY DEF BuffersKept
  <2>2. Buffered(n, p) /\ child'[p].next_sn = child[p].next_sn
    BY DEF Traffic, BuffersKept
  <2>3. ASSUME NEW i \in 1..Len(buf) PROVE DataFor(buf[i], p) /\ Proper(n, buf[i])'
    BY <1>1, <2>1, <2>2 DEF Buffered, Proper
  <2>4. ASSUME NEW i \in 1..Len(buf), NEW f \in Held', DataFor(f, p)
        PROVE  f.data.val < buf[i].data.val
    <3>1. ~Quiet(f)
      BY <1>3, <2>4
    <3>2. PICK g \in Held : Same(f, g)
      BY <3>1 DEF HeldCopies
    <3> QED BY <1>2, <2>1, <2>2, <2>4, <3>2 DEF Buffered
  <2>5. /\ buf # << >> => Given(p)'
        /\ Given(p)' => child[p].next_sn >= 1
        /\ child[p].next_sn + Len(buf) <= n + 1
        /\ \A i, j \in 1..Len(buf) : i < j => buf[i].data.val < buf[j].data.val
    BY <1>1, <2>1, <2>2 DEF Buffered
  <2> QED BY <2>1, <2>2, <2>3, <2>4, <2>5 DEF Buffered, DataFor
<1> QED BY <1>4, <1>5, <1>6 DEF Traffic, InOrder, DataFor

\* Nothing comes before what was to come.
LEMMA QuietAhead ==
  ASSUME HeldCopies, BuffersKept, NEW p \in RootPrefixes, NEW e, NEW g, Ahead(p, e, g)
  PROVE  Ahead(p, e, g)'
<1>1. ASSUME NEW f \in Held', DataFor(f, p), f.seqno >= e PROVE g < f.data.val
  <2>1. ~Quiet(f)
    BY <1>1 DEF Quiet, DataFor
  <2>2. PICK f0 \in Held : Same(f, f0)
    BY <2>1 DEF HeldCopies
  <2> QED BY <1>1, <2>2 DEF Same, Ahead, DataFor
<1>2. child'[p].tx_buf = child[p].tx_buf
  BY DEF BuffersKept
<1> QED BY <1>1, <1>2 DEF Ahead, DataFor

-----------------------------------------------------------------------------
(* The steps that only repeat *)

\* What a call of phy_send adds to the frames that wait.
Queues(f) == phy_tx' \in {phy_tx, Append(phy_tx, f)}
LEMMA QueuesHeld ==
  ASSUME TypeOK, NEW f \in Frame, Queues(f), NEW i \in 1..Len(phy_tx')
  PROVE  phy_tx'[i] = f \/ phy_tx'[i] \in Held
<1>1. phy_tx \in Seq(Frame)
  BY TypeFacts
<1>2. CASE phy_tx' = phy_tx
  BY <1>2, HeldFrames
<1>3. CASE phy_tx' = Append(phy_tx, f)
  <2>1. i = Len(phy_tx) + 1 \/ i \in 1..Len(phy_tx)
    BY <1>1, <1>3
  <2>2. ASSUME i \in 1..Len(phy_tx) PROVE phy_tx'[i] = phy_tx[i]
    BY <1>1, <1>3, <2>2
  <2>3. ASSUME i = Len(phy_tx) + 1 PROVE phy_tx'[i] = f
    BY <1>1, <1>3, <2>3
  <2> QED BY <2>1, <2>2, <2>3, HeldFrames
<1> QED BY <1>2, <1>3 DEF Queues

LEMMA PhySendQueues ==
  ASSUME NEW f, NEW before, NEW after, NEW next, PhySend(f, before, after, next)
  PROVE  /\ Queues(f)
         /\ child' \in {before, after}
         /\ rx' = next \/ rx' = At("blocked", NullFrame, MinPrefix)
         /\ rx'.pc # next.pc => child' = before /\ phy_tx' = phy_tx
BY DEF PhySend, Queues, Goto, phyVars, At

\* Nothing but copies is held after a step that queues a frame held before, or a quiet
\* one, and leaves each child's last frame or makes it such a frame.
LEMMA CopiesHeld ==
  ASSUME TypeOK, NEW f \in Frame, Queues(f),
         Quiet(f) \/ \E g \in Held : Same(f, g),
         rx'.pc # "send",
         \A p \in RootPrefixes : \/ child'[p].last_send_frame \in {f, child[p].last_send_frame}
                                 \/ Quiet(child'[p].last_send_frame)
  PROVE  HeldCopies
<1>1. \A g : Same(g, g)
  BY DEF Same
<1> SUFFICES ASSUME NEW x \in Held' PROVE Quiet(x) \/ \E g \in Held : Same(x, g)
  BY DEF HeldCopies
<1>2. CASE \E i \in 1..Len(phy_tx') : x = phy_tx'[i]
  BY <1>1, <1>2, QueuesHeld
<1>3. CASE \E p \in RootPrefixes : x = child'[p].last_send_frame
  BY <1>1, <1>3, HeldFrames
<1> QED BY <1>2, <1>3, HeldFramesNext

\* The handlers of a received frame, but for a new child.
LEMMA RxFrameQuiet ==
  ASSUME TypeOK, NEW f \in Frame, RxFrame(f), ~JoinNew(f)
  PROVE  HeldCopies /\ BuffersKept
<1>1. \A p \in RootPrefixes : Like(child'[p], child[p])
  BY RxFrameLike
<1>2. next_prefix' = next_prefix
  BY DEF RxFrame, Misaddressed, IgnoreFrame, UnknownCommand, Retransmit, AcceptQuery,
         AcceptData,
         ReceiveFromChild, JoinIgnored, JoinAgain, JoinGiveUp, JoinFull
<1>3. rx'.pc # "send"
  BY DEF RxFrame, Misaddressed, IgnoreFrame, UnknownCommand, Retransmit, AcceptQuery,
         AcceptData, JoinIgnored,
         JoinAgain, JoinGiveUp, JoinFull, PhySend, Goto, Listen, Waiting, At
<1>4. \E x \in Frame : Queues(x) /\ (Quiet(x) \/ x \in Held)
  <2>1. CASE Retransmit(f) \/ AcceptData(f)
    <3>1. Known(f)
      BY <2>1 DEF Retransmit, AcceptData, ReceiveFromChild
    <3> DEFINE p == Source(f)
               c == [Sender(f) EXCEPT !.expected_sn = Verdict(f).expected]
    <3>2. /\ p \in RootPrefixes /\ Ack(f) \in Frame
          /\ c.last_send_frame = child[p].last_send_frame
          /\ c.last_send_frame \in Frame
      BY <3>1, AcceptedType, FrameParts DEF Object, ChildType
    <3>3. c.last_send_frame \in Held
      BY <3>2, HeldFrames
    <3> HIDE DEF c, p
    <3>4. CASE Retransmit(f)
      <4>1. Queues(c.last_send_frame)
        BY <3>4 DEF Retransmit, Queues, PhySend, phyVars, c, p
      <4> QED BY <3>2, <3>3, <4>1
    <3>5. CASE AcceptData(f)
      <4>1. Queues(Ack(f))
        BY <3>5 DEF AcceptData, Queues, PhySend, phyVars
      <4> QED BY <3>2, <4>1, QuietFrames
    <3> QED BY <2>1, <3>4, <3>5
  <2>2. CASE JoinAgain(f)
    <3>1. Retried(f) \in RootPrefixes
      BY <2>2, TypeFacts DEF JoinAgain, Retried
    <3>2. child[Retried(f)].last_send_frame \in Frame
      BY <3>1, TypeFacts DEF Object, ChildType
    <3>3. Queues(child[Retried(f)].last_send_frame)
      BY <2>2, PhySendQueues DEF JoinAgain
    <3> QED BY <3>1, <3>2, <3>3, HeldFrames
  <2>3. CASE phy_tx' = phy_tx
    BY <2>3, ConstantTypes, QuietFrames DEF Queues
  <2> QED BY <2>1, <2>2, <2>3
          DEF RxFrame, Misaddressed, IgnoreFrame, UnknownCommand, AcceptQuery, JoinIgnored,
              JoinGiveUp,
              JoinFull, phyVars
<1>5. PICK x \in Frame : Queues(x) /\ (Quiet(x) \/ x \in Held)
  BY <1>4
<1>6. Quiet(x) \/ \E g \in Held : Same(x, g)
  BY <1>5 DEF Same
<1>7. HeldCopies
  BY <1>1, <1>3, <1>5, <1>6, CopiesHeld DEF Like
<1> QED BY <1>1, <1>2, <1>7 DEF BuffersKept, Like

\* An ACK, and the frame taken before, whatever it announces now.
LEMMA AnswerQuiet ==
  ASSUME TypeOK, AnswersSource, AnswerAck \/ AnswerSend
  PROVE  HeldCopies /\ BuffersKept
<1> DEFINE p == rx.child
<1>1. /\ p \in RootPrefixes /\ rx.frame \in Frame
      /\ child \in [RootPrefixes -> Object]
  BY TypeFacts DEF Thread
<1>2. ASSUME NEW f \in Frame, NEW q \in RootPrefixes,
             child' \in {child, [child EXCEPT ![p].last_send_frame = f]}
      PROVE  /\ child'[q].last_send_frame \in {f, child[q].last_send_frame}
             /\ child'[q].tx_buf = child[q].tx_buf /\ child'[q].next_sn = child[q].next_sn
  <2> DEFINE c == [child[p] EXCEPT !.last_send_frame = f]
  <2>1. /\ c.last_send_frame = f
        /\ c.tx_buf = child[p].tx_buf /\ c.next_sn = child[p].next_sn
    BY <1>1 DEF Object, ChildType
  <2>2. child' = child \/ child' = Updated(p, c)
    BY <1>2 DEF Updated
  <2> HIDE DEF c
  <2>3. child' = child \/ child'[q] = IF q = p THEN c ELSE child[q]
    BY <1>1, <2>2 DEF Updated
  <2> QED BY <2>1, <2>3
<1>3. next_prefix' = next_prefix
  BY DEF AnswerAck, AnswerSend
<1>4. ASSUME NEW f \in Frame, Quiet(f) \/ \E g \in Held : Same(f, g),
             PhySend(f, child, [child EXCEPT ![p].last_send_frame = f], Waiting)
      PROVE  HeldCopies /\ BuffersKept
  <2>1. /\ Queues(f)
        /\ child' \in {child, [child EXCEPT ![p].last_send_frame = f]}
        /\ rx'.pc # "send"
    BY <1>4, PhySendQueues DEF Waiting, At
  <2>2. /\ \A q \in RootPrefixes :
             child'[q].last_send_frame \in {f, child[q].last_send_frame}
        /\ BuffersKept
    BY <1>2, <1>3, <2>1 DEF BuffersKept
  <2> QED BY <1>4, <2>1, <2>2, CopiesHeld
<1>5. CASE AnswerAck
  <2>1. Ack(rx.frame) \in Frame
    BY <1>1, <1>5, FrameParts DEF AnswerAck, AnswersSource
  <2> QED BY <1>4, <1>5, <2>1, QuietFrames DEF AnswerAck
<1>6. CASE AnswerSend
  <2> DEFINE f == [rx.frame EXCEPT !.next = MoreFollows]
  <2>1. f \in Frame /\ Same(f, rx.frame)
    BY <1>1 DEF Frame, MoreFollows, Same
  <2>2. rx.frame \in Held /\ PhySend(f, child, [child EXCEPT ![p].last_send_frame = f], Waiting)
    BY <1>6, HeldFrames DEF AnswerSend
  <2> HIDE DEF f
  <2> QED BY <1>4, <2>1, <2>2
<1> QED BY <1>5, <1>6

\* Delivering, calling mac_send and transmitting.
LEMMA OtherQuiet ==
  ASSUME TypeOK,
         Deliver \/ PhyTransmit \/ (\E a \in senders : SenderCall(a)) \/ UNCHANGED vars
  PROVE  HeldCopies /\ BuffersKept
<1>1. UNCHANGED <<child, next_prefix>>
  BY DEF Deliver, PhyTransmit, SenderCall, vars
<1>2. \A f : Same(f, f)
  BY DEF Same
<1>3. Held' \subseteq Held
  <2>1. CASE Deliver
    <3>1. rx'.pc # "send" /\ phy_tx' = phy_tx
      BY <2>1 DEF Deliver, AfterDelivery, Goto, Listen, Waiting, At, phyVars
    <3> QED BY <1>1, <3>1, HeldFrames, HeldFramesNext
  <2>2. CASE PhyTransmit
    <3>1. \A i \in 1..Len(phy_tx') : i + 1 \in 1..Len(phy_tx) /\ phy_tx'[i] = phy_tx[i + 1]
      BY <2>2, TypeFacts DEF PhyTransmit
    <3>2. rx' = rx
      BY <2>2 DEF PhyTransmit
    <3> QED BY <1>1, <3>1, <3>2, HeldFrames, HeldFramesNext
  <2>3. CASE \E a \in senders : SenderCall(a)
    BY <1>1, <2>3, HeldFrames, HeldFramesNext DEF SenderCall, phyVars
  <2>4. CASE UNCHANGED vars
    BY <2>4, HeldFrames, HeldFramesNext DEF vars, phyVars
  <2> QED BY <2>1, <2>2, <2>3, <2>4
<1> QED BY <1>1, <1>2, <1>3 DEF HeldCopies, BuffersKept

-----------------------------------------------------------------------------
(* The threads, and the numbers of the children given a prefix *)

\* A handler goes on with a child, and a child has been given its prefix.
LEMMA RxFrameThreads ==
  ASSUME Base, ThreadsGiven, NEW f \in Frame, RxFrame(f)
  PROVE  ThreadsGiven'
<1>1. next_prefix \in Nat /\ (next_prefix' = next_prefix \/ next_prefix' = next_prefix + 1)
  <2>1. next_prefix \in Nat
    BY TypeFacts, PrefixAssumption DEF Base
  <2> QED BY <2>1 DEF RxFrame, Misaddressed, IgnoreFrame, UnknownCommand, Retransmit,
                      AcceptQuery, AcceptData,
             ReceiveFromChild, JoinIgnored, JoinAgain, JoinGiveUp, JoinFull, JoinNew, NextPrefix
<1>2. ASSUME NEW p, Given(p) PROVE Given(p)'
  BY <1>1, <1>2, ConstantTypes DEF Given
<1>3. sender' = sender
  BY RxFrameKeeps
<1>4. rx'.pc # "put" /\ rx'.pc # "send"
  BY DEF RxFrame, Misaddressed, IgnoreFrame, UnknownCommand, Retransmit, AcceptQuery,
         AcceptData, JoinIgnored,
         JoinAgain, JoinGiveUp, JoinFull, JoinNew, PhySend, Goto, Listen, Waiting, At
<1>5. ASSUME rx'.pc \in {"deliver", "answer"} PROVE Given(rx'.child)
  <2>1. Known(f) /\ rx'.child = Source(f)
    BY <1>5, AcceptedFrame DEF Base
  <2> QED BY <2>1, TypeFacts DEF Base, PrefixesGiven, Known, Given
<1> QED BY <1>2, <1>3, <1>4, <1>5 DEF ThreadsGiven

\* So do delivering, answering, transmitting and the application threads.
LEMMA OtherThreads ==
  ASSUME Base, ThreadsGiven, RxStep \/ AppStep \/ PhyTransmit \/ UNCHANGED vars
  PROVE  ThreadsGiven'
<1>1. next_prefix' = next_prefix
  BY DEF RxStep, Deliver, PongPut, AnswerAck, AnswerTake, AnswerSend, AppStep, SenderCall,
         SenderPut, PhyTransmit, vars
<1>2. ASSUME NEW p PROVE Given(p)' <=> Given(p)
  BY <1>1 DEF Given
<1>3. rx'.pc \in {"deliver", "put", "answer", "send"}
        => rx'.child = rx.child /\ rx.pc \in {"deliver", "put", "answer", "send"}
  BY DEF RxStep, Deliver, PongPut, AnswerAck, AnswerTake, AnswerSend, AppStep, SenderCall,
         SenderPut, PhyTransmit, vars, AfterDelivery, PhySend, Goto, Listen, Waiting, At
<1>4. ASSUME NEW a \in sender', a \notin sender PROVE Given(a.prefix)
  <2>1. a.prefix \in childs
    BY <1>4 DEF RxStep, Deliver, PongPut, AnswerAck, AnswerTake, AnswerSend, AppStep,
                SenderCall, SenderPut, PhyTransmit, vars
  <2> QED BY <2>1, TypeFacts DEF Base, PrefixesGiven, Given
<1> QED BY <1>2, <1>3, <1>4 DEF ThreadsGiven

-----------------------------------------------------------------------------
(* An application thread hands over the next packet *)

\* The frame of packet m for the child at dest.
Carrying(m, dest) == FromRoot("DATA", dest, [kind |-> "packet", val |-> m], 0)
PutObjects(p, x) ==
  /\ \A q \in RootPrefixes : /\ child'[q].next_sn = child[q].next_sn
                             /\ child'[q].last_send_frame = child[q].last_send_frame
                             /\ q # p => child'[q].tx_buf = child[q].tx_buf
  /\ child'[p].tx_buf = Append(child[p].tx_buf, x)

\* Its place is the end of the buffer.
LEMMA PutPlace ==
  ASSUME TypeOK, NEW p \in RootPrefixes, NEW x,
         child' = [child EXCEPT ![p].tx_buf = Append(@, x)]
  PROVE  PutObjects(p, x)
<1> DEFINE buf == Append(child[p].tx_buf, x)
           c == [child[p] EXCEPT !.tx_buf = buf]
<1>1. child[p] \in Object
  BY TypeFacts
<1>2. child' = Updated(p, c)
  BY TypeFacts DEF Updated
<1>3. /\ c.tx_buf = buf /\ c.next_sn = child[p].next_sn
      /\ c.last_send_frame = child[p].last_send_frame
  <2> HIDE DEF buf
  <2> QED BY <1>1 DEF Object, ChildType
<1> HIDE DEF c
<1>4. child'[p] = c /\ \A q \in RootPrefixes \ {p} : child'[q] = child[q]
  BY <1>2, TypeFacts DEF Updated
<1> QED BY <1>3, <1>4 DEF PutObjects

\* The buffers keep their order when the packet is the next one.
LEMMA PutTraffic ==
  ASSUME TypeOK, NEW n \in Nat, Traffic(n), NEW m, m = n + 1, NEW p \in RootPrefixes, Given(p),
         NEW dest, dest.prefix = p, PutObjects(p, Carrying(m, dest)),
         UNCHANGED <<next_prefix, rx, phy_tx>>, ThreadsGiven'
  PROVE  /\ Traffic(m)'
         /\ \A q \in RootPrefixes : \A e, g : g \in 0..n /\ Ahead(q, e, g) => Ahead(q, e, g)'
<1> DEFINE x == Carrying(m, dest)
           buf == child[p].tx_buf
<1>1. DataFor(x, p) /\ Proper(m, x)' /\ x.data.val = m
  BY DEF Carrying, FromRoot, DataFor, Proper, RootAddr
<1>2. \A q : Given(q)' <=> Given(q)
  BY DEF Given
<1>3. Held' = Held
  <2>1. \A q \in RootPrefixes : child'[q].last_send_frame = child[q].last_send_frame
    BY DEF PutObjects
  <2>2. ASSUME NEW f PROVE f \in Held' <=> f \in Held
    BY <2>1, HeldFrames, HeldFramesNext
  <2>3. \A f : f \in Held' <=> f \in Held
    BY <2>2
  <2> QED BY <2>3
<1>4. ASSUME NEW f, Proper(n, f) PROVE Proper(m, f)'
  BY <1>2, <1>4 DEF Proper
<1>5. buf \in Seq(Frame)
  BY ChildParts
<1>6. \A q \in RootPrefixes : child'[q].next_sn = child[q].next_sn
  BY DEF PutObjects
<1> HIDE DEF x
<1>7. child'[p].tx_buf = Append(buf, x)
  BY DEF PutObjects, x
<1>8. \A q \in RootPrefixes : q # p => child'[q].tx_buf = child[q].tx_buf
  BY DEF PutObjects
<1>9. ASSUME NEW f \in Held PROVE Proper(m, f)' /\ Numbered(f)'
  <2>1. Proper(n, f) /\ Numbered(f)
    BY DEF Traffic
  <2>2. ASSUME NEW q, DataFor(f, q) PROVE Given(q)' /\ f.seqno < child'[q].next_sn
    <3>1. Given(q) /\ f.seqno < child[q].next_sn
      BY <2>1, <2>2 DEF Numbered
    <3> QED BY <1>2, <1>6, <3>1 DEF Given
  <2> QED BY <1>4, <2>1, <2>2 DEF Numbered, DataFor
<1>10. ASSUME NEW q \in RootPrefixes, q # p PROVE Buffered(m, q)'
  <2>1. PICK b : b = child[q].tx_buf /\ b = child'[q].tx_buf
    BY <1>8, <1>10
  <2>2. Buffered(n, q) /\ child[q].next_sn \in Nat /\ Len(b) \in Nat
    BY <2>1, ChildParts DEF Traffic
  <2>3. /\ b # << >> => Given(q)'
        /\ Given(q)' => child'[q].next_sn >= 1
        /\ child'[q].next_sn + Len(b) <= m + 1
    BY <1>2, <1>6, <2>1, <2>2 DEF Buffered
  <2>4. ASSUME NEW i \in 1..Len(b)
        PROVE  /\ DataFor(b[i], q) /\ Proper(m, b[i])'
               /\ \A f \in Held' : DataFor(f, q) => f.data.val < b[i].data.val
               /\ \A j \in 1..Len(b) : i < j => b[i].data.val < b[j].data.val
    BY <1>3, <1>4, <2>1, <2>2 DEF Buffered
  <2> QED BY <2>1, <2>3, <2>4 DEF Buffered, DataFor
<1>11. Buffered(n, p) /\ child[p].next_sn \in Nat /\ Len(buf) \in Nat
  BY ChildParts DEF Traffic
<1>12. PICK b : b = child'[p].tx_buf
  OBVIOUS
<1>13. /\ Len(b) = Len(buf) + 1 /\ b[Len(buf) + 1] = x
       /\ \A i \in 1..Len(buf) : b[i] = buf[i]
  BY <1>5, <1>7, <1>12
<1>14. \A i \in 1..Len(b) : i \in 1..Len(buf) \/ i = Len(buf) + 1
  BY <1>11, <1>13
<1>15. ASSUME NEW i \in 1..Len(buf)
       PROVE  /\ DataFor(buf[i], p) /\ Proper(n, buf[i]) /\ buf[i].data.val \in 1..n
              /\ \A f \in Held : DataFor(f, p) => f.data.val < buf[i].data.val
              /\ \A j \in 1..Len(buf) : i < j => buf[i].data.val < buf[j].data.val
  BY <1>11 DEF Buffered, Proper, DataFor
<1>16. ASSUME NEW f \in Held, DataFor(f, p) PROVE f.data.val \in 1..n
  BY <1>16 DEF Traffic, Proper, DataFor
<1>17. Buffered(m, p)'
  <2>1. Given(p)' /\ child'[p].next_sn >= 1 /\ child'[p].next_sn + Len(b) <= m + 1
    BY <1>2, <1>6, <1>11, <1>13 DEF Buffered
  <2>2. ASSUME NEW i \in 1..Len(b)
        PROVE  /\ DataFor(b[i], p) /\ Proper(m, b[i])'
               /\ \A f \in Held : DataFor(f, p) => f.data.val < b[i].data.val
               /\ \A j \in 1..Len(b) : i < j => b[i].data.val < b[j].data.val
    <3>1. CASE i \in 1..Len(buf)
      <4>1. ASSUME NEW j \in 1..Len(b), i < j PROVE b[i].data.val < b[j].data.val
        <5>1. CASE j \in 1..Len(buf)
          <6>1. b[i] = buf[i] /\ b[j] = buf[j]
            BY <1>13, <3>1, <5>1
          <6>2. buf[i].data.val < buf[j].data.val
            BY <1>15, <3>1, <4>1, <5>1
          <6> QED BY <6>1, <6>2
        <5>2. CASE j = Len(buf) + 1
          <6>1. b[i] = buf[i] /\ b[j] = x
            BY <1>13, <3>1, <5>2
          <6>2. buf[i].data.val \in 1..n
            BY <1>15, <3>1
          <6> QED BY <1>1, <6>1, <6>2
        <5> QED BY <1>14, <5>1, <5>2
      <4>2. b[i] = buf[i]
        BY <1>13, <3>1
      <4> QED BY <1>4, <1>15, <3>1, <4>1, <4>2
    <3>2. CASE i = Len(buf) + 1
      <4>1. ~\E j \in 1..Len(b) : i < j
        BY <1>11, <1>13, <3>2
      <4>2. b[i] = x
        BY <1>13, <3>2
      <4>3. ASSUME NEW f \in Held, DataFor(f, p) PROVE f.data.val < x.data.val
        BY <1>1, <1>16, <4>3
      <4> QED BY <1>1, <4>1, <4>2, <4>3
    <3> QED BY <1>14, <3>1, <3>2
  <2>3. ASSUME NEW i \in 1..Len(b)
        PROVE  /\ DataFor(b[i], p) /\ Proper(m, b[i])'
               /\ \A f \in Held' : DataFor(f, p) => f.data.val < b[i].data.val
               /\ \A j \in 1..Len(b) : i < j => b[i].data.val < b[j].data.val
    BY <1>3, <2>2
  <2>4. (b # << >> => Given(p)') /\ (Given(p)' => child'[p].next_sn >= 1)
    BY <2>1
  <2>5. child'[p].tx_buf = b
    BY <1>12
  <2> HIDE DEF buf
  <2> QED BY <2>1, <2>3, <2>4, <2>5 DEF Buffered, DataFor
<1>18. Traffic(m)'
  <2>1. \A f, g \in Held : InOrder(f, g)
    BY DEF Traffic
  <2>2. \A f, g \in Held' : InOrder(f, g)'
    BY <1>3, <2>1 DEF InOrder, DataFor
  <2> QED BY <1>3, <1>9, <1>10, <1>17, <2>2 DEF Traffic
<1>19. ASSUME NEW q \in RootPrefixes, NEW e, NEW g \in 0..n, Ahead(q, e, g)
       PROVE  Ahead(q, e, g)'
  <2>1. \A f \in Held' : DataFor(f, q) /\ f.seqno >= e => g < f.data.val
    BY <1>3, <1>19 DEF Ahead
  <2>2. CASE q # p
    BY <1>8, <1>19, <2>1, <2>2 DEF Ahead, DataFor
  <2>3. CASE q = p
    <3>1. ASSUME NEW i \in 1..Len(b) PROVE g < b[i].data.val
      <4>1. CASE i \in 1..Len(buf)
        BY <1>13, <1>19, <2>3, <4>1 DEF Ahead
      <4>2. CASE i = Len(buf) + 1
        BY <1>1, <1>13, <4>2
      <4> QED BY <1>14, <4>1, <4>2
    <3> QED BY <1>12, <2>1, <2>3, <3>1 DEF Ahead, DataFor
  <2> QED BY <2>2, <2>3
<1> QED BY <1>18, <1>19

-----------------------------------------------------------------------------
(* The next frame is taken from its buffer *)

Taken(p) == [Head(child[p].tx_buf) EXCEPT !.seqno = child[p].next_sn]

\* The frame f is g with a number.
Numbers(f, g, sn) ==
  /\ f.seqno = sn
  /\ f.command = g.command /\ f.data = g.data
  /\ f.src_addr = g.src_addr /\ f.dest_addr = g.dest_addr

\* It is the head of the buffer, and then held.
LEMMA TakePlace ==
  ASSUME TypeOK, AnswerTake
  PROVE  LET p   == rx.child
             buf == child[p].tx_buf
         IN /\ p \in RootPrefixes
            /\ buf # << >> /\ buf \in Seq(Frame)
            /\ Numbers(Taken(p), buf[1], child[p].next_sn)
            /\ rx' = At("send", Taken(p), p) /\ rx.pc = "answer"
            /\ \A q \in RootPrefixes :
                 /\ child'[q].last_send_frame = child[q].last_send_frame
                 /\ q # p => child'[q] = child[q]
            /\ child'[p].tx_buf = Tail(buf)
            /\ child'[p].next_sn = (child[p].next_sn + 1) % SeqMod
            /\ UNCHANGED <<next_prefix, phy_tx>>
            /\ \A f : f \in Held' <=> f \in Held \/ f = Taken(p)
<1> DEFINE p   == rx.child
           buf == child[p].tx_buf
           sn  == (child[p].next_sn + 1) % SeqMod
           c   == [child[p] EXCEPT !.tx_buf = Tail(buf), !.next_sn = sn]
<1>1. p \in RootPrefixes /\ child \in [RootPrefixes -> Object] /\ child[p] \in Object
  BY TypeFacts DEF Thread
<1>2. buf \in Seq(Frame) /\ buf # << >> /\ child[p].next_sn \in Seqno
  BY <1>1 DEF AnswerTake, Object, ChildType
<1>3. UNCHANGED <<next_prefix, phy_tx>>
  BY DEF AnswerTake, phyVars
<1>4. rx' = At("send", Taken(p), p) /\ rx.pc = "answer"
  BY DEF AnswerTake, Taken, Goto
<1>5. child' = Updated(p, c)
  BY <1>1 DEF AnswerTake, Updated
<1>6. /\ c.last_send_frame = child[p].last_send_frame
      /\ c.tx_buf = Tail(buf) /\ c.next_sn = sn
  <2> HIDE DEF buf, sn
  <2> QED BY <1>1 DEF Object, ChildType
<1> HIDE DEF c
<1>7. child'[p] = c /\ \A q \in RootPrefixes \ {p} : child'[q] = child[q]
  BY <1>1, <1>5 DEF Updated
<1>8. Numbers(Taken(p), buf[1], child[p].next_sn)
  <2>1. buf[1] \in Frame /\ Head(buf) = buf[1]
    BY <1>2
  <2> HIDE DEF buf
  <2>2. Taken(p) = [buf[1] EXCEPT !.seqno = child[p].next_sn]
    BY <2>1 DEF Taken, buf
  <2> QED BY <2>1, <2>2 DEF Frame, Numbers
<1>9. \A q \in RootPrefixes : child'[q].last_send_frame = child[q].last_send_frame
  BY <1>6, <1>7
<1>10. \A f : f \in Held' <=> f \in Held \/ f = Taken(p)
  BY <1>3, <1>4, <1>9, HeldFrames, HeldFramesNext DEF At
<1> QED BY <1>1, <1>2, <1>3, <1>4, <1>6, <1>7, <1>8, <1>9, <1>10

\* It has the next number and comes after what is held, before what is left.
LEMMA TakeTraffic ==
  ASSUME TypeOK, NEW n \in Nat, n + 2 <= SeqMod, Traffic(n), AnswerTake, ThreadsGiven'
  PROVE  /\ Traffic(n)'
         /\ \A q \in RootPrefixes : \A e, g : Ahead(q, e, g) => Ahead(q, e, g)'
         /\ \A q \in RootPrefixes : child[q].next_sn <= child'[q].next_sn
<1>1. PICK p : p = rx.child
  OBVIOUS
<1>2. PICK buf : buf = child[p].tx_buf
  OBVIOUS
<1>3. PICK sn : sn = child[p].next_sn
  OBVIOUS
<1>4. PICK t : t = Taken(p)
  OBVIOUS
<1>5. /\ p \in RootPrefixes
      /\ buf # << >> /\ buf \in Seq(Frame)
      /\ Numbers(t, buf[1], sn)
      /\ \A q \in RootPrefixes : q # p => child'[q] = child[q]
      /\ child'[p].tx_buf = Tail(buf) /\ child'[p].next_sn = (sn + 1) % SeqMod
  BY <1>1, <1>2, <1>3, <1>4, TakePlace
<1>6. /\ UNCHANGED <<next_prefix, phy_tx>>
      /\ rx.pc = "answer"
      /\ \A f : f \in Held' <=> f \in Held \/ f = t
  BY <1>1, <1>4, TakePlace
<1>7. \A q : Given(q)' <=> Given(q)
  BY <1>6 DEF Given
<1>8. Given(p)
  BY <1>1, <1>6 DEF Traffic, ThreadsGiven
<1>9. \A f : Proper(n, f) => Proper(n, f)'
  BY <1>7 DEF Proper
<1>10. /\ Len(buf) \in Nat \ {0}
       /\ \A q \in RootPrefixes : child[q].next_sn \in Nat /\ Len(child[q].tx_buf) \in Nat
  <2>1. \A q \in RootPrefixes : child[q].next_sn \in Nat /\ Len(child[q].tx_buf) \in Nat
    BY ChildParts
  <2> QED BY <1>2, <1>5, <2>1
<1>11. /\ sn \in Nat /\ sn >= 1 /\ sn + Len(buf) <= n + 1
       /\ \A i \in 1..Len(buf) : /\ DataFor(buf[i], p) /\ Proper(n, buf[i])
                                 /\ buf[i].data.val \in 1..n
       /\ \A i \in 1..Len(buf) : \A f \in Held : DataFor(f, p) => f.data.val < buf[i].data.val
       /\ \A i, j \in 1..Len(buf) : i < j => buf[i].data.val < buf[j].data.val
  <2>1. Buffered(n, p)
    BY <1>5 DEF Traffic
  <2>2. sn \in Nat /\ sn >= 1 /\ sn + Len(buf) <= n + 1
    BY <1>2, <1>3, <1>5, <1>8, <1>10, <2>1 DEF Buffered
  <2>3. ASSUME NEW i \in 1..Len(buf)
        PROVE  /\ DataFor(buf[i], p) /\ Proper(n, buf[i]) /\ buf[i].data.val \in 1..n
               /\ \A f \in Held : DataFor(f, p) => f.data.val < buf[i].data.val
               /\ \A j \in 1..Len(buf) : i < j => buf[i].data.val < buf[j].data.val
    BY <1>2, <2>1 DEF Buffered, Proper, DataFor
  <2> QED BY <2>2, <2>3
<1>12. child'[p].next_sn = sn + 1
  <2>1. sn # SeqMod - 1 /\ sn \in Seqno
    BY <1>10, <1>11, SeqModAssumption DEF Seqno
  <2> QED BY <1>5, <2>1, NextSeqno
<1>13. /\ DataFor(t, p) /\ Proper(n, t) /\ t.data.val \in 1..n
       /\ t.seqno = sn /\ t.data = buf[1].data
       /\ \A q : DataFor(t, q) => q = p
  <2>1. DataFor(buf[1], p) /\ Proper(n, buf[1]) /\ buf[1].data.val \in 1..n
    BY <1>10, <1>11
  <2> QED BY <1>5, <2>1 DEF Numbers, DataFor, Proper
<1>14. \A f \in Held : DataFor(f, p) => f.data.val < t.data.val
  BY <1>10, <1>11, <1>13
<1>15. ASSUME NEW f \in Held PROVE Proper(n, f) /\ Numbered(f)
  BY DEF Traffic
<1>16. \A q \in RootPrefixes : /\ child[q].next_sn <= child'[q].next_sn
                               /\ child'[q].next_sn \in Nat
  BY <1>3, <1>5, <1>10, <1>12
<1>17. ASSUME NEW f \in Held' PROVE Proper(n, f)' /\ Numbered(f)'
  <2>1. ASSUME f \in Held, NEW q, DataFor(f, q) PROVE Given(q)' /\ f.seqno < child'[q].next_sn
    <3>1. Given(q) /\ f.seqno < child[q].next_sn
      BY <1>15, <2>1 DEF Numbered
    <3>2. CASE q = p
      <4>1. f.seqno < sn + 1
        <5>1. f.seqno < sn
          BY <1>3, <3>1, <3>2
        <5>2. f.seqno \in Nat
          BY <2>1, HeldType, SeqModAssumption DEF Frame, Seqno
        <5> QED BY <1>11, <5>1, <5>2
      <4> QED BY <1>12, <1>7, <3>1, <3>2, <4>1
    <3>3. CASE q # p
      BY <1>5, <1>7, <3>1, <3>3 DEF Given
    <3> QED BY <3>2, <3>3
  <2>2. ASSUME f = t, NEW q, DataFor(f, q) PROVE Given(q)' /\ f.seqno < child'[q].next_sn
    BY <1>12, <1>7, <1>8, <1>11, <1>13, <2>2
  <2>3. \A q : DataFor(f, q) => Given(q)' /\ f.seqno < child'[q].next_sn
    BY <1>6, <2>1, <2>2
  <2>4. Proper(n, f)'
    BY <1>6, <1>9, <1>13, <1>15
  <2> QED BY <2>3, <2>4 DEF Numbered, DataFor
<1>18. ASSUME NEW f \in Held', NEW g \in Held', NEW q,
              DataFor(f, q), DataFor(g, q), f.seqno < g.seqno
       PROVE  f.data.val < g.data.val
  <2>1. CASE f \in Held /\ g \in Held
    <3>1. InOrder(f, g)
      BY <2>1 DEF Traffic
    <3> QED BY <1>18, <3>1 DEF InOrder
  <2>2. CASE f \in Held /\ g = t
    BY <1>13, <1>14, <1>18, <2>2
  <2>3. CASE f = t /\ g \in Held
    <3>1. q = p
      BY <1>13, <1>18, <2>3
    <3>2. g.seqno < sn
      BY <1>3, <1>15, <1>18, <2>3, <3>1 DEF Numbered
    <3>3. g.seqno \in Nat
      BY <2>3, HeldType, SeqModAssumption DEF Frame, Seqno
    <3> QED BY <1>11, <1>13, <1>18, <2>3, <3>2, <3>3
  <2>4. CASE f = t /\ g = t
    BY <1>11, <1>13, <1>18, <2>4
  <2> QED BY <1>6, <2>1, <2>2, <2>3, <2>4
<1>19. ASSUME NEW q \in RootPrefixes, q # p PROVE Buffered(n, q)'
  <2>1. PICK b : b = child[q].tx_buf /\ b = child'[q].tx_buf
    BY <1>5, <1>19
  <2>2. Buffered(n, q) /\ child'[q].next_sn = child[q].next_sn
    BY <1>5, <1>19 DEF Traffic
  <2>3. /\ b # << >> => Given(q)'
        /\ Given(q)' => child'[q].next_sn >= 1
        /\ child'[q].next_sn + Len(b) <= n + 1
    BY <1>7, <2>1, <2>2 DEF Buffered
  <2>4. ASSUME NEW i \in 1..Len(b)
        PROVE  /\ DataFor(b[i], q) /\ Proper(n, b[i])'
               /\ \A f \in Held : DataFor(f, q) => f.data.val < b[i].data.val
               /\ \A j \in 1..Len(b) : i < j => b[i].data.val < b[j].data.val
    BY <1>9, <2>1, <2>2 DEF Buffered
  <2>5. ~DataFor(t, q)
    BY <1>13, <1>19
  <2>6. ASSUME NEW i \in 1..Len(b)
        PROVE  /\ DataFor(b[i], q) /\ Proper(n, b[i])'
               /\ \A f \in Held' : DataFor(f, q) => f.data.val < b[i].data.val
               /\ \A j \in 1..Len(b) : i < j => b[i].data.val < b[j].data.val
    BY <1>6, <2>4, <2>5
  <2> QED BY <2>1, <2>3, <2>6 DEF Buffered, DataFor
<1>20. PICK b : b = child'[p].tx_buf
  OBVIOUS
<1>21. Len(b) = Len(buf) - 1 /\ \A i \in 1..Len(b) : i + 1 \in 1..Len(buf) /\ b[i] = buf[i + 1]
  BY <1>5, <1>10, <1>20
<1>22. Buffered(n, p)'
  <2>1. /\ b # << >> => Given(p)'
        /\ Given(p)' => child'[p].next_sn >= 1
        /\ child'[p].next_sn + Len(b) <= n + 1
    BY <1>12, <1>7, <1>8, <1>10, <1>11, <1>21
  <2>2. ASSUME NEW i \in 1..Len(b)
        PROVE  /\ DataFor(b[i], p) /\ Proper(n, b[i])'
               /\ \A f \in Held' : DataFor(f, p) => f.data.val < b[i].data.val
               /\ \A j \in 1..Len(b) : i < j => b[i].data.val < b[j].data.val
    <3>1. PICK k \in 1..Len(buf) : k = i + 1 /\ b[i] = buf[k]
      BY <1>21
    <3>2. DataFor(b[i], p) /\ Proper(n, b[i])'
      BY <1>9, <1>11, <3>1
    <3>3. ASSUME NEW j \in 1..Len(b), i < j PROVE b[i].data.val < b[j].data.val
      <4>1. PICK l \in 1..Len(buf) : l = j + 1 /\ b[j] = buf[l]
        BY <1>21
      <4>2. k < l
        BY <3>1, <3>3, <4>1
      <4> QED BY <1>11, <3>1, <4>1, <4>2
    <3>4. ASSUME NEW f \in Held', DataFor(f, p) PROVE f.data.val < b[i].data.val
      <4>1. CASE f \in Held
        BY <1>11, <3>1, <3>4, <4>1
      <4>2. CASE f = t
        <5>1. 1 \in 1..Len(buf) /\ 1 < k
          BY <1>10, <3>1
        <5> QED BY <1>11, <1>13, <3>1, <4>2, <5>1
      <4> QED BY <1>6, <4>1, <4>2
    <3> QED BY <3>2, <3>3, <3>4
  <2> QED BY <1>20, <2>1, <2>2 DEF Buffered, DataFor
<1>23. Traffic(n)'
  <2>1. \A f, g \in Held' : InOrder(f, g)'
    BY <1>18 DEF InOrder, DataFor
  <2> QED BY <1>17, <1>19, <1>22, <2>1 DEF Traffic
<1>24. ASSUME NEW q \in RootPrefixes, NEW e, NEW g, Ahead(q, e, g) PROVE Ahead(q, e, g)'
  <2>1. ASSUME q = p PROVE g < t.data.val
    <3>1. g < buf[1].data.val
      BY <1>2, <1>10, <1>24, <2>1 DEF Ahead
    <3> QED BY <1>13, <3>1
  <2>2. ASSUME NEW f \in Held', DataFor(f, q), f.seqno >= e PROVE g < f.data.val
    BY <1>6, <1>13, <1>24, <2>1, <2>2 DEF Ahead
  <2>3. ASSUME NEW i \in 1..Len(child'[q].tx_buf) PROVE g < child'[q].tx_buf[i].data.val
    <3>1. CASE q = p
      <4>1. i \in 1..Len(b) /\ child'[q].tx_buf[i] = b[i]
        BY <1>20, <2>3, <3>1
      <4>2. PICK k \in 1..Len(buf) : b[i] = buf[k]
        BY <1>21, <4>1
      <4> QED BY <1>2, <1>24, <3>1, <4>1, <4>2 DEF Ahead
    <3>2. CASE q # p
      BY <1>5, <1>24, <2>3, <3>2 DEF Ahead
    <3> QED BY <3>1, <3>2
  <2> QED BY <2>2, <2>3 DEF Ahead, DataFor
<1> QED BY <1>16, <1>23, <1>24

-----------------------------------------------------------------------------
(* A new child *)

\* The next prefix is given, and its object has no packets: the JOIN_RESPONSE is held.
LEMMA JoinPlace ==
  ASSUME Base, NEW f \in Frame, JoinNew(f)
  PROVE  LET p == next_prefix
             x == FromRoot("JOIN_RESPONSE", f.src_addr, [kind |-> "prefix", val |-> p], 0)
         IN /\ p \in RootPrefixes /\ ~Given(p)
            /\ \A q \in RootPrefixes : Given(q)' <=> Given(q) \/ q = p
            /\ \A q : Given(q) => q \in RootPrefixes \ {p} /\ Given(q)' /\ child'[q] = child[q]
            /\ child'[p].tx_buf = << >> /\ child'[p].next_sn = 1
            /\ \A q \in RootPrefixes \ {p} : child'[q] = child[q]
            /\ x.command # "DATA" /\ x.src_addr.prefix = 1
            /\ x.data.kind = "prefix" /\ x.data.val = p
            /\ \A g \in Held' : g = x \/ g \in Held
<1>1. PICK p : p = next_prefix
  OBVIOUS
<1>2. PICK x : x = FromRoot("JOIN_RESPONSE", f.src_addr, [kind |-> "prefix", val |-> p], 0)
  OBVIOUS
<1>3. /\ p \in RootPrefixes /\ next_prefix' = p + 1
      /\ child'[p].tx_buf = << >> /\ child'[p].next_sn = 1 /\ child'[p].last_send_frame = x
      /\ \A q \in RootPrefixes \ {p} : child'[q] = child[q]
  BY <1>1, <1>2, JoinNewObjects DEF Base
<1>4. /\ x.command # "DATA" /\ x.src_addr.prefix = 1
      /\ x.data.kind = "prefix" /\ x.data.val = p
  BY <1>2 DEF FromRoot, RootAddr
<1>5. /\ phy_tx' \in {phy_tx, Append(phy_tx, x)} /\ rx'.pc # "send" /\ phy_tx \in Seq(Frame)
  BY <1>1, <1>2, TypeFacts DEF Base, JoinNew, PhySend, phyVars, Goto, Waiting, At
<1>6. ~Given(p) /\ \A q \in RootPrefixes : Given(q)' <=> Given(q) \/ q = p
  <2>1. p \in Nat /\ RootPrefixes \subseteq Nat
    BY <1>3, ConstantTypes
  <2> QED BY <1>1, <1>3, <2>1 DEF Given
<1>7. \A q : Given(q) => q \in RootPrefixes \ {p} /\ Given(q)' /\ child'[q] = child[q]
  BY <1>3, <1>6 DEF Given
<1>8. ASSUME NEW g \in Held', g # x PROVE g \in Held
  <2>1. CASE \E i \in 1..Len(phy_tx') : g = phy_tx'[i]
    <3>1. PICK i \in 1..Len(phy_tx') : g = phy_tx'[i]
      BY <2>1
    <3>2. CASE phy_tx' = phy_tx
      BY <3>1, <3>2, HeldFrames
    <3>3. CASE phy_tx' = Append(phy_tx, x)
      <4>1. i \in 1..Len(phy_tx) /\ phy_tx'[i] = phy_tx[i]
        BY <1>5, <1>8, <3>1, <3>3
      <4> QED BY <3>1, <4>1, HeldFrames
    <3> QED BY <1>5, <3>2, <3>3
  <2>2. CASE \E q \in RootPrefixes : g = child'[q].last_send_frame
    BY <1>3, <1>8, <2>2, HeldFrames
  <2> QED BY <1>5, <2>1, <2>2, HeldFramesNext
<1> QED BY <1>1, <1>2, <1>3, <1>4, <1>6, <1>7, <1>8

\* Nothing changes for the others.
LEMMA JoinTraffic ==
  ASSUME Base, NEW n \in Nat, Traffic(n), NEW f \in Frame, JoinNew(f), ThreadsGiven'
  PROVE  /\ Traffic(n)'
         /\ \A q : Given(q) => Given(q)' /\ child'[q] = child[q]
         /\ \A q : \A e, g : Given(q) /\ Ahead(q, e, g) => Ahead(q, e, g)'
<1>1. PICK p : p = next_prefix
  OBVIOUS
<1>2. PICK x : x = FromRoot("JOIN_RESPONSE", f.src_addr, [kind |-> "prefix", val |-> p], 0)
  OBVIOUS
<1>3. /\ child'[p].tx_buf = << >> /\ child'[p].next_sn = 1
      /\ \A q \in RootPrefixes \ {p} : child'[q] = child[q]
  BY <1>1, JoinPlace
<1>4. /\ x.command # "DATA" /\ x.src_addr.prefix = 1
      /\ x.data.kind = "prefix" /\ x.data.val = p
  BY <1>1, <1>2, JoinPlace
<1>5. p \in RootPrefixes
  BY <1>1, JoinPlace
<1>6. ~Given(p) /\ \A q \in RootPrefixes : Given(q)' <=> Given(q) \/ q = p
  BY <1>1, JoinPlace
<1>7. \A q : Given(q) => q \in RootPrefixes \ {p} /\ Given(q)' /\ child'[q] = child[q]
  BY <1>1, JoinPlace
<1>8. \A g \in Held' : g = x \/ g \in Held
  BY <1>1, <1>2, JoinPlace
<1>9. ASSUME NEW g, Proper(n, g) PROVE Proper(n, g)'
  BY <1>7, <1>9 DEF Proper
<1>10. ASSUME NEW g \in Held' PROVE Proper(n, g)' /\ Numbered(g)'
  <2>1. CASE g = x
    BY <1>3, <1>4, <1>5, <1>6, <2>1 DEF Proper, Numbered, DataFor
  <2>2. CASE g \in Held
    <3>1. Proper(n, g) /\ Numbered(g)
      BY <2>2 DEF Traffic
    <3>2. \A q : DataFor(g, q) => Given(q)' /\ g.seqno < child'[q].next_sn
      BY <1>7, <3>1 DEF Numbered
    <3> QED BY <1>9, <3>1, <3>2 DEF Numbered, DataFor
  <2> QED BY <1>8, <2>1, <2>2
<1>11. \A g, h \in Held' : InOrder(g, h)'
  <2>1. ASSUME NEW g \in Held', NEW h \in Held', NEW q, DataFor(g, q), DataFor(h, q),
               g.seqno < h.seqno
        PROVE  g.data.val < h.data.val
    <3>1. g \in Held /\ h \in Held
      BY <1>4, <1>8, <2>1 DEF DataFor
    <3> QED BY <2>1, <3>1 DEF Traffic, InOrder
  <2> QED BY <2>1 DEF InOrder, DataFor
<1>12. ASSUME NEW q \in RootPrefixes PROVE Buffered(n, q)'
  <2>1. CASE q = p
    <3>1. PICK b : b = child'[q].tx_buf
      OBVIOUS
    <3>2. b = << >> /\ Len(b) = 0
      BY <1>3, <2>1, <3>1
    <3>3. child'[q].next_sn = 1
      BY <1>3, <2>1
    <3> QED BY <3>1, <3>2, <3>3 DEF Buffered
  <2>2. CASE q # p
    <3>1. PICK b : b = child[q].tx_buf /\ b = child'[q].tx_buf
      BY <1>3, <2>2
    <3>2. Buffered(n, q) /\ child'[q].next_sn = child[q].next_sn
      BY <1>3, <2>2 DEF Traffic
    <3>3. /\ b # << >> => Given(q)'
          /\ Given(q)' => child'[q].next_sn >= 1
          /\ child'[q].next_sn + Len(b) <= n + 1
      BY <1>6, <2>2, <3>1, <3>2 DEF Buffered
    <3>4. ASSUME NEW i \in 1..Len(b)
          PROVE  /\ DataFor(b[i], q) /\ Proper(n, b[i])'
                 /\ \A g \in Held : DataFor(g, q) => g.data.val < b[i].data.val
                 /\ \A j \in 1..Len(b) : i < j => b[i].data.val < b[j].data.val
      BY <1>9, <3>1, <3>2 DEF Buffered
    <3>5. ~DataFor(x, q)
      BY <1>4 DEF DataFor
    <3>6. ASSUME NEW i \in 1..Len(b)
          PROVE  /\ DataFor(b[i], q) /\ Proper(n, b[i])'
                 /\ \A g \in Held' : DataFor(g, q) => g.data.val < b[i].data.val
                 /\ \A j \in 1..Len(b) : i < j => b[i].data.val < b[j].data.val
      BY <1>8, <3>4, <3>5
    <3> QED BY <3>1, <3>3, <3>6 DEF Buffered, DataFor
  <2> QED BY <2>1, <2>2
<1>13. Traffic(n)'
  BY <1>10, <1>11, <1>12 DEF Traffic
<1>14. ASSUME NEW q, NEW e, NEW g, Given(q), Ahead(q, e, g) PROVE Ahead(q, e, g)'
  <2>1. ASSUME NEW h \in Held', DataFor(h, q), h.seqno >= e PROVE g < h.data.val
    BY <1>4, <1>8, <1>14, <2>1 DEF Ahead, DataFor
  <2>2. child'[q] = child[q]
    BY <1>7, <1>14
  <2> QED BY <1>14, <2>1, <2>2 DEF Ahead, DataFor
<1> QED BY <1>7, <1>13, <1>14

\* Nothing is on its way at first.
LEMMA InitTraffic == ASSUME Init PROVE Traffic(0)
<1>1. \A f \in Held : f = NullFrame
  BY HeldFrames DEF Init, NewChild, Waiting, At
<1>2. \A p : ~Given(p)
  BY ConstantTypes, PrefixAssumption DEF Init, Given, RootPrefixes
<1>3. \A p \in RootPrefixes : child[p].tx_buf = << >> /\ child[p].next_sn = 0
  BY DEF Init, NewChild
<1>4. Proper(0, NullFrame) /\ \A p : ~DataFor(NullFrame, p)
  BY DEF Proper, DataFor, NullFrame, NoData
<1>5. ASSUME NEW p \in RootPrefixes PROVE Buffered(0, p)
  <2>1. PICK b : b = child[p].tx_buf
    OBVIOUS
  <2>2. b = << >> /\ Len(b) = 0
    BY <1>3, <2>1
  <2> QED BY <1>2, <1>3, <2>1, <2>2 DEF Buffered
<1>6. ThreadsGiven
  BY DEF Init, ThreadsGiven, Waiting, At
<1> QED BY <1>1, <1>4, <1>5, <1>6 DEF Traffic, Numbered, InOrder

-----------------------------------------------------------------------------
(* What the frames of the root carry *)

\* Every frame that the root has, held or in a buffer, is one it may send.
Loaded(n, p) == \A i \in 1..Len(child[p].tx_buf) : Proper(n, child[p].tx_buf[i])
Load(n) ==
  /\ \A f \in Held : Proper(n, f)
  /\ \A p \in RootPrefixes : Loaded(n, p)

LEMMA InitLoad == ASSUME Init PROVE Load(0)
<1>1. \A f \in Held : f = NullFrame
  BY HeldFrames DEF Init, NewChild, Waiting, At
<1>2. \A p \in RootPrefixes : Len(child[p].tx_buf) = 0
  BY DEF Init, NewChild
<1>3. Proper(0, NullFrame)
  BY DEF Proper, NullFrame, NoData
<1> QED BY <1>1, <1>2, <1>3 DEF Load, Loaded

LEMMA QuietLoad == ASSUME NEW n, Load(n), HeldCopies, BuffersKept PROVE Load(n)'
<1>1. \A f : Proper(n, f) => Proper(n, f)'
  BY DEF BuffersKept, Proper, Given
<1>2. ASSUME NEW f \in Held' PROVE Proper(n, f)'
  <2>1. CASE Quiet(f)
    BY <2>1 DEF Quiet, Proper, NoData
  <2>2. ASSUME NEW g \in Held, Same(f, g) PROVE Proper(n, f)'
    <3>1. Proper(n, g)
      BY DEF Load
    <3>2. Proper(n, f)
      BY <2>2, <3>1 DEF Same, Proper
    <3> QED BY <1>1, <3>2
  <2> QED BY <2>1, <2>2 DEF HeldCopies
<1>3. ASSUME NEW p \in RootPrefixes PROVE Loaded(n, p)'
  <2>1. PICK b : b = child'[p].tx_buf /\ b = child[p].tx_buf
    BY DEF BuffersKept
  <2>2. \A i \in 1..Len(b) : Proper(n, b[i])'
    BY <1>1, <2>1 DEF Load, Loaded
  <2> QED BY <2>1, <2>2 DEF Loaded, Proper
<1> QED BY <1>2, <1>3 DEF Load

LEMMA JoinLoad ==
  ASSUME Base, NEW n, Load(n), NEW f \in Frame, JoinNew(f) PROVE Load(n)'
<1>1. PICK p : p = next_prefix
  OBVIOUS
<1>2. PICK x : x = FromRoot("JOIN_RESPONSE", f.src_addr, [kind |-> "prefix", val |-> p], 0)
  OBVIOUS
<1>3. /\ child'[p].tx_buf = << >>
      /\ \A q \in RootPrefixes \ {p} : child'[q] = child[q]
      /\ \A q : Given(q) => Given(q)'
      /\ p \in RootPrefixes /\ Given(p)'
  BY <1>1, JoinPlace
<1>4. x.command # "DATA" /\ x.src_addr.prefix = 1 /\ x.data.kind = "prefix" /\ x.data.val = p
  BY <1>1, <1>2, JoinPlace
<1>5. \A g \in Held' : g = x \/ g \in Held
  BY <1>1, <1>2, JoinPlace
<1>6. ASSUME NEW g, Proper(n, g) PROVE Proper(n, g)'
  BY <1>3, <1>6 DEF Proper
<1>7. Proper(n, x)'
  BY <1>3, <1>4 DEF Proper
<1>8. \A g \in Held' : Proper(n, g)'
  BY <1>5, <1>6, <1>7 DEF Load
<1>9. ASSUME NEW q \in RootPrefixes PROVE Loaded(n, q)'
  <2>1. PICK b : b = child'[q].tx_buf
    OBVIOUS
  <2>2. CASE q = p
    BY <1>3, <2>1, <2>2 DEF Loaded
  <2>3. CASE q # p
    <3>1. \A i \in 1..Len(b) : Proper(n, b[i])
      BY <1>3, <2>1, <2>3 DEF Load, Loaded
    <3>2. \A i \in 1..Len(b) : Proper(n, b[i])'
      BY <1>6, <3>1
    <3> QED BY <2>1, <3>2 DEF Loaded, Proper
  <2> QED BY <2>2, <2>3
<1> QED BY <1>8, <1>9 DEF Load

LEMMA TakeLoad == ASSUME TypeOK, NEW n, Load(n), AnswerTake PROVE Load(n)'
<1>1. PICK p : p = rx.child
  OBVIOUS
<1>2. PICK buf : buf = child[p].tx_buf
  OBVIOUS
<1>3. PICK t : t = Taken(p)
  OBVIOUS
<1>4. /\ p \in RootPrefixes
      /\ buf # << >> /\ buf \in Seq(Frame)
      /\ Numbers(t, buf[1], child[p].next_sn)
      /\ \A q \in RootPrefixes : q # p => child'[q] = child[q]
      /\ child'[p].tx_buf = Tail(buf)
  BY <1>1, <1>2, <1>3, TakePlace
<1>5. /\ next_prefix' = next_prefix
      /\ \A f : f \in Held' <=> f \in Held \/ f = t
  BY <1>1, <1>3, TakePlace
<1>6. ASSUME NEW f, Proper(n, f) PROVE Proper(n, f)'
  BY <1>5, <1>6 DEF Proper, Given
<1>7. \A i \in 1..Len(buf) : Proper(n, buf[i])
  BY <1>2, <1>4 DEF Load, Loaded
<1>8. Proper(n, t)
  <2>1. 1 \in 1..Len(buf)
    BY <1>4
  <2>2. Proper(n, buf[1])
    BY <1>7, <2>1
  <2> QED BY <1>4, <2>2 DEF Numbers, Proper
<1>9. \A f \in Held' : Proper(n, f)'
  BY <1>5, <1>6, <1>8 DEF Load
<1>10. ASSUME NEW q \in RootPrefixes PROVE Loaded(n, q)'
  <2>1. PICK b : b = child'[q].tx_buf
    OBVIOUS
  <2>2. ASSUME NEW i \in 1..Len(b) PROVE Proper(n, b[i])
    <3>1. CASE q = p
      <4>1. b = Tail(buf)
        BY <1>4, <2>1, <3>1
      <4>2. i + 1 \in 1..Len(buf) /\ b[i] = buf[i + 1]
        BY <1>4, <2>2, <4>1
      <4> QED BY <1>7, <4>2
    <3>2. CASE q # p
      BY <1>4, <2>1, <3>2 DEF Load, Loaded
    <3> QED BY <3>1, <3>2
  <2>3. \A i \in 1..Len(b) : Proper(n, b[i])'
    BY <1>6, <2>2
  <2> QED BY <2>1, <2>3 DEF Loaded, Proper
<1> QED BY <1>9, <1>10 DEF Load

LEMMA PutLoad ==
  ASSUME TypeOK, NEW n \in Nat, Load(n), NEW m, m = n + 1, NEW p \in RootPrefixes,
         NEW dest, PutObjects(p, Carrying(m, dest)), UNCHANGED <<next_prefix, rx, phy_tx>>
  PROVE  Load(m)'
<1>1. PICK x : x = Carrying(m, dest)
  OBVIOUS
<1>2. /\ \A q \in RootPrefixes : /\ child'[q].last_send_frame = child[q].last_send_frame
                                 /\ q # p => child'[q].tx_buf = child[q].tx_buf
      /\ child'[p].tx_buf = Append(child[p].tx_buf, x)
  BY <1>1 DEF PutObjects
<1>3. Held' = Held
  BY <1>2, HeldFrames, HeldFramesNext
<1>4. ASSUME NEW f, Proper(n, f) PROVE Proper(m, f)'
  BY <1>4 DEF Proper, Given
<1>5. Proper(m, x)'
  BY <1>1 DEF Carrying, FromRoot, Proper, RootAddr
<1>6. child[p].tx_buf \in Seq(Frame)
  BY TypeFacts DEF Object, ChildType
<1>7. ASSUME NEW q \in RootPrefixes PROVE Loaded(m, q)'
  <2>1. PICK b : b = child'[q].tx_buf
    OBVIOUS
  <2>2. PICK c : c = child[q].tx_buf
    OBVIOUS
  <2>3. \A i \in 1..Len(c) : Proper(m, c[i])'
    BY <1>4, <2>2 DEF Load, Loaded
  <2>4. ASSUME NEW i \in 1..Len(b) PROVE b[i] = x \/ (i \in 1..Len(c) /\ b[i] = c[i])
    <3>1. CASE q = p
      <4>1. b = Append(c, x) /\ c \in Seq(Frame)
        BY <1>2, <1>6, <2>1, <2>2, <3>1
      <4>2. i = Len(c) + 1 \/ i \in 1..Len(c)
        BY <2>4, <4>1
      <4>3. i = Len(c) + 1 => b[i] = x
        BY <4>1
      <4>4. i \in 1..Len(c) => b[i] = c[i]
        BY <4>1
      <4> QED BY <4>2, <4>3, <4>4
    <3>2. CASE q # p
      BY <1>2, <2>1, <2>2, <2>4, <3>2
    <3> QED BY <3>1, <3>2
  <2>5. \A i \in 1..Len(b) : Proper(m, b[i])'
    BY <1>5, <2>3, <2>4
  <2> QED BY <2>1, <2>5 DEF Loaded, Proper
<1>8. \A f \in Held' : Proper(m, f)'
  BY <1>3, <1>4 DEF Load
<1> QED BY <1>7, <1>8 DEF Load

-----------------------------------------------------------------------------
(* The root in a network: its steps, by what they mean for the other end *)

\* It answers and transmits, an application thread looks its child up, or nothing
\* happens.
LocalStep == \/ Deliver \/ AnswerAck \/ AnswerTake \/ AnswerSend \/ PhyTransmit
             \/ (\E a \in senders : SenderCall(a)) \/ UNCHANGED vars

\* An application thread hands over packet m.
HandsOver(m, a) ==
  /\ a \in senders /\ SenderPut(a)
  /\ child'[a.prefix].tx_buf[Len(child'[a.prefix].tx_buf)].data.val = m

\* The prefixes that are given stay given, and the numbers of their children go up.
Grows == \A q : Given(q) => Given(q)' /\ child[q].next_sn <= child'[q].next_sn

\* What comes after the packet g does so after the step.
StaysAhead(n) ==
  \A q : Given(q) => \A e, g : g \in 0..n /\ Ahead(q, e, g) => Ahead(q, e, g)'

LEMMA BaseFrame == ASSUME Base, NEW f \in Frame, RxFrame(f) PROVE Base'
<1>1. TypeOK'
  BY ChildFrameType, OtherFrameType, JoinType DEF Base, RxFrame
<1> QED BY <1>1, RxFrameControl, RxFramePrefixes DEF Base

LEMMA BaseOther ==
  ASSUME Base, RxStep \/ AppStep \/ PhyTransmit \/ UNCHANGED vars PROVE Base'
<1>1. TypeOK' /\ SendersPlaced'
  BY RxStepType, OtherType, RxStepControl DEF Base
<1>2. AnswersSource'
  <2>1. CASE RxStep
    BY <2>1, RxStepControl
  <2>2. CASE AppStep \/ PhyTransmit \/ UNCHANGED vars
    BY <2>2 DEF Base, AnswersSource, AppStep, SenderCall, SenderPut, PhyTransmit, vars
  <2> QED BY <2>1, <2>2
<1>3. PrefixesGiven'
  <2>1. UNCHANGED <<next_prefix, childs>>
    BY DEF RxStep, Deliver, PongPut, AnswerAck, AnswerTake, AnswerSend, AppStep, SenderCall,
           SenderPut, PhyTransmit, vars
  <2> QED BY <2>1 DEF Base, PrefixesGiven
<1> QED BY <1>1, <1>2, <1>3 DEF Base

LEMMA LocalOther ==
  ASSUME LocalStep PROVE RxStep \/ AppStep \/ PhyTransmit \/ UNCHANGED vars
BY DEF LocalStep, RxStep, AppStep

LEMMA BaseLocal == ASSUME Base, LocalStep PROVE Base'
BY LocalOther, BaseOther

LEMMA BaseHandsOver == ASSUME Base, NEW m, NEW a, HandsOver(m, a) PROVE Base'
BY BaseOther DEF HandsOver, AppStep

\* What a step that only repeats means for the other end.
LEMMA QuietGrows ==
  ASSUME TypeOK, HeldCopies, BuffersKept PROVE Grows /\ \A n : StaysAhead(n)
<1>1. ASSUME NEW q, Given(q)
      PROVE  q \in RootPrefixes /\ Given(q)' /\ child'[q].next_sn = child[q].next_sn
             /\ child[q].next_sn \in Nat
  BY <1>1, TypeFacts, SeqModAssumption DEF Given, BuffersKept, Object, ChildType, Seqno
<1>2. Grows
  BY <1>1 DEF Grows
<1>3. ASSUME NEW n, NEW q, Given(q), NEW e, NEW g, Ahead(q, e, g) PROVE Ahead(q, e, g)'
  BY <1>1, <1>3, QuietAhead
<1> QED BY <1>2, <1>3 DEF StaysAhead

LEMMA LoadFrame ==
  ASSUME Base, NEW n, Load(n), NEW f \in Frame, RxFrame(f) PROVE Load(n)'
BY RxFrameQuiet, QuietLoad, JoinLoad DEF Base

LEMMA LoadLocal == ASSUME Base, NEW n, Load(n), LocalStep PROVE Load(n)'
<1>1. AnswerTake \/ (HeldCopies /\ BuffersKept)
  BY AnswerQuiet, OtherQuiet DEF Base, LocalStep
<1> QED BY <1>1, TakeLoad, QuietLoad DEF Base

\* What is handed over, and where it goes.
LEMMA HandsOverPlace ==
  ASSUME Base, NEW m, NEW a, HandsOver(m, a)
  PROVE  /\ a.prefix \in RootPrefixes /\ PutObjects(a.prefix, Carrying(m, a))
         /\ UNCHANGED <<next_prefix, rx, phy_tx>>
<1>1. PICK p : p = a.prefix
  OBVIOUS
<1>2. p \in RootPrefixes
  BY <1>1 DEF Base, SendersPlaced, HandsOver, SenderPut
<1>3. PICK r \in Replies : child' = [child EXCEPT ![p].tx_buf = Append(@, Carrying(r, a))]
  BY <1>1 DEF HandsOver, SenderPut, Put, Carrying
<1>4. PICK x : x = Carrying(r, a)
  OBVIOUS
<1>5. PutObjects(p, x)
  BY <1>2, <1>3, <1>4, PutPlace DEF Base
<1>6. child'[p].tx_buf[Len(child'[p].tx_buf)] = x
  <2>1. child[p].tx_buf \in Seq(Frame)
    BY <1>2, TypeFacts DEF Base, Object, ChildType
  <2>2. PICK b : b = child[p].tx_buf
    OBVIOUS
  <2>3. child'[p].tx_buf = Append(b, x) /\ b \in Seq(Frame)
    BY <1>5, <2>1, <2>2 DEF PutObjects
  <2>4. Append(b, x)[Len(Append(b, x))] = x
    BY <2>3
  <2> QED BY <2>3, <2>4
<1>7. r = m
  BY <1>1, <1>4, <1>6 DEF HandsOver, Carrying, FromRoot
<1> QED BY <1>1, <1>2, <1>4, <1>5, <1>7 DEF HandsOver, SenderPut, phyVars

LEMMA LoadHandsOver ==
  ASSUME Base, NEW n \in Nat, Load(n), NEW m, m = n + 1, NEW a, HandsOver(m, a) PROVE Load(m)'
BY HandsOverPlace, PutLoad DEF Base

LEMMA TrafficFrame ==
  ASSUME Base, NEW n \in Nat, Traffic(n), NEW f \in Frame, RxFrame(f)
  PROVE  Traffic(n)' /\ Grows /\ StaysAhead(n)
<1>1. ThreadsGiven'
  BY RxFrameThreads DEF Traffic
<1>2. CASE JoinNew(f)
  <2>1. \A q : Given(q) => child[q].next_sn \in Nat
    BY TypeFacts, SeqModAssumption DEF Base, Given, Object, ChildType, Seqno
  <2> QED BY <1>1, <1>2, <2>1, JoinTraffic DEF Grows, StaysAhead
<1>3. CASE ~JoinNew(f)
  BY <1>1, <1>3, RxFrameQuiet, QuietTraffic, QuietGrows DEF Base
<1> QED BY <1>2, <1>3

LEMMA TrafficLocal ==
  ASSUME Base, NEW n \in Nat, n + 2 <= SeqMod, Traffic(n), LocalStep
  PROVE  Traffic(n)' /\ Grows /\ StaysAhead(n)
<1>1. ThreadsGiven'
  BY LocalOther, OtherThreads DEF Traffic
<1>2. AnswerTake \/ (HeldCopies /\ BuffersKept)
  BY AnswerQuiet, OtherQuiet DEF Base, LocalStep
<1>3. CASE AnswerTake
  <2>1. \A q : Given(q)' <=> Given(q)
    BY <1>3 DEF AnswerTake, Given
  <2> QED BY <1>1, <1>3, <2>1, TakeTraffic DEF Base, Grows, StaysAhead, Given
<1>4. CASE HeldCopies /\ BuffersKept
  BY <1>1, <1>4, QuietTraffic, QuietGrows DEF Base
<1> QED BY <1>2, <1>3, <1>4

LEMMA TrafficHandsOver ==
  ASSUME Base, NEW n \in Nat, Traffic(n), NEW m, m = n + 1, NEW a, HandsOver(m, a)
  PROVE  Traffic(m)' /\ Grows /\ StaysAhead(n)
<1>1. ThreadsGiven'
  BY OtherThreads DEF Traffic, HandsOver, AppStep
<1>2. PICK p : p = a.prefix
  OBVIOUS
<1>3. /\ p \in RootPrefixes /\ PutObjects(p, Carrying(m, a))
      /\ UNCHANGED <<next_prefix, rx, phy_tx>>
  BY <1>2, HandsOverPlace
<1>4. Given(p)
  BY <1>2 DEF Traffic, ThreadsGiven, HandsOver, SenderPut
<1>5. /\ Traffic(m)'
      /\ \A q \in RootPrefixes : \A e, g : g \in 0..n /\ Ahead(q, e, g) => Ahead(q, e, g)'
  BY <1>1, <1>2, <1>3, <1>4, PutTraffic DEF Base
<1>6. \A q : Given(q) => q \in RootPrefixes /\ Given(q)' /\ child[q].next_sn \in Nat
                         /\ child'[q].next_sn = child[q].next_sn
  BY <1>3, TypeFacts, SeqModAssumption
     DEF Base, Given, PutObjects, Object, ChildType, Seqno
<1> QED BY <1>5, <1>6 DEF Grows, StaysAhead

-----------------------------------------------------------------------------
(* What the node is about to receive *)

\* The frame that is transmitted next is held.
LEMMA HeadHeld == ASSUME TypeOK, phy_tx # << >> PROVE Head(phy_tx) \in Held
<1>1. 1 \in 1..Len(phy_tx) /\ Head(phy_tx) = phy_tx[1]
  BY TypeFacts
<1> QED BY <1>1, HeldFrames

\* What is left after a frame that is received comes after its packet ...
LEMMA PastAhead ==
  ASSUME TypeOK, NEW n, Traffic(n), NEW p \in RootPrefixes, NEW f \in Held, DataFor(f, p),
         NEW e, e = f.seqno + 1
  PROVE  Ahead(p, e, f.data.val)
<1>1. \A h \in Held : h.seqno \in Nat
  BY HeldType, SeqModAssumption DEF Frame, Seqno
<1>2. ASSUME NEW h \in Held, DataFor(h, p), h.seqno >= e PROVE f.data.val < h.data.val
  <2>1. f.seqno < h.seqno
    BY <1>1, <1>2
  <2>2. InOrder(f, h)
    BY DEF Traffic
  <2> QED BY <1>2, <2>1, <2>2 DEF InOrder
<1>3. \A i \in 1..Len(child[p].tx_buf) : f.data.val < child[p].tx_buf[i].data.val
  BY DEF Traffic, Buffered
<1> QED BY <1>2, <1>3 DEF Ahead

\* ... and after no packet at all when there was none.
LEMMA FirstAhead ==
  ASSUME NEW n, Traffic(n), NEW p \in RootPrefixes, NEW e PROVE Ahead(p, e, 0)
<1>1. \A f \in Held : DataFor(f, p) => 0 < f.data.val
  BY DEF Traffic, Proper, DataFor
<1>2. ASSUME NEW i \in 1..Len(child[p].tx_buf) PROVE 0 < child[p].tx_buf[i].data.val
  BY DEF Traffic, Buffered, Proper, DataFor
<1> QED BY <1>1, <1>2 DEF Ahead

LEMMA LaterAhead ==
  ASSUME TypeOK, NEW p, NEW e \in Nat, NEW d \in Nat, d >= e, NEW g, Ahead(p, e, g)
  PROVE  Ahead(p, d, g)
<1>1. \A h \in Held : h.seqno \in Nat
  BY HeldType, SeqModAssumption DEF Frame, Seqno
<1> QED BY <1>1 DEF Ahead

\* The thread delivers the frame that it has just received.
LEMMA DeliverKept == ASSUME LocalStep, rx'.pc = "deliver" PROVE rx' = rx
BY DEF LocalStep, Deliver, AnswerAck, AnswerTake, AnswerSend, PhyTransmit, SenderCall, vars,
       AfterDelivery, PhySend, Goto, Listen, Waiting, At

LEMMA DeliverHandsOver == ASSUME NEW m, NEW a, HandsOver(m, a) PROVE rx' = rx
BY DEF HandsOver, SenderPut
=============================================================================

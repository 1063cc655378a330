----------------------------- MODULE LoraRootProofs -----------------------------
(***************************************************************************)
(* The MAC of the root: the types, the two dictionaries, the announced     *)
(* frames and the numbers of LoraRoot, proved for every number of          *)
(* prefixes, nodes and sequence numbers, for every size of the buffers and *)
(* for every frame that may be received.                                   *)
(***************************************************************************)
EXTENDS LoraRoot, TLAPS

-----------------------------------------------------------------------------
(* The helpers keep the types *)

\* A child object whose buffer is within its size, and the places of the thread.
Object == {c \in ChildType : Len(c.tx_buf) <= TxBufSize}
Thread == [pc : RxPc, frame : Frame, child : RootPrefixes]

\* An application thread calls mac_send with the address of a child.
SendersPlaced == \A a \in sender : a.prefix \in RootPrefixes

\* The thread delivers and answers for the child that sent the frame.
AnswersSource == rx.pc \in {"deliver", "put", "answer"} => Source(rx.frame) = rx.child

\* The types, as the proofs use them: before a step, and after it.
LEMMA TypeFacts ==
  TypeOK <=>
    /\ mode \in Modes
    /\ next_prefix \in MinPrefix..(MaxPrefix + 1)
    /\ childs \subseteq RootPrefixes
    /\ DOMAIN not_joined_childs \subseteq Prefixes \cup {0}
    /\ not_joined_childs \in [DOMAIN not_joined_childs -> RootPrefixes]
    /\ child \in [RootPrefixes -> Object]
    /\ senders \subseteq Addr /\ sender \subseteq senders
    /\ rx \in Thread
    /\ phy_tx \in Seq(Frame) /\ Len(phy_tx) <= PhyBufSize
    /\ tx_lock \in BOOLEAN
<1>1. child \in [RootPrefixes -> Object] <=>
        child \in [RootPrefixes -> ChildType]
        /\ \A p \in RootPrefixes : Len(child[p].tx_buf) <= TxBufSize
  BY DEF Object
<1> QED BY <1>1 DEF TypeOK, Thread

\* What a step has to show, variable by variable, to keep the types.
LEMMA TypeFactsNext ==
  ASSUME mode' \in Modes, next_prefix' \in MinPrefix..(MaxPrefix + 1),
         childs' \subseteq RootPrefixes,
         DOMAIN not_joined_childs' \subseteq Prefixes \cup {0},
         not_joined_childs' \in [DOMAIN not_joined_childs' -> RootPrefixes],
         child' \in [RootPrefixes -> Object],
         senders' \subseteq Addr, sender' \subseteq senders', rx' \in Thread,
         phy_tx' \in Seq(Frame), Len(phy_tx') <= PhyBufSize, tx_lock' \in BOOLEAN
  PROVE  TypeOK'
<1>1. child' \in [RootPrefixes -> ChildType]
      /\ \A p \in RootPrefixes : Len(child'[p].tx_buf) <= TxBufSize
  BY DEF Object
<1> QED BY <1>1 DEF TypeOK, Thread

\* The constant frames and addresses are of their types.
LEMMA ConstantTypes ==
  /\ RootAddr \in Addr /\ NullFrame \in Frame /\ NoData \in Data
  /\ 0 \in Seqno /\ 1 \in Seqno
  /\ MinPrefix \in RootPrefixes /\ RootPrefixes \subseteq Prefixes
  /\ RootPrefixes \subseteq Nat
BY SeqModAssumption, AddressAssumption, PrefixAssumption
   DEF RootAddr, NullAddr, Addr, NullFrame, Frame, NoData, Data, Seqno, Command, RootPrefixes

\* Counting modulo SeqMod stays in Seqno.
LEMMA SeqnoSucc == ASSUME NEW s \in Seqno PROVE (s + 1) % SeqMod \in Seqno
BY SeqModAssumption DEF Seqno

\* The expectation that compare_update_expected_sn leaves is a number.
LEMMA CompareType ==
  ASSUME NEW e \in Seqno, NEW sn \in Seqno
  PROVE  Compare(e, sn).expected \in Seqno
BY SeqnoSucc DEF Compare

\* The frames of the root are frames.
LEMMA FromRootType ==
  ASSUME NEW command \in Command, NEW dest \in Addr, NEW data \in Data, NEW s \in Seqno
  PROVE  FromRoot(command, dest, data, s) \in Frame
BY ConstantTypes DEF FromRoot, Frame

\* The thread may be at every place with a frame and a child.
LEMMA AtType ==
  /\ Waiting \in Thread
  /\ At("dead", NullFrame, MinPrefix) \in Thread
  /\ At("deaf", NullFrame, MinPrefix) \in Thread
  /\ At("blocked", NullFrame, MinPrefix) \in Thread
  /\ \A f \in Frame, p \in RootPrefixes, pc \in RxPc : At(pc, f, p) \in Thread
BY ConstantTypes DEF At, Waiting, Thread, RxPc

\* Replacing one object leaves a table of objects.
LEMMA UpdatedType ==
  ASSUME TypeOK, NEW p \in RootPrefixes, NEW c \in Object
  PROVE  Updated(p, c) \in [RootPrefixes -> Object]
BY TypeFacts DEF Updated

\* phy_send keeps the types when what it is given has them.
LEMMA PhySendType ==
  ASSUME TypeOK, NEW f \in Frame, NEW next \in Thread,
         NEW before \in [RootPrefixes -> Object], NEW after \in [RootPrefixes -> Object],
         PhySend(f, before, after, next)
  PROVE  /\ child' \in [RootPrefixes -> Object] /\ rx' \in Thread
         /\ phy_tx' \in Seq(Frame) /\ Len(phy_tx') <= PhyBufSize /\ tx_lock' \in BOOLEAN
<1>1. phy_tx \in Seq(Frame) /\ Len(phy_tx) <= PhyBufSize /\ PhyBufSize \in Nat
      /\ tx_lock \in BOOLEAN
  BY TypeFacts, BoundAssumption
<1>2. CASE tx_lock
  BY <1>1, <1>2, AtType DEF PhySend, Goto, phyVars
<1>3. CASE ~tx_lock
  <2>1. phy_tx' \in Seq(Frame) /\ Len(phy_tx') <= PhyBufSize
    BY <1>1, <1>3 DEF PhySend
  <2> QED BY <1>3, <2>1 DEF PhySend
<1> QED BY <1>2, <1>3

\* The object of a known child, and what the number 1 makes of it.
LEMMA SenderType ==
  ASSUME TypeOK, NEW f \in Frame, Known(f)
  PROVE  /\ Source(f) \in RootPrefixes
         /\ Sender(f) \in Object
         /\ Sender(f).node_id = child[Source(f)].node_id
         /\ Sender(f).expected_sn = child[Source(f)].expected_sn
         /\ Sender(f).last_send_frame = child[Source(f)].last_send_frame
         /\ Sender(f).tx_buf = child[Source(f)].tx_buf
         /\ Sender(f).next_sn = child[Source(f)].next_sn
<1>1. Source(f) \in RootPrefixes /\ child[Source(f)] \in Object
  BY TypeFacts DEF Known
<1>2. CASE Completes(f)
  BY <1>1, <1>2, BoundAssumption DEF Sender, Object, ChildType
<1>3. CASE ~Completes(f)
  BY <1>1, <1>3 DEF Sender
<1> QED BY <1>1, <1>2, <1>3

\* Removing an entry of not_joined_childs.
LEMMA WithoutType ==
  ASSUME TypeOK, NEW key
  PROVE  /\ DOMAIN Without(key) \subseteq Prefixes \cup {0}
         /\ Without(key) \in [DOMAIN Without(key) -> RootPrefixes]
         /\ DOMAIN Without(key) = DOMAIN not_joined_childs \ {key}
         /\ \A k \in DOMAIN Without(key) : Without(key)[k] = not_joined_childs[k]
BY TypeFacts DEF Without

\* The end of a join leaves a dictionary.
LEMMA MarkJoinedType ==
  ASSUME TypeOK, NEW f, MarkJoined(f)
  PROVE  /\ DOMAIN not_joined_childs' \subseteq Prefixes \cup {0}
         /\ not_joined_childs' \in [DOMAIN not_joined_childs' -> RootPrefixes]
         /\ DOMAIN not_joined_childs' \subseteq DOMAIN not_joined_childs
         /\ \A k \in DOMAIN not_joined_childs' : not_joined_childs'[k] = not_joined_childs[k]
BY WithoutType, TypeFacts DEF MarkJoined

-----------------------------------------------------------------------------
(* The numbers *)

\* The number after each number.
LEMMA NextSeqno ==
  ASSUME NEW s \in Seqno
  PROVE  /\ s \in Nat /\ s < SeqMod
         /\ s # SeqMod - 1 => (s + 1) % SeqMod = s + 1
         /\ s = SeqMod - 1 => (s + 1) % SeqMod = 0
<1>1. s \in Nat /\ SeqMod \in Nat /\ s < SeqMod /\ SeqMod > 1
  BY SeqModAssumption DEF Seqno
<1>2. ASSUME s # SeqMod - 1 PROVE (s + 1) % SeqMod = s + 1
  BY <1>1, <1>2
<1>3. ASSUME s = SeqMod - 1 PROVE (s + 1) % SeqMod = 0
  BY <1>1, <1>3
<1> QED BY <1>1, <1>2, <1>3

\* compare_update_expected_sn accepts no number that was just accepted: r is not
\* negative for the expected number, or for the last one when 0 is not expected.
LEMMA CompareFresh ==
  ASSUME NEW e \in Seqno, NEW sn \in Seqno, Compare(e, sn).r >= 0
  PROVE  (sn + 1) % SeqMod # e
<1>1. CASE sn = e
  BY <1>1, NextSeqno, SeqModAssumption
<1>2. CASE sn < e \/ (e = 0 /\ sn = SeqMod - 1)
  <2>1. sn # e
    BY <1>2, NextSeqno, SeqModAssumption
  <2>2. Compare(e, sn).r = -1
    BY <1>2, <2>1 DEF Compare
  <2> QED BY <2>2
<1>3. CASE sn # e /\ ~(sn < e) /\ ~(e = 0 /\ sn = SeqMod - 1)
  <2> DEFINE updated == (sn + 1) % SeqMod
  <2>1. Compare(e, sn) = [expected |-> updated, r |-> sn - updated]
    BY <1>3, Zenon DEF Compare
  <2>2. sn = SeqMod - 1
    <3>1. sn \in Nat /\ updated \in Int /\ sn - updated >= 0
      BY <2>1, NextSeqno, SeqnoSucc DEF Seqno
    <3>2. sn # SeqMod - 1 => updated = sn + 1
      BY NextSeqno
    <3> HIDE DEF updated
    <3> QED BY <3>1, <3>2
  <2>3. (sn + 1) % SeqMod = 0 /\ e # 0
    BY <1>3, <2>2, NextSeqno
  <2> QED BY <2>3
<1> QED BY <1>1, <1>2, <1>3

-----------------------------------------------------------------------------
(* Type correctness *)

\* The parts of a received frame, and the address of a child.
LEMMA FrameParts ==
  ASSUME TypeOK, NEW f \in Frame
  PROVE  /\ f.src_addr \in Addr /\ f.seqno \in Seqno /\ f.command \in Command
         /\ Source(f) \in Prefixes \cup {0} /\ f.src_addr.id \in Hosts \cup {0}
         /\ \A p \in RootPrefixes : ChildAddr(p) \in Addr
         /\ Known(f) => Source(f) \in RootPrefixes
         /\ Source(f) \in RootPrefixes => Ack(f) \in Frame
<1>1. /\ f.src_addr \in Addr /\ f.seqno \in Seqno /\ f.command \in Command
      /\ Source(f) \in Prefixes \cup {0} /\ f.src_addr.id \in Hosts \cup {0}
  BY DEF Frame, Addr, Source
<1>2. ASSUME NEW p \in RootPrefixes PROVE ChildAddr(p) \in Addr
  <2>1. child[p].node_id \in Hosts \cup {0} /\ p \in Prefixes
    BY TypeFacts, ConstantTypes DEF Object, ChildType
  <2> QED BY <2>1 DEF ChildAddr, Addr
<1>3. Known(f) => Source(f) \in RootPrefixes
  BY TypeFacts DEF Known
<1>4. ASSUME Source(f) \in RootPrefixes PROVE Ack(f) \in Frame
  <2>1. "ACK" \in Command
    BY DEF Command
  <2> QED BY <1>1, <1>2, <1>4, <2>1, FromRootType, ConstantTypes DEF Ack
<1> QED BY <1>1, <1>2, <1>3, <1>4

\* The frames that the handlers of a child's frames keep, before they answer.
LEMMA AcceptedType ==
  ASSUME TypeOK, NEW f \in Frame, Known(f)
  PROVE  LET c == [Sender(f) EXCEPT !.expected_sn = Verdict(f).expected]
         IN /\ c \in Object
            /\ c.node_id = child[Source(f)].node_id /\ c.tx_buf = child[Source(f)].tx_buf
            /\ c.next_sn = child[Source(f)].next_sn
            /\ c.last_send_frame = child[Source(f)].last_send_frame
<1>1. Verdict(f).expected \in Seqno
  <2>1. Sender(f).expected_sn \in Seqno
    BY SenderType DEF Object, ChildType
  <2> QED BY <2>1, FrameParts, CompareType DEF Verdict
<1> QED BY <1>1, SenderType DEF Object, ChildType

\* What no handler of a received frame changes.
LEMMA RxFrameKeeps ==
  ASSUME NEW f, RxFrame(f)
  PROVE  UNCHANGED <<mode, sender, senders>> /\ rx.pc = "get"
BY DEF RxFrame, Misaddressed, IgnoreFrame, UnknownCommand, Retransmit, AcceptQuery,
       AcceptData, JoinIgnored,
       JoinAgain, JoinGiveUp, JoinFull, JoinNew, ReceiveFromChild, JoinAccepted, ReceiveJoin,
       Receive

\* The handlers of the frames of children keep the types.
LEMMA ChildFrameType ==
  ASSUME TypeOK, NEW f \in Frame,
         Retransmit(f) \/ AcceptQuery(f) \/ AcceptData(f)
  PROVE  TypeOK'
<1>1. /\ Known(f) /\ MarkJoined(f)
      /\ UNCHANGED <<next_prefix, childs, mode, sender, senders>>
  BY DEF Retransmit, AcceptQuery, AcceptData, ReceiveFromChild
<1> DEFINE p == Source(f)
           c == [Sender(f) EXCEPT !.expected_sn = Verdict(f).expected]
<1>2. p \in RootPrefixes /\ c \in Object /\ Ack(f) \in Frame
  BY <1>1, AcceptedType, FrameParts
<1>3. Updated(p, c) \in [RootPrefixes -> Object]
  BY <1>2, UpdatedType
<1> SUFFICES /\ child' \in [RootPrefixes -> Object] /\ rx' \in Thread
             /\ phy_tx' \in Seq(Frame) /\ Len(phy_tx') <= PhyBufSize
             /\ tx_lock' \in BOOLEAN
  BY <1>1, TypeFacts, TypeFactsNext, MarkJoinedType
<1>4. CASE Retransmit(f)
  <2>1. CASE child' = Updated(p, c) /\ Listen /\ UNCHANGED phyVars
    BY <1>3, <2>1, AtType, TypeFacts DEF Listen, phyVars
  <2>2. CASE /\ c.transmit_count < MaxRetransmit
             /\ PhySend(c.last_send_frame, Updated(p, c),
                        Updated(p, [c EXCEPT !.transmit_count = @ + 1]), Waiting)
    <3>1. [c EXCEPT !.transmit_count = @ + 1] \in Object /\ c.last_send_frame \in Frame
      <4> HIDE DEF c
      <4> QED BY <1>2, <2>2, BoundAssumption DEF Object, ChildType
    <3>2. Updated(p, [c EXCEPT !.transmit_count = @ + 1]) \in [RootPrefixes -> Object]
      BY <1>2, <3>1, UpdatedType
    <3> HIDE DEF c, p
    <3> QED BY <1>3, <2>2, <3>1, <3>2, AtType, PhySendType
  <2>3. CASE /\ child' = Updated(p, [c EXCEPT !.transmit_count = 0])
             /\ Listen /\ UNCHANGED phyVars
    <3>1. [c EXCEPT !.transmit_count = 0] \in Object
      <4> HIDE DEF c
      <4> QED BY <1>2, BoundAssumption DEF Object, ChildType
    <3>2. Updated(p, [c EXCEPT !.transmit_count = 0]) \in [RootPrefixes -> Object]
      BY <1>2, <3>1, UpdatedType
    <3> QED BY <2>3, <3>2, AtType, TypeFacts DEF Listen, phyVars
  <2> QED BY <1>4, <2>1, <2>2, <2>3 DEF Retransmit
<1>5. CASE AcceptQuery(f)
  <2>1. rx' \in Thread
    BY <1>2, <1>5, AtType DEF AcceptQuery, Goto, RxPc
  <2> QED BY <1>3, <1>5, <2>1, TypeFacts DEF AcceptQuery, phyVars
<1>6. CASE AcceptData(f)
  <2>1. \A frame \in Frame : [c EXCEPT !.last_send_frame = frame] \in Object
    <3> HIDE DEF c
    <3> QED BY <1>2 DEF Object, ChildType
  <2>2. \A frame \in Frame :
          Updated(p, [c EXCEPT !.last_send_frame = frame]) \in [RootPrefixes -> Object]
    BY <1>2, <2>1, UpdatedType
  <2>3. At("deliver", f, p) \in Thread
    BY <1>2, AtType DEF RxPc
  <2>4. CASE f.confirmed
    <3>1. PhySend(Ack(f), Updated(p, c), Updated(p, [c EXCEPT !.last_send_frame = Ack(f)]),
                  At("deliver", f, p))
      BY <1>6, <2>4 DEF AcceptData
    <3> HIDE DEF c, p
    <3> QED BY <1>2, <1>3, <2>2, <2>3, <3>1, PhySendType
  <2>5. CASE ~f.confirmed
    <3>1. /\ child' = Updated(p, [c EXCEPT !.last_send_frame = NullFrame])
          /\ rx' = At("deliver", f, p) /\ UNCHANGED phyVars
      BY <1>6, <2>5 DEF AcceptData, Goto
    <3> QED BY <2>2, <2>3, <3>1, ConstantTypes, TypeFacts DEF phyVars
  <2> QED BY <2>4, <2>5
<1> QED BY <1>4, <1>5, <1>6

\* A frame that is not for the root, and those that no handler takes.
LEMMA OtherFrameType ==
  ASSUME TypeOK, NEW f \in Frame,
  Misaddressed(f) \/ IgnoreFrame(f) \/ UnknownCommand(f) \/ JoinIgnored(f)
  PROVE  TypeOK'
<1>1. UNCHANGED <<mode, sender, senders, next_prefix, childs, phyVars>>
  BY DEF Misaddressed, IgnoreFrame, UnknownCommand, JoinIgnored, ReceiveJoin
<1>2. rx' \in Thread
  BY AtType DEF Misaddressed, IgnoreFrame, UnknownCommand, JoinIgnored, Goto, Listen
<1>3. CASE Misaddressed(f)
  BY <1>1, <1>2, <1>3, TypeFacts, TypeFactsNext DEF Misaddressed, phyVars
<1>4. CASE IgnoreFrame(f) \/ UnknownCommand(f) \/ JoinIgnored(f)
  <2>1. MarkJoined(f)
        /\ child' = IF Known(f) THEN [child EXCEPT ![Source(f)] = Sender(f)] ELSE child
    BY <1>4 DEF IgnoreFrame, UnknownCommand, JoinIgnored, MarkJoined, Completes
  <2>2. child' \in [RootPrefixes -> Object]
    BY <2>1, SenderType, UpdatedType, TypeFacts DEF Updated
  <2> QED BY <1>1, <1>2, <2>1, <2>2, MarkJoinedType, TypeFacts, TypeFactsNext DEF phyVars
<1> QED BY <1>3, <1>4

\* The object of a child that joins.
LEMMA NewChildType ==
  ASSUME NEW id \in Hosts \cup {0}, NEW response \in Frame
  PROVE  /\ [NewChild(id) EXCEPT !.next_sn = FirstSn, !.last_send_frame = response] \in Object
         /\ [NewChild(id) EXCEPT !.next_sn = FirstSn,
                                 !.last_send_frame = response].node_id = id
         /\ [NewChild(id) EXCEPT !.next_sn = FirstSn,
                                 !.last_send_frame = response].last_send_frame = response
<1>1. << >> \in Seq(Frame) /\ Len(<< >>) <= TxBufSize /\ 0 \in 0..MaxRetransmit
  BY BoundAssumption
<1>2. NewChild(id) \in ChildType
  BY <1>1, ConstantTypes DEF NewChild, ChildType
<1>3. NewChild(id).node_id = id /\ NewChild(id).tx_buf = << >>
  BY DEF NewChild
<1>4. 1 \in Seqno /\ FirstSn = 1
  BY ConstantTypes DEF FirstSn
<1> QED BY <1>1, <1>2, <1>3, <1>4 DEF Object, ChildType

\* _on_join keeps the types.
LEMMA JoinType ==
  ASSUME TypeOK, NEW f \in Frame,
         JoinAgain(f) \/ JoinGiveUp(f) \/ JoinFull(f) \/ JoinNew(f)
  PROVE  TypeOK'
<1>1. UNCHANGED <<mode, sender, senders>>
  BY DEF JoinAgain, JoinGiveUp, JoinFull, JoinNew, JoinAccepted, ReceiveJoin
<1>2. CASE JoinAgain(f)
  <2> DEFINE p == Retried(f)
  <2>1. p \in RootPrefixes /\ child[p] \in Object
    BY <1>2, TypeFacts DEF JoinAgain, Retried
  <2>2. child[p].last_send_frame \in Frame
        /\ [child[p] EXCEPT !.transmit_count = @ + 1] \in Object
    BY <1>2, <2>1, BoundAssumption DEF JoinAgain, Object, ChildType
  <2>3. [child EXCEPT ![p].transmit_count = @ + 1]
          = Updated(p, [child[p] EXCEPT !.transmit_count = @ + 1])
    BY <2>1, TypeFacts DEF Updated
  <2>4. PhySend(child[p].last_send_frame, child,
                [child EXCEPT ![p].transmit_count = @ + 1], Waiting)
        /\ UNCHANGED <<next_prefix, childs, not_joined_childs>>
    BY <1>2 DEF JoinAgain
  <2>5. [child EXCEPT ![p].transmit_count = @ + 1] \in [RootPrefixes -> Object]
    <3>1. Updated(p, [child[p] EXCEPT !.transmit_count = @ + 1]) \in [RootPrefixes -> Object]
      BY <2>1, <2>2, UpdatedType
    <3> QED BY <2>3, <3>1
  <2> HIDE DEF p
  <2>6. /\ child' \in [RootPrefixes -> Object] /\ rx' \in Thread
        /\ phy_tx' \in Seq(Frame) /\ Len(phy_tx') <= PhyBufSize /\ tx_lock' \in BOOLEAN
    BY <2>2, <2>4, <2>5, AtType, TypeFacts, PhySendType
  <2> QED BY <1>1, <2>4, <2>6, TypeFacts, TypeFactsNext
<1>3. CASE JoinGiveUp(f)
  <2> DEFINE p == Retried(f)
  <2>1. p \in RootPrefixes /\ child[p] \in Object
    BY <1>3, TypeFacts DEF JoinGiveUp, Retried
  <2>2. [child[p] EXCEPT !.transmit_count = 0] \in Object
    BY <2>1, BoundAssumption DEF Object, ChildType
  <2>3. child' = Updated(p, [child[p] EXCEPT !.transmit_count = 0])
    BY <1>3, <2>1, TypeFacts DEF JoinGiveUp, Updated
  <2>4. child' \in [RootPrefixes -> Object]
    BY <2>1, <2>2, <2>3, UpdatedType
  <2>5. rx' \in Thread /\ childs' \subseteq RootPrefixes
        /\ UNCHANGED <<next_prefix, phy_tx, tx_lock>>
    BY <1>3, AtType, TypeFacts DEF JoinGiveUp, Listen, phyVars
  <2>6. /\ DOMAIN not_joined_childs' \subseteq Prefixes \cup {0}
        /\ not_joined_childs' \in [DOMAIN not_joined_childs' -> RootPrefixes]
    BY <1>3, WithoutType DEF JoinGiveUp
  <2> QED BY <1>1, <2>4, <2>5, <2>6, TypeFacts, TypeFactsNext
<1>4. CASE JoinFull(f)
  <2>1. rx' \in Thread
    BY <1>4, AtType DEF JoinFull, Listen
  <2> QED BY <1>1, <1>4, <2>1, TypeFacts, TypeFactsNext DEF JoinFull, phyVars
<1>5. CASE JoinNew(f)
  <2> DEFINE p == next_prefix
             response == FromRoot("JOIN_RESPONSE", f.src_addr, [kind |-> "prefix", val |-> p], 0)
             new == [NewChild(f.src_addr.id) EXCEPT !.next_sn = FirstSn,
                                                    !.last_send_frame = response]
  <2>1. p \in RootPrefixes /\ next_prefix + 1 \in MinPrefix..(MaxPrefix + 1)
    BY <1>5, TypeFacts, PrefixAssumption DEF JoinNew, PrefixLeft, RootPrefixes
  <2>2. response \in Frame
    <3>1. [kind |-> "prefix", val |-> p] \in Data
      BY <2>1, ConstantTypes DEF Data
    <3>2. "JOIN_RESPONSE" \in Command
      BY DEF Command
    <3> QED BY <3>1, <3>2, FrameParts, FromRootType, ConstantTypes
  <2>3. new \in Object
    BY <2>2, FrameParts, NewChildType
  <2>4. Updated(p, new) \in [RootPrefixes -> Object]
    BY <2>1, <2>3, UpdatedType
  <2>5. PhySend(response, Updated(p, new), Updated(p, new), Waiting)
    BY <1>5 DEF JoinNew
  <2>6. /\ next_prefix' = next_prefix + 1 /\ childs' = childs \cup {p}
        /\ not_joined_childs' = [k \in DOMAIN not_joined_childs \cup {Source(f)} |->
                                   IF k = Source(f) THEN p ELSE not_joined_childs[k]]
    BY <1>5 DEF JoinNew, NextPrefix
  <2>7. /\ DOMAIN not_joined_childs' \subseteq Prefixes \cup {0}
        /\ not_joined_childs' \in [DOMAIN not_joined_childs' -> RootPrefixes]
    BY <2>1, <2>6, FrameParts, TypeFacts
  <2>8. childs' \subseteq RootPrefixes
    BY <2>1, <2>6, TypeFacts
  <2> HIDE DEF p, response, new
  <2>9. /\ child' \in [RootPrefixes -> Object] /\ rx' \in Thread
        /\ phy_tx' \in Seq(Frame) /\ Len(phy_tx') <= PhyBufSize /\ tx_lock' \in BOOLEAN
    BY <2>2, <2>4, <2>5, AtType, PhySendType
  <2> QED BY <1>1, <2>1, <2>6, <2>7, <2>8, <2>9, TypeFacts, TypeFactsNext
<1> QED BY <1>2, <1>3, <1>4, <1>5

\* tx_buf.put keeps the table of objects.
LEMMA PutType ==
  ASSUME TypeOK, NEW p \in RootPrefixes, NEW dest \in Addr, Put(p, dest)
  PROVE  child' \in [RootPrefixes -> Object]
<1>1. PICK r \in Replies :
        child' = [child EXCEPT ![p].tx_buf =
                    Append(@, FromRoot("DATA", dest, [kind |-> "packet", val |-> r], 0))]
  BY DEF Put
<1> DEFINE frame == FromRoot("DATA", dest, [kind |-> "packet", val |-> r], 0)
           buf == Append(child[p].tx_buf, frame)
<1>2. frame \in Frame
  <2>1. [kind |-> "packet", val |-> r] \in Data /\ "DATA" \in Command
    BY RepliesAssumption DEF Data, Command
  <2> QED BY <2>1, FromRootType, ConstantTypes
<1>3. child[p] \in Object
  BY TypeFacts
<1>4. buf \in Seq(Frame) /\ Len(buf) <= TxBufSize
  <2> HIDE DEF frame
  <2>1. child[p].tx_buf \in Seq(Frame)
    BY <1>3 DEF Object, ChildType
  <2> QED BY <1>2, <2>1, BoundAssumption DEF Put, Room
<1>5. [child[p] EXCEPT !.tx_buf = buf] \in Object
  <2> HIDE DEF buf
  <2> QED BY <1>3, <1>4 DEF Object, ChildType
<1>6. child' = Updated(p, [child[p] EXCEPT !.tx_buf = buf])
  BY <1>1, TypeFacts DEF Updated
<1> HIDE DEF buf
<1> QED BY <1>5, <1>6, UpdatedType

\* The thread that delivers and answers keeps the types.
LEMMA RxStepType == ASSUME TypeOK, AnswersSource, RxStep PROVE TypeOK'
<1>1. /\ rx.frame \in Frame /\ rx.child \in RootPrefixes /\ rx.frame.src_addr \in Addr
      /\ child[rx.child] \in Object
  BY TypeFacts DEF Thread, Frame
<1>2. \A pc \in RxPc, f \in Frame : At(pc, f, rx.child) \in Thread
  BY <1>1, AtType
<1>3. CASE Deliver
  <2>1. rx' \in Thread
    BY <1>1, <1>2, <1>3, AtType DEF Deliver, Goto, AfterDelivery, Listen, RxPc
  <2>2. senders' \subseteq Addr /\ senders \subseteq senders'
    BY <1>1, <1>3, TypeFacts DEF Deliver
  <2> QED BY <1>3, <2>1, <2>2, TypeFacts, TypeFactsNext DEF Deliver, phyVars
<1>4. CASE PongPut
  <2>1. rx' \in Thread
    BY <1>1, <1>2, <1>4, AtType DEF PongPut, Goto, AfterDelivery, Listen, RxPc
  <2>2. child' \in [RootPrefixes -> Object]
    BY <1>1, <1>4, PutType DEF PongPut
  <2> QED BY <1>4, <2>1, <2>2, TypeFacts, TypeFactsNext DEF PongPut, phyVars
<1>5. ASSUME NEW f \in Frame
      PROVE  Updated(rx.child, [child[rx.child] EXCEPT !.last_send_frame = f])
               \in [RootPrefixes -> Object]
  <2>1. [child[rx.child] EXCEPT !.last_send_frame = f] \in Object
    BY <1>1 DEF Object, ChildType
  <2> QED BY <1>1, <2>1, UpdatedType
<1>6. CASE AnswerAck
  <2> DEFINE f == Ack(rx.frame)
             c == [child[rx.child] EXCEPT !.last_send_frame = f]
  <2>1. f \in Frame
    BY <1>1, <1>6, FrameParts DEF AnswerAck, AnswersSource
  <2>2. [child EXCEPT ![rx.child].last_send_frame = f] = Updated(rx.child, c)
    BY TypeFacts DEF Updated
  <2>3. PhySend(f, child, Updated(rx.child, c), Waiting)
        /\ UNCHANGED <<next_prefix, childs, not_joined_childs, mode, sender, senders>>
    BY <1>6, <2>2 DEF AnswerAck
  <2>4. Updated(rx.child, c) \in [RootPrefixes -> Object]
    BY <1>5, <2>1
  <2> HIDE DEF f, c
  <2>5. /\ child' \in [RootPrefixes -> Object] /\ rx' \in Thread
        /\ phy_tx' \in Seq(Frame) /\ Len(phy_tx') <= PhyBufSize /\ tx_lock' \in BOOLEAN
    BY <2>1, <2>3, <2>4, AtType, TypeFacts, PhySendType
  <2> QED BY <2>3, <2>5, TypeFacts, TypeFactsNext
<1>7. CASE AnswerTake
  <2> DEFINE p == rx.child
             f == [Head(child[p].tx_buf) EXCEPT !.seqno = child[p].next_sn]
             c == [child[p] EXCEPT !.tx_buf = Tail(@), !.next_sn = (@ + 1) % SeqMod]
  <2>1. child[p].tx_buf \in Seq(Frame) /\ child[p].next_sn \in Seqno
        /\ child[p].tx_buf # << >> /\ Len(child[p].tx_buf) <= TxBufSize
    BY <1>1, <1>7 DEF AnswerTake, Object, ChildType
  <2>2. /\ Head(child[p].tx_buf) \in Frame /\ Tail(child[p].tx_buf) \in Seq(Frame)
        /\ Len(Tail(child[p].tx_buf)) <= TxBufSize
    BY <2>1, BoundAssumption
  <2>3. f \in Frame
    BY <2>1, <2>2 DEF Frame
  <2>4. c \in Object
    BY <1>1, <2>1, <2>2, SeqnoSucc DEF Object, ChildType
  <2>5. child' = Updated(p, c)
    BY <1>7, TypeFacts DEF AnswerTake, Updated
  <2>6. rx' \in Thread
    BY <1>2, <1>7, <2>3 DEF AnswerTake, Goto, RxPc
  <2>7. child' \in [RootPrefixes -> Object]
    BY <1>1, <2>4, <2>5, UpdatedType
  <2> QED BY <1>7, <2>6, <2>7, TypeFacts, TypeFactsNext DEF AnswerTake, phyVars
<1>8. CASE AnswerSend
  <2> DEFINE p == rx.child
             f == [rx.frame EXCEPT !.next = MoreFollows]
             c == [child[p] EXCEPT !.last_send_frame = f]
  <2>1. f \in Frame
    BY <1>1 DEF Frame, MoreFollows
  <2>3. [child EXCEPT ![p].last_send_frame = f] = Updated(p, c)
    BY TypeFacts DEF Updated
  <2>4. Updated(p, c) \in [RootPrefixes -> Object]
    BY <1>5, <2>1
  <2>5. PhySend(f, child, Updated(p, c), Waiting)
        /\ UNCHANGED <<next_prefix, childs, not_joined_childs, mode, sender, senders>>
    BY <1>8, <2>3 DEF AnswerSend
  <2> HIDE DEF p, f, c
  <2>6. /\ child' \in [RootPrefixes -> Object] /\ rx' \in Thread
        /\ phy_tx' \in Seq(Frame) /\ Len(phy_tx') <= PhyBufSize /\ tx_lock' \in BOOLEAN
    BY <2>1, <2>4, <2>5, AtType, TypeFacts, PhySendType
  <2> QED BY <2>5, <2>6, TypeFacts, TypeFactsNext
<1> QED BY <1>3, <1>4, <1>6, <1>7, <1>8 DEF RxStep

\* So do the application threads and the PHY.
LEMMA OtherType ==
  ASSUME TypeOK, SendersPlaced, AppStep \/ PhyTransmit \/ UNCHANGED vars
  PROVE  TypeOK' /\ SendersPlaced'
<1>1. ASSUME NEW a \in senders, SenderCall(a) PROVE TypeOK' /\ SendersPlaced'
  <2>1. sender' \subseteq senders /\ SendersPlaced'
    BY <1>1, TypeFacts DEF SenderCall, SendersPlaced
  <2> QED BY <1>1, <2>1, TypeFacts, TypeFactsNext DEF SenderCall, phyVars
<1>2. ASSUME NEW a \in senders, SenderPut(a) PROVE TypeOK' /\ SendersPlaced'
  <2>1. a.prefix \in RootPrefixes /\ a \in Addr
    BY <1>2, TypeFacts DEF SenderPut, SendersPlaced
  <2>2. child' \in [RootPrefixes -> Object]
    BY <1>2, <2>1, PutType DEF SenderPut
  <2>3. sender' \subseteq senders /\ SendersPlaced'
    BY <1>2, TypeFacts DEF SenderPut, SendersPlaced
  <2> QED BY <1>2, <2>2, <2>3, TypeFacts, TypeFactsNext DEF SenderPut, phyVars
<1>3. CASE PhyTransmit
  <2>1. phy_tx' \in Seq(Frame) /\ Len(phy_tx') <= PhyBufSize
    BY <1>3, TypeFacts, BoundAssumption DEF PhyTransmit
  <2> QED BY <1>3, <2>1, TypeFacts, TypeFactsNext DEF PhyTransmit, SendersPlaced
<1>4. CASE UNCHANGED vars
  BY <1>4, TypeFacts, TypeFactsNext DEF vars, phyVars, SendersPlaced
<1> QED BY <1>1, <1>2, <1>3, <1>4 DEF AppStep

-----------------------------------------------------------------------------
(* What the handlers leave alone *)

\* A frame without number of its own and without data, that announces nothing.
Quiet(f) == ~f.next /\ f.command # "DATA" /\ f.data = NoData

\* The parts of a child's object that the dictionaries, the announced frames and the
\* numbers rest on are as before, or its last frame is such a frame.
Like(c, d) ==
  /\ c.node_id = d.node_id /\ c.tx_buf = d.tx_buf /\ c.next_sn = d.next_sn
  /\ c.last_send_frame = d.last_send_frame \/ Quiet(c.last_send_frame)

\* None and the ACK are quiet.
LEMMA QuietFrames == Quiet(NullFrame) /\ \A f : Quiet(Ack(f))
BY DEF Quiet, NullFrame, Ack, FromRoot

\* When one object is replaced by one like it, every object is like before.
LEMMA UpdatedLike ==
  ASSUME TypeOK, NEW p \in RootPrefixes, NEW c, Like(c, child[p]), child' = Updated(p, c)
  PROVE  \A q \in RootPrefixes : Like(child'[q], child[q])
BY TypeFacts DEF Updated, Like

\* The handlers of a received frame keep the objects alike, but for a new child's.
LEMMA RxFrameLike ==
  ASSUME TypeOK, NEW f \in Frame, RxFrame(f), ~JoinNew(f)
  PROVE  \A q \in RootPrefixes : Like(child'[q], child[q])
<1>1. CASE Misaddressed(f) \/ JoinFull(f)
  BY <1>1 DEF Misaddressed, JoinFull, Like
<1>2. CASE IgnoreFrame(f) \/ UnknownCommand(f) \/ JoinIgnored(f)
  <2>1. CASE Known(f)
    <3>1. child' = Updated(Source(f), Sender(f))
      BY <1>2, <2>1 DEF IgnoreFrame, UnknownCommand, JoinIgnored, Updated
    <3> QED BY <2>1, <3>1, SenderType, UpdatedLike DEF Like
  <2>2. CASE ~Known(f)
    BY <1>2, <2>2 DEF IgnoreFrame, UnknownCommand, JoinIgnored, Like
  <2> QED BY <2>1, <2>2
<1>3. CASE Retransmit(f) \/ AcceptQuery(f) \/ AcceptData(f)
  <2> DEFINE p == Source(f)
             c == [Sender(f) EXCEPT !.expected_sn = Verdict(f).expected]
  <2>1. Known(f)
    BY <1>3 DEF Retransmit, AcceptQuery, AcceptData, ReceiveFromChild
  <2>2. /\ p \in RootPrefixes /\ c \in Object /\ c.node_id = child[p].node_id
        /\ c.tx_buf = child[p].tx_buf /\ c.last_send_frame = child[p].last_send_frame
        /\ c.next_sn = child[p].next_sn
    BY <2>1, AcceptedType, FrameParts
  <2>3. ASSUME NEW n, child' = Updated(p, [c EXCEPT !.transmit_count = n])
        PROVE  \A q \in RootPrefixes : Like(child'[q], child[q])
    <3>1. Like([c EXCEPT !.transmit_count = n], child[p])
      <4> HIDE DEF c
      <4> QED BY <2>2 DEF Like, Object, ChildType
    <3> QED BY <2>2, <2>3, <3>1, UpdatedLike
  <2>4. ASSUME NEW frame \in Frame, Quiet(frame),
               child' = Updated(p, [c EXCEPT !.last_send_frame = frame])
        PROVE  \A q \in RootPrefixes : Like(child'[q], child[q])
    <3>1. Like([c EXCEPT !.last_send_frame = frame], child[p])
      <4> HIDE DEF c
      <4> QED BY <2>2, <2>4 DEF Like, Object, ChildType
    <3> QED BY <2>2, <2>4, <3>1, UpdatedLike
  <2>5. ASSUME child' = Updated(p, c)
        PROVE  \A q \in RootPrefixes : Like(child'[q], child[q])
    <3>1. Like(c, child[p])
      BY <2>2 DEF Like
    <3> QED BY <2>2, <2>5, <3>1, UpdatedLike
  <2>6. /\ NullFrame \in Frame /\ Quiet(NullFrame)
        /\ Ack(f) \in Frame /\ Quiet(Ack(f))
    BY <2>2, FrameParts, ConstantTypes, QuietFrames
  <2>7. \/ child' = Updated(p, c)
        \/ \E n : child' = Updated(p, [c EXCEPT !.transmit_count = n])
        \/ child' = Updated(p, [c EXCEPT !.last_send_frame = Ack(f)])
        \/ child' = Updated(p, [c EXCEPT !.last_send_frame = NullFrame])
    <3>1. CASE Retransmit(f)
      <4>1. \/ child' = Updated(p, c)
            \/ child' = Updated(p, [c EXCEPT !.transmit_count = @ + 1])
            \/ child' = Updated(p, [c EXCEPT !.transmit_count = 0])
        BY <3>1 DEF Retransmit, PhySend
      <4>2. [c EXCEPT !.transmit_count = @ + 1]
              = [c EXCEPT !.transmit_count = c.transmit_count + 1]
        OBVIOUS
      <4> HIDE DEF p, c
      <4> QED BY <4>1, <4>2
    <3>2. CASE AcceptQuery(f)
      BY <3>2 DEF AcceptQuery
    <3>3. CASE AcceptData(f)
      BY <3>3 DEF AcceptData, PhySend
    <3> QED BY <1>3, <3>1, <3>2, <3>3
  <2> HIDE DEF p, c
  <2> QED BY <2>3, <2>4, <2>5, <2>6, <2>7
<1>4. CASE JoinAgain(f) \/ JoinGiveUp(f)
  <2>1. Retried(f) \in RootPrefixes /\ child[Retried(f)] \in Object
    BY <1>4, TypeFacts DEF JoinAgain, JoinGiveUp, Retried
  <2>2. \/ child' = child
        \/ \E n : child' = Updated(Retried(f), [child[Retried(f)] EXCEPT !.transmit_count = n])
    BY <1>4, <2>1, TypeFacts DEF JoinAgain, JoinGiveUp, PhySend, Updated
  <2>3. ASSUME NEW n,
               child' = Updated(Retried(f), [child[Retried(f)] EXCEPT !.transmit_count = n])
        PROVE  \A q \in RootPrefixes : Like(child'[q], child[q])
    <3>1. Like([child[Retried(f)] EXCEPT !.transmit_count = n], child[Retried(f)])
      BY <2>1 DEF Like, Object, ChildType
    <3> QED BY <2>1, <2>3, <3>1, UpdatedLike
  <2> QED BY <2>2, <2>3 DEF Like
<1> QED BY <1>1, <1>2, <1>3, <1>4 DEF RxFrame

\* Before it has joined, the object of a new child is new: no other one changes.
LEMMA JoinNewObjects ==
  ASSUME TypeOK, NEW f \in Frame, JoinNew(f)
  PROVE  /\ next_prefix \in RootPrefixes /\ next_prefix' = next_prefix + 1
         /\ childs' = childs \cup {next_prefix}
         /\ child'[next_prefix].node_id = f.src_addr.id
         /\ child'[next_prefix].tx_buf = << >> /\ child'[next_prefix].next_sn = 1
         /\ child'[next_prefix].last_send_frame
              = FromRoot("JOIN_RESPONSE", f.src_addr,
                         [kind |-> "prefix", val |-> next_prefix], 0)
         /\ ~child'[next_prefix].last_send_frame.next
         /\ \A q \in RootPrefixes \ {next_prefix} : child'[q] = child[q]
<1> DEFINE p == next_prefix
           response == FromRoot("JOIN_RESPONSE", f.src_addr, [kind |-> "prefix", val |-> p], 0)
           new == [NewChild(f.src_addr.id) EXCEPT !.next_sn = FirstSn,
                                                  !.last_send_frame = response]
<1>1. p \in RootPrefixes /\ next_prefix' = next_prefix + 1 /\ childs' = childs \cup {p}
  BY TypeFacts, PrefixAssumption DEF JoinNew, PrefixLeft, RootPrefixes, NextPrefix
<1>2. response \in Frame /\ ~response.next
  <2>1. [kind |-> "prefix", val |-> p] \in Data /\ "JOIN_RESPONSE" \in Command
    BY <1>1, ConstantTypes DEF Data, Command
  <2> QED BY <2>1, FrameParts, FromRootType, ConstantTypes DEF FromRoot
<1>3. /\ new.node_id = f.src_addr.id /\ new.last_send_frame = response
      /\ new.tx_buf = << >> /\ new.next_sn = 1
  <2> HIDE DEF response
  <2> QED BY DEF NewChild, FirstSn
<1>4. child' = Updated(p, new)
  BY DEF JoinNew, PhySend
<1> HIDE DEF p, response, new
<1>5. child'[p] = new /\ \A q \in RootPrefixes \ {p} : child'[q] = child[q]
  BY <1>1, <1>4, TypeFacts DEF Updated
<1> QED BY <1>1, <1>2, <1>3, <1>5 DEF p, response

-----------------------------------------------------------------------------
(* The inductive invariant *)

\* What does not depend on the address under which a node joins, and the rest.
Base == TypeOK /\ SendersPlaced /\ AnswersSource /\ PrefixesGiven
IInv == Base /\ DictsAgree /\ NextKept

\* Where the handlers of a received frame go.
LEMMA RxFrameControl ==
  ASSUME Base, NEW f \in Frame, RxFrame(f)
  PROVE  SendersPlaced' /\ AnswersSource'
<1>1. SendersPlaced'
  BY RxFrameKeeps DEF Base, SendersPlaced
<1>2. rx' \in {Waiting, At("dead", NullFrame, MinPrefix), At("blocked", NullFrame, MinPrefix),
              At("deaf", NullFrame, MinPrefix),
              At("deliver", f, Source(f)), At("answer", f, Source(f))}
  BY DEF RxFrame, Misaddressed, IgnoreFrame, UnknownCommand, Retransmit, AcceptQuery,
         AcceptData, JoinIgnored,
         JoinAgain, JoinGiveUp, JoinFull, JoinNew, PhySend, Goto, Listen
<1>3. AnswersSource'
  BY <1>2 DEF AnswersSource, Waiting, At
<1> QED BY <1>1, <1>3

\* Prefixes only go up.
LEMMA RxFramePrefixes ==
  ASSUME Base, NEW f \in Frame, RxFrame(f)
  PROVE  PrefixesGiven'
<1>1. CASE JoinNew(f)
  <2>1. childs' = childs \cup {next_prefix} /\ next_prefix' = next_prefix + 1
    BY <1>1, JoinNewObjects DEF Base
  <2>2. childs \subseteq Nat /\ next_prefix \in Nat
    BY TypeFacts, ConstantTypes, PrefixAssumption DEF Base
  <2> QED BY <2>1, <2>2 DEF Base, PrefixesGiven
<1>2. CASE ~JoinNew(f)
  <2>1. childs' \subseteq childs /\ next_prefix' = next_prefix
    BY <1>2 DEF RxFrame, Misaddressed, IgnoreFrame, UnknownCommand, Retransmit,
                AcceptQuery, AcceptData,
                ReceiveFromChild, JoinIgnored, JoinAgain, JoinGiveUp, JoinFull
  <2> QED BY <2>1 DEF Base, PrefixesGiven
<1> QED BY <1>1, <1>2

\* Both dictionaries lose, gain and name the same child.
LEMMA RxFrameDicts ==
  ASSUME IInv, NEW f \in Uplink, RxFrame(f)
  PROVE  DictsAgree'
<1>1. f \in Frame
  BY UplinkAssumption
<1>2. \A k \in DOMAIN not_joined_childs :
        /\ not_joined_childs[k] \in childs /\ not_joined_childs[k] \in RootPrefixes
        /\ LowByte(child[not_joined_childs[k]].node_id) = k
  BY TypeFacts DEF IInv, Base, DictsAgree
<1>3. ASSUME ~JoinNew(f)
      PROVE  \A q \in RootPrefixes : child'[q].node_id = child[q].node_id
  BY <1>1, <1>3, RxFrameLike DEF IInv, Base, Like
<1>4. CASE JoinNew(f)
  <2> DEFINE p == next_prefix
  <2>1. /\ p \in RootPrefixes /\ childs' = childs \cup {p}
        /\ child'[p].node_id = f.src_addr.id
        /\ \A q \in RootPrefixes \ {p} : child'[q] = child[q]
    BY <1>1, <1>4, JoinNewObjects DEF IInv, Base
  <2>2. not_joined_childs' = [k \in DOMAIN not_joined_childs \cup {Source(f)} |->
                                IF k = Source(f) THEN p ELSE not_joined_childs[k]]
    BY <1>4 DEF JoinNew
  <2>3. LowByte(f.src_addr.id) = Source(f)
    BY <1>4, UplinkAssumption DEF JoinNew, JoinAccepted, ReceiveJoin, Source
  <2>4. p \notin childs
    <3>1. childs \subseteq Nat /\ next_prefix \in Nat
      BY TypeFacts, ConstantTypes, PrefixAssumption DEF IInv, Base
    <3> QED BY <3>1 DEF IInv, Base, PrefixesGiven
  <2> SUFFICES ASSUME NEW k \in DOMAIN not_joined_childs'
               PROVE  /\ not_joined_childs'[k] \in childs'
                      /\ LowByte(child'[not_joined_childs'[k]].node_id) = k
    BY DEF DictsAgree
  <2> HIDE DEF p
  <2>5. CASE k = Source(f)
    BY <2>1, <2>2, <2>3, <2>5
  <2>6. CASE k # Source(f)
    <3>1. k \in DOMAIN not_joined_childs /\ not_joined_childs'[k] = not_joined_childs[k]
      BY <2>2, <2>6
    <3>2. not_joined_childs[k] # p
      BY <1>2, <2>4, <3>1
    <3> QED BY <1>2, <2>1, <3>1, <3>2
  <2> QED BY <2>5, <2>6
<1>5. CASE JoinGiveUp(f)
  <2> DEFINE p == Retried(f)
  <2>1. Source(f) \in DOMAIN not_joined_childs /\ p = not_joined_childs[Source(f)]
    BY <1>5 DEF JoinGiveUp, Retried
  <2>2. LowByte(child[p].node_id) = Source(f)
    BY <1>2, <2>1
  <2>3. not_joined_childs' = Without(Source(f)) /\ childs' = childs \ {p}
    BY <1>5, <2>2 DEF JoinGiveUp
  <2>4. /\ DOMAIN not_joined_childs' = DOMAIN not_joined_childs \ {Source(f)}
        /\ \A k \in DOMAIN not_joined_childs' : not_joined_childs'[k] = not_joined_childs[k]
    BY <2>3, WithoutType DEF IInv, Base
  <2>5. \A q \in RootPrefixes : child'[q].node_id = child[q].node_id
    <3>1. ~JoinNew(f)
      BY <1>5 DEF JoinGiveUp, JoinNew
    <3> QED BY <1>3, <3>1
  <2> HIDE DEF p
  <2>6. \A k \in DOMAIN not_joined_childs' : not_joined_childs[k] # p
    BY <1>2, <2>2, <2>4
  <2> QED BY <1>2, <2>3, <2>4, <2>5, <2>6 DEF DictsAgree
<1>6. CASE ~JoinNew(f) /\ ~JoinGiveUp(f)
  <2>1. childs' = childs
    BY <1>6 DEF RxFrame, Misaddressed, IgnoreFrame, UnknownCommand, Retransmit,
                AcceptQuery, AcceptData,
                ReceiveFromChild, JoinIgnored, JoinAgain, JoinFull
  <2>2. not_joined_childs' = not_joined_childs \/ MarkJoined(f)
    BY <1>6 DEF RxFrame, Misaddressed, IgnoreFrame, UnknownCommand, Retransmit,
                AcceptQuery, AcceptData,
                ReceiveFromChild, JoinIgnored, JoinAgain, JoinFull
  <2>3. /\ DOMAIN not_joined_childs' \subseteq DOMAIN not_joined_childs
        /\ \A k \in DOMAIN not_joined_childs' : not_joined_childs'[k] = not_joined_childs[k]
    BY <2>2, MarkJoinedType DEF IInv, Base
  <2> QED BY <1>2, <1>3, <1>6, <2>1, <2>3 DEF DictsAgree
<1> QED BY <1>4, <1>5, <1>6

\* A handler keeps the announced frame in the buffer of its child.
LEMMA RxFrameNext ==
  ASSUME IInv, NEW f \in Frame, RxFrame(f)
  PROVE  NextKept'
<1>1. rx.pc = "get" /\ childs \subseteq RootPrefixes
  BY RxFrameKeeps, TypeFacts DEF IInv, Base
<1>2. \A p \in childs : child[p].last_send_frame.next => child[p].tx_buf # << >>
  BY <1>1 DEF IInv, Base, NextKept
<1>3. CASE JoinNew(f)
  <2> DEFINE p == next_prefix
  <2>1. /\ childs' = childs \cup {p} /\ ~child'[p].last_send_frame.next
        /\ \A q \in RootPrefixes \ {p} : child'[q] = child[q]
    BY <1>3, JoinNewObjects DEF IInv, Base
  <2> HIDE DEF p
  <2> QED BY <1>1, <1>2, <2>1 DEF NextKept
<1>4. CASE ~JoinNew(f)
  <2>1. \A q \in RootPrefixes : Like(child'[q], child[q])
    BY <1>4, RxFrameLike DEF IInv, Base
  <2>2. childs' \subseteq childs
    BY <1>4 DEF RxFrame, Misaddressed, IgnoreFrame, UnknownCommand, Retransmit,
                AcceptQuery, AcceptData,
                ReceiveFromChild, JoinIgnored, JoinAgain, JoinGiveUp, JoinFull
  <2> QED BY <1>1, <1>2, <2>1, <2>2 DEF NextKept, Like, Quiet
<1> QED BY <1>3, <1>4

\* The thread stays with the child that it delivers and answers for.
LEMMA RxStepControl ==
  ASSUME Base, RxStep
  PROVE  SendersPlaced' /\ AnswersSource'
<1>1. sender' = sender
  BY DEF RxStep, Deliver, PongPut, AnswerAck, AnswerTake, AnswerSend
<1>2. rx' \in {Waiting, At("blocked", NullFrame, MinPrefix), At("dead", NullFrame, MinPrefix),
              At("put", rx.frame, rx.child), At("answer", rx.frame, rx.child)}
      \/ rx'.pc = "send"
  BY DEF RxStep, Deliver, PongPut, AnswerAck, AnswerTake, AnswerSend, AfterDelivery, PhySend,
         Goto, Listen, At
<1>3. rx.pc \in {"deliver", "put", "answer"} \/ rx.pc = "send"
  BY DEF RxStep, Deliver, PongPut, AnswerAck, AnswerTake, AnswerSend
<1>4. AnswersSource'
  <2>1. CASE rx' = At("put", rx.frame, rx.child) \/ rx' = At("answer", rx.frame, rx.child)
    <3>1. rx.pc \in {"deliver", "put"} \/ rx'.pc = "send"
      BY <2>1 DEF RxStep, Deliver, PongPut, AnswerAck, AnswerTake, AnswerSend, PhySend, Goto,
                  At, Waiting
    <3> QED BY <2>1, <3>1 DEF Base, AnswersSource, At
  <2> QED BY <1>2, <2>1 DEF AnswersSource, Waiting, At
<1> QED BY <1>1, <1>4 DEF Base, SendersPlaced

\* tx_buf.put fills the buffer of one child, and changes nothing else of any.
LEMMA PutKeeps ==
  ASSUME TypeOK, NEW p \in RootPrefixes, NEW dest \in Addr, Put(p, dest)
  PROVE  \A q \in RootPrefixes :
           /\ child'[q].node_id = child[q].node_id
           /\ child'[q].last_send_frame = child[q].last_send_frame
           /\ child[q].tx_buf # << >> => child'[q].tx_buf # << >>
<1>1. PICK frame :
        child' = [child EXCEPT ![p].tx_buf = Append(@, frame)]
  BY DEF Put
<1>2. child[p] \in Object /\ child[p].tx_buf \in Seq(Frame)
  BY TypeFacts DEF Object, ChildType
<1>3. Append(child[p].tx_buf, frame) # << >>
  BY <1>2
<1>4. child' = Updated(p, [child[p] EXCEPT !.tx_buf = Append(child[p].tx_buf, frame)])
  BY <1>1, TypeFacts DEF Updated
<1> DEFINE buf == Append(child[p].tx_buf, frame)
<1>5. /\ [child[p] EXCEPT !.tx_buf = buf].node_id = child[p].node_id
      /\ [child[p] EXCEPT !.tx_buf = buf].last_send_frame = child[p].last_send_frame
      /\ [child[p] EXCEPT !.tx_buf = buf].tx_buf = buf
  <2> HIDE DEF buf
  <2> QED BY <1>2 DEF Object, ChildType
<1> QED BY <1>3, <1>4, <1>5, TypeFacts DEF Updated

\* An answer takes nothing that its child's last frame announces: it takes the
\* place of that frame, and announces what is left.
LEMMA AnswerKeeps ==
  ASSUME IInv, AnswerAck \/ AnswerTake \/ AnswerSend
  PROVE  /\ \A q \in RootPrefixes : child'[q].node_id = child[q].node_id
         /\ NextKept'
<1> DEFINE p == rx.child
<1>1. /\ p \in RootPrefixes /\ childs \subseteq RootPrefixes
      /\ child[p] \in Object /\ child \in [RootPrefixes -> Object]
  BY TypeFacts DEF IInv, Base, Thread
<1>2. childs' = childs
  BY DEF AnswerAck, AnswerTake, AnswerSend
<1>3. CASE AnswerTake
  <2> DEFINE c == [child[p] EXCEPT !.tx_buf = Tail(@), !.next_sn = (@ + 1) % SeqMod]
  <2>1. child' = Updated(p, c)
    BY <1>1, <1>3 DEF AnswerTake, Updated
  <2>2. c.node_id = child[p].node_id
    BY <1>1 DEF Object, ChildType
  <2>3. rx'.pc = "send" /\ rx'.child = p /\ rx.pc = "answer"
    BY <1>3 DEF AnswerTake, Goto, At
  <2> HIDE DEF c, p
  <2>4. /\ \A q \in RootPrefixes : child'[q].node_id = child[q].node_id
        /\ \A q \in RootPrefixes \ {p} : child'[q] = child[q]
    BY <1>1, <2>1, <2>2 DEF Updated
  <2> QED BY <1>1, <1>2, <2>3, <2>4 DEF IInv, Base, NextKept
<1>4. CASE child' = child /\ rx'.pc = "blocked"
  BY <1>4 DEF NextKept
<1>5. ASSUME NEW frame, frame.next => child[p].tx_buf # << >>,
             rx.pc = "answer" \/ (rx.pc = "send" /\ rx.child = p),
             child' = [child EXCEPT ![p].last_send_frame = frame]
      PROVE  /\ \A q \in RootPrefixes : child'[q].node_id = child[q].node_id
             /\ NextKept'
  <2> DEFINE c == [child[p] EXCEPT !.last_send_frame = frame]
  <2>1. child' = Updated(p, c)
    BY <1>1, <1>5 DEF Updated
  <2>2. c.node_id = child[p].node_id /\ c.tx_buf = child[p].tx_buf
        /\ c.last_send_frame = frame
    BY <1>1 DEF Object, ChildType
  <2> HIDE DEF c, p
  <2>3. /\ \A q \in RootPrefixes : child'[q].node_id = child[q].node_id
        /\ \A q \in RootPrefixes \ {p} : child'[q] = child[q]
        /\ child'[p] = c
    BY <1>1, <2>1, <2>2 DEF Updated
  <2>4. \A q \in childs \ {p} : child[q].last_send_frame.next => child[q].tx_buf # << >>
    BY <1>5 DEF IInv, Base, NextKept
  <2>5. \A q \in childs : child'[q].last_send_frame.next => child'[q].tx_buf # << >>
    BY <1>1, <1>5, <2>2, <2>3, <2>4
  <2> QED BY <1>2, <2>3, <2>5 DEF NextKept
<1>6. CASE AnswerAck
  <2>1. rx.pc = "answer" /\ ~Ack(rx.frame).next
    BY <1>6 DEF AnswerAck, Ack, FromRoot
  <2>2. \/ child' = child /\ rx'.pc = "blocked"
        \/ child' = [child EXCEPT ![p].last_send_frame = Ack(rx.frame)]
    BY <1>6 DEF AnswerAck, PhySend, Goto, At
  <2> QED BY <1>4, <1>5, <2>1, <2>2
<1>7. CASE AnswerSend
  <2> DEFINE frame == [rx.frame EXCEPT !.next = MoreFollows]
  <2>1. rx.pc = "send" /\ (frame.next => child[p].tx_buf # << >>)
    <3>1. rx.frame \in Frame
      BY TypeFacts DEF IInv, Base, Thread
    <3> QED BY <1>7, <3>1 DEF AnswerSend, MoreFollows, Frame
  <2>2. \/ child' = child /\ rx'.pc = "blocked"
        \/ child' = [child EXCEPT ![p].last_send_frame = frame]
    BY <1>7 DEF AnswerSend, PhySend, Goto, At
  <2> HIDE DEF frame
  <2> QED BY <1>4, <1>5, <2>1, <2>2
<1> QED BY <1>3, <1>6, <1>7

\* Delivering and answering keep the dictionaries and what is announced.
LEMMA RxStepKeeps ==
  ASSUME IInv, RxStep
  PROVE  PrefixesGiven' /\ DictsAgree' /\ NextKept'
<1>1. UNCHANGED <<next_prefix, childs, not_joined_childs>>
  BY DEF RxStep, Deliver, PongPut, AnswerAck, AnswerTake, AnswerSend
<1>2. (\A q \in RootPrefixes : child'[q].node_id = child[q].node_id) /\ NextKept'
  <2>1. CASE Deliver
    <3>1. rx.pc = "deliver" /\ child' = child
      BY <2>1 DEF Deliver
    <3> QED BY <1>1, <3>1 DEF IInv, Base, NextKept
  <2>2. CASE PongPut
    <3>1. rx.pc = "put" /\ Put(rx.child, rx.frame.src_addr)
      BY <2>2 DEF PongPut
    <3>2. rx.child \in RootPrefixes /\ rx.frame.src_addr \in Addr /\ childs \subseteq RootPrefixes
      BY TypeFacts DEF IInv, Base, Thread, Frame
    <3>3. \A q \in RootPrefixes :
            /\ child'[q].node_id = child[q].node_id
            /\ child'[q].last_send_frame = child[q].last_send_frame
            /\ child[q].tx_buf # << >> => child'[q].tx_buf # << >>
      BY <3>1, <3>2, PutKeeps DEF IInv, Base
    <3> QED BY <1>1, <3>1, <3>2, <3>3 DEF IInv, Base, NextKept
  <2>3. CASE AnswerAck \/ AnswerTake \/ AnswerSend
    BY <2>3, AnswerKeeps
  <2> QED BY <2>1, <2>2, <2>3 DEF RxStep
<1>3. \A k \in DOMAIN not_joined_childs : not_joined_childs[k] \in RootPrefixes
  BY TypeFacts DEF IInv, Base
<1>4. DictsAgree'
  BY <1>1, <1>2, <1>3 DEF IInv, Base, DictsAgree
<1> QED BY <1>1, <1>2, <1>4 DEF IInv, Base, PrefixesGiven

\* So do the application threads and the PHY.
LEMMA OtherKeeps ==
  ASSUME IInv, AppStep \/ PhyTransmit \/ UNCHANGED vars
  PROVE  AnswersSource' /\ PrefixesGiven' /\ DictsAgree' /\ NextKept'
<1>1. UNCHANGED <<next_prefix, childs, not_joined_childs, rx>>
  BY DEF AppStep, SenderCall, SenderPut, PhyTransmit, vars
<1>2. \A q \in RootPrefixes :
        /\ child'[q].node_id = child[q].node_id
        /\ child'[q].last_send_frame = child[q].last_send_frame
        /\ child[q].tx_buf # << >> => child'[q].tx_buf # << >>
  <2>1. ASSUME NEW a \in senders, SenderPut(a)
        PROVE  a.prefix \in RootPrefixes /\ a \in Addr /\ Put(a.prefix, a)
    BY <2>1, TypeFacts DEF SenderPut, IInv, Base, SendersPlaced
  <2>2. CASE \E a \in senders : SenderPut(a)
    BY <2>1, <2>2, PutKeeps DEF IInv, Base
  <2>3. CASE child' = child
    BY <2>3
  <2> QED BY <2>2, <2>3 DEF AppStep, SenderCall, PhyTransmit, vars
<1>3. /\ childs \subseteq RootPrefixes
      /\ \A k \in DOMAIN not_joined_childs : not_joined_childs[k] \in RootPrefixes
  BY TypeFacts DEF IInv, Base
<1>4. DictsAgree'
  BY <1>1, <1>2, <1>3 DEF IInv, Base, DictsAgree
<1>5. NextKept'
  BY <1>1, <1>2, <1>3 DEF IInv, Base, NextKept
<1> QED BY <1>1, <1>4, <1>5 DEF IInv, Base, AnswersSource, PrefixesGiven

\* The inductive invariant holds when the root starts.
LEMMA InitInv == Init => IInv
<1> SUFFICES ASSUME Init PROVE IInv
  OBVIOUS
<1>1. NewChild(0) \in Object
  <2>1. << >> \in Seq(Frame) /\ Len(<< >>) <= TxBufSize /\ 0 \in 0..MaxRetransmit
    BY BoundAssumption
  <2> QED BY <2>1, ConstantTypes DEF NewChild, Object, ChildType
<1>2. child \in [RootPrefixes -> Object]
  BY <1>1 DEF Init
<1>3. rx \in Thread /\ rx.pc = "get"
  BY AtType DEF Init, Waiting, At
<1>4. phy_tx \in Seq(Frame) /\ Len(phy_tx) <= PhyBufSize /\ tx_lock \in BOOLEAN
  <2>1. << >> \in Seq(Frame) /\ Len(<< >>) <= PhyBufSize
    BY BoundAssumption
  <2> QED BY <2>1 DEF Init
<1>5. next_prefix \in MinPrefix..(MaxPrefix + 1)
  BY PrefixAssumption DEF Init
<1>6. /\ DOMAIN not_joined_childs = {}
      /\ not_joined_childs \in [DOMAIN not_joined_childs -> RootPrefixes]
  BY DEF Init
<1>7. TypeOK
  BY <1>2, <1>3, <1>4, <1>5, <1>6, TypeFacts DEF Init
<1> QED BY <1>3, <1>6, <1>7
        DEF Init, IInv, Base, SendersPlaced, AnswersSource, PrefixesGiven, DictsAgree, NextKept

\* Every step keeps the inductive invariant.
LEMMA StepInv == ASSUME IInv, [Next]_vars PROVE IInv'
<1>1. ASSUME NEW f \in Uplink, RxFrame(f) PROVE IInv'
  <2>1. f \in Frame
    BY UplinkAssumption
  <2>2. TypeOK'
    BY <1>1, <2>1, ChildFrameType, OtherFrameType, JoinType DEF IInv, Base, RxFrame
  <2> QED BY <1>1, <2>1, <2>2, RxFrameControl, RxFramePrefixes, RxFrameDicts, RxFrameNext
          DEF IInv, Base
<1>2. CASE RxStep
  BY <1>2, RxStepType, RxStepControl, RxStepKeeps DEF IInv, Base
<1>3. CASE AppStep \/ PhyTransmit \/ UNCHANGED vars
  BY <1>3, OtherType, OtherKeeps DEF IInv, Base
<1> QED BY <1>1, <1>2, <1>3 DEF Next

-----------------------------------------------------------------------------
(* The theorems *)

\* The inductive invariant holds in every reachable state.
THEOREM Invariance == Spec => []IInv
BY InitInv, StepInv, PTL DEF Spec

\* Every variable keeps its type, the buffers their sizes and the retransmission
\* counters their bound, for every frame that may be received.
THEOREM TypeCorrect == Spec => []TypeOK
<1>1. IInv => TypeOK
  BY DEF IInv, Base
<1> QED BY <1>1, Invariance, PTL

\* childs and not_joined_childs agree on which children have not joined.
THEOREM DictsAgreeHolds == Spec => []DictsAgree
<1>1. IInv => DictsAgree
  BY DEF IInv, Base
<1> QED BY <1>1, Invariance, PTL

\* No prefix is given to two children.
THEOREM PrefixesGivenHolds == Spec => []PrefixesGiven
<1>1. IInv => PrefixesGiven
  BY DEF IInv, Base
<1> QED BY <1>1, Invariance, PTL

\* A frame that is announced is in the buffer, or on its way.
THEOREM NextKeptHolds == Spec => []NextKept
<1>1. IInv => NextKept
  BY DEF IInv, Base
<1> QED BY <1>1, Invariance, PTL

\* Only a query or a data frame whose number the comparison accepts goes further.
LEMMA AcceptedFrame ==
  ASSUME TypeOK, NEW f \in Frame, RxFrame(f), rx'.pc \in {"deliver", "answer"}
  PROVE  Known(f) /\ Verdict(f).r >= 0 /\ rx'.frame = f /\ rx'.child = Source(f)
<1>1. AcceptQuery(f) \/ AcceptData(f)
  BY DEF RxFrame, Misaddressed, IgnoreFrame, UnknownCommand, Retransmit, JoinIgnored,
         JoinAgain, JoinGiveUp,
         JoinFull, JoinNew, PhySend, Goto, Listen, Waiting, At
<1>2. CASE AcceptQuery(f)
  BY <1>2 DEF AcceptQuery, ReceiveFromChild, Goto, At
<1>3. CASE AcceptData(f)
  BY <1>3 DEF AcceptData, ReceiveFromChild, PhySend, Goto, At
<1> QED BY <1>1, <1>2, <1>3

\* No frame is accepted from a child twice in a row, at the wrap neither.
THEOREM NotAcceptedTwiceHolds == Spec => NotAcceptedTwice
<1> DEFINE Fresh == \A p \in childs :
       rx.pc = "get" /\ rx'.pc \in {"deliver", "answer"} /\ rx'.child = p
         => (rx'.frame.seqno + 1) % SeqMod # child[p].expected_sn
<1>1. ASSUME TypeOK, [Next]_vars PROVE [Fresh]_vars
  <2> SUFFICES ASSUME NEW p \in childs, Next,
                      rx.pc = "get", rx'.pc \in {"deliver", "answer"}, rx'.child = p
               PROVE  (rx'.frame.seqno + 1) % SeqMod # child[p].expected_sn
    BY <1>1
  <2>1. PICK f \in Uplink : RxFrame(f)
    BY DEF Next, RxStep, Deliver, PongPut, AnswerAck, AnswerTake, AnswerSend, AppStep,
           SenderCall, SenderPut, PhyTransmit
  <2>2. f \in Frame
    BY UplinkAssumption
  <2>3. Known(f) /\ Verdict(f).r >= 0 /\ rx'.frame = f /\ p = Source(f)
    BY <1>1, <2>1, <2>2, AcceptedFrame
  <2>4. Sender(f).expected_sn = child[p].expected_sn /\ Sender(f).expected_sn \in Seqno
    BY <1>1, <2>2, <2>3, SenderType DEF Object, ChildType
  <2>5. f.seqno \in Seqno
    BY <1>1, <2>2, FrameParts
  <2> QED BY <2>3, <2>4, <2>5, CompareFresh DEF Verdict
<1>2. []TypeOK /\ [][Next]_vars => [][Fresh]_vars
  BY <1>1, PTL
<1>3. [][Fresh]_vars => NotAcceptedTwice
  BY DEF NotAcceptedTwice
<1> QED BY <1>2, <1>3, TypeCorrect, PTL DEF Spec
=============================================================================

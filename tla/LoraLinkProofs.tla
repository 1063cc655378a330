----------------------------- MODULE LoraLinkProofs -----------------------------
(***************************************************************************)
(* The node and the root joined: the types of both ends and of what waits  *)
(* between them, that the node is never ahead of the root, and the         *)
(* delivery of the packets of the root, proved for every number of         *)
(* addresses, packets and retransmissions, every size of the buffers and   *)
(* both modes of the application.  The invariants of the two ends are      *)
(* those of LoraNodeProofs and LoraTrafficProofs; here they meet.          *)
(***************************************************************************)
EXTENDS LoraLink, TLAPS

NP == INSTANCE LoraNodeProofs WITH Downlink <- {}
RP == INSTANCE LoraTrafficProofs WITH Uplink <- {}, Replies <- Payloads

\* The constants are such that what is proved of the two ends holds of them here.
LEMMA NodeAssumed ==
  /\ SeqMod \in Nat \ {0, 1}
  /\ Prefixes \subseteq Nat /\ Hosts \subseteq Nat /\ 1 \in Prefixes
  /\ MaxRetransmit \in Nat \ {0} /\ NumRadioParam \in Nat \ {0} /\ Confirmed \in BOOLEAN
  /\ NodeId \in Hosts \cap Prefixes /\ PacketHost \in [Packets -> Hosts]
  /\ {} \subseteq NP!Frame
  /\ \A f \in {} : f.command = "DATA" => f.data.kind = "packet"
BY SeqModAssumption, AddressAssumption, NodeAssumption

LEMMA RootAssumed ==
  /\ SeqMod \in Nat \ {0, 1}
  /\ Prefixes \subseteq Nat /\ Hosts \subseteq Nat /\ 1 \in Prefixes
  /\ MaxRetransmit \in Nat \ {0}
  /\ PrefixMod \in Nat \ {0} /\ TxBufSize \in Nat \ {0} /\ PhyBufSize \in Nat \ {0}
  /\ MinPrefix \in Nat /\ MaxPrefix \in Nat /\ MinPrefix <= MaxPrefix
  /\ RP!RootPrefixes \subseteq Prefixes /\ 1 \notin RP!RootPrefixes
  /\ Modes \subseteq {"PINGPONG", "RECEIVER", "SENDER"} /\ Payloads \subseteq Payloads
  /\ {} \subseteq RP!Frame
  /\ \A f \in {} :
       f.command = "JOIN" => /\ f.src_addr.id \in Hosts
                             /\ f.src_addr.prefix = RP!LowByte(f.src_addr.id)
BY SeqModAssumption, AddressAssumption, NodeAssumption, RootAssumption DEF RP!RootPrefixes

-----------------------------------------------------------------------------
(* The modules of LoraLink and those of the proofs are the same *)

\* The operations of the node ...
LEMMA NodeSame ==
  /\ N!TypeOK <=> NP!TypeOK
  /\ N!Init <=> NP!Init
  /\ N!Process <=> NP!Process
  /\ N!QueryTimeout <=> NP!QueryTimeout
  /\ N!QueryNow <=> NP!QueryNow
  /\ N!QueryLater <=> NP!QueryLater
  /\ N!RetransmitTimeout <=> NP!RetransmitTimeout
  /\ N!RetransmitCopy <=> NP!RetransmitCopy
  /\ N!RetransmitGiveUp <=> NP!RetransmitGiveUp
  /\ N!OutputEnd <=> NP!OutputEnd
  /\ N!Restart <=> NP!Restart
  /\ N!Frame = Frame /\ N!Line = NP!Line
  /\ \A f : N!UartIgnored(f) <=> NP!UartIgnored(f)
  /\ \A f : N!SetConfParam(f) <=> NP!SetConfParam(f)
  /\ \A f : N!SetConfStart(f) <=> NP!SetConfStart(f)
  /\ \A f : N!SetConfDone(f) <=> NP!SetConfDone(f)
  /\ \A f : N!OnJoinResponse(f) <=> NP!OnJoinResponse(f)
  /\ \A f : N!OnAck(f) <=> NP!OnAck(f)
  /\ \A f : N!InputDropped(f) <=> NP!InputDropped(f)
  /\ \A f : N!OnDataNext(f) <=> NP!OnDataNext(f)
  /\ \A f : N!OnDataLast(f) <=> NP!OnDataLast(f)
  /\ \A f : N!OutputBegin(f) <=> NP!OutputBegin(f)
<1> USE DEF N!OutputBegin, NP!OutputBegin, N!macVars, NP!macVars, N!phyVars, NP!phyVars,
            N!MainLoopFree, NP!MainLoopFree, N!OnDataLast, NP!OnDataLast, N!InputEvents,
            NP!InputEvents, N!AcceptData, NP!AcceptData, N!InputData, NP!InputData,
            N!Accepted, NP!Accepted, N!NullFrame, NP!NullFrame, NullFrame, N!NoData,
            NP!NoData, NoData, N!NullAddr, NP!NullAddr, NullAddr, N!ModemPrints,
            NP!ModemPrints, N!IsFreshData, NP!IsFreshData, N!InDag, NP!InDag, N!Query,
            NP!Query, N!RootAddr, NP!RootAddr, RootAddr, N!BridgeInput, NP!BridgeInput,
            N!QueryWaits, NP!QueryWaits, N!SetReady, NP!SetReady, N!SendQuery, NP!SendQuery,
            N!SendFrame, NP!SendFrame, N!OnDataNext, NP!OnDataNext, N!InputDropped,
            NP!InputDropped, N!IsJoinResponse, NP!IsJoinResponse, N!IsAck, NP!IsAck, N!OnAck,
            NP!OnAck, N!QueryAnswered, NP!QueryAnswered, N!OnJoinResponse, NP!OnJoinResponse,
            N!SetConfDone, NP!SetConfDone, N!SentDone, NP!SentDone, N!sendVars, NP!sendVars,
            N!SetConfStart, NP!SetConfStart, N!Expected, NP!Expected, N!SetConfParam,
            NP!SetConfParam, N!UartIgnored, NP!UartIgnored, N!Restart, NP!Restart,
            N!OutputEnd, NP!OutputEnd, N!RetransmitGiveUp, NP!RetransmitGiveUp, N!PhySend,
            NP!PhySend, N!SleepTimer, NP!SleepTimer, N!AttemptsLeft, NP!AttemptsLeft,
            N!RetransmitCopy, NP!RetransmitCopy, N!ClearedResp, NP!ClearedResp,
            N!RetransmitTimeout, NP!RetransmitTimeout, N!QueryTimeout, NP!QueryTimeout,
            N!Process, NP!Process, N!Transmit, NP!Transmit, N!RetransmissionOver,
            NP!RetransmissionOver, N!OutputEvent, NP!OutputEvent, N!Dispatch, NP!Dispatch,
            N!TxDoneWait, NP!TxDoneWait, N!NeedsResponse, NP!NeedsResponse, N!EventLost,
            NP!EventLost, N!WaitsPhy, NP!WaitsPhy, N!Listen, NP!Listen, N!PhyWaitOver,
            NP!PhyWaitOver, N!NothingPending, NP!NothingPending, N!TxDoneNoWait,
            NP!TxDoneNoWait, N!Init, NP!Init, N!TypeOK, NP!TypeOK, N!Line, NP!Line, N!Seqno,
            NP!Seqno, Seqno, N!Data, NP!Data, Data, N!Addr, NP!Addr, Addr, N!Frame, NP!Frame,
            Frame, N!Command, NP!Command, Command, N!Give, NP!Give, N!Ends, NP!Ends,
            N!RadioCommand, NP!RadioCommand, N!Answer, NP!Answer, N!RadioGoesOn,
            NP!RadioGoesOn, N!Printed, NP!Printed, N!SetParam, NP!SetParam, N!modemVars,
            NP!modemVars, N!RetransmitExpires, NP!RetransmitExpires, N!QueryNow, NP!QueryNow,
            N!QueryLater, NP!QueryLater
<1>1. N!TypeOK <=> NP!TypeOK
  OBVIOUS
<1>2. N!Init <=> NP!Init
  OBVIOUS
<1>3. N!Process <=> NP!Process
  OBVIOUS
<1>4. N!QueryTimeout <=> NP!QueryTimeout
  OBVIOUS
<1>5. N!RetransmitTimeout <=> NP!RetransmitTimeout
  OBVIOUS
<1>6. N!RetransmitCopy <=> NP!RetransmitCopy
  OBVIOUS
<1>7. N!RetransmitGiveUp <=> NP!RetransmitGiveUp
  OBVIOUS
<1>8. N!OutputEnd <=> NP!OutputEnd
  OBVIOUS
<1>9. N!Restart <=> NP!Restart
  OBVIOUS
<1>10. N!Frame = Frame /\ N!Line = NP!Line
  OBVIOUS
<1>11. \A f : N!UartIgnored(f) <=> NP!UartIgnored(f)
  OBVIOUS
<1>12. \A f : N!SetConfParam(f) <=> NP!SetConfParam(f)
  OBVIOUS
<1>13. \A f : N!SetConfStart(f) <=> NP!SetConfStart(f)
  OBVIOUS
<1>14. \A f : N!SetConfDone(f) <=> NP!SetConfDone(f)
  OBVIOUS
<1>15. \A f : N!OnJoinResponse(f) <=> NP!OnJoinResponse(f)
  OBVIOUS
<1>16. \A f : N!OnAck(f) <=> NP!OnAck(f)
  OBVIOUS
<1>17. \A f : N!InputDropped(f) <=> NP!InputDropped(f)
  OBVIOUS
<1>18. \A f : N!OnDataNext(f) <=> NP!OnDataNext(f)
  OBVIOUS
<1>19. \A f : N!OnDataLast(f) <=> NP!OnDataLast(f)
  OBVIOUS
<1>20. \A f : N!OutputBegin(f) <=> NP!OutputBegin(f)
  OBVIOUS
<1>21. (N!QueryNow <=> NP!QueryNow) /\ (N!QueryLater <=> NP!QueryLater)
  OBVIOUS
<1> QED BY <1>1, <1>2, <1>3, <1>4, <1>5, <1>6, <1>7, <1>8, <1>9, <1>10, <1>11, <1>12,
           <1>13, <1>14, <1>15, <1>16, <1>17, <1>18, <1>19, <1>20, <1>21

\* ... and those of the root.
LEMMA RootSame ==
  /\ R!TypeOK <=> RP!TypeOK
  /\ R!Init <=> RP!Init
  /\ R!PhyTransmit <=> RP!PhyTransmit
  /\ R!Deliver <=> RP!Deliver
  /\ R!AnswerAck <=> RP!AnswerAck
  /\ R!AnswerTake <=> RP!AnswerTake
  /\ R!AnswerSend <=> RP!AnswerSend
  /\ \A f : R!Misaddressed(f) <=> RP!Misaddressed(f)
  /\ \A f : R!IgnoreFrame(f) <=> RP!IgnoreFrame(f)
  /\ \A f : R!UnknownCommand(f) <=> RP!UnknownCommand(f)
  /\ \A f : R!Retransmit(f) <=> RP!Retransmit(f)
  /\ \A f : R!AcceptQuery(f) <=> RP!AcceptQuery(f)
  /\ \A f : R!AcceptData(f) <=> RP!AcceptData(f)
  /\ \A f : R!JoinIgnored(f) <=> RP!JoinIgnored(f)
  /\ \A f : R!JoinAgain(f) <=> RP!JoinAgain(f)
  /\ \A f : R!JoinGiveUp(f) <=> RP!JoinGiveUp(f)
  /\ \A f : R!JoinFull(f) <=> RP!JoinFull(f)
  /\ \A f : R!JoinNew(f) <=> RP!JoinNew(f)
  /\ \A f : R!SenderCall(f) <=> RP!SenderCall(f)
  /\ \A f : R!SenderPut(f) <=> RP!SenderPut(f)
  /\ \A f : R!RxFrame(f) <=> RP!RxFrame(f)
<1> USE DEF R!SenderPut, RP!SenderPut, R!Put, RP!Put, R!FromRoot, RP!FromRoot, R!RootAddr,
            RP!RootAddr, RootAddr, R!Room, RP!Room, R!phyVars, RP!phyVars, R!SenderCall,
            RP!SenderCall, R!JoinNew, RP!JoinNew, R!NextPrefix, RP!NextPrefix, R!FirstSn,
            RP!FirstSn, R!JoinAccepted, RP!JoinAccepted, R!Known, RP!Known, R!Source,
            RP!Source, R!ReceiveJoin, RP!ReceiveJoin, R!Receive, RP!Receive, R!PhySend,
            RP!PhySend, R!NullFrame, RP!NullFrame, NullFrame, R!NoData, RP!NoData, NoData,
            R!NullAddr, RP!NullAddr, NullAddr, R!Goto, RP!Goto, R!At, RP!At, R!PrefixLeft,
            RP!PrefixLeft, R!Updated, RP!Updated, R!Waiting, RP!Waiting, R!NewChild,
            RP!NewChild, R!JoinFull, RP!JoinFull, R!Listen, RP!Listen, R!JoinGiveUp,
            RP!JoinGiveUp, R!LowByte, RP!LowByte, R!Without, RP!Without, R!Retried,
            RP!Retried, R!JoinAgain, RP!JoinAgain, R!JoinIgnored, RP!JoinIgnored, R!Sender,
            RP!Sender, R!Completes, RP!Completes, R!MarkJoined, RP!MarkJoined, R!AcceptData,
            RP!AcceptData, R!ReceiveFromChild, RP!ReceiveFromChild, R!Verdict, RP!Verdict,
            R!Compare, RP!Compare, R!Ack, RP!Ack, R!ChildAddr, RP!ChildAddr, R!AcceptQuery,
            RP!AcceptQuery, R!Retransmit, RP!Retransmit, R!IgnoreFrame, RP!IgnoreFrame,
            R!UnknownCommand, RP!UnknownCommand, R!Misaddressed, RP!Misaddressed, R!AnswerSend, RP!AnswerSend, R!MoreFollows,
            RP!MoreFollows, R!AnswerTake, RP!AnswerTake, R!AnswerAck, RP!AnswerAck, R!Deliver,
            RP!Deliver, R!BuildsPacket, RP!BuildsPacket, R!SendsInCallback,
            RP!SendsInCallback, R!AfterDelivery, RP!AfterDelivery, R!PhyTransmit,
            RP!PhyTransmit, R!Init, RP!Init, R!TypeOK, RP!TypeOK, R!ChildType, RP!ChildType,
            R!Seqno, RP!Seqno, Seqno, R!Frame, RP!Frame, Frame, R!Addr, RP!Addr, Addr,
            R!Command, RP!Command, Command, R!Data, RP!Data, Data, R!RxPc, RP!RxPc,
            R!RootPrefixes, RP!RootPrefixes
<1>1. R!TypeOK <=> RP!TypeOK
  OBVIOUS
<1>2. R!Init <=> RP!Init
  OBVIOUS
<1>3. R!PhyTransmit <=> RP!PhyTransmit
  OBVIOUS
<1>4. R!Deliver <=> RP!Deliver
  OBVIOUS
<1>5. R!AnswerAck <=> RP!AnswerAck
  OBVIOUS
<1>6. R!AnswerTake <=> RP!AnswerTake
  OBVIOUS
<1>7. R!AnswerSend <=> RP!AnswerSend
  OBVIOUS
<1>8. \A f : R!Misaddressed(f) <=> RP!Misaddressed(f)
  OBVIOUS
<1>9. \A f : R!IgnoreFrame(f) <=> RP!IgnoreFrame(f)
  OBVIOUS
<1>10. \A f : R!Retransmit(f) <=> RP!Retransmit(f)
  OBVIOUS
<1>11. \A f : R!AcceptQuery(f) <=> RP!AcceptQuery(f)
  OBVIOUS
<1>12. \A f : R!AcceptData(f) <=> RP!AcceptData(f)
  OBVIOUS
<1>13. \A f : R!JoinIgnored(f) <=> RP!JoinIgnored(f)
  OBVIOUS
<1>14. \A f : R!JoinAgain(f) <=> RP!JoinAgain(f)
  OBVIOUS
<1>15. \A f : R!JoinGiveUp(f) <=> RP!JoinGiveUp(f)
  OBVIOUS
<1>16. \A f : R!JoinFull(f) <=> RP!JoinFull(f)
  OBVIOUS
<1>17. \A f : R!JoinNew(f) <=> RP!JoinNew(f)
  OBVIOUS
<1>18. \A f : R!SenderCall(f) <=> RP!SenderCall(f)
  OBVIOUS
<1>19. \A f : R!SenderPut(f) <=> RP!SenderPut(f)
  OBVIOUS
<1>20. \A f : R!UnknownCommand(f) <=> RP!UnknownCommand(f)
  OBVIOUS
<1> HIDE DEF R!TypeOK, RP!TypeOK, R!Init, RP!Init, R!PhyTransmit, RP!PhyTransmit,
             R!Deliver, RP!Deliver, R!AnswerAck, RP!AnswerAck, R!AnswerTake,
             RP!AnswerTake, R!AnswerSend, RP!AnswerSend, R!Misaddressed, RP!Misaddressed,
             R!IgnoreFrame, RP!IgnoreFrame, R!UnknownCommand,
             RP!UnknownCommand, R!Retransmit, RP!Retransmit, R!AcceptQuery,
             RP!AcceptQuery, R!AcceptData, RP!AcceptData, R!JoinIgnored, RP!JoinIgnored,
             R!JoinAgain, RP!JoinAgain, R!JoinGiveUp, RP!JoinGiveUp, R!JoinFull,
             RP!JoinFull, R!JoinNew, RP!JoinNew, R!SenderCall, RP!SenderCall, R!SenderPut,
             RP!SenderPut
<1> QED BY <1>1, <1>2, <1>3, <1>4, <1>5, <1>6, <1>7, <1>8, <1>9, <1>10, <1>11, <1>12,
           <1>13, <1>14, <1>15, <1>16, <1>17, <1>18, <1>19, <1>20 DEF R!RxFrame, RP!RxFrame

-----------------------------------------------------------------------------
(* What a step of the link is to each end *)

LEMMA FrameSame ==
  /\ RP!Frame = Frame /\ NP!Frame = Frame /\ NP!Line = N!Line
  /\ RP!NoData = NoData /\ NP!NoData = NoData
BY DEF RP!Frame, NP!Frame, Frame, RP!Addr, NP!Addr, Addr, RP!Data, NP!Data, Data, RP!Command,
       NP!Command, Command, RP!Seqno, NP!Seqno, Seqno, RP!NoData, NP!NoData, NoData,
       NP!Line, N!Line, NP!Answer, N!Answer

\* Nothing happens to the root while the node works, and the other way round.
LEMMA RootRests == ASSUME UNCHANGED rootVars PROVE RP!LocalStep
BY DEF rootVars, RP!LocalStep, RP!vars, RP!phyVars

LEMMA NodeRests == ASSUME UNCHANGED nodeVars PROVE UNCHANGED NP!vars
BY DEF nodeVars, NP!vars, NP!macVars, NP!sendVars, NP!phyVars, NP!modemVars

\* The node alone.
LEMMA NodeSteps ==
  ASSUME NodeWorks \/ NodeHandsOver \/ ModemAnswers
  PROVE  NP!LocalStep /\ UNCHANGED rootVars /\ UNCHANGED <<down, restarts, spent>>
<1>1. CASE NodeWorks
  BY <1>1, NodeSame DEF NodeWorks, NP!LocalStep, NP!MainLoop, linkVars
<1>2. CASE NodeHandsOver
  BY <1>2, NodeSame DEF NodeHandsOver, NP!LocalStep, NP!MainLoop
<1>3. CASE ModemAnswers
  BY <1>3, NodeSame DEF ModemAnswers, NP!LocalStep, NP!LineStep
<1> QED BY <1>1, <1>2, <1>3

\* A frame of the root, as the node takes it.
LEMMA NodeInputs ==
  ASSUME NEW f, NodeInput(f)
  PROVE  /\ NP!Handled(f)
         /\ \/ /\ NP!OnJoinResponse(f) \/ NP!OnAck(f) \/ NP!InputDropped(f)
               /\ down' = down
            \/ /\ NP!OnDataNext(f) \/ NP!OnDataLast(f)
               /\ down' = IF cpu' = "fault" THEN down ELSE Delivered(down, uip'.data.val)
BY NodeSame DEF NodeInput, NP!Handled

\* The root alone, and with the frame that it transmits.
LEMMA RootSteps ==
  ASSUME RootWorks \/ RootTransmits PROVE RP!LocalStep
BY RootSame DEF RootWorks, RootTransmits, RP!LocalStep

LEMMA RootHandsOverSteps ==
  ASSUME RootHandsOver
  PROVE  \/ RP!LocalStep /\ down' = down
         \/ \E a : RP!HandsOver(down.sent + 1, a) /\ down' = [down EXCEPT !.sent = @ + 1]
BY RootSame DEF RootHandsOver, RP!LocalStep, RP!HandsOver

-----------------------------------------------------------------------------
(* The types *)

Channel(max) == [sent : 0..max, got : 0..max, count : Nat]

\* The frames that the PHY of the root has received.
Arrived ==
  /\ phy_rx \in Seq(Frame) /\ Len(phy_rx) <= RxBufSize
  /\ \A i \in 1..Len(phy_rx) : NP!Upward(phy_rx[i])

\* The packet that is delivered is one of the node's.
DeliversPacket == rx.pc = "deliver" => rx.frame.data.val \in 0..MaxUp

Counts ==
  /\ up \in Channel(MaxUp) /\ down \in Channel(MaxDown)
  /\ restarts \in 0..MaxRestarts /\ spent \in Nat /\ spent + next_seq <= MaxFrames

Loaded == \E n \in Nat : n = down.sent /\ RP!Load(n)

Ends == NP!Own /\ RP!Base
Carried == Ends /\ Loaded /\ Arrived /\ DeliversPacket /\ Counts

LEMMA OwnType == NP!Own => NP!TypeOK BY DEF NP!Own, NP!Safe
LEMMA BaseType == RP!Base => RP!TypeOK BY DEF RP!Base

\* What the invariant says of the types.
LEMMA CarriedType == ASSUME Carried PROVE TypeOK
<1>1. N!TypeOK /\ R!TypeOK
  BY NodeSame, RootSame, OwnType, BaseType DEF Carried, Ends
<1>2. spent <= MaxFrames
  BY OwnType, SeqModAssumption, LinkAssumption
     DEF Carried, Ends, Counts, NP!TypeOK, NP!Seqno
<1> QED BY <1>1, <1>2, LinkAssumption DEF Carried, Arrived, Counts, Channel, TypeOK

LEMMA InitCarried == Init => Carried
<1> SUFFICES ASSUME Init PROVE Carried
  OBVIOUS
<1>1. NP!Init /\ RP!Init
  BY NodeSame, RootSame DEF Init
<1>2. NP!Own
  BY <1>1, NP!OwnInit, NodeAssumed
<1>3. RP!Base
  BY <1>1, RP!InitInv, RootAssumed DEF RP!IInv
<1>4. RP!Load(0)
  BY <1>1, RP!InitLoad, RootAssumed
<1>5. Loaded
  BY <1>4 DEF Loaded, Init, NothingYet
<1>6. Arrived
  BY LinkAssumption DEF Init, Arrived
<1>7. DeliversPacket
  BY <1>1 DEF DeliversPacket, RP!Init, RP!Waiting, RP!At
<1>8. Counts
  BY <1>1, LinkAssumption, NumberedAssumption DEF Counts, Channel, Init, NothingYet, NP!Init
<1> QED BY <1>2, <1>3, <1>5, <1>6, <1>7, <1>8 DEF Carried, Ends

\* The frame that the root transmits, when the node gets it.
LEMMA HeadReceived ==
  ASSUME RP!Base, NEW n, RP!Load(n), phy_tx # << >>
  PROVE  LET f == Head(phy_tx)
         IN /\ f \in NP!Received /\ NP!Upward(f)
            /\ f \in RP!Held /\ RP!Proper(n, f)
<1>1. PICK f : f = Head(phy_tx)
  OBVIOUS
<1>2. f \in RP!Held /\ f \in Frame
  BY <1>1, BaseType, RP!HeldType, RP!HeadHeld, FrameSame, RootAssumed
<1>3. RP!Proper(n, f)
  BY <1>2 DEF RP!Load
<1>4. f \in NP!Received /\ NP!Upward(f)
  BY <1>2, <1>3, FrameSame DEF RP!Proper, NP!Received, NP!Upward
<1> QED BY <1>1, <1>2, <1>3, <1>4

\* Both ends keep what they keep alone.
LEMMA EndsNext ==
  ASSUME Ends, Loaded, Arrived, [Next]_vars
  PROVE  Ends'
<1>1. CASE NodeWorks \/ NodeHandsOver \/ ModemAnswers
  BY <1>1, NodeSteps, RootRests, NP!OwnLocal, RP!BaseLocal, RootAssumed, NodeAssumed DEF Ends
<1>2. CASE Restart
  <2>1. NP!Restart /\ UNCHANGED rootVars
    BY <1>2, NodeSame DEF Restart
  <2> QED BY <2>1, RootRests, NP!OwnRestart, RP!BaseLocal, RootAssumed, NodeAssumed DEF Ends
<1>3. CASE RootTransmits
  <2>1. RP!Base'
    BY <1>3, RootSteps, RP!BaseLocal, RootAssumed DEF Ends
  <2>2. CASE UNCHANGED nodeVars
    BY <2>1, <2>2, NodeRests, NP!OwnLocal, NodeAssumed DEF Ends
  <2>3. CASE NodeInput(Head(phy_tx))
    <3>1. phy_tx # << >>
      BY <1>3, RootSame DEF RootTransmits, RP!PhyTransmit
    <3>2. PICK n \in Nat : RP!Load(n)
      BY DEF Loaded
    <3>3. Head(phy_tx) \in NP!Received /\ NP!Upward(Head(phy_tx))
      BY <3>1, <3>2, HeadReceived DEF Ends
    <3> QED BY <2>1, <2>3, <3>3, NodeInputs, NP!OwnHandled, NodeAssumed DEF Ends
  <2> QED BY <1>3, <2>2, <2>3 DEF RootTransmits
<1>4. CASE RootReceives
  <2>1. UNCHANGED nodeVars /\ RP!RxFrame(Head(phy_rx)) /\ Head(phy_rx) \in RP!Frame
    BY <1>4, RootSame, FrameSame DEF RootReceives, Arrived
  <2> QED BY <2>1, NodeRests, NP!OwnLocal, RP!BaseFrame, RootAssumed, NodeAssumed DEF Ends
<1>5. CASE RootWorks
  BY <1>5, RootSteps, NodeRests, NP!OwnLocal, RP!BaseLocal, RootAssumed, NodeAssumed
     DEF RootWorks, Ends
<1>6. CASE RootHandsOver
  BY <1>6, RootHandsOverSteps, NodeRests, NP!OwnLocal, RP!BaseLocal, RP!BaseHandsOver,
     RootAssumed, NodeAssumed
     DEF RootHandsOver, Ends
<1>7. CASE UNCHANGED vars
  BY <1>7, NodeRests, RootRests, NP!OwnLocal, RP!BaseLocal, RootAssumed, NodeAssumed
     DEF vars, Ends
<1> QED BY <1>1, <1>2, <1>3, <1>4, <1>5, <1>6, <1>7 DEF Next

\* What a step is to the root, and to the packets handed over to it.
LEMMA StepCases ==
  ASSUME down \in Channel(MaxDown), [Next]_vars
  PROVE  \/ RP!LocalStep /\ down'.sent = down.sent
         \/ RootReceives /\ down' = down
         \/ \E a : /\ RP!HandsOver(down.sent + 1, a) /\ down.sent + 1 \in Payloads
                   /\ down' = [down EXCEPT !.sent = @ + 1] /\ down'.sent = down.sent + 1
<1>1. CASE NodeWorks \/ NodeHandsOver \/ ModemAnswers
  BY <1>1, NodeSteps, RootRests
<1>2. CASE Restart
  BY <1>2, RootRests DEF Restart
<1>3. CASE RootTransmits
  <2>1. CASE UNCHANGED <<nodeVars, down>>
    BY <1>3, <2>1, RootSteps
  <2>2. CASE NodeInput(Head(phy_tx))
    <3>1. down' = down \/ \E g : down' = Delivered(down, g)
      BY <2>2, NodeInputs
    <3>2. down'.sent = down.sent
      BY <3>1 DEF Channel, Delivered
    <3> QED BY <1>3, <3>2, RootSteps
  <2> QED BY <1>3, <2>1, <2>2 DEF RootTransmits
<1>4. CASE RootReceives
  BY <1>4 DEF RootReceives
<1>5. CASE RootWorks
  BY <1>5, RootSteps DEF RootWorks
<1>6. CASE RootHandsOver
  <2>1. CASE RP!LocalStep /\ down' = down
    BY <2>1
  <2>2. ASSUME NEW a, RP!HandsOver(down.sent + 1, a), down' = [down EXCEPT !.sent = @ + 1]
        PROVE  down.sent + 1 \in Payloads /\ down'.sent = down.sent + 1
    BY <1>6, <2>2 DEF RootHandsOver, Channel
  <2> QED BY <1>6, <2>1, <2>2, RootHandsOverSteps
<1>7. CASE UNCHANGED vars
  BY <1>7, RootRests DEF vars, linkVars
<1> QED BY <1>1, <1>2, <1>3, <1>4, <1>5, <1>6, <1>7 DEF Next

\* The root has nothing but what it may send, with the packets handed over so far.
LEMMA LoadedNext ==
  ASSUME Carried, [Next]_vars
  PROVE  Loaded'
<1>0. Ends /\ Arrived /\ down \in Channel(MaxDown)
  BY DEF Carried, Counts
<1>1. PICK n \in Nat : n = down.sent /\ RP!Load(n)
  BY DEF Carried, Loaded
<1>2. CASE RP!LocalStep /\ down'.sent = down.sent
  <2>1. RP!Load(n)'
    BY <1>0, <1>1, <1>2, RP!LoadLocal, RootAssumed DEF Ends
  <2> QED BY <1>1, <1>2, <2>1 DEF Loaded
<1>3. CASE RootReceives /\ down' = down
  <2>1. RP!RxFrame(Head(phy_rx)) /\ Head(phy_rx) \in RP!Frame
    BY <1>0, <1>3, RootSame, FrameSame DEF RootReceives, Arrived
  <2>2. RP!Load(n)'
    BY <1>0, <1>1, <2>1, RP!LoadFrame, RootAssumed DEF Ends
  <2> QED BY <1>1, <1>3, <2>2 DEF Loaded
<1>4. ASSUME NEW a, RP!HandsOver(down.sent + 1, a), down'.sent = down.sent + 1
      PROVE  Loaded'
  <2>1. PICK m \in Nat : m = n + 1
    OBVIOUS
  <2>2. RP!Load(m)'
    BY <1>0, <1>1, <1>4, <2>1, RP!LoadHandsOver, RootAssumed DEF Ends
  <2> QED BY <1>1, <1>4, <2>1, <2>2 DEF Loaded
<1> QED BY <1>0, <1>2, <1>3, <1>4, StepCases

\* The frames that arrive at the root are those of the node.
LEMMA ArrivedNext ==
  ASSUME Carried, [Next]_vars
  PROVE  Arrived'
<1>1. phy_rx \in Seq(Frame) /\ Len(phy_rx) <= RxBufSize
      /\ \A i \in 1..Len(phy_rx) : NP!Upward(phy_rx[i])
  BY DEF Carried, Arrived
<1>2. CASE ModemAnswers
  <2>1. on_air \in Frame /\ NP!Upward(on_air)
    BY FrameSame, OwnType DEF Carried, Ends, NP!Own, NP!TypeOK, NP!CarriesUpward
  <2>2. CASE phy_rx' = phy_rx
    BY <1>1, <2>2 DEF Arrived, NP!Upward
  <2>3. CASE Len(phy_rx) < RxBufSize /\ phy_rx' = Append(phy_rx, on_air)
    <3>1. PICK b : b = phy_rx'
      OBVIOUS
    <3>2. PICK x : x = on_air
      OBVIOUS
    <3>3. b = Append(phy_rx, x) /\ x \in Frame /\ NP!Upward(x)
      BY <2>1, <2>3, <3>1, <3>2
    <3>4. b \in Seq(Frame) /\ Len(b) <= RxBufSize
      BY <1>1, <2>3, <3>3, LinkAssumption
    <3>5. ASSUME NEW i \in 1..Len(b) PROVE NP!Upward(b[i])
      <4>1. i = Len(phy_rx) + 1 \/ i \in 1..Len(phy_rx)
        BY <1>1, <3>3
      <4>2. i = Len(phy_rx) + 1 => b[i] = x
        BY <1>1, <3>3
      <4>3. i \in 1..Len(phy_rx) => b[i] = phy_rx[i]
        BY <1>1, <3>3
      <4> QED BY <1>1, <3>3, <4>1, <4>2, <4>3
    <3> QED BY <3>1, <3>4, <3>5 DEF Arrived, NP!Upward
  <2> QED BY <1>2, <2>2, <2>3 DEF ModemAnswers
<1>3. CASE RootReceives
  <2>1. PICK b : b = phy_rx'
    OBVIOUS
  <2>2. b = Tail(phy_rx) /\ phy_rx # << >>
    BY <1>3, <2>1 DEF RootReceives
  <2>3. b \in Seq(Frame) /\ Len(b) <= RxBufSize
    BY <1>1, <2>2, LinkAssumption
  <2>4. \A i \in 1..Len(b) : i + 1 \in 1..Len(phy_rx) /\ b[i] = phy_rx[i + 1]
    BY <1>1, <2>2
  <2>5. \A i \in 1..Len(b) : NP!Upward(b[i])
    BY <1>1, <2>4
  <2> QED BY <2>1, <2>3, <2>5 DEF Arrived, NP!Upward
<1>4. CASE phy_rx' = phy_rx
  BY <1>1, <1>4 DEF Arrived, NP!Upward
<1> QED BY <1>2, <1>3, <1>4
        DEF Next, NodeWorks, NodeHandsOver, Restart, RootTransmits, RootWorks, RootHandsOver,
            vars, linkVars

\* The frame that is delivered has come from a child, so its data is a packet.
LEMMA DeliversPacketNext ==
  ASSUME Carried, [Next]_vars
  PROVE  DeliversPacket'
<1>0. Ends /\ Arrived /\ DeliversPacket /\ down \in Channel(MaxDown)
  BY DEF Carried, Counts
<1>1. CASE RP!LocalStep
  <2>1. rx'.pc = "deliver" => rx' = rx
    BY <1>1, RP!DeliverKept, RootAssumed
  <2> QED BY <1>0, <2>1 DEF DeliversPacket
<1>2. CASE RootReceives
  <2>1. PICK f : f = Head(phy_rx)
    OBVIOUS
  <2>2. RP!RxFrame(f) /\ f \in Frame /\ NP!Upward(f)
    <3>1. Head(phy_rx) = phy_rx[1] /\ 1 \in 1..Len(phy_rx)
      BY <1>0, <1>2 DEF RootReceives, Arrived
    <3> QED BY <1>0, <1>2, <2>1, <3>1, RootSame DEF RootReceives, Arrived
  <2>3. ASSUME rx'.pc = "deliver" PROVE rx'.frame.data.val \in 0..MaxUp
    <3>1. RP!Known(f) /\ rx'.frame = f
      BY <1>0, <2>2, <2>3, BaseType, FrameSame, RP!AcceptedFrame, RootAssumed DEF Ends
    <3>2. f.src_addr.prefix \in RP!RootPrefixes
      BY <1>0, <3>1, BaseType DEF Ends, RP!TypeOK, RP!Known, RP!Source
    <3>3. f.data = NoData \/ f.data \in [kind : {"packet"}, val : Packets]
      BY <2>2, <3>2, RootAssumed, FrameSame DEF NP!Upward
    <3> QED BY <3>1, <3>3, NumberedAssumption DEF NoData
  <2> QED BY <2>3 DEF DeliversPacket
<1>3. ASSUME NEW a, RP!HandsOver(down.sent + 1, a) PROVE DeliversPacket'
  <2>1. rx' = rx
    BY <1>3, RP!DeliverHandsOver, RootAssumed
  <2> QED BY <1>0, <2>1 DEF DeliversPacket
<1> QED BY <1>0, <1>1, <1>2, <1>3, StepCases

\* A frame that the node takes has one of the packets handed over, or delivers none.
LEMMA DownStep ==
  ASSUME Ends, Loaded, down \in Channel(MaxDown), RootTransmits, NodeInput(Head(phy_tx))
  PROVE  \/ down' = down
         \/ \E g \in 1..down.sent : down' = Delivered(down, g)
<1>1. PICK f : f = Head(phy_tx)
  OBVIOUS
<1>2. PICK n \in Nat : n = down.sent /\ RP!Load(n)
  BY DEF Loaded
<1>3. phy_tx # << >>
  BY RootSame DEF RootTransmits, RP!PhyTransmit
<1>4. f \in NP!Received /\ RP!Proper(n, f)
  BY <1>1, <1>2, <1>3, HeadReceived DEF Ends
<1>5. CASE (NP!OnDataNext(f) \/ NP!OnDataLast(f))
           /\ down' = IF cpu' = "fault" THEN down ELSE Delivered(down, uip'.data.val)
  <2>1. f.command = "DATA" /\ (cpu' # "fault" => uip'.data = f.data)
    BY <1>4, <1>5, NP!DataBy, NodeAssumed
  <2>2. f.data.val \in 1..n
    BY <1>4, <2>1 DEF RP!Proper
  <2> QED BY <1>2, <1>5, <2>1, <2>2
<1> QED BY <1>1, <1>5, NodeInputs

LEMMA ChannelParts ==
  ASSUME NEW max \in Nat, NEW ch \in Channel(max)
  PROVE  /\ ch.sent \in 0..max /\ ch.got \in 0..max /\ ch.count \in Nat
         /\ \A s \in 0..max : [ch EXCEPT !.sent = s] \in Channel(max)
         /\ \A g \in 0..max : Delivered(ch, g) \in Channel(max)
<1>1. ch.sent \in 0..max /\ ch.got \in 0..max /\ ch.count \in Nat
  BY DEF Channel
<1>2. ASSUME NEW s \in 0..max PROVE [ch EXCEPT !.sent = s] \in Channel(max)
  BY DEF Channel
<1>3. ASSUME NEW g \in 0..max PROVE Delivered(ch, g) \in Channel(max)
  <2>1. PICK k \in Nat : k = ch.count + 1
    BY <1>1
  <2>2. Delivered(ch, g) = [ch EXCEPT !.got = g, !.count = k]
    BY <2>1 DEF Delivered
  <2>3. [ch EXCEPT !.got = g, !.count = k] \in Channel(max)
    BY DEF Channel
  <2> QED BY <2>2, <2>3
<1> QED BY <1>1, <1>2, <1>3

\* The packets and the frames are counted within their bounds.
LEMMA CountsNext ==
  ASSUME Carried, [Next]_vars
  PROVE  Counts'
<1>0. /\ Ends /\ Loaded /\ DeliversPacket
      /\ up \in Channel(MaxUp) /\ down \in Channel(MaxDown)
      /\ restarts \in 0..MaxRestarts /\ spent \in Nat /\ spent + next_seq <= MaxFrames
  BY DEF Carried, Counts
<1>1. next_seq \in Nat /\ next_seq' \in Nat
  <2>1. Ends'
    BY EndsNext DEF Carried
  <2>2. NP!TypeOK /\ NP!TypeOK'
    BY <1>0, <2>1 DEF Ends, NP!Own, NP!Safe
  <2>3. next_seq \in NP!Seqno /\ next_seq' \in NP!Seqno
    BY <2>2 DEF NP!TypeOK, NP!Seqno
  <2> QED BY <2>3, SeqModAssumption DEF NP!Seqno
<1>2. up' \in Channel(MaxUp)
  <2>1. CASE up' = up
    BY <1>0, <2>1
  <2>2. CASE NodeHandsOver
    <3>1. up.sent + 1 \in 0..MaxUp /\ up' = [up EXCEPT !.sent = up.sent + 1]
      BY <1>0, <2>2, ChannelParts, NumberedAssumption DEF NodeHandsOver
    <3> QED BY <1>0, <3>1, ChannelParts, NumberedAssumption
  <2>3. CASE RootWorks /\ up' # up
    <3>1. rx.pc = "deliver" /\ up' = Delivered(up, rx.frame.data.val)
      BY <2>3, RootSame DEF RootWorks, RP!Deliver
    <3>2. PICK g : g = rx.frame.data.val
      OBVIOUS
    <3>3. g \in 0..MaxUp
      BY <1>0, <3>1, <3>2 DEF DeliversPacket
    <3> QED BY <1>0, <3>1, <3>2, <3>3, ChannelParts, NumberedAssumption
  <2> QED BY <2>1, <2>2, <2>3
          DEF Next, NodeWorks, ModemAnswers, Restart, RootTransmits, RootReceives,
              RootHandsOver, vars, linkVars
<1>3. down' \in Channel(MaxDown)
  <2>1. CASE down' = down
    BY <1>0, <2>1
  <2>2. CASE RootTransmits /\ down' # down
    <3>1. PICK g \in 1..down.sent : down' = Delivered(down, g)
      BY <1>0, <2>2, DownStep DEF RootTransmits
    <3>2. g \in 0..MaxDown
      BY <1>0, ChannelParts, NumberedAssumption
    <3> QED BY <1>0, <3>1, <3>2, ChannelParts, NumberedAssumption
  <2>3. CASE RootHandsOver /\ down' # down
    <3>1. down.sent + 1 \in 0..MaxDown /\ down' = [down EXCEPT !.sent = down.sent + 1]
      BY <1>0, <2>3, ChannelParts, NumberedAssumption DEF RootHandsOver
    <3> QED BY <1>0, <3>1, ChannelParts, NumberedAssumption
  <2> QED BY <2>1, <2>2, <2>3
          DEF Next, NodeWorks, NodeHandsOver, ModemAnswers, Restart, RootReceives, RootWorks,
              vars, linkVars
<1>4. CASE NodeWorks
  BY <1>0, <1>1, <1>2, <1>3, <1>4 DEF NodeWorks, linkVars, Counts, Channel
<1>5. CASE Restart
  BY <1>0, <1>1, <1>2, <1>3, <1>5, NodeSame, LinkAssumption
     DEF Restart, NP!Restart, Counts, Channel
<1>6. CASE UNCHANGED <<restarts, spent>> /\ next_seq' = next_seq
  BY <1>0, <1>2, <1>3, <1>6 DEF Counts, Channel
<1>7. (UNCHANGED <<restarts, spent>> /\ next_seq' = next_seq) \/ NodeWorks \/ Restart
  <2>1. CASE NodeHandsOver
    <3>1. \E p \in Packets : NP!OutputBegin(p)
      BY <2>1, NodeSame DEF NodeHandsOver
    <3> QED BY <2>1, <3>1, NP!NextSeqKept, NodeAssumed DEF NodeHandsOver
  <2>2. CASE ModemAnswers
    <3>1. NP!LineStep
      BY <2>2, NodeSame DEF ModemAnswers, NP!LineStep
    <3> QED BY <2>2, <3>1, NP!NextSeqKept, NodeAssumed DEF ModemAnswers
  <2>3. CASE RootTransmits
    <3>1. UNCHANGED NP!vars \/ NP!Handled(Head(phy_tx))
      BY <2>3, NodeRests, NodeInputs DEF RootTransmits
    <3>2. next_seq' = next_seq
      BY <3>1, NP!NextSeqKept, NodeAssumed
    <3> QED BY <2>3, <3>2 DEF RootTransmits
  <2>4. CASE RootReceives \/ RootWorks \/ RootHandsOver \/ UNCHANGED vars
    BY <2>4 DEF RootReceives, RootWorks, RootHandsOver, vars, nodeVars, linkVars
  <2> QED BY <2>1, <2>2, <2>3, <2>4 DEF Next
<1> QED BY <1>4, <1>5, <1>6, <1>7

LEMMA CarriedNext == ASSUME Carried, [Next]_vars PROVE Carried'
<1>1. Ends'
  BY EndsNext DEF Carried
<1> QED BY <1>1, LoadedNext, ArrivedNext, DeliversPacketNext, CountsNext DEF Carried

\* Node and root keep their types when they run together, and so do the frames between
\* them and the counts of packets and frames.
THEOREM TypeOKHolds == Spec => []TypeOK
<1>1. Carried /\ [Next]_vars => Carried'
  BY CarriedNext
<1>2. Carried => TypeOK
  BY CarriedType
<1> QED BY InitCarried, <1>1, <1>2, PTL DEF Spec

-----------------------------------------------------------------------------
(* The node is never ahead *)

\* What the node knows of the root: nothing, or a prefix that was given, and a number
\* that the child under that prefix has reached.
Knows ==
  /\ state = "ALONE" => expected_seq = 0
  /\ state # "ALONE" =>
       /\ RP!Given(lora_node_addr.prefix)
       /\ expected_seq <= child[lora_node_addr.prefix].next_sn

\* The frames of the root and their numbers, with the packets handed over so far.
Sending == \E n \in Nat : n = down.sent /\ RP!Traffic(n)

\* What a step is to the node: nothing that it knows changes, it starts again, it joins ...
SameNode ==
  /\ state' = "ALONE" <=> state = "ALONE"
  /\ UNCHANGED <<lora_node_addr, expected_seq>>
  /\ down'.got = down.got /\ down'.count = down.count
StartsAgain == restarts < MaxRestarts /\ state' = "ALONE" /\ expected_seq' = 0
Joins(f) ==
  /\ state = "ALONE" /\ state' # "ALONE"
  /\ f.data.kind = "prefix" /\ lora_node_addr'.prefix = f.data.val
  /\ expected_seq' = (expected_seq + 1) % SeqMod
  /\ down' = down

\* ... or it accepts DATA, and delivers it unless it faults.
Accepts(f) ==
  /\ state # "ALONE" /\ state' # "ALONE"
  /\ RP!DataFor(f, lora_node_addr.prefix) /\ lora_node_addr' = lora_node_addr
  /\ f.seqno >= expected_seq /\ expected_seq' = (f.seqno + 1) % SeqMod
  /\ down' \in {down, Delivered(down, f.data.val)}

LEMMA NodeCases ==
  ASSUME Carried, [Next]_vars
  PROVE  SameNode \/ StartsAgain \/ \E f \in RP!Held : Joins(f) \/ Accepts(f)
<1>0. NP!Safe /\ Ends /\ Loaded /\ down \in Channel(MaxDown)
  BY DEF Carried, Counts, Ends, NP!Own
<1>1. CASE NodeWorks \/ NodeHandsOver \/ ModemAnswers
  BY <1>0, <1>1, NodeSteps, NP!LocalAlone, NodeAssumed DEF SameNode
<1>2. CASE Restart
  BY <1>2, NodeSame DEF Restart, NP!Restart, StartsAgain
<1>3. CASE RootTransmits /\ NodeInput(Head(phy_tx))
  <2>1. PICK f : f = Head(phy_tx)
    OBVIOUS
  <2>2. phy_tx # << >>
    BY <1>3, RootSame DEF RootTransmits, RP!PhyTransmit
  <2>3. f \in NP!Received /\ f \in RP!Held
    BY <1>0, <2>1, <2>2, HeadReceived DEF Ends, Loaded
  <2>4. CASE (NP!OnJoinResponse(f) \/ NP!OnAck(f) \/ NP!InputDropped(f)) /\ down' = down
    BY <2>3, <2>4, NP!JoinedBy, NP!OtherBy, NodeAssumed DEF Joins, SameNode
  <2>5. CASE (NP!OnDataNext(f) \/ NP!OnDataLast(f))
             /\ down' = IF cpu' = "fault" THEN down ELSE Delivered(down, uip'.data.val)
    <3>1. down' \in {down, Delivered(down, f.data.val)}
      BY <2>3, <2>5, NP!DataBy, NodeAssumed
    <3>2. Accepts(f)
      BY <2>3, <2>5, <3>1, NP!DataBy, NodeAssumed DEF Accepts, RP!DataFor
    <3> QED BY <2>3, <3>2
  <2> QED BY <1>3, <2>1, <2>4, <2>5, NodeInputs
<1>4. CASE UNCHANGED <<nodeVars, down>>
  BY <1>4 DEF SameNode, nodeVars
<1>5. CASE RootHandsOver
  <2>1. UNCHANGED nodeVars
    BY <1>5 DEF RootHandsOver
  <2>2. down' = down \/ down' = [down EXCEPT !.sent = @ + 1]
    BY <1>5 DEF RootHandsOver
  <2>3. down'.got = down.got /\ down'.count = down.count
    BY <1>0, <2>2 DEF Channel
  <2> QED BY <2>1, <2>3 DEF SameNode, nodeVars
<1> QED BY <1>1, <1>2, <1>3, <1>4, <1>5
        DEF Next, RootTransmits, RootReceives, RootWorks, vars, linkVars

\* The numbers of the frames go on in order, whatever the step.
LEMMA SendingNext ==
  ASSUME Carried, Sending, MaxDown + 2 <= SeqMod, [Next]_vars
  PROVE  Sending' /\ RP!Grows /\ RP!StaysAhead(down.sent)
<1>0. Ends /\ Arrived /\ down \in Channel(MaxDown) /\ down.sent <= MaxDown
  BY DEF Carried, Counts, Channel
<1>1. PICK n \in Nat : n = down.sent /\ RP!Traffic(n)
  BY DEF Sending
<1>2. n + 2 <= SeqMod
  BY <1>0, <1>1, SeqModAssumption, NumberedAssumption
<1>3. CASE RP!LocalStep /\ down'.sent = down.sent
  <2>1. RP!Traffic(n)' /\ RP!Grows /\ RP!StaysAhead(n)
    BY <1>0, <1>1, <1>2, <1>3, RP!TrafficLocal, RootAssumed DEF Ends
  <2> QED BY <1>1, <1>3, <2>1 DEF Sending
<1>4. CASE RootReceives /\ down' = down
  <2>1. RP!RxFrame(Head(phy_rx)) /\ Head(phy_rx) \in RP!Frame
    BY <1>0, <1>4, RootSame, FrameSame DEF RootReceives, Arrived
  <2>2. RP!Traffic(n)' /\ RP!Grows /\ RP!StaysAhead(n)
    BY <1>0, <1>1, <2>1, RP!TrafficFrame, RootAssumed DEF Ends
  <2> QED BY <1>1, <1>4, <2>2 DEF Sending
<1>5. ASSUME NEW a, RP!HandsOver(down.sent + 1, a), down'.sent = down.sent + 1
      PROVE  Sending' /\ RP!Grows /\ RP!StaysAhead(n)
  <2>1. PICK m \in Nat : m = n + 1
    OBVIOUS
  <2>2. RP!HandsOver(m, a)
    BY <1>1, <1>5, <2>1
  <2>3. RP!Traffic(m)' /\ RP!Grows /\ RP!StaysAhead(n)
    BY <1>0, <1>1, <2>1, <2>2, RP!TrafficHandsOver, RootAssumed DEF Ends
  <2> QED BY <1>1, <1>5, <2>1, <2>3 DEF Sending
<1> QED BY <1>0, <1>1, <1>3, <1>4, <1>5, StepCases

\* A prefix that is given is one of the root, and its child has used the number 0.
LEMMA GivenFacts ==
  ASSUME RP!Base, NEW n, RP!Traffic(n), NEW p, RP!Given(p)
  PROVE  p \in RP!RootPrefixes /\ child[p].next_sn \in 1..(SeqMod - 1)
<1>1. p \in RP!RootPrefixes
  BY DEF RP!Given
<1>2. child[p].next_sn \in RP!Seqno
  BY <1>1, BaseType DEF RP!TypeOK, RP!ChildType
<1>3. RP!Buffered(n, p)
  BY <1>1 DEF RP!Traffic
<1>4. child[p].next_sn >= 1
  BY <1>3 DEF RP!Buffered
<1> QED BY <1>1, <1>2, <1>4, SeqModAssumption DEF RP!Seqno

\* The prefix that a frame brings is given, and the number of DATA is used.
LEMMA HeldFacts ==
  ASSUME RP!Base, NEW n, RP!Traffic(n), NEW f \in RP!Held
  PROVE  /\ f.seqno \in 0..(SeqMod - 1)
         /\ f.data.kind = "prefix" => RP!Given(f.data.val)
         /\ \A p : RP!DataFor(f, p) =>
              RP!Given(p) /\ f.seqno < child[p].next_sn /\ f.data.val \in 1..n
<1>1. f \in RP!Frame /\ RP!Proper(n, f) /\ RP!Numbered(f)
  BY BaseType, RP!HeldType, RootAssumed DEF RP!Traffic
<1> QED BY <1>1 DEF RP!Frame, RP!Seqno, RP!Proper, RP!Numbered, RP!DataFor

\* What the node knows after the step was so before it, and the root only goes on.
LEMMA KnowsNext ==
  ASSUME Carried, Sending, Knows, MaxDown + 2 <= SeqMod, [Next]_vars
  PROVE  Knows'
<1>0. RP!Base /\ RP!Grows
  BY SendingNext DEF Carried, Ends
<1>1. PICK n \in Nat : RP!Traffic(n)
  BY DEF Sending
<1>2. expected_seq \in 0..(SeqMod - 1)
  BY OwnType DEF Carried, Ends, NP!TypeOK, NP!Seqno
<1>3. PICK p : p = lora_node_addr'.prefix
  OBVIOUS
<1>4. PICK e : e = expected_seq'
  OBVIOUS
<1>5. /\ state' = "ALONE" => e = 0
      /\ state' # "ALONE" => RP!Given(p) /\ e <= child[p].next_sn /\ e \in Nat
  <2>1. CASE SameNode
    BY <1>2, <1>3, <1>4, <2>1 DEF SameNode, Knows
  <2>2. CASE StartsAgain
    BY <1>4, <2>2 DEF StartsAgain
  <2>3. ASSUME NEW f \in RP!Held, Joins(f)
        PROVE  state' # "ALONE" /\ RP!Given(p) /\ e <= child[p].next_sn /\ e \in Nat
    <3>1. RP!Given(p)
      BY <1>0, <1>1, <1>3, <2>3, HeldFacts DEF Joins
    <3>2. child[p].next_sn \in 1..(SeqMod - 1)
      BY <1>0, <1>1, <3>1, GivenFacts
    <3>3. e = 1
      BY <1>4, <2>3, SeqModAssumption DEF Joins, Knows
    <3> QED BY <2>3, <3>1, <3>2, <3>3, SeqModAssumption DEF Joins
  <2>4. ASSUME NEW f \in RP!Held, Accepts(f)
        PROVE  state' # "ALONE" /\ RP!Given(p) /\ e <= child[p].next_sn /\ e \in Nat
    <3>1. RP!DataFor(f, p)
      BY <1>3, <2>4 DEF Accepts
    <3>2. f.seqno \in 0..(SeqMod - 1) /\ RP!Given(p) /\ f.seqno < child[p].next_sn
      BY <1>0, <1>1, <3>1, HeldFacts
    <3>3. child[p].next_sn \in 1..(SeqMod - 1)
      BY <1>0, <1>1, <3>2, GivenFacts
    <3>4. e = f.seqno + 1
      BY <1>4, <2>4, <3>2, <3>3, SeqModAssumption DEF Accepts
    <3> QED BY <2>4, <3>2, <3>3, <3>4, SeqModAssumption DEF Accepts
  <2> QED BY <2>1, <2>2, <2>3, <2>4, NodeCases
<1>6. state' # "ALONE" => RP!Given(p)' /\ e <= child'[p].next_sn
  <2>1. ASSUME state' # "ALONE" PROVE RP!Given(p)' /\ child[p].next_sn <= child'[p].next_sn
    BY <1>0, <1>5, <2>1 DEF RP!Grows
  <2>2. ASSUME state' # "ALONE" PROVE child'[p].next_sn \in Nat /\ child[p].next_sn \in Nat
    <3>1. PICK m \in Nat : RP!Traffic(m)'
      BY SendingNext DEF Sending
    <3>2. Ends'
      BY EndsNext DEF Carried
    <3>3. RP!TypeOK' /\ p \in RP!RootPrefixes
      BY <1>5, <2>2, <3>2 DEF Ends, RP!Base, RP!Given
    <3>4. child'[p].next_sn \in RP!Seqno
      BY <3>3 DEF RP!TypeOK, RP!ChildType, RP!Seqno
    <3> QED BY <1>0, <1>1, <1>5, <2>2, <3>4, GivenFacts, SeqModAssumption DEF RP!Seqno
  <2> QED BY <1>5, <2>1, <2>2
<1> QED BY <1>3, <1>4, <1>5, <1>6 DEF Knows, RP!Given

LEMMA InitSending == Init => Sending /\ Knows
<1> SUFFICES ASSUME Init PROVE Sending /\ Knows
  OBVIOUS
<1>1. NP!Init /\ RP!Init
  BY NodeSame, RootSame DEF Init
<1>2. RP!Traffic(0)
  BY <1>1, RP!InitTraffic, RootAssumed
<1> QED BY <1>1, <1>2 DEF Sending, Knows, Init, NothingYet, NP!Init

\* While the numbers of the root do not wrap, the node never expects one that the root
\* has not reached, through losses, repetitions and restarts.
THEOREM NodeNotAheadHolds ==
  ASSUME MaxDown + 2 <= SeqMod
  PROVE  Spec => []NodeNotAhead
<1>1. Init => Carried /\ Sending /\ Knows
  BY InitCarried, InitSending
<1>2. Carried /\ Sending /\ Knows /\ [Next]_vars => (Carried /\ Sending /\ Knows)'
  BY CarriedNext, SendingNext, KnowsNext
<1>3. Knows => NodeNotAhead
  BY DEF Knows, NodeNotAhead
<1> QED BY <1>1, <1>2, <1>3, PTL DEF Spec

-----------------------------------------------------------------------------
(* The packets of the root reach uIP in order *)

\* What the root has still to send to the node, in frames that the node would accept,
\* comes after the packet delivered last; a node that is alone has had none.
Follows ==
  /\ down.got <= down.sent
  /\ state = "ALONE" => down.got = 0
  /\ state # "ALONE" => RP!Ahead(lora_node_addr.prefix, expected_seq, down.got)

\* A packet that is delivered comes after those before it.
LEMMA AcceptsLater ==
  ASSUME Carried, Sending, Knows, Follows, NEW f \in RP!Held, Accepts(f)
  PROVE  f.data.val \in (down.got + 1)..down.sent
<1>0. RP!Base /\ down \in Channel(MaxDown)
  BY DEF Carried, Counts, Ends
<1>1. PICK n \in Nat : n = down.sent /\ RP!Traffic(n)
  BY DEF Sending
<1>2. RP!DataFor(f, lora_node_addr.prefix) /\ f.seqno >= expected_seq
  BY DEF Accepts
<1>3. f.data.val \in 1..n
  BY <1>0, <1>1, <1>2, HeldFacts
<1>4. down.got < f.data.val
  BY <1>2 DEF Follows, Accepts, RP!Ahead
<1>5. down.got \in Nat
  BY <1>0 DEF Channel
<1> QED BY <1>1, <1>3, <1>4, <1>5

\* Seen from before the step, what is to come after it follows the packet that is then
\* the last.
LEMMA AheadOfStep ==
  ASSUME Carried, Sending, Knows, Follows, MaxDown + 2 <= SeqMod, MaxRestarts = 0,
         [Next]_vars, NEW p, p = lora_node_addr'.prefix, NEW e, e = expected_seq',
         NEW g, g = down'.got
  PROVE  /\ g \in 0..down.sent
         /\ state' = "ALONE" => g = 0
         /\ state' # "ALONE" => RP!Given(p) /\ RP!Ahead(p, e, g)
<1>0. RP!Base /\ RP!TypeOK /\ down \in Channel(MaxDown)
  BY BaseType DEF Carried, Counts, Ends
<1>1. PICK n \in Nat : n = down.sent /\ RP!Traffic(n)
  BY DEF Sending
<1>2. expected_seq \in 0..(SeqMod - 1) /\ down.got \in 0..down.sent
  BY <1>0, OwnType DEF Carried, Ends, NP!TypeOK, NP!Seqno, Channel, Follows
<1>3. CASE SameNode
  BY <1>2, <1>3 DEF SameNode, Knows, Follows
<1>4. ASSUME NEW f \in RP!Held, Joins(f)
      PROVE  g = 0 /\ state' # "ALONE" /\ RP!Given(p) /\ RP!Ahead(p, e, g)
  <2>1. g = 0 /\ state' # "ALONE"
    BY <1>4 DEF Joins, Follows
  <2>2. RP!Given(p)
    BY <1>0, <1>1, <1>4, HeldFacts DEF Joins
  <2>3. p \in RP!RootPrefixes
    BY <2>2 DEF RP!Given
  <2> QED BY <1>1, <2>1, <2>2, <2>3, RP!FirstAhead, RootAssumed
<1>5. ASSUME NEW f \in RP!Held, Accepts(f)
      PROVE  g \in 0..n /\ state' # "ALONE" /\ RP!Given(p) /\ RP!Ahead(p, e, g)
  <2>1. RP!DataFor(f, p) /\ lora_node_addr.prefix = p /\ state # "ALONE" /\ state' # "ALONE"
    BY <1>5 DEF Accepts
  <2>2. /\ f.seqno \in 0..(SeqMod - 1) /\ RP!Given(p) /\ f.seqno < child[p].next_sn
        /\ f.data.val \in 1..n
    BY <1>0, <1>1, <2>1, HeldFacts
  <2>3. p \in RP!RootPrefixes /\ child[p].next_sn \in 1..(SeqMod - 1)
    BY <1>0, <1>1, <2>2, GivenFacts
  <2>4. e = f.seqno + 1 /\ e >= expected_seq /\ e \in Nat
    BY <1>2, <1>5, <2>2, <2>3, SeqModAssumption DEF Accepts
  <2>5. CASE down' = down
    <3>1. g = down.got /\ RP!Ahead(p, expected_seq, g)
      BY <2>1, <2>5 DEF Follows
    <3>2. RP!Ahead(p, e, g)
      BY <1>0, <1>2, <2>4, <3>1, RP!LaterAhead, RootAssumed
    <3> QED BY <1>1, <1>2, <2>1, <2>2, <3>1, <3>2
  <2>6. CASE down' = Delivered(down, f.data.val)
    <3>1. g = f.data.val
      BY <1>0, <2>6 DEF Delivered, Channel
    <3>2. RP!Ahead(p, e, f.data.val)
      BY <1>0, <1>1, <2>1, <2>3, <2>4, RP!PastAhead, RootAssumed
    <3> QED BY <2>1, <2>2, <3>1, <3>2
  <2> QED BY <1>5, <2>5, <2>6 DEF Accepts
<1>6. ~StartsAgain
  BY LinkAssumption DEF StartsAgain, Carried, Counts
<1> QED BY <1>1, <1>3, <1>4, <1>5, <1>6, NodeCases

LEMMA SentGrows ==
  ASSUME Carried, [Next]_vars
  PROVE  down.sent \in Nat /\ down'.sent \in Nat /\ down'.sent >= down.sent
<1>1. down \in Channel(MaxDown) /\ down.sent \in Nat
  BY DEF Carried, Counts, Channel
<1> QED BY <1>1, StepCases

LEMMA FollowsNext ==
  ASSUME Carried, Sending, Knows, Follows, MaxDown + 2 <= SeqMod, MaxRestarts = 0, [Next]_vars
  PROVE  Follows'
<1>1. PICK p : p = lora_node_addr'.prefix
  OBVIOUS
<1>2. PICK e : e = expected_seq'
  OBVIOUS
<1>3. PICK g : g = down'.got
  OBVIOUS
<1>4. /\ g \in 0..down.sent
      /\ state' = "ALONE" => g = 0
      /\ state' # "ALONE" => RP!Given(p) /\ RP!Ahead(p, e, g)
  BY <1>1, <1>2, <1>3, AheadOfStep
<1>5. state' # "ALONE" => RP!Ahead(p, e, g)'
  BY <1>4, SendingNext DEF RP!StaysAhead
<1>6. g <= down'.sent
  BY <1>4, SentGrows
<1> QED BY <1>1, <1>2, <1>3, <1>4, <1>5, <1>6 DEF Follows, RP!Ahead, RP!DataFor

\* Every step hands over a packet, delivers one that was, or does neither.
LEMMA DeliveryStep ==
  ASSUME Carried, Sending, Knows, Follows, MaxRestarts = 0, [Next]_vars
  PROVE  [Down!Send \/ Down!Deliver]_<<down.sent, down.got, down.count>>
<1>0. down \in Channel(MaxDown)
  BY DEF Carried, Counts
<1>1. CASE down' = down
  BY <1>1
<1>2. CASE RootTransmits /\ down' # down
  <2>1. PICK f \in RP!Held : Accepts(f)
    <3>1. PICK g \in 1..down.sent : down' = Delivered(down, g)
      BY <1>0, <1>2, DownStep DEF RootTransmits, Carried
    <3>2. down'.count = down.count + 1 /\ down.count \in Nat
      BY <1>0, <3>1 DEF Delivered, Channel
    <3>3. ~StartsAgain
      BY LinkAssumption DEF StartsAgain, Carried, Counts
    <3> QED BY <1>2, <3>2, <3>3, NodeCases DEF SameNode, Joins
  <2>2. PICK g : g = f.data.val
    OBVIOUS
  <2>3. g \in (down.got + 1)..down.sent /\ down' = Delivered(down, g)
    BY <1>2, <2>1, <2>2, AcceptsLater DEF Accepts
  <2>4. down'.got = g /\ down'.count = down.count + 1 /\ down'.sent = down.sent
    BY <1>0, <2>3 DEF Delivered, Channel
  <2> QED BY <2>3, <2>4 DEF Down!Deliver
<1>3. CASE RootHandsOver /\ down' # down
  <2>1. down' = [down EXCEPT !.sent = @ + 1]
    BY <1>3 DEF RootHandsOver
  <2>2. down'.sent = down.sent + 1 /\ down'.got = down.got /\ down'.count = down.count
    BY <1>0, <2>1 DEF Channel
  <2> QED BY <2>2 DEF Down!Send
<1> QED BY <1>1, <1>2, <1>3
        DEF Next, NodeWorks, NodeHandsOver, ModemAnswers, Restart, RootReceives, RootWorks,
            vars, linkVars

\* The packets of mac_send reach uIP at most once and in order: node and root, with what
\* they lose and what the root repeats, are a Delivery, as long as the node is not reset
\* and the numbers of the root do not wrap.
THEOREM DownDeliveryHolds ==
  ASSUME MaxDown + 2 <= SeqMod, MaxRestarts = 0
  PROVE  Spec => DownDelivery
<1> DEFINE Inv == Carried /\ Sending /\ Knows /\ Follows
<1>1. Init => Inv
  <2>1. Init => Follows
    BY DEF Init, NothingYet, Follows, N!Init
  <2> QED BY <2>1, InitCarried, InitSending
<1>2. Inv /\ [Next]_vars => Inv'
  BY CarriedNext, SendingNext, KnowsNext, FollowsNext
<1>3. Init => Down!Init
  BY DEF Init, NothingYet, Down!Init
<1>4. Inv /\ [Next]_vars => [Down!Send \/ Down!Deliver]_<<down.sent, down.got, down.count>>
  BY DeliveryStep
<1> HIDE DEF Inv
<1> QED BY <1>1, <1>2, <1>3, <1>4, PTL DEF Spec, DownDelivery, Down!Spec
================================================================================

------------------------------ MODULE MCLoraNode ------------------------------
(* LoraNode on a small network: one node (id 3) that the root gives prefix 2. *)
EXTENDS LoraNode

CONSTANTS p1, d1

MCPrefixes == {1, 2, 3}
MCHosts == {3, 4}
MCPacketHost == [p \in Packets |-> NodeId]

FromRoot(command, seqno, next, dest, data) ==
  [confirmed |-> FALSE, seqno |-> seqno, next |-> next, command |-> command,
   src_addr |-> RootAddr, dest_addr |-> dest, data |-> data]
Unjoined == [prefix |-> NodeId, id |-> NodeId]
Joined == [prefix |-> 2, id |-> NodeId]
Payload == [kind |-> "packet", val |-> d1]

JoinResponse ==
  FromRoot("JOIN_RESPONSE", 0, FALSE, Unjoined, [kind |-> "prefix", val |-> 2])
Acks == {FromRoot("ACK", s, FALSE, Joined, NoData) : s \in Seqno}
DataFrames(nexts) == {FromRoot("DATA", s, n, Joined, Payload) : s \in Seqno, n \in nexts}
Foreign == FromRoot("DATA", 1, FALSE, [prefix |-> 1, id |-> 4], Payload)

(* What the radio may pick up, in any order and any number of times. *)
DownAcks == {JoinResponse} \cup Acks
DownLast == DownAcks \cup DataFrames({FALSE})
DownAll == DownAcks \cup DataFrames(BOOLEAN)
DownForeign == DownAll \cup {Foreign}
=============================================================================

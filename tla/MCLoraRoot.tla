------------------------------ MODULE MCLoraRoot ------------------------------
(* LoraRoot with up to two children out of three nodes.  Node 11 joins from  *)
(* prefix 3, which is also the second prefix the root gives; nodes 12 and 20 *)
(* both join from prefix 4.                                                  *)
EXTENDS LoraRoot

CONSTANTS u1, d1

MCPrefixes == 1..7
MCHosts == {11, 12, 20}

ToRoot(command, seqno, confirmed, src, data) ==
  [confirmed |-> confirmed, seqno |-> seqno, next |-> FALSE, command |-> command,
   src_addr |-> src, dest_addr |-> RootAddr, data |-> data]
Packet == [kind |-> "packet", val |-> u1]
Node(prefix, id) == [prefix |-> prefix, id |-> id]

Join(id) == ToRoot("JOIN", 0, FALSE, Node(LowByte(id), id), NoData)
Queries(a) == {ToRoot("QUERY", s, FALSE, a, NoData) : s \in Seqno}
DataFrames(a, ks) == {ToRoot("DATA", s, k, a, Packet) : s \in Seqno, k \in ks}

\* One node, and what it can send once it has prefix 2.
UpOne == {Join(12)} \cup Queries(Node(2, 12)) \cup DataFrames(Node(2, 12), BOOLEAN)
\* The same with a query that carries a packet, and a frame that should and does not.
UpCarry == UpOne \cup {ToRoot("QUERY", s, FALSE, Node(2, 12), Packet) : s \in Seqno}
                 \cup {ToRoot("DATA", 1, FALSE, Node(2, 12), NoData)}
\* Three nodes join, and two of them talk.
UpJoin == {Join(11), Join(12), Join(20)}
          \cup Queries(Node(2, 12)) \cup Queries(Node(3, 20)) \cup Queries(Node(2, 11))
\* A JOIN with a wrong number, an ACK, a frame for another node, and one without data.
UpOdd == UpJoin \cup {[Join(12) EXCEPT !.dest_addr = Node(2, 12)],
                   [Join(11) EXCEPT !.seqno = 1], ToRoot("ACK", 1, FALSE, Node(2, 12), NoData),
                   ToRoot("DATA", 1, FALSE, Node(2, 12), NoData)}
=============================================================================

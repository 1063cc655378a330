------------------------------ MODULE MCLoraUart ------------------------------
EXTENDS LoraUart

Root == [prefix |-> 1, id |-> 0]
Node == [prefix |-> 171, id |-> 48879]
HeaderOf(command, src, dest, k, next, seq) ==
  [src_addr |-> src, dest_addr |-> dest, k |-> k, next |-> next, command |-> command,
   seq |-> seq, payload |-> << >>]
Packet(src, dest, body) ==
  <<96, 0, 12, 255, 0, 1, 17, 64>> \o Lora2Ipv6(src) \o dest \o body

\* The address to which rpl-node.c sends: "_umons_loramac" between two zeros.
Outside == <<0, 95, 117, 109, 111, 110, 115, 95, 108, 111, 114, 97, 109, 97, 99, 0>>

\* DATA, whose sender output takes from the packet, and whose flag next is the one that
\* the frame received before it has left in lorabuf.
MCUplink ==
  {[frame |-> HeaderOf(2, Node, Root, TRUE, TRUE, 255), packet |-> Packet(Node, Outside, <<160>>)]}

\* DATA, and JOIN_RESPONSE with the prefix 5.
MCDownlink ==
  {[frame |-> HeaderOf(2, Root, Root, FALSE, TRUE, 16),
    packet |-> Packet(Root, Lora2Ipv6(Node), <<250>>)],
   [frame |-> [HeaderOf(1, Root, Node, FALSE, FALSE, 255) EXCEPT !.payload = <<0, 5>>],
    packet |-> << >>]}
MCTrailing == {NothingAfter}

\* The hypotheses of the theorems of LoraUartProofs hold here.
ASSUME HypothesesHold == LinesFit /\ LoraPackets
=============================================================================

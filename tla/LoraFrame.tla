------------------------------- MODULE LoraFrame -------------------------------
(***************************************************************************)
(* The addresses and frames of LoRaMAC, as both ends hold them             *)
(* (lora_addr_t and lora_frame_hdr_t of the nodes, LoraAddr and LoraFrame   *)
(* of the root).  The hexadecimal form on the air is left out.             *)
(***************************************************************************)
EXTENDS Integers, Sequences

CONSTANTS
  SeqMod,         \* number of sequence numbers (256: one byte)
  Prefixes,       \* the address prefixes in use (one byte)
  Hosts,          \* the node ids in use (two bytes)
  Packets,        \* the IPv6 packets sent upward
  Payloads        \* the IPv6 packets sent downward

ASSUME SeqModAssumption == SeqMod \in Nat \ {0, 1}
ASSUME AddressAssumption ==
  /\ Prefixes \subseteq Nat /\ Hosts \subseteq Nat
  /\ 1 \in Prefixes

Addr == [prefix : Prefixes \cup {0}, id : Hosts \cup {0}]
RootAddr == [prefix |-> 1, id |-> 0]
NullAddr == [prefix |-> 0, id |-> 0]

Command == {"JOIN", "JOIN_RESPONSE", "DATA", "ACK", "QUERY"}

\* The payload of a frame: nothing, the one byte of a JOIN_RESPONSE, or an
\* IPv6 packet without its addresses (at least 8 bytes).
NoData == [kind |-> "none", val |-> 0]
Data == {NoData} \cup [kind : {"prefix"}, val : Prefixes]
                 \cup [kind : {"packet"}, val : Packets \cup Payloads]

Seqno == 0..(SeqMod - 1)
Frame == [confirmed : BOOLEAN, seqno : Seqno, next : BOOLEAN, command : Command,
          src_addr : Addr, dest_addr : Addr, data : Data]

\* All bytes zero.
NullFrame == [confirmed |-> FALSE, seqno |-> 0, next |-> FALSE, command |-> "JOIN",
              src_addr |-> NullAddr, dest_addr |-> NullAddr, data |-> NoData]

=============================================================================

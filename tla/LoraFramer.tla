------------------------------ MODULE LoraFramer ------------------------------
(***************************************************************************)
(* The two codecs of LoRaMAC, each written twice: frames as hexadecimal    *)
(* characters (framer.c and the class LoraFrame of lora_phy.py), and IPv6  *)
(* packets without their addresses (lorabridge.c, loraaddr.c and           *)
(* lora_ip.py).  A character is the value of its hexadecimal digit; a      *)
(* payload is a sequence of bytes on the node, of digits at the root.      *)
(***************************************************************************)
EXTENDS Integers, Sequences

Byte == 0..255
Digit == 0..15
Word == {n \in Nat : n <= 65535}
WireAddr == [prefix : Byte, id : Word]
\* JOIN, JOIN_RESPONSE, DATA, ACK, QUERY: five of the values of four bits on the
\* air; the two bits above them are reserved.
MacCommand == 0..4
FrameOf(payloads) == [src_addr : WireAddr, dest_addr : WireAddr, k : BOOLEAN, next : BOOLEAN,
                      command : MacCommand, seq : Byte, payload : payloads]

-----------------------------------------------------------------------------
(* Writing a frame *)

\* Mutant: the flag next is written where k is.
FlagsCommand_Shifted(f) ==
  (IF f.k THEN 128 ELSE 0) + (IF f.next THEN 32 ELSE 0) + f.command
FlagsCommand(f) == (IF f.k THEN 128 ELSE 0) + (IF f.next THEN 64 ELSE 0) + f.command

HexAddr(a) == <<a.prefix \div 16, a.prefix % 16, a.id \div 4096, (a.id \div 256) % 16,
                (a.id \div 16) % 16, a.id % 16>>
HexByte(b) == <<b \div 16, b % 16>>
HexBytes(bytes) ==
  [i \in 1..(2 * Len(bytes)) |-> IF i % 2 = 1 THEN bytes[(i + 1) \div 2] \div 16
                                              ELSE bytes[i \div 2] % 16]

HexHeader(f) == HexAddr(f.src_addr) \o HexAddr(f.dest_addr) \o HexByte(FlagsCommand(f))
                \o HexByte(f.seq)

\* The node.
Create(f) == HexHeader(f) \o HexBytes(f.payload)

\* The root, whose payload is hexadecimal already: an odd one gets a 0 before it.
ToHex(f) == HexHeader(f) \o (IF Len(f.payload) % 2 = 0 THEN f.payload ELSE <<0>> \o f.payload)

-----------------------------------------------------------------------------
(* Reading a frame *)

Two(d, i) == 16 * d[i] + d[i + 1]
Four(d, i) == 256 * Two(d, i) + Two(d, i + 2)

\* parse copies the characters of a field into an array and gives it to strtol,
\* which stops at the first character that is no digit.  The arrays have no
\* terminator: after stands for what the memory holds behind them, n digits
\* (scale = 16^n) of some value.
NothingAfter == [scale |-> 1, value |-> 0]
Strtol(number, after, range) == (number * after.scale + after.value) % range

\* Whether the bits of k and of next are set, and the low four.
Flagged(b, weight) == (b \div weight) % 2 = 1
Header(d, after) ==
  LET flags == Strtol(Two(d, 13), after, 256)
      Addr(i) == [prefix |-> Strtol(Two(d, i), after, 256),
                  id |-> Strtol(Four(d, i + 2), after, 65536)]
  IN [src_addr |-> Addr(1), dest_addr |-> Addr(7),
      k |-> Flagged(flags, 128), next |-> Flagged(flags, 64), command |-> flags % 16,
      seq |-> Strtol(Two(d, 15), after, 256), payload |-> << >>]

\* Mutant: the loop stops one byte too early.
PayloadSize_Short(len) == IF len > 18 THEN (len - 17) \div 2 ELSE 0
\* The loop takes two characters while one is left.
PayloadSize(len) == IF len > 16 THEN (len - 15) \div 2 ELSE 0

\* The node, from the len characters after the offset; d goes on behind them.
Parse(d, len, after) ==
  [Header(d, after) EXCEPT !.payload =
     [i \in 1..PayloadSize(len) |-> Strtol(Two(d, 2 * i + 15), after, 256)]]

\* The root.  A line that is too short gives None; on a command that MacCommand
\* does not have, build raises, which ends the thread that reads the lines.
IsFrame(d) == Len(d) >= 16 /\ Header(d, NothingAfter).command \in MacCommand
Build(d) == [Header(d, NothingAfter) EXCEPT !.payload = SubSeq(d, 17, Len(d))]

-----------------------------------------------------------------------------
(* Addresses and packets *)

Lora2Ipv6(a) == <<253, 0, 0, 0, 0, 0, 0, a.prefix, 2, 18, 75, 0, 6, 13,
                  a.id \div 256, a.id % 256>>
Ipv62Lora(ip) == [prefix |-> ip[8], id |-> 256 * ip[15] + ip[16]]

\* lora_to_ipv6: the eight groups of FD00::XX:0212:4B00:060D:XXXX, and packed.
Groups(a) == <<64768, 0, 0, a.prefix, 530, 19200, 1549, a.id>>
Packed(g) == [i \in 1..16 |-> IF i % 2 = 1 THEN g[(i + 1) \div 2] \div 256
                                           ELSE g[i \div 2] % 256]
LoraToIpv6(a) == Packed(Groups(a))

\* output, and serialize_ip_packet on digits: the packet without its addresses.
Output(packet) == SubSeq(packet, 1, 8) \o SubSeq(packet, 41, Len(packet))
SerializeIpPacket(digits) == SubSeq(digits, 1, 16) \o SubSeq(digits, 81, Len(digits))

\* bridge_input, and build_ip_packet on the bytes of the digits it is given.
BridgeInput(src, dest, payload) ==
  SubSeq(payload, 1, 8) \o Lora2Ipv6(src) \o Lora2Ipv6(dest)
    \o SubSeq(payload, 9, Len(payload))
BuildIpPacket(src, dest, digits) ==
  SubSeq(digits, 1, 16) \o HexBytes(LoraToIpv6(src)) \o HexBytes(LoraToIpv6(dest))
    \o SubSeq(digits, 17, Len(digits))
=============================================================================

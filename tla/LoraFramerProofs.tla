--------------------------- MODULE LoraFramerProofs ---------------------------
(***************************************************************************)
(* The laws of the codecs of LoraFramer, for every frame and every packet: *)
(* what one end writes the other end reads.                                *)
(***************************************************************************)
EXTENDS LoraFramer, TLAPS

-----------------------------------------------------------------------------
(* Bytes *)

LEMMA ByteDigits ==
  ASSUME NEW b \in Byte
  PROVE  /\ b \div 16 \in Digit /\ b % 16 \in Digit
         /\ 16 * (b \div 16) + (b % 16) = b
BY DEF Byte, Digit

LEMMA WordRange ==
  ASSUME NEW n \in Word
  PROVE  n \in Nat /\ n <= 65535
BY DEF Word

\* The four digits of a word are those of its two bytes.
LEMMA WordDigits ==
  ASSUME NEW n \in Word
  PROVE  /\ n \div 256 \in Byte /\ n % 256 \in Byte
         /\ 256 * (n \div 256) + (n % 256) = n
         /\ n \div 4096 = (n \div 256) \div 16
         /\ (n \div 16) % 16 = (n % 256) \div 16
         /\ n % 16 = (n % 256) % 16
<1>. n \in Nat /\ n <= 65535
  BY WordRange
<1>1. n \div 4096 = (n \div 256) \div 16
  OBVIOUS
<1>2. /\ n \div 256 \in Byte /\ n % 256 \in Byte
      /\ 256 * (n \div 256) + (n % 256) = n
  BY DEF Byte
<1>3. (n \div 16) % 16 = (n \div 16) - 16 * (n \div 256)
  OBVIOUS
<1>4. (n % 256) \div 16 = (n \div 16) - 16 * (n \div 256)
  OBVIOUS
<1>5. n % 16 = (n % 256) % 16
  OBVIOUS
<1>. QED
  BY <1>1, <1>2, <1>3, <1>4, <1>5

\* strtol on an array that is followed by no digit is the number it holds.
LEMMA StrtolByte ==
  ASSUME NEW b \in Byte
  PROVE  Strtol(b, NothingAfter, 256) = b
BY DEF Strtol, NothingAfter, Byte

LEMMA StrtolWord ==
  ASSUME NEW n \in Word
  PROVE  Strtol(n, NothingAfter, 65536) = n
BY WordRange DEF Strtol, NothingAfter

\* What the bits of x say when kn was added for k and next.
BitsSay(x, kn) ==
  /\ ((kn + x) \div 128) % 2 = (IF kn >= 128 THEN 1 ELSE 0)
  /\ ((kn + x) \div 64) % 2 = (IF kn \in {64, 192} THEN 1 ELSE 0)
  /\ (kn + x) % 16 = x
  /\ kn + x \in 0..255

LEMMA FlagBits ==
  ASSUME NEW x \in 0..15, NEW kn \in {0, 64, 128, 192}
  PROVE  BitsSay(x, kn)
<1>1. CASE kn = 0
  BY <1>1 DEF BitsSay
<1>2. CASE kn = 64
  BY <1>2 DEF BitsSay
<1>3. CASE kn = 128
  BY <1>3 DEF BitsSay
<1>4. CASE kn = 192
  BY <1>4 DEF BitsSay
<1>. QED
  BY <1>1, <1>2, <1>3, <1>4

LEMMA FlagsRead ==
  ASSUME NEW S, NEW f \in FrameOf(S)
  PROVE  /\ FlagsCommand(f) \in Byte
         /\ Flagged(FlagsCommand(f), 128) = f.k
         /\ Flagged(FlagsCommand(f), 64) = f.next
         /\ FlagsCommand(f) % 16 = f.command
<1>. DEFINE kn == (IF f.k THEN 128 ELSE 0) + (IF f.next THEN 64 ELSE 0)
<1>1. f.command \in 0..15 /\ f.k \in BOOLEAN /\ f.next \in BOOLEAN
  BY DEF FrameOf, MacCommand
<1>2. FlagsCommand(f) = kn + f.command /\ kn \in {0, 64, 128, 192}
  BY <1>1 DEF FlagsCommand
<1>3. (kn >= 128 <=> f.k) /\ (kn \in {64, 192} <=> f.next)
  BY <1>1
<1>. HIDE DEF kn
<1>4. BitsSay(f.command, kn)
  BY <1>1, <1>2, FlagBits
<1>5. Flagged(FlagsCommand(f), 128) <=> f.k
  BY <1>2, <1>3, <1>4 DEF Flagged, BitsSay
<1>6. Flagged(FlagsCommand(f), 64) <=> f.next
  BY <1>2, <1>3, <1>4 DEF Flagged, BitsSay
<1>7. Flagged(FlagsCommand(f), 128) \in BOOLEAN /\ Flagged(FlagsCommand(f), 64) \in BOOLEAN
  BY DEF Flagged
<1>8. FlagsCommand(f) \in Byte /\ FlagsCommand(f) % 16 = f.command
  BY <1>2, <1>4 DEF Byte, BitsSay
<1>. QED
  BY <1>1, <1>5, <1>6, <1>7, <1>8

-----------------------------------------------------------------------------
(* The digits of a frame *)

LEMMA HexBytesDigits ==
  ASSUME NEW bytes \in Seq(Byte)
  PROVE  /\ HexBytes(bytes) \in Seq(Digit)
         /\ Len(HexBytes(bytes)) = 2 * Len(bytes)
         /\ \A j \in 1..Len(bytes) :
              /\ HexBytes(bytes)[2 * j - 1] = bytes[j] \div 16
              /\ HexBytes(bytes)[2 * j] = bytes[j] % 16
<1>. DEFINE n == Len(bytes)
            h == HexBytes(bytes)
<1>1. n \in Nat /\ \A j \in 1..n : bytes[j] \in Byte
  OBVIOUS
<1>2. ASSUME NEW i \in 1..(2 * n)
      PROVE  h[i] \in Digit
  <2>1. CASE i % 2 = 1
    <3>1. (i + 1) \div 2 \in 1..n
      BY <1>1, <2>1
    <3>2. bytes[(i + 1) \div 2] \in Byte
      BY <3>1, <1>1
    <3>. QED
      BY <3>2, <2>1, ByteDigits DEF HexBytes
  <2>2. CASE i % 2 # 1
    <3>1. i \div 2 \in 1..n
      BY <1>1, <2>2
    <3>2. bytes[i \div 2] \in Byte
      BY <3>1, <1>1
    <3>. QED
      BY <3>2, <2>2, ByteDigits DEF HexBytes
  <2>. QED
    BY <2>1, <2>2
<1>3. ASSUME NEW j \in 1..n
      PROVE  h[2 * j - 1] = bytes[j] \div 16 /\ h[2 * j] = bytes[j] % 16
  <2>1. /\ 2 * j - 1 \in 1..(2 * n) /\ (2 * j - 1) % 2 = 1 /\ ((2 * j - 1) + 1) \div 2 = j
        /\ 2 * j \in 1..(2 * n) /\ (2 * j) % 2 = 0 /\ (2 * j) \div 2 = j
    BY <1>1
  <2>. QED
    BY <2>1 DEF HexBytes
<1>4. h \in Seq(Digit) /\ Len(h) = 2 * n
  BY <1>1, <1>2 DEF HexBytes
<1>. QED
  BY <1>3, <1>4


\* h is s, of length n, and t, of length m, behind it.
Join(D, h, s, t, n, m) ==
  /\ h \in Seq(D) /\ Len(h) = n + m
  /\ \A i \in 1..n : h[i] = s[i]
  /\ \A i \in 1..m : h[n + i] = t[i]

LEMMA Joined ==
  ASSUME NEW D, NEW s \in Seq(D), NEW t \in Seq(D), NEW n \in Nat, NEW m \in Nat,
         Len(s) = n, Len(t) = m
  PROVE  Join(D, s \o t, s, t, n, m)
BY DEF Join

\* The places of the four fields of a header.
Fields(h, a, b, c, d) ==
  /\ h \in Seq(Digit) /\ Len(h) = 16
  /\ \A i \in 1..6 : h[i] = a[i] /\ h[6 + i] = b[i]
  /\ \A i \in 1..2 : h[12 + i] = c[i] /\ h[14 + i] = d[i]

LEMMA FieldsJoined ==
  ASSUME NEW a \in Seq(Digit), NEW b \in Seq(Digit), NEW c \in Seq(Digit), NEW d \in Seq(Digit),
         Len(a) = 6, Len(b) = 6, Len(c) = 2, Len(d) = 2
  PROVE  Fields(a \o b \o c \o d, a, b, c, d)
<1>. DEFINE ab == a \o b
            abc == ab \o c
            h == abc \o d
<1>1. Join(Digit, ab, a, b, 6, 6)
  BY Joined
<1>2. ab \in Seq(Digit) /\ Len(ab) = 12
  BY <1>1 DEF Join
<1>. HIDE DEF ab
<1>3. Join(Digit, abc, ab, c, 12, 2)
  BY <1>2, Joined
<1>4. abc \in Seq(Digit) /\ Len(abc) = 14
  BY <1>3 DEF Join
<1>. HIDE DEF abc
<1>5. Join(Digit, h, abc, d, 14, 2)
  BY <1>4, Joined
<1>6. h = a \o b \o c \o d
  BY DEF ab, abc, h
<1>. HIDE DEF h
<1>7. h \in Seq(Digit) /\ Len(h) = 16
  BY <1>5 DEF Join
<1>a. /\ \A i \in 1..14 : h[i] = abc[i]
      /\ \A i \in 1..2 : h[14 + i] = d[i]
  BY <1>5, Zenon DEF Join
<1>b. /\ \A i \in 1..12 : abc[i] = ab[i]
      /\ \A i \in 1..2 : abc[12 + i] = c[i]
  BY <1>3, Zenon DEF Join
<1>8. ASSUME NEW i \in 1..6
      PROVE  h[i] = a[i] /\ h[6 + i] = b[i]
  <2>1. h[i] = abc[i] /\ h[6 + i] = abc[6 + i]
    <3>1. i \in 1..14 /\ 6 + i \in 1..14
      OBVIOUS
    <3> QED BY <3>1, <1>a
  <2>2. abc[i] = ab[i] /\ abc[6 + i] = ab[6 + i]
    <3>1. i \in 1..12 /\ 6 + i \in 1..12
      OBVIOUS
    <3> QED BY <3>1, <1>b
  <2>3. ab[i] = a[i] /\ ab[6 + i] = b[i]
    BY <1>1 DEF Join
  <2>. QED
    BY <2>1, <2>2, <2>3
<1>9. ASSUME NEW i \in 1..2
      PROVE  h[12 + i] = c[i] /\ h[14 + i] = d[i]
  <2>1. 12 + i \in 1..14
    OBVIOUS
  <2> QED BY <1>a, <1>b, <2>1
<1>. QED
  BY <1>6, <1>7, <1>8, <1>9 DEF Fields

LEMMA HexAddrDigits ==
  ASSUME NEW a \in WireAddr
  PROVE  HexAddr(a) \in Seq(Digit) /\ Len(HexAddr(a)) = 6
<1>1. a.prefix \in Byte /\ a.id \in Word
  BY DEF WireAddr
<1>2. a.prefix \div 16 \in Digit /\ a.prefix % 16 \in Digit
  BY <1>1, ByteDigits
<1>3. /\ a.id \div 256 \in Byte /\ a.id % 256 \in Byte
      /\ a.id \div 4096 = (a.id \div 256) \div 16
      /\ (a.id \div 16) % 16 = (a.id % 256) \div 16
      /\ a.id % 16 = (a.id % 256) % 16
  BY <1>1, WordDigits
<1>4. /\ a.id \div 4096 \in Digit /\ (a.id \div 256) % 16 \in Digit
      /\ (a.id \div 16) % 16 \in Digit /\ a.id % 16 \in Digit
  BY <1>3, ByteDigits
<1>. QED
  BY <1>2, <1>4 DEF HexAddr

LEMMA HexByteDigits ==
  ASSUME NEW b \in Byte
  PROVE  HexByte(b) \in Seq(Digit) /\ Len(HexByte(b)) = 2
BY ByteDigits DEF HexByte

LEMMA HeaderDigits ==
  ASSUME NEW S, NEW f \in FrameOf(S)
  PROVE  Fields(HexHeader(f), HexAddr(f.src_addr), HexAddr(f.dest_addr),
                HexByte(FlagsCommand(f)), HexByte(f.seq))
<1>1. f.src_addr \in WireAddr /\ f.dest_addr \in WireAddr /\ f.seq \in Byte
  BY DEF FrameOf
<1>2. FlagsCommand(f) \in Byte
  BY FlagsRead
<1>. QED
  BY <1>1, <1>2, HexAddrDigits, HexByteDigits, FieldsJoined DEF HexHeader

-----------------------------------------------------------------------------
(* Reading what was written *)

\* parse reads the address a behind the first i characters of d.
ReadsAddr(d, i, a) ==
  /\ Strtol(Two(d, i + 1), NothingAfter, 256) = a.prefix
  /\ Strtol(Four(d, i + 3), NothingAfter, 65536) = a.id

LEMMA AddrRead ==
  ASSUME NEW a \in WireAddr, NEW d, NEW i \in Nat,
         \A j \in 1..6 : d[i + j] = HexAddr(a)[j]
  PROVE  ReadsAddr(d, i, a)
<1>1. a.prefix \in Byte /\ a.id \in Word
  BY DEF WireAddr
<1>2. /\ d[i + 1] = a.prefix \div 16 /\ d[i + 2] = a.prefix % 16
      /\ d[i + 3] = a.id \div 4096 /\ d[i + 4] = (a.id \div 256) % 16
      /\ d[i + 5] = (a.id \div 16) % 16 /\ d[i + 6] = a.id % 16
  BY DEF HexAddr
<1>3. Two(d, i + 1) = a.prefix
  BY <1>1, <1>2, ByteDigits DEF Two
<1>4. /\ a.id \div 256 \in Byte /\ a.id % 256 \in Byte
      /\ 256 * (a.id \div 256) + (a.id % 256) = a.id
      /\ a.id \div 4096 = (a.id \div 256) \div 16
      /\ (a.id \div 16) % 16 = (a.id % 256) \div 16
      /\ a.id % 16 = (a.id % 256) % 16
  BY <1>1, WordDigits
<1>5. 16 * d[i + 3] + d[i + 4] = a.id \div 256
  BY <1>2, <1>4, ByteDigits
<1>6. 16 * d[i + 5] + d[i + 6] = a.id % 256
  BY <1>2, <1>4, ByteDigits
<1>7. Four(d, i + 3) = a.id
  BY <1>4, <1>5, <1>6 DEF Four, Two
<1>. QED
  BY <1>1, <1>3, <1>7, StrtolByte, StrtolWord DEF ReadsAddr

LEMMA HeaderRead ==
  ASSUME NEW S, NEW f \in FrameOf(S), NEW d,
         \A i \in 1..16 : d[i] = HexHeader(f)[i]
  PROVE  Header(d, NothingAfter) = [f EXCEPT !.payload = << >>]
<1>. DEFINE h == HexHeader(f)
            flags == FlagsCommand(f)
<1>1. /\ f.src_addr \in WireAddr /\ f.dest_addr \in WireAddr /\ f.seq \in Byte
      /\ f = [src_addr |-> f.src_addr, dest_addr |-> f.dest_addr, k |-> f.k,
              next |-> f.next, command |-> f.command, seq |-> f.seq, payload |-> f.payload]
  BY DEF FrameOf
<1>2. /\ f.src_addr = [prefix |-> f.src_addr.prefix, id |-> f.src_addr.id]
      /\ f.dest_addr = [prefix |-> f.dest_addr.prefix, id |-> f.dest_addr.id]
  BY <1>1 DEF WireAddr
<1>3. Fields(h, HexAddr(f.src_addr), HexAddr(f.dest_addr), HexByte(flags), HexByte(f.seq))
  BY HeaderDigits
<1>. HIDE DEF h
<1>4. \A i \in 1..16 : d[i] = h[i]
  BY DEF h
<1>5. \A j \in 1..6 : d[0 + j] = HexAddr(f.src_addr)[j]
  BY <1>3, <1>4 DEF Fields
<1>6. \A j \in 1..6 : d[6 + j] = HexAddr(f.dest_addr)[j]
  BY <1>3, <1>4 DEF Fields
<1>7. \A j \in 1..2 : d[12 + j] = HexByte(flags)[j] /\ d[14 + j] = HexByte(f.seq)[j]
  BY <1>3, <1>4 DEF Fields
<1>8. /\ Strtol(Two(d, 1), NothingAfter, 256) = f.src_addr.prefix
      /\ Strtol(Four(d, 3), NothingAfter, 65536) = f.src_addr.id
  <2>1. ReadsAddr(d, 0, f.src_addr)
    BY <1>1, <1>5, AddrRead
  <2>. QED
    BY <2>1 DEF ReadsAddr
<1>9. /\ Strtol(Two(d, 7), NothingAfter, 256) = f.dest_addr.prefix
      /\ Strtol(Four(d, 9), NothingAfter, 65536) = f.dest_addr.id
  <2>1. ReadsAddr(d, 6, f.dest_addr)
    BY <1>1, <1>6, AddrRead
  <2>. QED
    BY <2>1 DEF ReadsAddr
<1>10. Strtol(Two(d, 13), NothingAfter, 256) = flags
  <2>1. flags \in Byte
    BY FlagsRead
  <2>2. d[13] = flags \div 16 /\ d[14] = flags % 16
    BY <1>7 DEF HexByte
  <2>3. Two(d, 13) = flags
    BY <2>1, <2>2, ByteDigits DEF Two
  <2>. QED
    BY <2>1, <2>3, StrtolByte
<1>11. Strtol(Two(d, 15), NothingAfter, 256) = f.seq
  <2>1. d[15] = f.seq \div 16 /\ d[16] = f.seq % 16
    BY <1>7 DEF HexByte
  <2>2. Two(d, 15) = f.seq
    BY <1>1, <2>1, ByteDigits DEF Two
  <2>. QED
    BY <1>1, <2>2, StrtolByte
<1>12. /\ Flagged(flags, 128) = f.k /\ Flagged(flags, 64) = f.next
       /\ flags % 16 = f.command
  BY FlagsRead
<1>13. Header(d, NothingAfter) =
         [src_addr |-> [prefix |-> f.src_addr.prefix, id |-> f.src_addr.id],
          dest_addr |-> [prefix |-> f.dest_addr.prefix, id |-> f.dest_addr.id],
          k |-> f.k, next |-> f.next, command |-> f.command, seq |-> f.seq,
          payload |-> << >>]
  BY <1>8, <1>9, <1>10, <1>11, <1>12 DEF Header
<1>. QED
  BY <1>1, <1>2, <1>13

LEMMA CreateDigits ==
  ASSUME NEW f \in FrameOf(Seq(Byte))
  PROVE  Join(Digit, Create(f), HexHeader(f), HexBytes(f.payload), 16, 2 * Len(f.payload))
<1>1. f.payload \in Seq(Byte)
  BY DEF FrameOf
<1>2. HexHeader(f) \in Seq(Digit) /\ Len(HexHeader(f)) = 16
  BY HeaderDigits DEF Fields
<1>3. HexBytes(f.payload) \in Seq(Digit) /\ Len(HexBytes(f.payload)) = 2 * Len(f.payload)
  BY <1>1, HexBytesDigits
<1>4. 2 * Len(f.payload) \in Nat
  BY <1>1
<1>. QED
  BY <1>2, <1>3, <1>4, Joined DEF Create

LEMMA WholeBytes ==
  ASSUME NEW n \in Nat
  PROVE  PayloadSize(16 + 2 * n) = n
<1>1. CASE n = 0
  BY <1>1 DEF PayloadSize
<1>2. CASE n > 0
  <2>1. (1 + 2 * n) \div 2 = n
    OBVIOUS
  <2>. QED
    BY <1>2, <2>1 DEF PayloadSize
<1>. QED
  BY <1>1, <1>2

\* What create writes, parse reads back: framer.c is its own inverse for every
\* frame, when no digit follows the arrays it gives to strtol.
THEOREM FrameRoundTrip ==
  ASSUME NEW f \in FrameOf(Seq(Byte))
  PROVE  Parse(Create(f), Len(Create(f)), NothingAfter) = f
<1>. DEFINE d == Create(f)
            h == HexBytes(f.payload)
            n == Len(f.payload)
<1>1. f.payload \in Seq(Byte) /\ n \in Nat
  BY DEF FrameOf
<1>2. Join(Digit, d, HexHeader(f), h, 16, 2 * n)
  BY CreateDigits
<1>3. /\ Len(h) = 2 * n
      /\ \A j \in 1..n : h[2 * j - 1] = f.payload[j] \div 16 /\ h[2 * j] = f.payload[j] % 16
  BY <1>1, HexBytesDigits
<1>. HIDE DEF d, h
<1>4. Header(d, NothingAfter) = [f EXCEPT !.payload = << >>]
  <2>1. \A i \in 1..16 : d[i] = HexHeader(f)[i]
    BY <1>2 DEF Join
  <2>. QED
    BY <2>1, HeaderRead
<1>5. PayloadSize(Len(d)) = n
  <2>1. Len(d) = 16 + 2 * n
    BY <1>2 DEF Join
  <2>. QED
    BY <1>1, <2>1, WholeBytes
<1>6. ASSUME NEW i \in 1..n
      PROVE  Strtol(Two(d, 2 * i + 15), NothingAfter, 256) = f.payload[i]
  <2>1. f.payload[i] \in Byte
    BY <1>1
  <2>2. d[16 + (2 * i - 1)] = h[2 * i - 1] /\ d[16 + 2 * i] = h[2 * i]
    <3>1. 2 * i - 1 \in 1..(2 * n) /\ 2 * i \in 1..(2 * n)
      BY <1>1
    <3>. QED
      BY <1>2, <3>1 DEF Join
  <2>3. d[2 * i + 15] = f.payload[i] \div 16 /\ d[2 * i + 15 + 1] = f.payload[i] % 16
    BY <1>3, <2>2
  <2>4. Two(d, 2 * i + 15) = f.payload[i]
    BY <2>1, <2>3, ByteDigits DEF Two
  <2>. QED
    BY <2>1, <2>4, StrtolByte
<1>7. [i \in 1..n |-> Strtol(Two(d, 2 * i + 15), NothingAfter, 256)] = f.payload
  BY <1>1, <1>6
<1>8. Parse(d, Len(d), NothingAfter) = [f EXCEPT !.payload = f.payload]
  BY <1>4, <1>5, <1>7 DEF Parse, FrameOf
<1>9. [f EXCEPT !.payload = f.payload] = f
  BY DEF FrameOf
<1>. QED
  BY <1>8, <1>9 DEF d

\* The frame as the root holds it: its payload in digits.
InDigits(f) == [f EXCEPT !.payload = HexBytes(f.payload)]

\* toHex writes what create writes, for the frame with the same fields.
THEOREM WriteAgree ==
  ASSUME NEW f \in FrameOf(Seq(Byte))
  PROVE  ToHex(InDigits(f)) = Create(f)
<1>1. f.payload \in Seq(Byte)
  BY DEF FrameOf
<1>2. InDigits(f).payload = HexBytes(f.payload)
  BY DEF InDigits, FrameOf
<1>3. HexHeader(InDigits(f)) = HexHeader(f)
  BY DEF InDigits, FrameOf, HexHeader, HexAddr, HexByte, FlagsCommand
<1>4. Len(HexBytes(f.payload)) % 2 = 0
  <2>1. \A n \in Nat : (2 * n) % 2 = 0
    OBVIOUS
  <2>2. Len(HexBytes(f.payload)) = 2 * Len(f.payload) /\ Len(f.payload) \in Nat
    BY <1>1, HexBytesDigits
  <2>. QED
    BY <2>1, <2>2
<1>. QED
  BY <1>2, <1>3, <1>4 DEF ToHex, Create

\* The root reads in build what the node writes in create, whatever the MAC command:
\* build knows every command that a node has.
THEOREM RootReadsNode ==
  ASSUME NEW f \in FrameOf(Seq(Byte))
  PROVE  IsFrame(Create(f)) /\ Build(Create(f)) = InDigits(f)
<1>. DEFINE d == Create(f)
            h == HexBytes(f.payload)
            n == Len(f.payload)
<1>1. f.payload \in Seq(Byte) /\ n \in Nat
  BY DEF FrameOf
<1>2. Join(Digit, d, HexHeader(f), h, 16, 2 * n)
  BY CreateDigits
<1>3. h \in Seq(Digit) /\ Len(h) = 2 * n
  BY <1>1, HexBytesDigits
<1>. HIDE DEF d, h, n
<1>4. d \in Seq(Digit) /\ Len(d) = 16 + 2 * n
  BY <1>2 DEF Join
<1>5. SubSeq(d, 17, Len(d)) = h
  <2>1. \A i \in 1..(2 * n) : d[16 + i] = h[i]
    BY <1>2 DEF Join
  <2>. QED
    BY <1>1, <1>3, <1>4, <2>1
<1>6. Header(d, NothingAfter) = [f EXCEPT !.payload = << >>]
  <2>1. \A i \in 1..16 : d[i] = HexHeader(f)[i]
    BY <1>2 DEF Join
  <2>. QED
    BY <2>1, HeaderRead
<1>7. Build(d) = [f EXCEPT !.payload = h]
  BY <1>5, <1>6 DEF Build, FrameOf
<1>8. Header(d, NothingAfter).command \in MacCommand
  BY <1>6 DEF FrameOf
<1>. QED
  BY <1>1, <1>4, <1>7, <1>8 DEF InDigits, IsFrame, d, h

\* The node reads in parse what the root writes in toHex.
COROLLARY NodeReadsRoot ==
  ASSUME NEW f \in FrameOf(Seq(Byte))
  PROVE  Parse(ToHex(InDigits(f)), Len(ToHex(InDigits(f))), NothingAfter) = f
BY WriteAgree, FrameRoundTrip

-----------------------------------------------------------------------------
(* Addresses and packets *)

\* ipv62lora undoes lora2ipv6, and lora_to_ipv6 of the root builds the same address.
THEOREM AddressesAgree ==
  ASSUME NEW a \in WireAddr
  PROVE  Ipv62Lora(Lora2Ipv6(a)) = a /\ LoraToIpv6(a) = Lora2Ipv6(a)
<1>1. a.prefix \in Byte /\ a.id \in Word /\ a = [prefix |-> a.prefix, id |-> a.id]
  BY DEF WireAddr
<1>2. 256 * (a.id \div 256) + (a.id % 256) = a.id
  BY <1>1, WordDigits
<1>3. Ipv62Lora(Lora2Ipv6(a)) = [prefix |-> a.prefix, id |-> a.id]
  BY <1>2 DEF Ipv62Lora, Lora2Ipv6
<1>4. a.prefix \div 256 = 0 /\ a.prefix % 256 = a.prefix
  BY <1>1 DEF Byte
<1>5. ASSUME NEW i \in 1..16
      PROVE  Packed(Groups(a))[i] = Lora2Ipv6(a)[i]
  BY <1>1, <1>4 DEF Packed, Groups, Lora2Ipv6
<1>6. /\ Packed(Groups(a)) = [i \in 1..16 |-> Packed(Groups(a))[i]]
      /\ Lora2Ipv6(a) = [i \in 1..16 |-> Lora2Ipv6(a)[i]]
  BY DEF Packed, Lora2Ipv6
<1>. QED
  BY <1>1, <1>3, <1>5, <1>6 DEF LoraToIpv6

LEMMA Cut ==
  ASSUME NEW D, NEW s \in Seq(D), NEW k \in 0..Len(s), NEW m \in k..Len(s)
  PROVE  SubSeq(s, 1, k) \o SubSeq(s, k + 1, m) = SubSeq(s, 1, m)
OBVIOUS

LEMMA Part ==
  ASSUME NEW D, NEW s \in Seq(D), NEW k \in 1..(Len(s) + 1), NEW m \in (k - 1)..Len(s)
  PROVE  SubSeq(s, k, m) \in Seq(D) /\ Len(SubSeq(s, k, m)) = m - k + 1
OBVIOUS

\* h falls into s, of length n, and t.
Falls(h, s, t, n) == SubSeq(h, 1, n) = s /\ SubSeq(h, n + 1, Len(h)) = t

LEMMA Behind ==
  ASSUME NEW D, NEW s \in Seq(D), NEW t \in Seq(D), NEW n \in Nat, Len(s) = n
  PROVE  Falls(s \o t, s, t, n)
BY DEF Falls

LEMMA OutputParts ==
  ASSUME NEW p \in Seq(Byte), Len(p) >= 40
  PROVE  /\ SubSeq(Output(p), 1, 8) = SubSeq(p, 1, 8)
         /\ SubSeq(Output(p), 9, Len(Output(p))) = SubSeq(p, 41, Len(p))
<1>. DEFINE n == Len(p)
            s == SubSeq(p, 1, 8)
            t == SubSeq(p, 41, n)
<1>1. n \in Nat /\ n >= 40
  OBVIOUS
<1>. HIDE DEF n
<1>2. 1 \in 1..(n + 1) /\ 8 \in (1 - 1)..n /\ 41 \in 1..(n + 1) /\ n \in (41 - 1)..n
  BY <1>1
<1>3. s \in Seq(Byte) /\ Len(s) = 8 - 1 + 1 /\ t \in Seq(Byte)
  BY <1>2, Part DEF n
<1>4. Output(p) = s \o t
  BY DEF Output, n
<1>5. 8 - 1 + 1 = 8 /\ 8 \in Nat /\ 8 + 1 = 9
  OBVIOUS
<1>. HIDE DEF s, t
<1>6. Falls(s \o t, s, t, 8)
  BY <1>3, <1>5, Behind
<1>7. SubSeq(s \o t, 1, 8) = s /\ SubSeq(s \o t, 9, Len(s \o t)) = t
  BY <1>5, <1>6 DEF Falls
<1>. QED
  BY <1>4, <1>7 DEF s, t, n

\* bridge_input puts back what output left out: a packet whose addresses are those of
\* the frame that carried it is whole again.
THEOREM PacketRoundTrip ==
  ASSUME NEW p \in Seq(Byte), Len(p) >= 40,
         NEW src \in WireAddr, SubSeq(p, 9, 24) = Lora2Ipv6(src),
         NEW dest \in WireAddr, SubSeq(p, 25, 40) = Lora2Ipv6(dest)
  PROVE  BridgeInput(src, dest, Output(p)) = p
<1>. DEFINE o == Output(p)
            n == Len(p)
            s == SubSeq(p, 1, 8)
            t == SubSeq(p, 41, n)
<1>1. n \in Nat /\ n >= 40
  OBVIOUS
<1>2. SubSeq(o, 1, 8) = s /\ SubSeq(o, 9, Len(o)) = t
  BY OutputParts
<1>. HIDE DEF n
<1>3. BridgeInput(src, dest, o) = s \o SubSeq(p, 9, 24) \o SubSeq(p, 25, 40) \o t
  BY <1>2 DEF BridgeInput
<1>4. s \o SubSeq(p, 9, 24) = SubSeq(p, 1, 24)
  <2>1. 8 \in 0..n /\ 24 \in 8..n /\ 8 + 1 = 9
    BY <1>1
  <2>. QED
    BY <2>1, Cut DEF n
<1>5. SubSeq(p, 1, 24) \o SubSeq(p, 25, 40) = SubSeq(p, 1, 40)
  <2>1. 24 \in 0..n /\ 40 \in 24..n /\ 24 + 1 = 25
    BY <1>1
  <2>. QED
    BY <2>1, Cut DEF n
<1>6. SubSeq(p, 1, 40) \o t = SubSeq(p, 1, n)
  <2>1. 40 \in 0..n /\ n \in 40..n /\ 40 + 1 = 41
    BY <1>1
  <2>. QED
    BY <2>1, Cut DEF n
<1>7. SubSeq(p, 1, n) = p
  BY DEF n
<1>. QED
  BY <1>3, <1>4, <1>5, <1>6, <1>7
=============================================================================

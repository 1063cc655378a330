---------------------------- MODULE LoraUartProofs ----------------------------
(***************************************************************************)
(* The invariants of LoraUart, proved for every length of lorabuf_c and    *)
(* every set of frames and packets.                                        *)
(***************************************************************************)
EXTENDS LoraUart, LoraFramerProofs, SequenceTheorems

-----------------------------------------------------------------------------
(* Bytes written as digits *)

\* Every place of 2 n digits is the first or the second one of a byte.
LEMMA Halves ==
  ASSUME NEW n \in Nat, NEW i \in 1..(2 * n)
  PROVE  \E j \in 1..n : i = 2 * j - 1 \/ i = 2 * j
<1>1. CASE i % 2 = 1
  <2>1. (i + 1) \div 2 \in 1..n /\ i = 2 * ((i + 1) \div 2) - 1
    BY <1>1
  <2> QED BY <2>1
<1>2. CASE i % 2 = 0
  <2>1. i \div 2 \in 1..n /\ i = 2 * (i \div 2)
    BY <1>2
  <2> QED BY <2>1
<1> QED BY <1>1, <1>2

\* Digits that are those of the bytes b, one by one, are HexBytes(b).
LEMMA HexIs ==
  ASSUME NEW s \in Seq(Digit), NEW b \in Seq(Byte), Len(s) = 2 * Len(b),
         \A j \in 1..Len(b) : s[2 * j - 1] = b[j] \div 16 /\ s[2 * j] = b[j] % 16
  PROVE  s = HexBytes(b)
<1> DEFINE h == HexBytes(b)
<1>1. /\ h \in Seq(Digit) /\ Len(h) = 2 * Len(b)
      /\ \A j \in 1..Len(b) : h[2 * j - 1] = b[j] \div 16 /\ h[2 * j] = b[j] % 16
  BY HexBytesDigits
<1>2. Len(b) \in Nat
  OBVIOUS
<1> HIDE DEF h
<1>3. ASSUME NEW i \in 1..Len(s) PROVE s[i] = h[i]
  <2>1. PICK j \in 1..Len(b) : i = 2 * j - 1 \/ i = 2 * j
    BY <1>2, Halves
  <2> QED BY <1>1, <2>1
<1>4. s = h
  BY <1>1, <1>3, SeqEqual
<1> QED BY <1>4 DEF h

\* No bytes have no digits.
LEMMA NoBytes == HexBytes(<< >>) = << >>
<1>1. ASSUME NEW e \in Seq(Byte), Len(e) = 0 PROVE HexBytes(e) = << >>
  <2>1. HexBytes(e) \in Seq(Digit)
    BY HexBytesDigits
  <2>2. Len(HexBytes(e)) = 2 * Len(e)
    BY HexBytesDigits
  <2>3. Len(HexBytes(e)) = 0
    BY <1>1, <2>2
  <2> QED BY <2>1, <2>3
<1>2. << >> \in Seq(Byte) /\ Len(<< >>) = 0
  OBVIOUS
<1> QED BY <1>1, <1>2, Zenon

\* Digits are numbers.
LEMMA DigitsAreNat == ASSUME NEW s \in Seq(Digit) PROVE s \in Seq(Nat)
<1>1. \A i \in 1..Len(s) : s[i] \in Nat
  BY ElementOfSeq DEF Digit
<1> QED BY <1>1

\* What a part of a sequence is made of.
LEMMA SubSeqAt ==
  ASSUME NEW D, NEW s \in Seq(D), NEW k \in 1..(Len(s) + 1), NEW m \in (k - 1)..Len(s)
  PROVE  /\ SubSeq(s, k, m) \in Seq(D) /\ Len(SubSeq(s, k, m)) = m - k + 1
         /\ \A i \in 1..(m - k + 1) : SubSeq(s, k, m)[i] = s[k + i - 1]
OBVIOUS

\* The digits of a part are a part of the digits.
LEMMA HexSub ==
  ASSUME NEW b \in Seq(Byte), NEW k \in 1..(Len(b) + 1), NEW m \in (k - 1)..Len(b)
  PROVE  /\ SubSeq(b, k, m) \in Seq(Byte)
         /\ SubSeq(HexBytes(b), 2 * k - 1, 2 * m) = HexBytes(SubSeq(b, k, m))
<1> DEFINE h == HexBytes(b)
           p == SubSeq(b, k, m)
           s == SubSeq(h, 2 * k - 1, 2 * m)
<1>1. /\ h \in Seq(Digit) /\ Len(h) = 2 * Len(b)
      /\ \A j \in 1..Len(b) : h[2 * j - 1] = b[j] \div 16 /\ h[2 * j] = b[j] % 16
  BY HexBytesDigits
<1>2. Len(b) \in Nat /\ k \in Nat /\ m \in Nat
  OBVIOUS
<1>3. p \in Seq(Byte) /\ Len(p) = m - k + 1 /\ \A j \in 1..(m - k + 1) : p[j] = b[k + j - 1]
  OBVIOUS
<1> HIDE DEF h, p
<1>4. /\ s \in Seq(Digit) /\ Len(s) = 2 * (m - k + 1)
      /\ \A i \in 1..(2 * (m - k + 1)) : s[i] = h[2 * k - 1 + i - 1]
  <2>1. 2 * k - 1 \in 1..(Len(h) + 1) /\ 2 * m \in (2 * k - 1 - 1)..Len(h)
    BY <1>1, <1>2
  <2>2. 2 * m - (2 * k - 1) + 1 = 2 * (m - k + 1)
    BY <1>2
  <2>3. s \in Seq(Digit) /\ Len(s) = 2 * m - (2 * k - 1) + 1
        /\ \A i \in 1..(2 * m - (2 * k - 1) + 1) : s[i] = h[2 * k - 1 + i - 1]
    BY <1>1, <2>1, SubSeqAt
  <2> QED BY <2>2, <2>3
<1> HIDE DEF s
<1>5. ASSUME NEW j \in 1..Len(p) PROVE s[2 * j - 1] = p[j] \div 16 /\ s[2 * j] = p[j] % 16
  <2>1. k + j - 1 \in 1..Len(b) /\ p[j] = b[k + j - 1]
    BY <1>2, <1>3
  <2>2. s[2 * j - 1] = h[2 * (k + j - 1) - 1] /\ s[2 * j] = h[2 * (k + j - 1)]
    <3> DEFINE n == m - k + 1
    <3>1. n \in Nat /\ j \in 1..n
      BY <1>2, <1>3
    <3>2. 2 * j - 1 \in 1..(2 * n) /\ 2 * j \in 1..(2 * n)
      BY <3>1
    <3>3. /\ 2 * k - 1 + (2 * j - 1) - 1 = 2 * (k + j - 1) - 1
          /\ 2 * k - 1 + 2 * j - 1 = 2 * (k + j - 1)
      BY <1>2, <3>1
    <3> QED BY <1>4, <3>2, <3>3
  <2> QED BY <1>1, <2>1, <2>2
<1>6. s = HexBytes(p)
  BY <1>3, <1>4, <1>5, HexIs
<1> QED BY <1>3, <1>6 DEF s, p, h

\* The digits of two sequences of bytes, one behind the other.
LEMMA HexConcat ==
  ASSUME NEW a \in Seq(Byte), NEW b \in Seq(Byte)
  PROVE  /\ a \o b \in Seq(Byte)
         /\ HexBytes(a \o b) = HexBytes(a) \o HexBytes(b)
<1> DEFINE x == HexBytes(a)
           y == HexBytes(b)
           c == a \o b
           s == x \o y
<1>1. /\ x \in Seq(Digit) /\ Len(x) = 2 * Len(a)
      /\ \A j \in 1..Len(a) : x[2 * j - 1] = a[j] \div 16 /\ x[2 * j] = a[j] % 16
  BY HexBytesDigits
<1>2. /\ y \in Seq(Digit) /\ Len(y) = 2 * Len(b)
      /\ \A j \in 1..Len(b) : y[2 * j - 1] = b[j] \div 16 /\ y[2 * j] = b[j] % 16
  BY HexBytesDigits
<1>3. Len(a) \in Nat /\ Len(b) \in Nat
  OBVIOUS
<1> HIDE DEF x, y
<1>4. Join(Byte, c, a, b, Len(a), Len(b))
  BY <1>3, Joined
<1>5. Join(Digit, s, x, y, 2 * Len(a), 2 * Len(b))
  BY <1>1, <1>2, <1>3, Joined
<1> HIDE DEF c, s
<1>6. ASSUME NEW j \in 1..Len(c) PROVE s[2 * j - 1] = c[j] \div 16 /\ s[2 * j] = c[j] % 16
  <2>1. CASE j <= Len(a)
    <3>1. j \in 1..Len(a) /\ 2 * j - 1 \in 1..(2 * Len(a)) /\ 2 * j \in 1..(2 * Len(a))
      BY <1>3, <1>4, <2>1 DEF Join
    <3> QED BY <1>1, <1>4, <1>5, <3>1 DEF Join
  <2>2. CASE j > Len(a)
    <3> DEFINE i == j - Len(a)
    <3>1. /\ i \in 1..Len(b) /\ 2 * i - 1 \in 1..(2 * Len(b)) /\ 2 * i \in 1..(2 * Len(b))
          /\ j = Len(a) + i
      BY <1>3, <1>4, <2>2 DEF Join
    <3> HIDE DEF i
    <3>2. c[j] = b[i]
      BY <1>4, <3>1 DEF Join
    <3>3. s[2 * Len(a) + (2 * i - 1)] = y[2 * i - 1] /\ s[2 * Len(a) + 2 * i] = y[2 * i]
      BY <1>5, <3>1 DEF Join
    <3>4. 2 * Len(a) + (2 * i - 1) = 2 * j - 1 /\ 2 * Len(a) + 2 * i = 2 * j
      BY <1>3, <3>1
    <3> QED BY <1>2, <3>1, <3>2, <3>3, <3>4
  <2> QED BY <1>3, <1>4, <2>1, <2>2 DEF Join
<1>7. c \in Seq(Byte) /\ s \in Seq(Digit) /\ Len(s) = 2 * Len(c)
  BY <1>3, <1>4, <1>5 DEF Join
<1>8. s = HexBytes(c)
  BY <1>6, <1>7, HexIs
<1> QED BY <1>7, <1>8 DEF s, c, x, y

\* Every even number of digits writes some bytes.
LEMMA BytesOf ==
  ASSUME NEW e \in Seq(Digit), NEW n \in Nat, Len(e) = 2 * n
  PROVE  \E b \in Seq(Byte) : e = HexBytes(b)
<1> DEFINE b == [i \in 1..n |-> Two(e, 2 * i - 1)]
<1>1. ASSUME NEW i \in 1..n
      PROVE  /\ Two(e, 2 * i - 1) \in Byte
             /\ e[2 * i - 1] = Two(e, 2 * i - 1) \div 16 /\ e[2 * i] = Two(e, 2 * i - 1) % 16
  <2>1. /\ 2 * i - 1 \in 1..Len(e) /\ 2 * i \in 1..Len(e) /\ 2 * i - 1 + 1 = 2 * i
    OBVIOUS
  <2>2. e[2 * i - 1] \in 0..15 /\ e[2 * i] \in 0..15
    <3>1. \A j \in 1..Len(e) : e[j] \in Digit
      OBVIOUS
    <3> QED BY <2>1, <3>1 DEF Digit
  <2>3. \A x, y \in 0..15 : /\ 16 * x + y \in 0..255
                            /\ (16 * x + y) \div 16 = x /\ (16 * x + y) % 16 = y
    OBVIOUS
  <2>4. Two(e, 2 * i - 1) = 16 * e[2 * i - 1] + e[2 * i]
    BY <2>1 DEF Two
  <2> DEFINE x == e[2 * i - 1]
             y == e[2 * i]
             z == Two(e, 2 * i - 1)
  <2>5. x \in 0..15 /\ y \in 0..15 /\ z = 16 * x + y
    BY <2>2, <2>4
  <2> HIDE DEF x, y, z
  <2>6. z \in 0..255 /\ x = z \div 16 /\ y = z % 16
    BY <2>3, <2>5
  <2> QED BY <2>6 DEF Byte, x, y, z
<1>2. b \in Seq(Byte) /\ Len(b) = n /\ \A j \in 1..n : b[j] = Two(e, 2 * j - 1)
  BY <1>1
<1> HIDE DEF b
<1>3. e = HexBytes(b)
  BY <1>1, <1>2, HexIs
<1> QED BY <1>2, <1>3

-----------------------------------------------------------------------------
(* Packets and the frames that carry them *)

\* The sixteen bytes of an address of the network are bytes.
LEMMA Lora2Ipv6Type ==
  ASSUME NEW a \in WireAddr
  PROVE  Lora2Ipv6(a) \in Seq(Byte) /\ Len(Lora2Ipv6(a)) = 16
<1>1. a.prefix \in Byte /\ a.id \in Word
  BY DEF WireAddr
<1>2. a.id \div 256 \in Byte /\ a.id % 256 \in Byte
  BY <1>1, WordDigits
<1> QED BY <1>1, <1>2 DEF Lora2Ipv6, Byte

\* What ipv62lora reads in sixteen bytes of a packet is an address.
LEMMA Ipv62LoraType ==
  ASSUME NEW p \in Seq(Byte), NEW k \in Nat \ {0}, k + 15 <= Len(p)
  PROVE  Ipv62Lora(SubSeq(p, k, k + 15)) \in WireAddr
<1> DEFINE ip == SubSeq(p, k, k + 15)
<1>1. ip \in Seq(Byte) /\ Len(ip) = 16
  OBVIOUS
<1> HIDE DEF ip
<1>2. \A i \in 1..16 : ip[i] \in Byte
  BY <1>1, ElementOfSeq
<1>3. ASSUME NEW x \in Byte, NEW y \in Byte PROVE 256 * x + y \in Word
  <2>1. x \in Int /\ y \in Int /\ 0 <= x /\ x <= 255 /\ 0 <= y /\ y <= 255
    BY DEF Byte
  <2> DEFINE z == 256 * x + y
  <2>2. z \in Int /\ 0 <= z /\ z <= 65535
    BY <2>1
  <2> HIDE DEF z
  <2>3. z \in Word
    BY <2>2 DEF Word
  <2> QED BY <2>3 DEF z
<1>4. 8 \in 1..16 /\ 15 \in 1..16 /\ 16 \in 1..16
  OBVIOUS
<1>5. ip[8] \in Byte /\ 256 * ip[15] + ip[16] \in Word
  BY <1>2, <1>3, <1>4
<1>6. Ipv62Lora(ip) \in WireAddr
  BY <1>5 DEF Ipv62Lora, WireAddr
<1> QED BY <1>6 DEF ip

\* output leaves bytes, without the 32 of the addresses.
LEMMA OutputType ==
  ASSUME NEW p \in Seq(Byte), Len(p) >= 40
  PROVE  Output(p) \in Seq(Byte) /\ Len(Output(p)) >= 8
<1> DEFINE n == Len(p)
           s == SubSeq(p, 1, 8)
           t == SubSeq(p, 41, n)
<1>1. n \in Nat /\ n >= 40
  OBVIOUS
<1>2. 8 \in (1 - 1)..n /\ 41 \in 1..(n + 1) /\ n \in (41 - 1)..n
  BY <1>1
<1>3. s \in Seq(Byte) /\ Len(s) = 8
  BY <1>1, <1>2, SubSeqAt
<1>4. t \in Seq(Byte)
  BY <1>1, <1>2, SubSeqAt
<1> HIDE DEF s, t, n
<1>5. s \o t \in Seq(Byte) /\ Len(s \o t) = 8 + Len(t) /\ Len(t) \in Nat
  <2>1. Len(t) \in Nat
    BY <1>4
  <2>2. Join(Byte, s \o t, s, t, 8, Len(t))
    BY <1>3, <1>4, <2>1, Joined
  <2> QED BY <2>1, <2>2 DEF Join
<1>6. Output(p) = s \o t
  BY DEF Output, s, t, n
<1> QED BY <1>5, <1>6

\* serialize_ip_packet leaves the digits of what output leaves.
LEMMA SerializeOutput ==
  ASSUME NEW p \in Seq(Byte), Len(p) >= 40
  PROVE  SerializeIpPacket(HexBytes(p)) = HexBytes(Output(p))
<1> DEFINE n == Len(p)
<1>1. n \in Nat /\ n >= 40 /\ Len(HexBytes(p)) = 2 * n
  BY HexBytesDigits
<1>2. 1 \in 1..(n + 1) /\ 8 \in (1 - 1)..n /\ 41 \in 1..(n + 1) /\ n \in (41 - 1)..n
  BY <1>1
<1>3. /\ SubSeq(p, 1, 8) \in Seq(Byte)
      /\ SubSeq(HexBytes(p), 2 * 1 - 1, 2 * 8) = HexBytes(SubSeq(p, 1, 8))
  BY <1>2, HexSub
<1>4. /\ SubSeq(p, 41, n) \in Seq(Byte)
      /\ SubSeq(HexBytes(p), 2 * 41 - 1, 2 * n) = HexBytes(SubSeq(p, 41, n))
  BY <1>2, HexSub
<1>5. 2 * 1 - 1 = 1 /\ 2 * 8 = 16 /\ 2 * 41 - 1 = 81
  OBVIOUS
<1> HIDE DEF n
<1>6. SerializeIpPacket(HexBytes(p))
      = HexBytes(SubSeq(p, 1, 8)) \o HexBytes(SubSeq(p, 41, n))
  BY <1>1, <1>3, <1>4, <1>5 DEF SerializeIpPacket
<1>7. HexBytes(SubSeq(p, 1, 8) \o SubSeq(p, 41, n))
      = HexBytes(SubSeq(p, 1, 8)) \o HexBytes(SubSeq(p, 41, n))
  BY <1>3, <1>4, HexConcat
<1> QED BY <1>6, <1>7 DEF Output, n

\* build_ip_packet makes the digits of what bridge_input makes.
LEMMA BuildBridge ==
  ASSUME NEW src \in WireAddr, NEW dest \in WireAddr, NEW o \in Seq(Byte), Len(o) >= 8
  PROVE  BuildIpPacket(src, dest, HexBytes(o)) = HexBytes(BridgeInput(src, dest, o))
<1> DEFINE n == Len(o)
           a == SubSeq(o, 1, 8)
           b == Lora2Ipv6(src)
           c == Lora2Ipv6(dest)
           d == SubSeq(o, 9, n)
<1>1. n \in Nat /\ n >= 8 /\ Len(HexBytes(o)) = 2 * n
  BY HexBytesDigits
<1>2. 1 \in 1..(n + 1) /\ 8 \in (1 - 1)..n /\ 9 \in 1..(n + 1) /\ n \in (9 - 1)..n
  BY <1>1
<1>3. /\ a \in Seq(Byte)
      /\ SubSeq(HexBytes(o), 2 * 1 - 1, 2 * 8) = HexBytes(a)
  BY <1>2, HexSub
<1>4. /\ d \in Seq(Byte)
      /\ SubSeq(HexBytes(o), 2 * 9 - 1, 2 * n) = HexBytes(d)
  BY <1>2, HexSub
<1>5. /\ b \in Seq(Byte) /\ c \in Seq(Byte)
      /\ LoraToIpv6(src) = b /\ LoraToIpv6(dest) = c
  BY Lora2Ipv6Type, AddressesAgree
<1>6. 2 * 1 - 1 = 1 /\ 2 * 8 = 16 /\ 2 * 9 - 1 = 17
  OBVIOUS
<1> HIDE DEF a, b, c, d, n
<1>7. BuildIpPacket(src, dest, HexBytes(o))
      = HexBytes(a) \o HexBytes(b) \o HexBytes(c) \o HexBytes(d)
  BY <1>1, <1>3, <1>4, <1>5, <1>6 DEF BuildIpPacket
<1>8. a \o b \in Seq(Byte) /\ HexBytes(a \o b) = HexBytes(a) \o HexBytes(b)
  BY <1>3, <1>5, HexConcat
<1>9. a \o b \o c \in Seq(Byte) /\ HexBytes(a \o b \o c) = HexBytes(a \o b) \o HexBytes(c)
  BY <1>5, <1>8, HexConcat
<1>10. HexBytes(a \o b \o c \o d) = HexBytes(a \o b \o c) \o HexBytes(d)
  BY <1>4, <1>9, HexConcat
<1>11. BridgeInput(src, dest, o) = a \o b \o c \o d
  BY DEF BridgeInput, a, b, c, d, n
<1> QED BY <1>7, <1>8, <1>9, <1>10, <1>11

\* What the node sends is a frame of bytes.
LEMMA UpFrameType ==
  ASSUME NEW job \in Uplink
  PROVE  /\ UpFrame(job) \in FrameOf(Seq(Byte))
         /\ UpFrame(job).payload = IF job.packet = << >> THEN << >> ELSE Output(job.packet)
         /\ job.packet # << >> =>
              /\ UpFrame(job).src_addr = Ipv62Lora(SubSeq(job.packet, 9, 24))
              /\ UpFrame(job).dest_addr = job.frame.dest_addr
<1>1. job.frame \in FrameOf({<< >>}) /\ job.packet \in Seq(Byte)
  BY JobAssumption
<1>2. CASE job.packet = << >>
  BY <1>1, <1>2 DEF UpFrame, FrameOf
<1>3. CASE job.packet # << >>
  <2>1. Len(job.packet) >= 40
    BY <1>3, JobAssumption
  <2>2. Output(job.packet) \in Seq(Byte)
    BY <1>1, <2>1, OutputType
  <2>3. Ipv62Lora(SubSeq(job.packet, 9, 24)) \in WireAddr
    <3>1. Ipv62Lora(SubSeq(job.packet, 9, 9 + 15)) \in WireAddr
      BY <1>1, <2>1, Ipv62LoraType
    <3>2. 9 + 15 = 24
      OBVIOUS
    <3> QED BY <3>1, <3>2
  <2> QED BY <1>1, <1>3, <2>2, <2>3 DEF UpFrame, FrameOf
<1> QED BY <1>2, <1>3

\* What the root sends is a frame of digits.
LEMMA DownFrameType ==
  ASSUME NEW job \in Downlink
  PROVE  /\ DownFrame(job) \in FrameOf(Seq(Digit))
         /\ job.packet = << >> => DownFrame(job) = job.frame
         /\ job.packet # << >> =>
              /\ job.packet \in Seq(Byte) /\ Len(job.packet) >= 40
              /\ Output(job.packet) \in Seq(Byte)
              /\ DownFrame(job).payload = HexBytes(Output(job.packet))
              /\ DownFrame(job).src_addr = job.frame.src_addr
              /\ DownFrame(job).dest_addr = Ipv62Lora(SubSeq(job.packet, 25, 40))
<1>1. job.frame \in FrameOf(Seq(Digit)) /\ job.packet \in Seq(Byte)
  BY JobAssumption
<1>2. CASE job.packet = << >>
  BY <1>1, <1>2 DEF DownFrame
<1>3. CASE job.packet # << >>
  <2>1. Len(job.packet) >= 40
    BY <1>3, JobAssumption
  <2>2. Output(job.packet) \in Seq(Byte)
    BY <1>1, <2>1, OutputType
  <2>3. /\ SerializeIpPacket(HexBytes(job.packet)) = HexBytes(Output(job.packet))
        /\ HexBytes(Output(job.packet)) \in Seq(Digit)
    BY <1>1, <2>1, <2>2, SerializeOutput, HexBytesDigits
  <2>4. Ipv62Lora(SubSeq(job.packet, 25, 40)) \in WireAddr
    <3>1. Ipv62Lora(SubSeq(job.packet, 25, 25 + 15)) \in WireAddr
      BY <1>1, <2>1, Ipv62LoraType
    <3>2. 25 + 15 = 40
      OBVIOUS
    <3> QED BY <3>1, <3>2
  <2> QED BY <1>1, <1>3, <2>1, <2>2, <2>3, <2>4 DEF DownFrame, FrameOf
<1> QED BY <1>2, <1>3

\* The same header and the same digits behind it are the same line.
Same(f, g) == [f EXCEPT !.payload = << >>] = [g EXCEPT !.payload = << >>]

\* What toHex writes of a frame is what create writes of a frame of bytes.
LEMMA DownBytes ==
  ASSUME NEW job \in Downlink
  PROVE  \E g \in FrameOf(Seq(Byte)) :
           /\ ToHex(DownFrame(job)) = Create(g)
           /\ Same(g, DownFrame(job))
           /\ job.packet # << >> => g.payload = Output(job.packet)
<1> DEFINE f == DownFrame(job)
           e == IF Len(f.payload) % 2 = 0 THEN f.payload ELSE <<0>> \o f.payload
<1>1. f \in FrameOf(Seq(Digit)) /\ f.payload \in Seq(Digit)
  BY DownFrameType DEF FrameOf
<1>2. \E b \in Seq(Byte) : e = HexBytes(b) /\ (job.packet # << >> => b = Output(job.packet))
  <2>1. CASE job.packet # << >>
    <3> DEFINE o == Output(job.packet)
    <3>1. o \in Seq(Byte) /\ f.payload = HexBytes(o)
      BY <2>1, DownFrameType
    <3> HIDE DEF o
    <3>2. Len(HexBytes(o)) = 2 * Len(o) /\ Len(o) \in Nat
      BY <3>1, HexBytesDigits
    <3>3. \A n \in Nat : (2 * n) % 2 = 0
      OBVIOUS
    <3>4. e = HexBytes(o)
      BY <3>1, <3>2, <3>3
    <3> QED BY <3>1, <3>4 DEF o
  <2>2. CASE job.packet = << >>
    <3> HIDE DEF f
    <3>1. Len(f.payload) \in Nat
      BY <1>1
    <3>2. e \in Seq(Digit) /\ \E n \in Nat : Len(e) = 2 * n
      <4>1. CASE Len(f.payload) % 2 = 0
        <5>1. \A n \in Nat : n % 2 = 0 => n = 2 * (n \div 2) /\ n \div 2 \in Nat
          OBVIOUS
        <5> QED BY <1>1, <3>1, <4>1, <5>1
      <4>2. CASE Len(f.payload) % 2 # 0
        <5>1. \A n \in Nat : n % 2 # 0 => n + 1 = 2 * ((n + 1) \div 2) /\ (n + 1) \div 2 \in Nat
          OBVIOUS
        <5>2. <<0>> \in Seq(Digit) /\ Len(<<0>>) = 1
          BY DEF Digit
        <5>3. Join(Digit, <<0>> \o f.payload, <<0>>, f.payload, 1, Len(f.payload))
          BY <1>1, <3>1, <5>2, Joined
        <5>4. Len(e) = Len(f.payload) + 1 /\ e \in Seq(Digit)
          BY <3>1, <4>2, <5>3 DEF Join
        <5> QED BY <3>1, <4>2, <5>1, <5>4
      <4> QED BY <4>1, <4>2
    <3> HIDE DEF e
    <3> QED BY <2>2, <3>2, BytesOf
  <2> QED BY <2>1, <2>2
<1>3. PICK b \in Seq(Byte) : e = HexBytes(b) /\ (job.packet # << >> => b = Output(job.packet))
  BY <1>2
<1> DEFINE g == [f EXCEPT !.payload = b]
<1>4. ToHex(f) = HexHeader(f) \o e
  BY DEF ToHex
<1> HIDE DEF f, e
<1>5. g \in FrameOf(Seq(Byte)) /\ g.payload = b
  BY <1>1 DEF FrameOf
<1>6. HexHeader(g) = HexHeader(f)
  BY <1>1 DEF FrameOf, HexHeader, HexAddr, HexByte, FlagsCommand
<1>7. Same(g, f)
  BY <1>1 DEF FrameOf, Same
<1>8. ToHex(f) = Create(g)
  BY <1>3, <1>4, <1>5, <1>6 DEF Create
<1> QED BY <1>3, <1>5, <1>7, <1>8 DEF f

\* The same m characters.
Agree(d, e, m) == \A i \in 1..m : d[i] = e[i]

\* parse looks at no character behind the len it is given, when these are whole bytes.
LEMMA ParseSame ==
  ASSUME NEW d, NEW e, NEW n \in Nat, NEW m, m = 16 + 2 * n, NEW after, Agree(d, e, m)
  PROVE  Parse(d, m, after) = Parse(e, m, after)
<1>0. m \in Nat /\ m >= 16
  OBVIOUS
<1>1. \A i \in 1..16 : d[i] = e[i]
  BY <1>0 DEF Agree
<1>2. Header(d, after) = Header(e, after)
  BY <1>1 DEF Header, Two, Four
<1>3. PayloadSize(m) = n
  BY WholeBytes
<1>4. ASSUME NEW i \in 1..n PROVE Two(d, 2 * i + 15) = Two(e, 2 * i + 15)
  <2>1. 2 * i + 15 \in 1..m /\ 2 * i + 15 + 1 \in 1..m
    BY <1>0
  <2> QED BY <2>1 DEF Two, Agree
<1>5. [i \in 1..n |-> Strtol(Two(d, 2 * i + 15), after, 256)]
      = [i \in 1..n |-> Strtol(Two(e, 2 * i + 15), after, 256)]
  BY <1>4
<1> QED BY <1>2, <1>3, <1>5 DEF Parse

-----------------------------------------------------------------------------
(* The inductive invariant *)

Words == {OK, RADIO_ERR, RADIO_TX_OK, BUSY, INVALID_PARAM}
Commands == {RADIO_SET, RADIO_RX, RADIO_TX, SYS_SLEEP}

\* What the modem may print: a word and no more, or a frame of the root.
Short == {<<w>> : w \in Words}
RxLine == <<RADIO_RX_LINE>> \o ToHex(DownFrame(down))
Bodies == Short \cup {RxLine}

\* The modem prints body: index characters of it are read (and the CR when cr).
Reading(body) ==
  /\ index \in 0..Len(body) /\ Len(line) = (IF cr THEN 1 ELSE Len(body) - index + 2)
  /\ IF cr THEN index = Len(body) /\ line[1] = LF
     ELSE /\ \A i \in 1..(Len(body) - index) : line[i] = body[index + i]
          /\ line[Len(body) - index + 1] = CR /\ line[Len(body) - index + 2] = LF

\* The characters read are in lorabuf_c, or a command was copied over the first of them.
Kept(body) ==
  /\ index >= 1 => lorabuf_c[1] \in {body[1]} \cup Commands
  /\ lorabuf_c[1] = body[1] => \A i \in 1..index : lorabuf_c[i] = body[i]

\* When nothing was replaced, the line is the "ok" with which a radio command begins,
\* or the answer that ends the command.
Understood(body) ==
  /\ index >= 1 => lorabuf_c[1] = body[1]
  /\ replies = << >> /\ ~ready
  /\ IF modem = IDLE THEN body[1] \in {exp[1], RADIO_ERR}
     ELSE body[1] = OK /\ modem \in {RADIO_TX, RADIO_RX}

LineRead ==
  line # << >> =>
    \E body \in Bodies : Reading(body) /\ Kept(body) /\ (~disturbed => Understood(body))

\* The variables of the C code, with the values that the steps of the model tell apart.
Values ==
  /\ lorabuf_c \in [1..BufSize -> Nat] /\ datalen_c \in 0..BufSize
  /\ index \in 0..BufSize /\ line \in Seq(Nat)
  /\ ready \in BOOLEAN /\ start \in BOOLEAN /\ cr \in BOOLEAN
  /\ pc \in {"wdt0", "idle", "tx", "wdt", "rx"} /\ done \in 0..MaxDone
  /\ timer \in BOOLEAN /\ disturbed \in BOOLEAN
  /\ modem \in {IDLE, RADIO_TX, RADIO_RX, SYS_SLEEP}
  /\ replies \in Seq({OK, BUSY, INVALID_PARAM})
  /\ up \in Uplink /\ down \in Downlink

\* The expected responses are those of the command, unless others were stored.
Expects(command) ==
  CASE command = RADIO_SET -> <<OK, NONE>>
    [] command = SYS_SLEEP -> <<OK, NONE>>
    [] command = RADIO_TX -> <<RADIO_TX_OK, RADIO_ERR>>
    [] OTHER -> <<RADIO_RX_LINE, RADIO_ERR>>
ExpKept ==
  /\ exp \in {<<OK, NONE>>, <<OK, OK>>, <<RADIO_TX_OK, RADIO_ERR>>,
              <<RADIO_RX_LINE, RADIO_ERR>>}
  /\ ~disturbed /\ modem # IDLE => exp = Expects(modem)

\* Commands and their answers alternate, unless the driver was disturbed.
Turns ==
  /\ line = << >> => ~cr /\ index = 0
  /\ ~disturbed /\ ready => modem = IDLE /\ Silent
  /\ ~disturbed /\ replies # << >> =>
       /\ replies = <<OK>> /\ line = << >> /\ modem # SYS_SLEEP
       /\ modem = IDLE => exp[1] = OK

UartInv == Values /\ ExpKept /\ Turns /\ LineRead /\ AnswerSeen

-----------------------------------------------------------------------------
(* Lines *)

\* The characters of a word are no ends of line, and there is room for them.
LEMMA BodyType ==
  ASSUME LinesFit, down \in Downlink, NEW body \in Bodies
  PROVE  /\ body \in Seq(Nat) /\ Len(body) \in 1..BufSize
         /\ \A i \in 1..Len(body) : body[i] \notin {CR, LF}
         /\ body[1] \in Words \cup {RADIO_RX_LINE} /\ body[1] \notin Commands
<1>1. BufSize \in Nat /\ BufSize >= 6
  BY BufSizeAssumption DEF LinesFit
<1>2. CASE body \in Short
  <2>1. PICK w \in {30, 31, 33, 34, 35} : body = <<w>>
    BY <1>2 DEF Short, Words, OK, RADIO_ERR, RADIO_TX_OK, BUSY, INVALID_PARAM
  <2>2. body \in Seq(Nat) /\ Len(body) = 1 /\ body[1] = w
    BY <2>1
  <2>3. w \in Words /\ w \notin Commands
    BY DEF Words, Commands, OK, RADIO_ERR, RADIO_TX_OK, BUSY, INVALID_PARAM, RADIO_SET,
           RADIO_RX, RADIO_TX, SYS_SLEEP
  <2>4. body[1] \in Words \cup {RADIO_RX_LINE} /\ body[1] \notin Commands
    BY <2>2, <2>3
  <2> QED BY <1>1, <2>2, <2>4 DEF CR, LF
<1>3. CASE body = RxLine
  <2> DEFINE hex == ToHex(DownFrame(down))
             n == Len(hex)
             word == <<RADIO_RX_LINE>>
  <2>1. hex \in Seq(Digit) /\ n \in Nat
    <3>1. PICK g \in FrameOf(Seq(Byte)) : hex = Create(g)
      BY DownBytes
    <3>2. g.payload \in Seq(Byte)
      BY DEF FrameOf
    <3>3. Len(g.payload) \in Nat
      BY <3>2
    <3> QED BY <3>1, <3>3, CreateDigits DEF Join
  <2>2. n < BufSize
    BY DEF LinesFit
  <2> HIDE DEF hex, n
  <2>3. word \in Seq(Nat) /\ Len(word) = 1 /\ word[1] = RADIO_RX_LINE
    BY DEF RADIO_RX_LINE
  <2>4. hex \in Seq(Nat) /\ Len(hex) = n /\ \A i \in 1..n : hex[i] \in 0..15
    BY <2>1, ElementOfSeq DEF Digit, n
  <2> HIDE DEF word
  <2>5. Join(Nat, word \o hex, word, hex, 1, n)
    BY <2>1, <2>3, <2>4, Joined
  <2>6. body = word \o hex
    BY <1>3 DEF RxLine, word, hex
  <2>7. body \in Seq(Nat) /\ Len(body) = 1 + n /\ body[1] = RADIO_RX_LINE
        /\ \A i \in 1..n : body[1 + i] = hex[i]
    <3>1. 1 \in 1..1
      OBVIOUS
    <3> QED BY <2>3, <2>5, <2>6, <3>1 DEF Join
  <2>8. ASSUME NEW i \in 1..Len(body) PROVE body[i] \notin {CR, LF}
    <3>1. CASE i = 1
      BY <2>7, <3>1 DEF RADIO_RX_LINE, CR, LF
    <3>2. CASE i # 1
      <4>1. i - 1 \in 1..n /\ 1 + (i - 1) = i
        BY <2>1, <2>7, <3>2
      <4>2. body[i] \in 0..15
        BY <2>4, <2>7, <4>1
      <4>3. CR \notin 0..15 /\ LF \notin 0..15
        BY DEF CR, LF
      <4> QED BY <4>2, <4>3
    <3> QED BY <3>1, <3>2
  <2>9. body[1] \in Words \cup {RADIO_RX_LINE} /\ body[1] \notin Commands
    BY <2>7 DEF Commands, RADIO_RX_LINE, RADIO_SET, RADIO_RX, RADIO_TX, SYS_SLEEP
  <2> QED BY <1>1, <2>1, <2>2, <2>7, <2>8, <2>9
<1> QED BY <1>2, <1>3 DEF Bodies

\* A line just printed has all its characters before it.
LEMMA Printed ==
  ASSUME line = << >>, ~cr', index' = 0, NEW word \in Nat, NEW digits \in Seq(Nat),
         Prints(word, digits)
  PROVE  /\ line' \in Seq(Nat) /\ line' # << >>
         /\ Reading(<<word>> \o digits)'
         /\ <<word>> \o digits \in Seq(Nat)
         /\ (<<word>> \o digits)[1] = word
<1> DEFINE first == <<word>>
           last == <<CR, LF>>
           n == Len(digits)
           body == first \o digits
           whole == body \o last
<1>1. n \in Nat /\ first \in Seq(Nat) /\ Len(first) = 1 /\ first[1] = word
  OBVIOUS
<1>2. last \in Seq(Nat) /\ Len(last) = 2 /\ last[1] = CR /\ last[2] = LF
  BY DEF CR, LF
<1>3. line' = whole
  BY DEF Prints
<1> HIDE DEF first, last, n
<1>4. Join(Nat, body, first, digits, 1, n)
  BY <1>1, Joined DEF n
<1>5. body \in Seq(Nat) /\ Len(body) = 1 + n /\ body[1] = word
  BY <1>1, <1>4 DEF Join
<1> HIDE DEF body
<1>6. Join(Nat, whole, body, last, 1 + n, 2)
  <2>1. 1 + n \in Nat /\ 2 \in Nat
    BY <1>1
  <2> QED BY <1>2, <1>5, <2>1, Joined
<1> HIDE DEF whole
<1>7. /\ whole \in Seq(Nat) /\ Len(whole) = 1 + n + 2
      /\ \A i \in 1..(1 + n) : whole[i] = body[i]
      /\ whole[1 + n + 1] = CR /\ whole[1 + n + 2] = LF
  BY <1>2, <1>6 DEF Join
<1>8. Reading(body)'
  <2>1. body' = body
    BY DEF body, first
  <2> QED BY <1>1, <1>3, <1>5, <1>7 DEF Reading
<1>9. line' # << >>
  BY <1>1, <1>3, <1>7
<1> QED BY <1>3, <1>5, <1>7, <1>8, <1>9 DEF body, first

\* The next character of a line is the next one of its body, or its end.
LEMMA NextChar ==
  ASSUME Values, LinesFit, line # << >>, NEW body \in Bodies, Reading(body)
  PROVE  /\ Head(line) \in Nat /\ Tail(line) \in Seq(Nat) /\ Len(line) \in Nat \ {0}
         /\ Head(line) = line[1] /\ Len(Tail(line)) = Len(line) - 1
         /\ \A i \in 1..(Len(line) - 1) : Tail(line)[i] = line[i + 1]
         /\ Head(line) = LF <=> cr
         /\ Head(line) = CR => index = Len(body) /\ ~cr
         /\ Head(line) \notin {CR, LF} =>
              index < Len(body) /\ ~cr /\ Head(line) = body[index + 1]
<1>1. line \in Seq(Nat) /\ index \in Nat /\ cr \in BOOLEAN
  BY BufSizeAssumption DEF Values
<1>2. body \in Seq(Nat) /\ Len(body) \in Nat /\ Len(body) >= 1
      /\ \A i \in 1..Len(body) : body[i] \notin {CR, LF}
  BY BodyType, BufSizeAssumption DEF Values
<1>3. /\ Head(line) \in Nat /\ Tail(line) \in Seq(Nat) /\ Len(line) \in Nat \ {0}
      /\ Head(line) = line[1] /\ Len(Tail(line)) = Len(line) - 1
      /\ \A i \in 1..(Len(line) - 1) : Tail(line)[i] = line[i + 1]
  BY <1>1
<1>4. CASE cr
  BY <1>3, <1>4 DEF Reading, CR, LF
<1>5. CASE ~cr
  <2>1. CASE index < Len(body)
    <3>1. 1 \in 1..(Len(body) - index) /\ index + 1 \in 1..Len(body)
      BY <1>1, <1>2, <2>1
    <3>2. line[1] = body[index + 1]
      BY <1>5, <3>1 DEF Reading
    <3> QED BY <1>2, <1>3, <1>5, <2>1, <3>1, <3>2
  <2>2. CASE index = Len(body)
    <3>1. line[1] = CR
      BY <1>1, <1>2, <1>5, <2>2 DEF Reading
    <3> QED BY <1>3, <1>5, <2>2, <3>1 DEF CR, LF
  <2> QED BY <1>1, <1>2, <2>1, <2>2 DEF Reading
<1> QED BY <1>1, <1>3, <1>4, <1>5

-----------------------------------------------------------------------------
(* The steps of the node *)

\* A command that fits is copied behind nothing.
LEMMA CopyType ==
  ASSUME Values, NEW command \in Nat, NEW value \in Seq(Nat), Len(value) < BufSize,
         NEW e1, NEW e2, PrepareData(command, value, e1, e2)
  PROVE  /\ lorabuf_c' \in [1..BufSize -> Nat] /\ datalen_c' \in 0..BufSize
         /\ lorabuf_c'[1] = command /\ exp' = <<e1, e2>>
<1> DEFINE word == <<command>>
           n == Len(value)
           text == word \o value
<1>1. n \in Nat /\ BufSize \in Nat /\ 1 + n <= BufSize
  BY BufSizeAssumption
<1>2. word \in Seq(Nat) /\ Len(word) = 1 /\ word[1] = command
  OBVIOUS
<1>3. CopyFrom(text) /\ exp' = <<e1, e2>>
  BY DEF PrepareData
<1> HIDE DEF word, n
<1>4. Join(Nat, text, word, value, 1, n)
  BY <1>1, <1>2, Joined DEF n
<1> HIDE DEF text
<1>5. text \in Seq(Nat) /\ Len(text) = 1 + n /\ text[1] = command
  <2>1. 1 \in 1..1
    OBVIOUS
  <2> QED BY <1>2, <1>4, <2>1 DEF Join
<1>6. ASSUME NEW i \in 1..BufSize
      PROVE  (IF i <= Len(text) THEN text[i] ELSE lorabuf_c[i]) \in Nat
  <2>1. CASE i <= Len(text)
    <3>1. i \in 1..Len(text)
      BY <1>1, <1>5, <2>1
    <3>2. text[i] \in Nat
      BY <1>5, <3>1, ElementOfSeq
    <3> QED BY <2>1, <3>2
  <2>2. CASE ~(i <= Len(text))
    <3>1. lorabuf_c[i] \in Nat
      BY DEF Values
    <3> QED BY <2>2, <3>1
  <2> QED BY <2>1, <2>2
<1>7. lorabuf_c'[1] = command
  <2>1. 1 \in 1..BufSize /\ 1 <= Len(text)
    BY <1>1, <1>5
  <2> QED BY <1>3, <1>5, <2>1 DEF CopyFrom
<1> QED BY <1>1, <1>3, <1>5, <1>6, <1>7 DEF CopyFrom

\* A command given to a silent modem that executes nothing.
LEMMA GivenFree ==
  ASSUME ready, modem = IDLE, Silent, NEW command \in Commands, Give(command)
  PROVE  \/ command \in {RADIO_TX, RADIO_RX} /\ modem' = command /\ replies' = <<OK>>
         \/ command = SYS_SLEEP /\ modem' = command /\ replies' = << >>
         \/ command = RADIO_SET /\ modem' = IDLE /\ replies' = <<OK>>
<1>1. Append(<< >>, OK) = <<OK>>
  OBVIOUS
<1> QED BY <1>1 DEF Give, Silent, Commands, IDLE, RADIO_SET, RADIO_RX, RADIO_TX, SYS_SLEEP

\* What the modem answers and executes, whatever its state.
LEMMA GivenType ==
  ASSUME Values, NEW command \in Commands, Give(command)
  PROVE  /\ modem' \in {IDLE, RADIO_TX, RADIO_RX, SYS_SLEEP}
         /\ replies' \in Seq({OK, BUSY, INVALID_PARAM})
<1> DEFINE D == {OK, BUSY, INVALID_PARAM}
<1>1. replies \in Seq(D) /\ modem \in {IDLE, RADIO_TX, RADIO_RX, SYS_SLEEP}
  BY DEF Values
<1>2. ASSUME NEW w \in D PROVE Append(replies, w) \in Seq(D)
  BY <1>1
<1> HIDE DEF D
<1>3. OK \in D /\ BUSY \in D /\ INVALID_PARAM \in D
  BY DEF D
<1>4. \/ replies' = replies \/ replies' = Append(replies, OK) \/ replies' = Append(replies, BUSY)
      \/ replies' = Append(replies, INVALID_PARAM)
  BY DEF Give
<1>5. replies' \in Seq(D)
  BY <1>1, <1>2, <1>3, <1>4
<1>6. modem' \in {IDLE, RADIO_TX, RADIO_RX, SYS_SLEEP}
  BY <1>1 DEF Give, Commands
<1> QED BY <1>5, <1>6 DEF D

\* A command given to the driver: written to a free modem, or the driver is disturbed.
LEMMA PhySendInv ==
  ASSUME LinesFit, UartInv, NEW command \in Commands, NEW value \in Seq(Nat),
         Len(value) < BufSize, NEW e1, NEW e2, <<e1, e2>> = Expects(command),
         PhySend(command, value, e1, e2),
         pc' \in {"wdt0", "idle", "tx", "wdt", "rx"}, done' \in 0..MaxDone,
         timer' \in BOOLEAN, up' \in Uplink, down' = down
  PROVE  UartInv'
<1>1. /\ PrepareData(command, value, e1, e2) /\ UNCHANGED <<start, cr, index, line>>
      /\ disturbed' = ~(ready /\ modem = IDLE /\ Silent)
      /\ IF ready THEN ready' = FALSE /\ Give(command) ELSE UNCHANGED <<ready, modem, replies>>
  BY DEF PhySend, rxVars
<1>2. command \in Nat
  BY DEF Commands, RADIO_SET, RADIO_RX, RADIO_TX, SYS_SLEEP
<1>3. /\ lorabuf_c' \in [1..BufSize -> Nat] /\ datalen_c' \in 0..BufSize
      /\ lorabuf_c'[1] = command /\ exp' = Expects(command)
  BY <1>1, <1>2, CopyType DEF UartInv
<1>4. Values'
  <2>1. /\ modem' \in {IDLE, RADIO_TX, RADIO_RX, SYS_SLEEP}
        /\ replies' \in Seq({OK, BUSY, INVALID_PARAM})
    BY <1>1, GivenType DEF UartInv, Values
  <2>2. ready' \in BOOLEAN /\ disturbed' \in BOOLEAN
    BY <1>1 DEF UartInv, Values
  <2> QED BY <1>1, <1>3, <2>1, <2>2 DEF UartInv, Values
<1>5. exp' \in {<<OK, NONE>>, <<OK, OK>>, <<RADIO_TX_OK, RADIO_ERR>>, <<RADIO_RX_LINE, RADIO_ERR>>}
  BY <1>3 DEF Expects
<1>6. (line = << >> => ~cr /\ index = 0)'
  BY <1>1 DEF UartInv, Turns
<1>7. CASE ready /\ modem = IDLE /\ Silent
  <2>1. ~disturbed' /\ ~ready' /\ line' = << >>
    BY <1>1, <1>7 DEF Silent
  <2>2. \/ command \in {RADIO_TX, RADIO_RX} /\ modem' = command /\ replies' = <<OK>>
        \/ command = SYS_SLEEP /\ modem' = command /\ replies' = << >>
        \/ command = RADIO_SET /\ modem' = IDLE /\ replies' = <<OK>>
    BY <1>1, <1>7, GivenFree
  <2>3. ExpKept'
    BY <1>3, <1>5, <2>2 DEF ExpKept
  <2>4. modem' = IDLE => exp'[1] = OK /\ replies' = <<OK>>
    BY <1>3, <2>2 DEF Expects, IDLE, RADIO_TX, RADIO_RX, SYS_SLEEP, RADIO_SET
  <2>5. replies' = <<OK>> => modem' # SYS_SLEEP /\ replies' # << >>
    BY <2>2 DEF IDLE, RADIO_TX, RADIO_RX, SYS_SLEEP, RADIO_SET
  <2>6. replies' \in {<< >>, <<OK>>}
    BY <2>2
  <2>7. Turns' /\ LineRead' /\ AnswerSeen'
    BY <1>6, <2>1, <2>4, <2>5, <2>6 DEF Turns, LineRead, AnswerSeen, Silent
  <2> QED BY <1>4, <2>3, <2>7 DEF UartInv
<1>8. CASE ~(ready /\ modem = IDLE /\ Silent)
  <2>1. disturbed'
    BY <1>1, <1>8
  <2>2. ExpKept' /\ Turns' /\ AnswerSeen'
    BY <1>5, <1>6, <2>1 DEF ExpKept, Turns, AnswerSeen
  <2>3. LineRead'
    <3> SUFFICES ASSUME line # << >>
                 PROVE  \E body \in Bodies' : Reading(body)' /\ Kept(body)'
      BY <1>1, <2>1 DEF LineRead
    <3>1. PICK body \in Bodies : Reading(body)
      BY DEF UartInv, LineRead
    <3>2. body \in Bodies' /\ Reading(body)'
      BY <1>1, <3>1 DEF Bodies, Short, RxLine, Reading
    <3>3. body[1] \notin Commands
      BY BodyType DEF UartInv, Values
    <3>4. Kept(body)'
      BY <1>3, <3>3 DEF Kept
    <3> QED BY <3>2, <3>4
  <2> QED BY <1>4, <2>2, <2>3 DEF UartInv
<1> QED BY <1>7, <1>8

\* The commands of the process.
LEMMA CommandStep ==
  ASSUME LinesFit, UartInv,
         (\E job \in Uplink : Transmit(job)) \/ SetWatchdog \/ Listen \/ GiveUp
  PROVE  UartInv'
<1>0. /\ BufSize \in Nat /\ BufSize >= 6 /\ up \in Uplink /\ timer \in BOOLEAN
      /\ MaxDone \in Nat /\ done \in 0..MaxDone /\ pc \in {"wdt0", "idle", "tx", "wdt", "rx"}
      /\ Commands = {RADIO_SET, RADIO_RX, RADIO_TX, SYS_SLEEP}
  BY BufSizeAssumption, MaxDoneAssumption DEF LinesFit, UartInv, Values, Commands
<1>1. ASSUME NEW job \in Uplink, Transmit(job) PROVE UartInv'
  <2> DEFINE hex == Create(UpFrame(job))
  <2>1. hex \in Seq(Nat) /\ Len(hex) < BufSize
    <3>1. UpFrame(job) \in FrameOf(Seq(Byte)) /\ UpFrame(job).payload \in Seq(Byte)
      BY UpFrameType DEF FrameOf
    <3>2. hex \in Seq(Digit)
      BY <3>1, CreateDigits DEF Join
    <3> HIDE DEF hex
    <3>3. hex \in Seq(Nat)
      BY <3>2, DigitsAreNat
    <3> QED BY <3>3 DEF LinesFit, hex
  <2> HIDE DEF hex
  <2>2. PhySend(RADIO_TX, hex, RADIO_TX_OK, RADIO_ERR) /\ pc' = "tx" /\ up' \in Uplink
        /\ UNCHANGED <<done, timer, down>>
    BY <1>0, <1>1 DEF Transmit, hex
  <2>3. <<RADIO_TX_OK, RADIO_ERR>> = Expects(RADIO_TX)
    BY DEF Expects, RADIO_TX, SYS_SLEEP, RADIO_SET
  <2> QED BY <1>0, <2>1, <2>2, <2>3, PhySendInv
<1>2. ASSUME SetWatchdog PROVE UartInv'
  <2> DEFINE value == <<1, 2, 0, 0, 0>>
  <2>1. value \in Seq(Nat) /\ Len(value) < BufSize
    BY <1>0
  <2> HIDE DEF value
  <2>2. /\ PhySend(RADIO_SET, value, OK, NONE) /\ pc' = "wdt" /\ UNCHANGED <<timer, up, down>>
        /\ done' \in 0..MaxDone
    BY <1>0, <1>2 DEF SetWatchdog, PhyDone, airVars, value
  <2>3. <<OK, NONE>> = Expects(RADIO_SET)
    BY DEF Expects, RADIO_SET, RADIO_TX, SYS_SLEEP
  <2> QED BY <1>0, <2>1, <2>2, <2>3, PhySendInv
<1>3. ASSUME Listen PROVE UartInv'
  <2> DEFINE value == <<0>>
  <2>1. value \in Seq(Nat) /\ Len(value) < BufSize
    BY <1>0
  <2> HIDE DEF value
  <2>2. /\ PhySend(RADIO_RX, value, RADIO_RX_LINE, RADIO_ERR) /\ pc' = "rx"
        /\ UNCHANGED <<up, down>> /\ done' \in 0..MaxDone /\ timer' = TRUE
    BY <1>0, <1>3 DEF Listen, PhyDone, airVars, value
  <2>3. <<RADIO_RX_LINE, RADIO_ERR>> = Expects(RADIO_RX)
    BY DEF Expects, RADIO_RX, RADIO_TX, RADIO_SET, SYS_SLEEP
  <2>4. timer' \in BOOLEAN
    BY <2>2
  <2> QED BY <1>0, <2>1, <2>2, <2>3, <2>4, PhySendInv
<1>4. ASSUME GiveUp PROVE UartInv'
  <2> DEFINE value == <<6, 0, 0, 0, 0>>
  <2>1. value \in Seq(Nat) /\ Len(value) < BufSize
    BY <1>0
  <2> HIDE DEF value
  <2>2. /\ PhySend(SYS_SLEEP, value, OK, NONE) /\ UNCHANGED <<pc, done, timer, up, down>>
    BY <1>4 DEF GiveUp, airVars, value
  <2>3. <<OK, NONE>> = Expects(SYS_SLEEP)
    BY DEF Expects, RADIO_SET, RADIO_TX, SYS_SLEEP
  <2> QED BY <1>0, <2>1, <2>2, <2>3, PhySendInv
<1> QED BY <1>1, <1>2, <1>3, <1>4

\* A step that leaves the driver and the modem alone.
LEMMA UartInvSame ==
  ASSUME UartInv, pc' \in {"wdt0", "idle", "tx", "wdt", "rx"}, done' \in 0..MaxDone,
         UNCHANGED <<lorabuf_c, datalen_c, exp, ready, start, cr, index, timer, modem,
                     replies, line, up, down, disturbed>>
  PROVE  UartInv'
<1>1. Bodies' = Bodies /\ \A body \in Bodies : /\ Reading(body) => Reading(body)'
                                               /\ Kept(body) => Kept(body)'
                                               /\ Understood(body) => Understood(body)'
  BY DEF Bodies, Short, RxLine, Reading, Kept, Understood
<1>2. Values' /\ ExpKept' /\ Turns' /\ AnswerSeen'
  BY DEF UartInv, Values, ExpKept, Turns, AnswerSeen, Silent
<1>3. LineRead'
  BY <1>1 DEF UartInv, LineRead
<1> QED BY <1>2, <1>3 DEF UartInv

\* The end of a wait.
LEMMA NoCommandStep == ASSUME UartInv, NoCommand PROVE UartInv'
<1>1. done \in 0..MaxDone /\ done > 0 /\ done' = done - 1 /\ pc' = "idle" /\ MaxDone \in Nat
  BY MaxDoneAssumption DEF NoCommand, PhyDone, UartInv, Values
<1>2. done' \in 0..MaxDone
  BY <1>1
<1> QED BY <1>1, <1>2, UartInvSame DEF NoCommand, bufVars, rxVars, modemVars, airVars

\* lorabuf_clear leaves the line alone: only what the driver expects of it changes.
LEMMA ClearStep == ASSUME LinesFit, UartInv, RetransmitCopy PROVE UartInv'
<1>1. /\ exp' = <<OK, OK>> /\ timer' = FALSE
      /\ disturbed' = (disturbed \/ modem # IDLE \/ ~Silent)
      /\ UNCHANGED <<lorabuf_c, datalen_c, ready, start, cr, index, pc, done, modem, replies,
                     line, up, down>>
  BY DEF RetransmitCopy, bufVars, rxVars, modemVars, airVars
<1>2. Values'
  <2>1. disturbed' \in BOOLEAN /\ timer' \in BOOLEAN
    BY <1>1 DEF UartInv, Values
  <2> QED BY <1>1, <2>1 DEF UartInv, Values
<1>3. ExpKept'
  BY <1>1 DEF ExpKept
<1>4. ~disturbed' => ~disturbed /\ modem = IDLE /\ Silent /\ ready
  BY <1>1 DEF UartInv, AnswerSeen
<1>5. Turns' /\ AnswerSeen'
  BY <1>1, <1>4 DEF UartInv, Turns, AnswerSeen, Silent
<1>6. LineRead'
  <2> SUFFICES ASSUME line # << >>
               PROVE  \E body \in Bodies' : Reading(body)' /\ Kept(body)'
    BY <1>1, <1>4 DEF LineRead, Silent
  <2>1. PICK body \in Bodies : Reading(body) /\ Kept(body)
    BY DEF UartInv, LineRead
  <2>2. body \in Bodies' /\ Reading(body)' /\ Kept(body)'
    BY <1>1, <2>1 DEF Bodies, Short, RxLine, Reading, Kept
  <2> QED BY <2>2
<1> QED BY <1>2, <1>3, <1>5, <1>6 DEF UartInv

-----------------------------------------------------------------------------
(* The steps of the modem and of the interrupt *)

\* A word printed alone.
LEMMA Alone == ASSUME NEW w \in Nat PROVE <<w>> \o << >> = <<w>>
OBVIOUS

\* A line is printed when the one before has been read.
LEMMA PrintsInv ==
  ASSUME LinesFit, UartInv, NEW word \in Nat, NEW digits \in Seq(Nat), Prints(word, digits),
         UNCHANGED <<lorabuf_c, datalen_c, exp, ready, start, cr, index, pc, done, timer, up,
                     disturbed>>,
         <<word>> \o digits \in Bodies', down' \in Downlink,
         modem' \in {IDLE, RADIO_TX, RADIO_RX, SYS_SLEEP},
         replies' \in Seq({OK, BUSY, INVALID_PARAM}), modem' \in {IDLE, modem},
         ~disturbed => /\ replies' = << >> /\ ~ready
                       /\ IF modem' = IDLE THEN word \in {exp[1], RADIO_ERR}
                          ELSE word = OK /\ modem' \in {RADIO_TX, RADIO_RX}
  PROVE  UartInv'
<1> DEFINE body == <<word>> \o digits
<1>1. line = << >> /\ ~cr /\ index = 0 /\ index' = 0 /\ ~cr'
  BY DEF UartInv, Turns, Prints
<1>2. line' \in Seq(Nat) /\ line' # << >> /\ Reading(body)' /\ body[1] = word
  BY <1>1, Printed
<1>3. body \in Bodies'
  OBVIOUS
<1> HIDE DEF body
<1>4. Values'
  BY <1>2 DEF UartInv, Values
<1>5. ExpKept' /\ AnswerSeen'
  BY <1>2 DEF UartInv, ExpKept, AnswerSeen, Silent
<1>6. Turns'
  BY <1>1, <1>2 DEF UartInv, Turns, Silent
<1>7. Kept(body)' /\ (~disturbed' => Understood(body)')
  BY <1>1, <1>2 DEF Kept, Understood
<1>8. LineRead'
  BY <1>2, <1>3, <1>7 DEF LineRead
<1> QED BY <1>4, <1>5, <1>6, <1>8 DEF UartInv

LEMMA ModemStep ==
  ASSUME LinesFit, UartInv, ModemAnswers \/ ModemEnds
  PROVE  UartInv'
<1>1. /\ UNCHANGED <<lorabuf_c, datalen_c, exp, ready, start, cr, index, pc, done, timer, up,
                     disturbed>>
      /\ line = << >> /\ modem \in {IDLE, RADIO_TX, RADIO_RX, SYS_SLEEP}
  BY DEF ModemAnswers, ModemEnds, bufVars, rxVars, airVars, Prints, UartInv, Values
<1>2. ASSUME NEW w \in Words
      PROVE  w \in Nat /\ << >> \in Seq(Nat) /\ <<w>> \o << >> \in Bodies'
  <2>1. w \in Nat
    BY DEF Words, OK, RADIO_ERR, RADIO_TX_OK, BUSY, INVALID_PARAM
  <2> QED BY <2>1, Alone DEF Bodies, Short
<1>3. CASE ModemAnswers
  <2> DEFINE w == Head(replies)
  <2>1. /\ Prints(w, << >>) /\ modem' = modem /\ down' = down
        /\ replies # << >> /\ replies' = Tail(replies)
    BY <1>3 DEF ModemAnswers, airVars
  <2>2. w \in {OK, BUSY, INVALID_PARAM} /\ replies' \in Seq({OK, BUSY, INVALID_PARAM})
    BY <2>1 DEF UartInv, Values
  <2>3. ~disturbed => w = OK /\ replies' = << >> /\ modem # SYS_SLEEP /\ ~ready
                      /\ (modem = IDLE => exp[1] = OK)
    BY <2>1 DEF UartInv, Turns, Silent
  <2> HIDE DEF w
  <2>4. w \in Words
    BY <2>2 DEF Words
  <2>5. down' \in Downlink
    BY <2>1 DEF UartInv, Values
  <2> QED BY <1>1, <1>2, <2>1, <2>2, <2>3, <2>4, <2>5, PrintsInv
<1>4. CASE ModemEnds
  <2>1. modem # IDLE /\ modem' = IDLE /\ replies = << >> /\ replies' = << >>
    BY <1>4 DEF ModemEnds
  <2>2. ~disturbed => exp = Expects(modem) /\ ~ready
    BY <2>1 DEF UartInv, ExpKept, Turns
  <2>3. replies' \in Seq({OK, BUSY, INVALID_PARAM})
    BY <2>1
  <2>4. ASSUME NEW w \in Words, Prints(w, << >>), down' = down,
               ~disturbed => w \in {exp[1], RADIO_ERR}
        PROVE  UartInv'
    <3>1. down' \in Downlink
      BY <2>4 DEF UartInv, Values
    <3>2. w \in Nat /\ << >> \in Seq(Nat) /\ <<w>> \o << >> \in Bodies'
      BY <1>2
    <3> QED BY <1>1, <2>1, <2>2, <2>3, <2>4, <3>1, <3>2, PrintsInv
  <2>5. CASE modem = SYS_SLEEP /\ Prints(OK, << >>) /\ UNCHANGED <<down, heard>>
    BY <2>2, <2>4, <2>5 DEF Expects, Words, SYS_SLEEP, RADIO_SET, RADIO_TX, RADIO_RX
  <2>6. CASE Prints(RADIO_ERR, << >>) /\ UNCHANGED <<down, heard>>
    BY <2>4, <2>6 DEF Words
  <2>7. CASE modem = RADIO_TX /\ Prints(RADIO_TX_OK, << >>) /\ UNCHANGED <<down, heard>>
    BY <2>2, <2>4, <2>7 DEF Expects, Words, RADIO_RX, RADIO_TX, RADIO_SET, SYS_SLEEP
  <2>8. CASE /\ modem = RADIO_RX /\ down' \in Downlink
             /\ Prints(RADIO_RX_LINE, ToHex(DownFrame(down')))
    <3> DEFINE hex == ToHex(DownFrame(down'))
    <3>1. hex \in Seq(Nat)
      <4>1. PICK g \in FrameOf(Seq(Byte)) : hex = Create(g)
        BY <2>8, DownBytes
      <4>2. hex \in Seq(Digit)
        BY <4>1, CreateDigits DEF Join
      <4> HIDE DEF hex
      <4> QED BY <4>2, DigitsAreNat
    <3>2. RADIO_RX_LINE \in Nat
      BY DEF RADIO_RX_LINE
    <3>3. <<RADIO_RX_LINE>> \o hex \in Bodies'
      BY DEF Bodies, RxLine
    <3>4. ~disturbed => RADIO_RX_LINE = exp[1]
      BY <2>2, <2>8 DEF Expects, RADIO_RX, RADIO_TX, RADIO_SET, SYS_SLEEP
    <3>5. Prints(RADIO_RX_LINE, hex) /\ down' \in Downlink
      BY <2>8
    <3> HIDE DEF hex
    <3> QED BY <1>1, <2>1, <2>2, <2>3, <3>1, <3>2, <3>3, <3>4, <3>5, PrintsInv
  <2> QED BY <1>4, <2>5, <2>6, <2>7, <2>8 DEF ModemEnds
<1> QED BY <1>3, <1>4

\* What the driver takes for the answer, by the line that is in lorabuf_c.
LEMMA LineMeaning ==
  ASSUME UartInv, LinesFit, line # << >>, NEW body \in Bodies, Reading(body), cr
  PROVE  /\ index = Len(body) /\ index >= 1
         /\ ~disturbed /\ Understood(body) /\ modem # IDLE => ~Accepted
         /\ ~disturbed /\ Understood(body) /\ modem = IDLE => Accepted
<1>1. index = Len(body) /\ index >= 1
  BY BodyType, BufSizeAssumption DEF Reading, UartInv, Values
<1>2. ASSUME ~disturbed, Understood(body), modem # IDLE PROVE ~Accepted
  <2>1. lorabuf_c[1] = OK /\ modem \in {RADIO_TX, RADIO_RX}
    BY <1>1, <1>2 DEF Understood
  <2>2. exp = <<RADIO_TX_OK, RADIO_ERR>> \/ exp = <<RADIO_RX_LINE, RADIO_ERR>>
    BY <1>2, <2>1 DEF UartInv, ExpKept, Expects, SYS_SLEEP, RADIO_SET, RADIO_TX, RADIO_RX
  <2> QED BY <2>1, <2>2 DEF Accepted, Shows, OK, RADIO_TX_OK, RADIO_ERR, RADIO_RX_LINE
<1>3. ASSUME ~disturbed, Understood(body), modem = IDLE PROVE Accepted
  <2>1. lorabuf_c[1] \in {exp[1], RADIO_ERR}
    BY <1>1, <1>3 DEF Understood
  <2> QED BY <2>1 DEF Accepted, Shows
<1> QED BY <1>1, <1>2, <1>3

\* The end of a line.
LEMMA RxEndStep ==
  ASSUME LinesFit, UartInv, line # << >>, line' = Tail(line), Head(line) = LF, cr, RxEnd,
         UNCHANGED <<exp, pc, modem, replies, up, on_air, down, disturbed>>
  PROVE  UartInv'
<1>1. PICK body \in Bodies : /\ Reading(body) /\ Kept(body)
                             /\ ~disturbed => Understood(body)
  BY DEF UartInv, LineRead
<1>2. /\ index = Len(body) /\ index >= 1
      /\ ~disturbed => ~ready /\ replies = << >> /\ (Accepted <=> modem = IDLE)
  BY <1>1, LineMeaning DEF Understood
<1>3. line' = << >>
  <2>1. line \in Seq(Nat) /\ Len(line) = 1
    BY <1>1 DEF UartInv, Values, Reading
  <2> QED BY <2>1
<1>4. /\ index' = 0 /\ ~cr' /\ start' /\ datalen_c' = index /\ lorabuf_c' = lorabuf_c
      /\ IF ready \/ Accepted THEN ready' ELSE ready' = ready
  BY DEF RxEnd, NextIndex, Input
<1>5. Values'
  <2>1. /\ Values /\ BufSize \in Nat /\ MaxDone \in Nat
        /\ cr' = FALSE /\ start' = TRUE /\ (ready' = TRUE \/ ready' = ready)
    BY BufSizeAssumption, MaxDoneAssumption DEF UartInv, RxEnd, Input
  <2>2. done' \in 0..MaxDone /\ timer' \in BOOLEAN
    <3>1. \/ done' = done /\ timer' = timer
          \/ done < MaxDone /\ done' = done + 1 /\ timer' \in {FALSE, timer}
      BY DEF RxEnd, Input
    <3>2. done \in Nat /\ done <= MaxDone /\ timer \in BOOLEAN
      BY <2>1 DEF Values
    <3>3. done' \in 0..MaxDone
      <4>1. MaxDone \in Nat /\ (done' = done \/ (done < MaxDone /\ done' = done + 1))
        BY <2>1, <3>1
      <4> QED BY <3>2, <4>1
    <3>4. timer' \in BOOLEAN
      BY <3>1, <3>2
    <3> QED BY <3>3, <3>4
  <2>3. line' \in Seq(Nat) /\ index' \in 0..BufSize /\ datalen_c' \in 0..BufSize
    BY <1>3, <1>4, <2>1 DEF Values
  <2>4. ready' \in BOOLEAN
    BY <2>1 DEF Values
  <2> QED BY <1>4, <2>1, <2>2, <2>3, <2>4 DEF Values
<1>6. ExpKept'
  BY DEF UartInv, ExpKept
<1>7. Turns'
  BY <1>2, <1>3, <1>4 DEF UartInv, Turns, Silent
<1>8. LineRead' /\ AnswerSeen'
  BY <1>2, <1>3, <1>4 DEF LineRead, AnswerSeen, Silent
<1> QED BY <1>5, <1>6, <1>7, <1>8 DEF UartInv

\* A character of a line before its end: the rest of the line is still read.
LEMMA RxStep ==
  ASSUME LinesFit, UartInv, line # << >>,
         UNCHANGED <<exp, ready, done, pc, timer, modem, replies, up, down, disturbed>>,
         lorabuf_c' \in [1..BufSize -> Nat], datalen_c' \in 0..BufSize,
         index' \in 0..BufSize, line' \in Seq(Nat), start' \in BOOLEAN, cr' \in BOOLEAN,
         line' # << >>,
         \A body \in Bodies : Reading(body) => Reading(body)',
         \A body \in Bodies : Reading(body) /\ Kept(body) => Kept(body)',
         \A body \in Bodies : Reading(body) /\ Understood(body) => Understood(body)'
  PROVE  UartInv'
<1>1. Values' /\ ExpKept' /\ AnswerSeen'
  BY DEF UartInv, Values, ExpKept, AnswerSeen, Silent
<1>2. PICK body \in Bodies : /\ Reading(body) /\ Kept(body)
                             /\ ~disturbed => Understood(body)
  BY DEF UartInv, LineRead
<1>3. body \in Bodies'
  BY <1>2 DEF Bodies, Short, RxLine
<1>4. LineRead'
  BY <1>2, <1>3 DEF LineRead
<1>5. Turns'
  BY <1>2 DEF UartInv, Turns, Understood, Silent
<1> QED BY <1>1, <1>4, <1>5 DEF UartInv

\* The interrupt.
LEMMA UartStep ==
  ASSUME LinesFit, UartInv, UartRx \/ UartNoise
  PROVE  UartInv'
<1>0. /\ BufSize \in Nat /\ index \in 0..BufSize /\ datalen_c \in 0..BufSize /\ cr \in BOOLEAN
      /\ lorabuf_c \in [1..BufSize -> Nat] /\ line \in Seq(Nat) /\ down \in Downlink
      /\ Cleared \in 0..BufSize
  BY BufSizeAssumption DEF UartInv, Values, Cleared
<1>1. CASE UartRx
  <2>1. line # << >> /\ line' = Tail(line)
        /\ UNCHANGED <<exp, pc, modem, replies, up, on_air, down, disturbed>>
    BY <1>1 DEF UartRx
  <2>2. ASSUME NEW body \in Bodies, Reading(body)
        PROVE  /\ Head(line) \in Nat /\ Tail(line) \in Seq(Nat) /\ Len(line) \in Nat \ {0}
               /\ Len(Tail(line)) = Len(line) - 1
               /\ \A i \in 1..(Len(line) - 1) : Tail(line)[i] = line[i + 1]
               /\ Head(line) = LF <=> cr
               /\ Head(line) = CR => index = Len(body) /\ ~cr
               /\ Head(line) \notin {CR, LF} =>
                    index < Len(body) /\ ~cr /\ Head(line) = body[index + 1]
               /\ body \in Seq(Nat) /\ Len(body) \in 1..BufSize
               /\ index \in 0..Len(body)
    BY <1>0, <2>1, <2>2, NextChar, BodyType DEF UartInv, Reading
  <2>3. \E body \in Bodies : Reading(body)
    BY <2>1 DEF UartInv, LineRead
  <2>4. CASE Head(line) = LF /\ cr /\ RxEnd
    BY <2>1, <2>4, RxEndStep
  <2>5. CASE Head(line) = CR /\ RxSkip(CR)
    <3>1. /\ cr' = TRUE /\ start' = FALSE /\ datalen_c' = Cleared
          /\ UNCHANGED <<lorabuf_c, index, ready, done, heard, timer>>
      BY <2>5 DEF RxSkip
    <3>2. ASSUME NEW body \in Bodies, Reading(body)
          PROVE  Reading(body)' /\ line' # << >> /\ line' \in Seq(Nat)
      <4>1. index = Len(body) /\ ~cr /\ Len(body) \in Nat
        BY <2>2, <2>5, <3>2
      <4>2. Len(line) = 2 /\ line[2] = LF
        BY <4>1, <3>2 DEF Reading
      <4>3. Len(line') = 1 /\ line'[1] = LF /\ line' \in Seq(Nat)
        <5>1. Tail(line) \in Seq(Nat) /\ Len(Tail(line)) = 1 /\ Tail(line)[1] = line[1 + 1]
          <6>1. /\ Tail(line) \in Seq(Nat) /\ Len(Tail(line)) = Len(line) - 1
                /\ \A i \in 1..(Len(line) - 1) : Tail(line)[i] = line[i + 1]
            BY <2>2, <3>2
          <6>2. Len(line) - 1 = 1 /\ 1 \in 1..1
            BY <4>2
          <6> QED BY <6>1, <6>2
        <5>2. line[1 + 1] = line[2]
          OBVIOUS
        <5>3. line' = Tail(line)
          BY <2>1
        <5> QED BY <4>2, <5>1, <5>2, <5>3, Zenon
      <4>4. index' \in 0..Len(body) /\ index' = Len(body) /\ cr'
        BY <3>1, <4>1
      <4>5. line' # << >>
        BY <4>3
      <4> QED BY <4>3, <4>4, <4>5 DEF Reading
    <3>3. ASSUME NEW body \in Bodies
          PROVE  (Kept(body) => Kept(body)') /\ (Understood(body) => Understood(body)')
      BY <2>1, <3>1 DEF Kept, Understood
    <3> QED BY <1>0, <2>1, <2>3, <3>1, <3>2, <3>3, RxStep
  <2>6. CASE Head(line) \notin {CR, LF} /\ RxStore(Head(line))
    <3> DEFINE c == Head(line)
    <3>1. /\ lorabuf_c' = [lorabuf_c EXCEPT ![index + 1] = c] /\ index' = index + 1
          /\ start' = FALSE /\ datalen_c' = Cleared /\ UNCHANGED <<cr, ready, done, timer>>
      BY <2>6 DEF RxStore
    <3>2. c \in Nat /\ index' \in 0..BufSize
      BY <1>0, <2>2, <2>3, <2>6, <3>1
    <3>3. lorabuf_c' \in [1..BufSize -> Nat]
      BY <1>0, <3>1, <3>2
    <3>4. ASSUME NEW body \in Bodies, Reading(body)
          PROVE  Reading(body)' /\ line' # << >> /\ line' \in Seq(Nat)
      <4>1. /\ index < Len(body) /\ ~cr /\ Len(body) \in Nat /\ index \in Nat
            /\ Len(line) \in Nat \ {0}
            /\ line' \in Seq(Nat) /\ Len(line') = Len(line) - 1
            /\ \A i \in 1..(Len(line) - 1) : line'[i] = line[i + 1]
        BY <1>0, <2>1, <2>2, <2>6, <3>4
      <4>2. /\ Len(line) = Len(body) - index + 2
            /\ \A i \in 1..(Len(body) - index) : line[i] = body[index + i]
            /\ line[Len(body) - index + 1] = CR /\ line[Len(body) - index + 2] = LF
        BY <3>4, <4>1 DEF Reading
      <4>3. Len(line') = Len(body) - index' + 2 /\ index' \in 0..Len(body)
        BY <3>1, <4>1, <4>2
      <4>4. ASSUME NEW i \in 1..(Len(body) - index') PROVE line'[i] = body[index' + i]
        <5>1. /\ i \in 1..(Len(line) - 1) /\ i + 1 \in 1..(Len(body) - index)
              /\ index + (i + 1) = index' + i
          BY <3>1, <4>1, <4>2
        <5> QED BY <4>1, <4>2, <5>1
      <4>5. line'[Len(body) - index' + 1] = CR /\ line'[Len(body) - index' + 2] = LF
        <5> DEFINE k == Len(body) - index' + 1
        <5>1. /\ k \in 1..(Len(line) - 1) /\ k + 1 \in 1..(Len(line) - 1)
              /\ k + 1 = Len(body) - index + 1
              /\ k + 1 + 1 = Len(body) - index + 2
              /\ Len(body) - index' + 2 = k + 1
          BY <3>1, <4>1, <4>2
        <5> HIDE DEF k
        <5>2. line'[k] = line[k + 1] /\ line'[k + 1] = line[k + 1 + 1]
          BY <4>1, <5>1
        <5>3. line'[k] = CR /\ line'[k + 1] = LF
          BY <4>2, <5>1, <5>2
        <5> QED BY <5>1, <5>3 DEF k
      <4>6. line' # << >>
        BY <4>1, <4>2
      <4> QED BY <3>1, <4>1, <4>3, <4>4, <4>5, <4>6 DEF Reading
    <3>5. ASSUME NEW body \in Bodies, Reading(body)
          PROVE  (Kept(body) => Kept(body)') /\ (Understood(body) => Understood(body)')
      <4>1. c = body[index + 1] /\ index \in Nat /\ index + 1 \in 1..BufSize /\ index' >= 1
        BY <1>0, <2>2, <2>6, <3>1, <3>2, <3>5
      <4>2. IF index = 0 THEN lorabuf_c'[1] = body[1] ELSE lorabuf_c'[1] = lorabuf_c[1]
        BY <1>0, <3>1, <4>1
      <4>3. ASSUME \A i \in 1..index : lorabuf_c[i] = body[i]
            PROVE  \A i \in 1..index' : lorabuf_c'[i] = body[i]
        <5> TAKE i \in 1..index'
        <5>1. i \in 1..BufSize /\ (i = index + 1 \/ i \in 1..index)
          BY <1>0, <3>1, <4>1
        <5> QED BY <1>0, <3>1, <4>1, <4>3, <5>1
      <4>4. CASE index = 0
        <5>1. \A i \in 1..index : lorabuf_c[i] = body[i]
          BY <4>4
        <5> QED BY <2>1, <3>1, <4>2, <4>3, <4>4, <5>1 DEF Kept, Understood
      <4>5. CASE index # 0
        <5>1. index >= 1 /\ lorabuf_c'[1] = lorabuf_c[1]
          BY <4>1, <4>2, <4>5
        <5> QED BY <2>1, <3>1, <4>3, <5>1 DEF Kept, Understood
      <4> QED BY <4>4, <4>5
    <3> QED BY <1>0, <2>1, <2>3, <3>1, <3>2, <3>3, <3>4, <3>5, RxStep
  <2> QED BY <1>1, <2>4, <2>5, <2>6 DEF UartRx
<1>2. CASE UartNoise
  <2>1. /\ cr' = cr /\ start' = FALSE /\ datalen_c' = Cleared /\ line # << >>
        /\ UNCHANGED <<lorabuf_c, index, ready, done, timer, exp, pc, modem, replies, line, up,
                       down, disturbed>>
    BY <1>0, <1>2 DEF UartNoise, RxSkip, modemVars, NOISE, CR
  <2>2. ASSUME NEW body \in Bodies, Reading(body) PROVE Reading(body)'
    BY <2>1, <2>2 DEF Reading
  <2>3. ASSUME NEW body \in Bodies
        PROVE  (Kept(body) => Kept(body)') /\ (Understood(body) => Understood(body)')
    BY <2>1 DEF Kept, Understood
  <2> QED BY <1>0, <2>1, <2>2, <2>3, RxStep
<1> QED BY <1>1, <1>2

-----------------------------------------------------------------------------
(* The theorems *)

\* The process has just been started.
LEMMA UartInvInit == ASSUME LinesFit, Init PROVE UartInv
<1>1. BufSize \in Nat /\ BufSize >= 6 /\ MaxDone \in Nat
  BY BufSizeAssumption, MaxDoneAssumption DEF LinesFit
<1>2. lorabuf_c \in [1..BufSize -> Nat] /\ datalen_c \in 0..BufSize /\ index \in 0..BufSize
  BY <1>1 DEF Init, RADIO_SET
<1>3. ready = FALSE /\ start = TRUE /\ cr = FALSE /\ done = 0 /\ timer = FALSE /\ index = 0
      /\ disturbed = FALSE /\ line = << >> /\ pc = "wdt0" /\ modem = IDLE /\ replies = <<OK>>
      /\ exp = <<OK, NONE>> /\ up \in Uplink /\ down \in Downlink
  BY DEF Init
<1>4. Values
  <2>1. line \in Seq(Nat) /\ replies \in Seq({OK, BUSY, INVALID_PARAM}) /\ done \in 0..MaxDone
    BY <1>1, <1>3
  <2>2. ready \in BOOLEAN /\ start \in BOOLEAN /\ cr \in BOOLEAN /\ timer \in BOOLEAN
        /\ disturbed \in BOOLEAN
    BY <1>3
  <2> QED BY <1>2, <1>3, <2>1, <2>2 DEF Values
<1>5. ExpKept /\ exp[1] = OK
  BY <1>3 DEF ExpKept
<1>6. Turns /\ LineRead /\ AnswerSeen
  BY <1>3, <1>5 DEF Turns, LineRead, AnswerSeen, Silent, IDLE, SYS_SLEEP
<1> QED BY <1>4, <1>5, <1>6 DEF UartInv

\* A step of something else.
LEMMA UartInvStutter == ASSUME UartInv, UNCHANGED vars PROVE UartInv'
<1>1. UNCHANGED <<lorabuf_c, datalen_c, exp, ready, start, cr, index, pc, done, timer, modem,
                  replies, line, up, down, disturbed>>
  BY DEF vars, bufVars, rxVars, modemVars, airVars
<1>2. pc' \in {"wdt0", "idle", "tx", "wdt", "rx"} /\ done' \in 0..MaxDone
  BY <1>1 DEF UartInv, Values
<1> QED BY <1>1, <1>2, UartInvSame

\* Every step.
LEMMA UartInvStep == ASSUME LinesFit, UartInv, [Next]_vars PROVE UartInv'
<1>1. CASE Next
  BY <1>1, CommandStep, NoCommandStep, ClearStep, ModemStep, UartStep DEF Next
<1>2. CASE UNCHANGED vars
  BY <1>2, UartInvStutter
<1> QED BY <1>1, <1>2

\* Everywhere in a run: which command is in execution, how much of its line is read,
\* and what the driver expects of it.
THEOREM UartInvHolds == ASSUME LinesFit PROVE Spec => []UartInv
BY UartInvInit, UartInvStep, PTL DEF Spec

\* No line and no command is longer than lorabuf_c, and no index leaves it.
THEOREM TypeOKHolds == ASSUME LinesFit PROVE Spec => []TypeOK
<1>1. ASSUME UartInv PROVE TypeOK
  <2>1. Values /\ BufSize \in Nat
    BY <1>1, BufSizeAssumption DEF UartInv
  <2>2. Len(lorabuf_c) = BufSize
    BY <2>1 DEF Values
  <2> QED BY <2>1, <2>2 DEF Values, TypeOK
<1> QED BY <1>1, UartInvHolds, PTL

\* The MAC gives no command while the modem executes one or prints a line, unless other
\* responses were stored while the modem worked.
THEOREM FreeIsIdleHolds == ASSUME LinesFit PROVE Spec => []FreeIsIdle
<1>1. ASSUME UartInv PROVE FreeIsIdle
  BY <1>1 DEF UartInv, Turns, FreeIsIdle
<1> QED BY <1>1, UartInvHolds, PTL

\* A command is answered as far as the driver is concerned, unless the buffer or the
\* responses were replaced while the modem worked.
THEOREM AnswerSeenHolds == ASSUME LinesFit PROVE Spec => []AnswerSeen
<1>1. ASSUME UartInv PROVE AnswerSeen
  BY <1>1 DEF UartInv
<1> QED BY <1>1, UartInvHolds, PTL

-----------------------------------------------------------------------------
(* Up: what the node sends is what the root builds *)

\* The root's packet of what output leaves of one: the receiver is the frame's.
LEMMA PacketAtRoot ==
  ASSUME NEW p \in Seq(Byte), Len(p) >= 40,
         NEW src \in WireAddr, SubSeq(p, 9, 24) = Lora2Ipv6(src), NEW dest \in WireAddr
  PROVE  BridgeInput(src, dest, Output(p))
         = SubSeq(p, 1, 24) \o Lora2Ipv6(dest) \o SubSeq(p, 41, Len(p))
<1> DEFINE o == Output(p)
           n == Len(p)
           s == SubSeq(p, 1, 8)
           t == SubSeq(p, 41, n)
<1>1. n \in Nat /\ n >= 40
  OBVIOUS
<1>2. SubSeq(o, 1, 8) = s /\ SubSeq(o, 9, Len(o)) = t
  BY OutputParts
<1> HIDE DEF n
<1>3. BridgeInput(src, dest, o) = s \o SubSeq(p, 9, 24) \o Lora2Ipv6(dest) \o t
  BY <1>2 DEF BridgeInput
<1>4. s \o SubSeq(p, 9, 24) = SubSeq(p, 1, 24)
  <2>1. 8 \in 0..n /\ 24 \in 8..n /\ 8 + 1 = 9
    BY <1>1
  <2> QED BY <2>1, Cut DEF n
<1> QED BY <1>3, <1>4 DEF n

\* The characters on the air are those that create wrote of the frame sent last, if the
\* modem was silent when they were written.
OnAir == up \in Uplink /\ (on_air # << >> => on_air = Create(UpFrame(up)))

\* What lorabuf_c_copy_from leaves behind the word is the value.
LEMMA BodyCopied ==
  ASSUME NEW hex \in Seq(Nat), NEW n \in Nat, n = Len(hex), NEW size \in Nat, n < size,
         NEW text, Len(text) = 1 + n, \A i \in 1..n : text[1 + i] = hex[i], NEW old,
         NEW buf, buf = [i \in 1..size |-> IF i <= Len(text) THEN text[i] ELSE old[i]]
  PROVE  SubSeq(buf, 2, 1 + n) = hex
<1>1. SubSeq(buf, 2, 1 + n) = [i \in 1..n |-> buf[2 + i - 1]]
  OBVIOUS
<1>2. ASSUME NEW i \in 1..n PROVE buf[2 + i - 1] = hex[i]
  <2>1. i + 1 \in 1..size /\ i + 1 <= 1 + n /\ 2 + i - 1 = i + 1 /\ 1 + i = i + 1
    OBVIOUS
  <2> QED BY <2>1
<1>3. hex = [i \in 1..n |-> hex[i]]
  OBVIOUS
<1> QED BY <1>1, <1>2, <1>3

\* Only create writes what goes on the air.
LEMMA OnAirStep == ASSUME LinesFit, OnAir, [Next]_vars PROVE OnAir'
<1>1. ASSUME NEW job \in Uplink, Transmit(job) PROVE OnAir'
  <2> DEFINE hex == Create(UpFrame(job))
             n == Len(hex)
             word == <<RADIO_TX>>
             text == word \o hex
  <2>1. hex \in Seq(Nat) /\ n \in Nat /\ n < BufSize /\ BufSize \in Nat
    <3>1. UpFrame(job) \in FrameOf(Seq(Byte)) /\ UpFrame(job).payload \in Seq(Byte)
      BY UpFrameType DEF FrameOf
    <3>2. hex \in Seq(Digit)
      BY <3>1, CreateDigits DEF Join
    <3>3. n < BufSize /\ BufSize \in Nat
      BY BufSizeAssumption DEF LinesFit
    <3> HIDE DEF hex
    <3>4. hex \in Seq(Nat)
      BY <3>2, DigitsAreNat
    <3> QED BY <3>3, <3>4
  <2>2. /\ lorabuf_c' = [i \in 1..BufSize |-> IF i <= Len(text) THEN text[i] ELSE lorabuf_c[i]]
        /\ datalen_c' = Len(text)
        /\ \/ UNCHANGED <<up, on_air>>
           \/ up' = job /\ on_air' = << >>
           \/ up' = job /\ on_air' = SubSeq(lorabuf_c', 2, datalen_c')
    BY <1>1 DEF Transmit, PhySend, PrepareData, CopyFrom
  <2>3. word \in Seq(Nat) /\ Len(word) = 1
    BY DEF RADIO_TX
  <2> HIDE DEF hex, word, n
  <2>4. Join(Nat, text, word, hex, 1, n)
    BY <2>1, <2>3, Joined DEF n
  <2> HIDE DEF text
  <2>5. Len(text) = 1 + n /\ \A i \in 1..n : text[1 + i] = hex[i]
    BY <2>4 DEF Join
  <2>6. SubSeq(lorabuf_c', 2, datalen_c') = hex
    <3> PICK buf, old : buf = lorabuf_c' /\ old = lorabuf_c
      OBVIOUS
    <3>1. buf = [i \in 1..BufSize |-> IF i <= Len(text) THEN text[i] ELSE old[i]]
      BY <2>2
    <3>2. SubSeq(buf, 2, 1 + n) = hex
      BY <2>1, <2>5, <3>1, BodyCopied DEF n
    <3> QED BY <2>2, <2>5, <3>2
  <2> QED BY <2>2, <2>6 DEF OnAir, hex
<1>2. ASSUME UNCHANGED <<up, on_air>> PROVE OnAir'
  BY <1>2 DEF OnAir
<1>3. CASE UNCHANGED vars
  BY <1>2, <1>3 DEF vars, airVars
<1>4. CASE Next /\ ~\E job \in Uplink : Transmit(job)
  BY <1>2, <1>4 DEF Next, SetWatchdog, Listen, NoCommand, GiveUp, RetransmitCopy, ModemAnswers,
     ModemEnds, UartRx, UartNoise, airVars
<1> QED BY <1>1, <1>3, <1>4

\* What the root builds of the frame on the air.
LEMMA BuiltIsSent ==
  ASSUME LoraPackets, OnAir, on_air # << >>
  PROVE  UpIntact
<1> DEFINE f == UpFrame(up)
           hex == Create(f)
           b == Build(hex)
<1>1. /\ f \in FrameOf(Seq(Byte))
      /\ f.payload = IF up.packet = << >> THEN << >> ELSE Output(up.packet)
      /\ up.packet # << >> => /\ f.src_addr = Ipv62Lora(SubSeq(up.packet, 9, 24))
                              /\ f.dest_addr = up.frame.dest_addr
  BY UpFrameType DEF OnAir
<1>2. up \in Uplink /\ on_air = hex
  BY DEF OnAir
<1>3. up.packet \in Seq(Byte) /\ (up.packet # << >> => Len(up.packet) >= 40)
  BY <1>2, JobAssumption
<1> HIDE DEF f
<1>4. IsFrame(hex) /\ b = InDigits(f)
  BY <1>1, RootReadsNode
<1> HIDE DEF hex, b
<1>5. /\ b.payload = HexBytes(f.payload) /\ b.src_addr = f.src_addr /\ b.dest_addr = f.dest_addr
      /\ [b EXCEPT !.payload = << >>] = [f EXCEPT !.payload = << >>]
  BY <1>1, <1>4 DEF InDigits, FrameOf
<1>6. CASE up.packet = << >>
  <2>1. HexBytes(<< >>) = << >>
    BY NoBytes
  <2>2. b.payload = << >>
    BY <1>1, <1>5, <1>6, <2>1
  <2> QED BY <1>2, <1>4, <1>5, <1>6, <2>2 DEF UpIntact, b, f
<1>7. CASE up.packet # << >>
  <2> DEFINE p == up.packet
             src == Ipv62Lora(SubSeq(p, 9, 24))
             dest == up.frame.dest_addr
  <2>1. p \in Seq(Byte) /\ Len(p) >= 40 /\ f.src_addr = src /\ f.dest_addr = dest
        /\ f.payload = Output(p)
    BY <1>1, <1>3, <1>7
  <2>2. src \in WireAddr /\ dest \in WireAddr
    BY <1>1, <2>1 DEF FrameOf
  <2>3. SubSeq(p, 9, 24) = Lora2Ipv6(src)
    BY <1>2, <1>7 DEF LoraPackets, IsLora
  <2> HIDE DEF p, src, dest
  <2>4. BridgeInput(src, dest, Output(p))
        = SubSeq(p, 1, 24) \o Lora2Ipv6(dest) \o SubSeq(p, 41, Len(p))
    BY <2>1, <2>2, <2>3, PacketAtRoot
  <2>5. BuildIpPacket(src, dest, HexBytes(Output(p))) = HexBytes(AtRoot(up))
    <3>1. BuildIpPacket(src, dest, HexBytes(Output(p)))
          = HexBytes(BridgeInput(src, dest, Output(p)))
      BY <2>1, <2>2, OutputType, BuildBridge
    <3>2. AtRoot(up) = BridgeInput(src, dest, Output(p))
      BY <2>4 DEF AtRoot, p, dest
    <3> QED BY <3>1, <3>2
  <2>6. BuildIpPacket(b.src_addr, b.dest_addr, b.payload) = HexBytes(AtRoot(up))
    BY <1>5, <2>1, <2>5
  <2> QED BY <1>2, <1>4, <1>5, <1>7, <2>6 DEF UpIntact, b, f
<1> QED BY <1>6, <1>7

\* The frame, and the packet in it, reach the root as the node sent them.
THEOREM UpIntactHolds == ASSUME LinesFit, LoraPackets PROVE Spec => []UpIntact
<1>1. Init => OnAir
  BY DEF Init, OnAir
<1>2. ASSUME OnAir PROVE UpIntact
  BY <1>2, BuiltIsSent DEF UpIntact
<1> QED BY <1>1, <1>2, OnAirStep, PTL DEF Spec

-----------------------------------------------------------------------------
(* Down: what the root sends is what the MAC is handed *)

\* What DownIntact says of a frame.
Intact(h) ==
  /\ [h EXCEPT !.payload = << >>] = [DownFrame(down) EXCEPT !.payload = << >>]
  /\ IF down.packet # << >>
     THEN BridgeInput(h.src_addr, h.dest_addr, h.payload) = down.packet
     ELSE ToHex([h EXCEPT !.payload = HexBytes(h.payload)]) = ToHex(DownFrame(down))

\* What parse makes of a whole line of a frame.
LEMMA ParsedIsSent ==
  ASSUME LoraPackets, down \in Downlink, NEW n, n = Len(RxLine),
         NEW d \in Seq(Nat), \A i \in 2..n : d[i - 1] = RxLine[i]
  PROVE  Intact(Parse(d, n - 1, NothingAfter))
<1> DEFINE hex == ToHex(DownFrame(down))
           h == Parse(d, n - 1, NothingAfter)
           word == <<RADIO_RX_LINE>>
           line0 == word \o hex
<1>1. PICK g \in FrameOf(Seq(Byte)) : /\ hex = Create(g)
                                      /\ Same(g, DownFrame(down))
                                      /\ down.packet # << >> => g.payload = Output(down.packet)
  BY DownBytes
<1> DEFINE k == Len(g.payload)
<1>2. g.payload \in Seq(Byte) /\ k \in Nat
  BY DEF FrameOf
<1> HIDE DEF k, hex, h, word
<1>3. hex \in Seq(Digit) /\ Len(hex) = 16 + 2 * k
  <2>1. Join(Digit, hex, HexHeader(g), HexBytes(g.payload), 16, 2 * k)
    BY <1>1, CreateDigits DEF k
  <2> QED BY <2>1 DEF Join
<1>4. hex \in Seq(Nat)
  BY <1>3, DigitsAreNat
<1>5. word \in Seq(Nat) /\ Len(word) = 1
  BY DEF word, RADIO_RX_LINE
<1>6. Join(Nat, line0, word, hex, 1, 16 + 2 * k)
  <2>1. 16 + 2 * k \in Nat /\ 1 \in Nat
    BY <1>2
  <2> QED BY <1>3, <1>4, <1>5, <2>1, Joined
<1>7. RxLine = line0
  BY DEF RxLine, word, hex
<1> HIDE DEF line0
<1>8. n - 1 = 16 + 2 * k
  BY <1>2, <1>6, <1>7 DEF Join
<1>9. \A i \in 1..(16 + 2 * k) : d[i] = hex[i]
  <2> TAKE i \in 1..(16 + 2 * k)
  <2>1. 1 + i \in 2..n /\ (1 + i) - 1 = i
    BY <1>2, <1>8, <1>6, <1>7 DEF Join
  <2>2. line0[1 + i] = hex[i]
    BY <1>6 DEF Join
  <2> QED BY <1>7, <2>1, <2>2
<1>10. h = g
  <2> DEFINE m == 16 + 2 * k
  <2>1. m = 16 + 2 * k /\ Agree(d, hex, m)
    BY <1>9 DEF Agree
  <2>2. n - 1 = m /\ Len(hex) = m
    BY <1>3, <1>8
  <2> HIDE DEF m
  <2>3. Parse(d, m, NothingAfter) = Parse(hex, m, NothingAfter)
    BY <1>2, <2>1, ParseSame
  <2>4. Parse(hex, m, NothingAfter) = g
    BY <1>1, <2>2, FrameRoundTrip
  <2> QED BY <2>2, <2>3, <2>4 DEF h
<1>11. CASE down.packet # << >>
  <2> DEFINE p == down.packet
             src == g.src_addr
             dest == g.dest_addr
  <2>1. /\ DownFrame(down) \in FrameOf(Seq(Digit))
        /\ p \in Seq(Byte) /\ Len(p) >= 40
        /\ DownFrame(down).src_addr = down.frame.src_addr
        /\ DownFrame(down).dest_addr = Ipv62Lora(SubSeq(p, 25, 40))
    BY <1>11, DownFrameType
  <2>2. src = DownFrame(down).src_addr /\ dest = DownFrame(down).dest_addr
    BY <1>1, <2>1 DEF Same, FrameOf
  <2>3. src \in WireAddr /\ dest \in WireAddr
    BY DEF FrameOf
  <2>4. SubSeq(p, 9, 24) = Lora2Ipv6(src) /\ SubSeq(p, 25, 40) = Lora2Ipv6(dest)
    <3>1. SubSeq(p, 9, 24) = Lora2Ipv6(down.frame.src_addr)
          /\ SubSeq(p, 25, 40) = Lora2Ipv6(Ipv62Lora(SubSeq(p, 25, 40)))
      BY <1>11 DEF LoraPackets, IsLora
    <3> QED BY <2>1, <2>2, <3>1
  <2>5. g.payload = Output(p)
    BY <1>1, <1>11
  <2>6. p \in Seq(Byte) /\ Len(p) >= 40
    BY <2>1
  <2> HIDE DEF p, src, dest
  <2>7. BridgeInput(src, dest, Output(p)) = p
    BY <2>3, <2>4, <2>6, PacketRoundTrip
  <2>8. Intact(g)
    BY <1>1, <1>11, <2>5, <2>7 DEF Intact, Same, p, src, dest
  <2> QED BY <1>10, <2>8 DEF h
<1>12. CASE down.packet = << >>
  <2>1. ToHex(InDigits(g)) = ToHex(DownFrame(down))
    BY <1>1, WriteAgree DEF hex
  <2>2. Intact(g)
    BY <1>1, <1>12, <2>1 DEF Intact, Same, InDigits
  <2> QED BY <1>10, <2>2 DEF h
<1> QED BY <1>11, <1>12

\* The end of a line hands the MAC the frame that the root has just sent.
LEMMA HandedAtEnd ==
  ASSUME LinesFit, LoraPackets, Trailing = {NothingAfter}, UartInv, UartRx, heard' # heard
  PROVE  DownIntact'
<1>1. /\ line # << >> /\ Head(line) = LF /\ cr /\ RxEnd
      /\ UNCHANGED <<exp, modem, down, disturbed>>
  BY DEF UartRx, RxSkip, RxStore
<1>2. /\ ready \/ Accepted
      /\ ~ready /\ Response = RADIO_RX_LINE
      /\ heard' = Parse(SubSeq(lorabuf_c, 2, BufSize), index - 1, NothingAfter)
  BY <1>1 DEF RxEnd, Input
<1>3. PICK body \in Bodies : Reading(body) /\ Kept(body)
  BY <1>1 DEF UartInv, LineRead
<1>4. index = Len(body) /\ index >= 1
  BY <1>1, <1>3, LineMeaning
<1>5. exp[1] = RADIO_RX_LINE /\ Shows(exp[1])
  <2>1. exp[2] # RADIO_RX_LINE
    BY DEF UartInv, ExpKept, OK, NONE, RADIO_ERR, RADIO_RX_LINE
  <2> QED BY <1>2, <2>1 DEF Response
<1>6. lorabuf_c[1] = RADIO_RX_LINE
  BY <1>5 DEF Shows, OK, RADIO_RX_LINE
<1>7. BufSize \in Nat /\ index \in 1..BufSize /\ lorabuf_c \in [1..BufSize -> Nat]
      /\ down \in Downlink
  BY <1>4, BufSizeAssumption DEF UartInv, Values
<1>8. body[1] = RADIO_RX_LINE /\ \A i \in 1..index : lorabuf_c[i] = body[i]
  <2>1. RADIO_RX_LINE \notin Commands
    BY DEF Commands, RADIO_RX_LINE, RADIO_SET, RADIO_RX, RADIO_TX, SYS_SLEEP
  <2> QED BY <1>3, <1>4, <1>6, <2>1 DEF Kept
<1>9. body = RxLine
  BY <1>8 DEF Bodies, Short, Words, RADIO_RX_LINE, OK, RADIO_ERR, RADIO_TX_OK, BUSY,
              INVALID_PARAM
<1> DEFINE d == SubSeq(lorabuf_c, 2, BufSize)
<1>10. d \in Seq(Nat) /\ \A i \in 2..index : d[i - 1] = RxLine[i]
  <2>1. lorabuf_c \in Seq(Nat) /\ Len(lorabuf_c) = BufSize
    BY <1>7
  <2>2. 2 \in 1..(Len(lorabuf_c) + 1) /\ BufSize \in (2 - 1)..Len(lorabuf_c)
    BY <1>7, <2>1
  <2>3. d \in Seq(Nat) /\ \A i \in 1..(BufSize - 2 + 1) : d[i] = lorabuf_c[2 + i - 1]
    BY <2>1, <2>2, SubSeqAt
  <2> HIDE DEF d
  <2>4. ASSUME NEW i \in 2..index PROVE d[i - 1] = RxLine[i]
    <3>1. i - 1 \in 1..(BufSize - 2 + 1) /\ 2 + (i - 1) - 1 = i /\ i \in 1..index
      BY <1>7
    <3> QED BY <1>8, <1>9, <2>3, <3>1
  <2> QED BY <2>3, <2>4
<1> HIDE DEF d
<1>11. Intact(heard')
  <2>1. index = Len(RxLine)
    BY <1>4, <1>9
  <2>2. Intact(Parse(d, index - 1, NothingAfter))
    BY <1>7, <1>10, <2>1, ParsedIsSent
  <2> QED BY <1>2, <2>2 DEF d
<1> QED BY <1>1, <1>11 DEF DownIntact, Intact

\* Before that, what was handed stays, or nothing is left of it.
LEMMA HandedStep ==
  ASSUME LinesFit, LoraPackets, Trailing = {NothingAfter}, UartInv, DownIntact, [Next]_vars
  PROVE  DownIntact'
<1>1. ASSUME heard' = NoFrame PROVE DownIntact'
  BY <1>1 DEF DownIntact
<1>2. ASSUME UNCHANGED <<heard, down>> PROVE DownIntact'
  BY <1>2 DEF DownIntact
<1>3. CASE UNCHANGED vars
  BY <1>2, <1>3 DEF vars, airVars
<1>4. CASE (\E job \in Uplink : Transmit(job)) \/ SetWatchdog \/ Listen \/ NoCommand \/ GiveUp
           \/ RetransmitCopy \/ ModemAnswers
  BY <1>2, <1>4 DEF Transmit, SetWatchdog, Listen, NoCommand, GiveUp, RetransmitCopy,
                    ModemAnswers, airVars
<1>5. CASE ModemEnds
  BY <1>1, <1>2, <1>5 DEF ModemEnds
<1>6. CASE UartRx
  <2>1. UNCHANGED down
    BY <1>6 DEF UartRx
  <2> QED BY <1>2, <1>6, <2>1, HandedAtEnd
<1>7. CASE UartNoise
  BY <1>2, <1>7 DEF UartNoise, RxSkip
<1> QED BY <1>3, <1>4, <1>5, <1>6, <1>7 DEF Next

\* The frame, and the packet in it, reach the MAC as the root sent them, if what is
\* behind the arrays of parse holds no digits.
THEOREM DownIntactHolds ==
  ASSUME LinesFit, LoraPackets, Trailing = {NothingAfter}
  PROVE  Spec => []DownIntact
<1>1. Init => DownIntact
  BY DEF Init, DownIntact
<1> QED BY <1>1, HandedStep, UartInvInit, UartInvStep, PTL DEF Spec
=============================================================================

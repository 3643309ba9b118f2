-------------------------- MODULE ChunkFormatProofs --------------------------
(***************************************************************************)
(* What the byte formats of ChunkFormat promise, for every value: a number *)
(* comes back from the bytes it was written to, and readMsg finds in the   *)
(* header of a client's chunk what the client wrote, whatever the chunk    *)
(* stream id, the format and the bytes that follow.                        *)
(***************************************************************************)
EXTENDS ChunkFormat, SequenceTheorems, WellFoundedInduction, TLAPS

LEMMA MarkNat == Mark \in Nat
BY SMT DEF Mark

LEMMA DivMod ==
  ASSUME NEW v \in Nat
  PROVE  /\ v \div 256 \in Nat /\ v % 256 \in 0 .. 255
         /\ v = 256 * (v \div 256) + (v % 256)
BY SMT

LEMMA DivMod3 ==
  ASSUME NEW v \in Nat
  PROVE  /\ v \div 65536 = (v \div 256) \div 256
         /\ v \div 16777216 = (v \div 65536) \div 256
BY SMT

LEMMA ThreeDigits ==
  ASSUME NEW v \in Nat, v <= Mark
  PROVE  ((v \div 65536) % 256) * 65536 + ((v \div 256) % 256) * 256 + (v % 256) = v
<1> DEFINE a == v \div 256
           b == a \div 256
<1>1. v \in Nat /\ v <= 16777215
  BY SMT DEF Mark
<1>2. a \in Nat /\ v % 256 \in 0 .. 255 /\ v = 256 * a + (v % 256)
  BY <1>1, DivMod
<1>3. b \in Nat /\ a % 256 \in 0 .. 255 /\ a = 256 * b + (a % 256)
  BY <1>2, DivMod
<1>4. b % 256 = b
  <2>1. b \in 0 .. 255
    <3> HIDE DEF a, b
    <3>2. v < 16777216
      BY <1>1, SMT
    <3>3. b < 256
      BY <1>2, <1>3, <3>2, SMT
    <3>4. QED
      BY <1>3, <3>3, SMT
  <2> HIDE DEF a, b
  <2>2. QED  BY <2>1, SMT
<1>5. v \div 65536 = b
  BY <1>1, DivMod3
<1> HIDE DEF a, b
<1>6. (b % 256) * 65536 + (a % 256) * 256 + (v % 256) = v
  BY <1>2, <1>3, <1>4, SMT
<1>7. QED
  BY <1>5, <1>6 DEF a

LEMMA FourDigits ==
  ASSUME NEW v \in Nat, v \div 16777216 < 256
  PROVE  ((v \div 16777216) % 256) * 16777216 + ((v \div 65536) % 256) * 65536
           + ((v \div 256) % 256) * 256 + (v % 256) = v
<1> DEFINE a == v \div 256
           b == a \div 256
           c == b \div 256
<1>2. a \in Nat /\ v % 256 \in 0 .. 255 /\ v = 256 * a + (v % 256)
  BY DivMod
<1>3. b \in Nat /\ a % 256 \in 0 .. 255 /\ a = 256 * b + (a % 256)
  BY <1>2, DivMod
<1>4. c \in Nat /\ b % 256 \in 0 .. 255 /\ b = 256 * c + (b % 256)
  BY <1>3, DivMod
<1>5. v \div 65536 = b /\ v \div 16777216 = c
  BY DivMod3
<1>6. c < 256
  BY <1>5
<1> HIDE DEF a, b, c
<1>7. c % 256 = c
  BY <1>4, <1>6, SMT
<1>8. (c % 256) * 16777216 + (b % 256) * 65536 + (a % 256) * 256 + (v % 256) = v
  BY <1>2, <1>3, <1>4, <1>7, SMT
<1>9. QED
  BY <1>5, <1>8 DEF a

LEMMA BEBytes ==
  ASSUME NEW v \in Nat, NEW n \in 1 .. 4
  PROVE  /\ BE(v, n) \in Seq(0 .. 255) /\ Len(BE(v, n)) = n
         /\ LE(v, n) \in Seq(0 .. 255) /\ Len(LE(v, n)) = n
<1>1. \A i \in 1 .. 4 : Place[i] \in {1, 256, 65536, 16777216}
  BY SMT DEF Place
<1>2. \A p \in {1, 256, 65536, 16777216} : (v \div p) % 256 \in 0 .. 255
  BY SMT
<1>3. \A i \in 1 .. n : n + 1 - i \in 1 .. 4 /\ i \in 1 .. 4
  OBVIOUS
<1> DEFINE digit(p) == (v \div p) % 256
           places == {1, 256, 65536, 16777216}
<1>2a. \A p \in places : digit(p) \in 0 .. 255
  BY <1>2
<1>1a. \A i \in 1 .. 4 : Place[i] \in places
  BY <1>1
<1> HIDE DEF digit, places
<1>4. \A i \in 1 .. n : digit(Place[n + 1 - i]) \in 0 .. 255 /\ digit(Place[i]) \in 0 .. 255
  BY <1>1a, <1>2a, <1>3, SMTT(60)
<1>5. BE(v, n) \in [1 .. n -> 0 .. 255] /\ LE(v, n) \in [1 .. n -> 0 .. 255]
  BY <1>4, ZenonT(60) DEF BE, LE, digit
<1>6. QED
  BY <1>5, IsASeq

\* What ReadUintBE finds where WriteUintBE put a number.
LEMMA ReadBEBack ==
  ASSUME NEW v \in Nat, v <= Mark, NEW s, NEW at \in Nat, Len(s) \in Nat, at + 3 <= Len(s),
         \A i \in 1 .. 3 : s[at + i] = BE(v, 3)[i]
  PROVE  ReadBE(s, at, 3) = v
<1>1. v \in Nat
  OBVIOUS
<1>2. v \div 1 = v
  BY <1>1, SMT
<1>3. /\ BE(v, 3)[1] = (v \div 65536) % 256
      /\ BE(v, 3)[2] = (v \div 256) % 256
      /\ BE(v, 3)[3] = v % 256
  BY <1>2, SMT DEF BE, Place
<1>4. /\ ByteAt(s, at + 1) = (v \div 65536) % 256
      /\ ByteAt(s, at + 2) = (v \div 256) % 256
      /\ ByteAt(s, at + 3) = v % 256
  BY <1>3, SMT DEF ByteAt
<1>5. ReadBE(s, at, 3) = ((v \div 65536) % 256) * 65536 + ((v \div 256) % 256) * 256 + (v % 256)
  <2> DEFINE x == (v \div 65536) % 256
             y == (v \div 256) % 256
             z == v % 256
  <2>1. x \in 0 .. 255 /\ y \in 0 .. 255 /\ z \in 0 .. 255
    BY <1>1, SMT
  <2>2. ByteAt(s, at + 1) = x /\ ByteAt(s, at + 2) = y /\ ByteAt(s, at + 3) = z
    BY <1>4
  <2> HIDE DEF x, y, z
  <2>3. ReadBE(s, at, 3) = x * 65536 + y * 256 + z
    BY <2>1, <2>2, SMTT(60) DEF ReadBE, Place
  <2>4. QED
    BY <2>3 DEF x, y, z
<1>6. QED
  BY <1>5, ThreeDigits


LEMMA Places == Place[1] = 1 /\ Place[2] = 256 /\ Place[3] = 65536 /\ Place[4] = 16777216
BY SMT DEF Place

\* ReadUintBE and ReadUintLE, digit by digit.
LEMMA Digits ==
  ASSUME NEW s, NEW at \in Nat, \A i \in 1 .. 4 : ByteAt(s, at + i) \in Nat
  PROVE  /\ ReadBE(s, at, 1) = ByteAt(s, at + 1)
         /\ ReadBE(s, at, 3) = ByteAt(s, at + 1) * 65536 + ByteAt(s, at + 2) * 256 + ByteAt(s, at + 3)
         /\ ReadBE(s, at, 4) = ByteAt(s, at + 1) * 16777216 + ByteAt(s, at + 2) * 65536
                                  + ByteAt(s, at + 3) * 256 + ByteAt(s, at + 4)
         /\ ReadLE(s, at, 1) = ByteAt(s, at + 1)
         /\ ReadLE(s, at, 2) = ByteAt(s, at + 1) + ByteAt(s, at + 2) * 256
         /\ ReadLE(s, at, 4) = ByteAt(s, at + 1) + ByteAt(s, at + 2) * 256
                                  + ByteAt(s, at + 3) * 65536 + ByteAt(s, at + 4) * 16777216
<1>0. PICK w \in Nat, x \in Nat, y \in Nat, z \in Nat :
        /\ ByteAt(s, at + 1) = w /\ ByteAt(s, at + 2) = x
        /\ ByteAt(s, at + 3) = y /\ ByteAt(s, at + 4) = z
  OBVIOUS
<1>1. ReadBE(s, at, 1) = w
  BY <1>0, Places, SMT DEF ReadBE
<1>2. ReadBE(s, at, 3) = w * 65536 + x * 256 + y
  BY <1>0, Places, SMT DEF ReadBE
<1>3. ReadBE(s, at, 4) = w * 16777216 + x * 65536 + y * 256 + z
  BY <1>0, Places, SMT DEF ReadBE
<1>4. ReadLE(s, at, 1) = w
  BY <1>0, Places, SMT DEF ReadLE
<1>5. ReadLE(s, at, 2) = w + x * 256
  BY <1>0, Places, SMT DEF ReadLE
<1>6. ReadLE(s, at, 4) = w + x * 256 + y * 65536 + z * 16777216
  BY <1>0, Places, SMT DEF ReadLE
<1>7. QED
  BY <1>0, <1>1, <1>2, <1>3, <1>4, <1>5, <1>6, SMT

LEMMA ByteIs ==
  ASSUME NEW b \in 0 .. 255
  PROVE  b \in Nat /\ b < 256
OBVIOUS

LEMMA ByteAtByte ==
  ASSUME NEW s \in Seq(0 .. 255), NEW i \in Nat, i # 0
  PROVE  ByteAt(s, i) \in Nat /\ ByteAt(s, i) < 256
<1>1. CASE i <= Len(s)
  <2>1. ByteAt(s, i) = s[i]
    BY <1>1 DEF ByteAt
  <2>2. s[i] \in 0 .. 255
    BY <1>1, ElementOfSeq
  <2>3. QED
    BY <2>1, <2>2, ByteIs
<1>2. CASE ~(i <= Len(s))
  BY <1>2 DEF ByteAt
<1>3. QED
  BY <1>1, <1>2

\* A number of up to 32 bits, and one of one byte.
Bits32(v) == v \div 16777216 < 256

LEMMA ReadBEBackWide ==
  ASSUME NEW v \in Nat, Bits32(v), NEW s, NEW at \in Nat, Len(s) \in Nat,
         at + 4 <= Len(s), \A i \in 1 .. 4 : s[at + i] = BE(v, 4)[i]
  PROVE  ReadBE(s, at, 4) = v
<1> DEFINE w == (v \div 16777216) % 256
           x == (v \div 65536) % 256
           y == (v \div 256) % 256
           z == v % 256
<1>2. v \div 1 = v
  BY SMT
<1>3a. BE(v, 4) = [i \in 1 .. 4 |-> (v \div Place[5 - i]) % 256]
  BY SMT DEF BE
<1>3b. /\ (v \div Place[5 - 1]) % 256 = w /\ (v \div Place[5 - 2]) % 256 = x
       /\ (v \div Place[5 - 3]) % 256 = y /\ (v \div Place[5 - 4]) % 256 = z
  <2>1. Place[5 - 1] = 16777216 /\ Place[5 - 2] = 65536 /\ Place[5 - 3] = 256 /\ Place[5 - 4] = 1
    BY Places, SMT
  <2>2. QED
    BY <1>2, <2>1, SMT
<1>3. BE(v, 4)[1] = w /\ BE(v, 4)[2] = x /\ BE(v, 4)[3] = y /\ BE(v, 4)[4] = z
  <2> HIDE DEF w, x, y, z
  <2> QED BY <1>3a, <1>3b, SMT
<1>5a. v \div 16777216 \in Nat /\ v \div 65536 \in Nat
  BY SMT
<1>5. w \in Nat /\ x \in Nat /\ y \in Nat /\ z \in Nat
  BY DivMod, <1>5a, SMT
<1>7. w * 16777216 + x * 65536 + y * 256 + z = v
  BY FourDigits, SMT DEF Bits32
<1> HIDE DEF w, x, y, z
<1>6. /\ ByteAt(s, at + 1) = w /\ ByteAt(s, at + 2) = x
      /\ ByteAt(s, at + 3) = y /\ ByteAt(s, at + 4) = z
  BY <1>3 DEF ByteAt
<1>6a. \A i \in 1 .. 4 : ByteAt(s, at + i) \in Nat
  BY <1>5, <1>6, SMTT(60)
<1>8. ReadBE(s, at, 4) = w * 16777216 + x * 65536 + y * 256 + z
  BY <1>6, <1>6a, Digits, SMT
<1>9. QED
  BY <1>7, <1>8, SMT

LEMMA BEOne ==
  ASSUME NEW v \in Nat, v < 256
  PROVE  BE(v, 1) = <<v>>
<1>1. v \div 1 = v /\ v % 256 = v
  BY SMT
<1>2. BE(v, 1) = [i \in 1 .. 1 |-> (v \div Place[2 - i]) % 256]
  BY DEF BE
<1>3. \A i \in 1 .. 1 : (v \div Place[2 - i]) % 256 = v
  BY <1>1, Places, SMT
<1>4. BE(v, 1) = [i \in 1 .. 1 |-> v]
  BY <1>2, <1>3
<1>5. [i \in 1 .. 1 |-> v] = <<v>>
  OBVIOUS
<1>6. QED
  BY <1>4, <1>5

\* What ReadUintLE finds of the numbers WriteUintLE put there: one and two bytes
\* of a chunk stream id, four of a message stream id.
LEMMA LETwo ==
  ASSUME NEW v \in Nat, v < 65536
  PROVE  /\ LE(v, 2)[1] \in Nat /\ LE(v, 2)[2] \in Nat
         /\ LE(v, 2)[1] + LE(v, 2)[2] * 256 = v
<1> DEFINE x == v % 256
           y == v \div 256
<1>1. v \div 1 = v /\ y % 256 = y
  BY SMT
<1>2. LE(v, 2)[1] = x /\ LE(v, 2)[2] = y
  BY <1>1, Places, SMT DEF LE
<1>3. x \in Nat /\ y \in Nat /\ v = 256 * y + x
  BY DivMod
<1> HIDE DEF x, y
<1>4. QED
  BY <1>2, <1>3

LEMMA LEStream ==
  ASSUME NEW v \in {0, 1}
  PROVE  LE(v, 4)[1] = v /\ LE(v, 4)[2] = 0 /\ LE(v, 4)[3] = 0 /\ LE(v, 4)[4] = 0
<1>1. v \div 1 = v /\ v % 256 = v
  BY SMT
<1>1a. v \div 256 = 0 /\ v \div 65536 = 0 /\ v \div 16777216 = 0 /\ 0 % 256 = 0
  BY SMT
<1>2. QED
  BY <1>1, <1>1a, Places, SMT DEF LE

\* A 24-bit field is at most 0xffffff, so the reader never meets 0xfffffff.
LEMMA ReadBERange ==
  ASSUME NEW s \in Seq(0 .. 255), NEW at \in Nat
  PROVE  /\ ReadBE(s, at, 3) \in Nat /\ ReadBE(s, at, 3) <= Mark
         /\ ReadBE(s, at, 1) \in Nat /\ ReadBE(s, at, 1) < 256
         /\ ReadBE(s, at, 4) \in Nat /\ ReadLE(s, at, 4) \in Nat
         /\ ReadLE(s, at, 1) \in Nat /\ ReadLE(s, at, 2) \in Nat
<1> DEFINE w == ByteAt(s, at + 1)
           x == ByteAt(s, at + 2)
           y == ByteAt(s, at + 3)
           z == ByteAt(s, at + 4)
<1>1. /\ w \in Nat /\ x \in Nat /\ y \in Nat /\ z \in Nat
      /\ w < 256 /\ x < 256 /\ y < 256 /\ z < 256
  BY ByteAtByte
<1>1a. \A i \in 1 .. 4 : ByteAt(s, at + i) \in Nat
  BY ByteAtByte
<1>2. /\ ReadBE(s, at, 1) = w
      /\ ReadBE(s, at, 3) = w * 65536 + x * 256 + y
      /\ ReadBE(s, at, 4) = w * 16777216 + x * 65536 + y * 256 + z
      /\ ReadLE(s, at, 1) = w
      /\ ReadLE(s, at, 2) = w + x * 256
      /\ ReadLE(s, at, 4) = w + x * 256 + y * 65536 + z * 16777216
  BY <1>1a, Digits, SMT
<1> HIDE DEF w, x, y, z
<1>7. w * 65536 + x * 256 + y \in Nat /\ w * 65536 + x * 256 + y <= 16777215
  BY <1>1, SMT
<1>8. Mark = 16777215
  BY SMT DEF Mark
<1>9. QED
  BY <1>1, <1>2, <1>7, <1>8, SMTT(60)

-----------------------------------------------------------------------------
(* What the server's reader finds of the header a client wrote.            *)

ChunkMessage(m) ==
  /\ m.csId \in Nat /\ m.csId >= 2 /\ m.csId <= MaxCsId /\ m.typeId \in 0 .. 255 /\ m.streamId \in {0, 1}
  /\ m.data \in Seq(0 .. 255) /\ Len(m.data) <= Mark

\* The basic header, and the fields that follow it.
Basic(format, csId) ==
  CASE csId < 64 -> <<format * 64 + csId>>
    [] 64 <= csId /\ csId < 320 -> <<format * 64, csId - 64>>
    [] csId >= 320 -> <<format * 64 + 1>> \o LE(csId - 64, 2)

Fields(format, m, time) ==
  LET kind == BE(Len(m.data), 3) \o BE(m.typeId, 1)
  IN <<BE(time, 3) \o kind \o LE(m.streamId, 4), BE(time, 3) \o kind, BE(time, 3), << >> >>[format + 1]

LEMMA ClientHeadIs ==
  ASSUME NEW format \in 0 .. 3, NEW m, ChunkMessage(m), NEW time \in Nat, time < Mark
  PROVE  ClientHead(format, m, time) = Basic(format, m.csId) \o Fields(format, m, time) \o << >>
<1>1. Least(time, Mark) = time /\ ~(time >= Mark)
  BY MarkNat DEF Least
<1>2. QED
  BY <1>1 DEF ClientHead, Basic, Fields

\* The elements of a concatenation.
LEMMA Joined ==
  ASSUME NEW S, NEW x \in Seq(S), NEW y \in Seq(S), NEW z, z = x \o y
  PROVE  /\ z \in Seq(S) /\ Len(z) = Len(x) + Len(y)
         /\ \A i \in 1 .. Len(x) : z[i] = x[i]
         /\ \A i \in 1 .. Len(y) : z[Len(x) + i] = y[i]
OBVIOUS

FieldsPlaced(f, format, m, time) ==
  /\ f \in Seq(0 .. 255) /\ Len(f) = HeadLength[format]
  /\ format # 3 => \A i \in 1 .. 3 : f[i] = BE(time, 3)[i]
  /\ format <= 1 => (\A i \in 1 .. 3 : f[3 + i] = BE(Len(m.data), 3)[i]) /\ f[7] = m.typeId
  /\ format = 0 => \A i \in 1 .. 4 : f[7 + i] = LE(m.streamId, 4)[i]

LEMMA FieldsAre ==
  ASSUME NEW format \in 0 .. 3, NEW m, ChunkMessage(m), NEW time \in Nat, time < Mark
  PROVE  FieldsPlaced(Fields(format, m, time), format, m, time)
<1> DEFINE a == BE(time, 3)
           b == BE(Len(m.data), 3)
           c == BE(m.typeId, 1)
           d == LE(m.streamId, 4)
           f == Fields(format, m, time)
           B == 0 .. 255
<1>0. /\ m.typeId \in 0 .. 255 /\ m.streamId \in Nat /\ Len(m.data) \in Nat
  BY SMT DEF ChunkMessage
<1>1. a \in Seq(B) /\ Len(a) = 3
  BY BEBytes
<1>2. b \in Seq(B) /\ Len(b) = 3
  BY <1>0, BEBytes
<1>3. c \in Seq(B) /\ Len(c) = 1 /\ c[1] = m.typeId
  <2>1. m.typeId \in Nat /\ m.typeId < 256
    BY <1>0, ByteIs
  <2>2. c = <<m.typeId>>
    BY <2>1, BEOne
  <2>3. <<m.typeId>> \in Seq(B) /\ Len(<<m.typeId>>) = 1 /\ <<m.typeId>>[1] = m.typeId
    BY <1>0
  <2>4. QED
    BY <2>2, <2>3
<1>4. d \in Seq(B) /\ Len(d) = 4
  BY <1>0, BEBytes
<1>5. f = <<a \o (b \o c) \o d, a \o (b \o c), a, << >> >>[format + 1]
  BY DEF Fields
<1>6. HeadLength[format] = <<11, 7, 3, 0>>[format + 1]
  BY DEF HeadLength
<1> HIDE DEF a, b, c, d, f, B
<1>7a. PICK k : k = b \o c
  OBVIOUS
<1>7. k \in Seq(B) /\ Len(k) = 4 /\ (\A i \in 1 .. 3 : k[i] = b[i]) /\ k[4] = c[1]
  <2>1. b \in Seq(B)
    BY <1>2
  <2>2. c \in Seq(B)
    BY <1>3
  <2>3. /\ k \in Seq(B) /\ Len(k) = Len(b) + Len(c)
        /\ \A i \in 1 .. Len(b) : k[i] = b[i]
        /\ \A i \in 1 .. Len(c) : k[Len(b) + i] = c[i]
    BY <1>7a, <2>1, <2>2, Joined
  <2>4. Len(b) = 3 /\ Len(c) = 1
    BY <1>2, <1>3
  <2>5. QED
    BY <2>3, <2>4
<1>8a. PICK h : h = a \o k
  OBVIOUS
<1>8. h \in Seq(B) /\ Len(h) = 7 /\ (\A i \in 1 .. 3 : h[i] = a[i]) /\ (\A i \in 1 .. 4 : h[3 + i] = k[i])
  <2>1. a \in Seq(B)
    BY <1>1
  <2>2. k \in Seq(B)
    BY <1>7
  <2>3. /\ h \in Seq(B) /\ Len(h) = Len(a) + Len(k)
        /\ \A i \in 1 .. Len(a) : h[i] = a[i]
        /\ \A i \in 1 .. Len(k) : h[Len(a) + i] = k[i]
    BY <1>8a, <2>1, <2>2, Joined
  <2>4. Len(a) = 3 /\ Len(k) = 4
    BY <1>1, <1>7
  <2>5. QED
    BY <2>3, <2>4
<1>9a. PICK g : g = h \o d
  OBVIOUS
<1>9. g \in Seq(B) /\ Len(g) = 11 /\ (\A i \in 1 .. 7 : g[i] = h[i]) /\ (\A i \in 1 .. 4 : g[7 + i] = d[i])
  <2>1. h \in Seq(B)
    BY <1>8
  <2>2. d \in Seq(B)
    BY <1>4
  <2>3. /\ g \in Seq(B) /\ Len(g) = Len(h) + Len(d)
        /\ \A i \in 1 .. Len(h) : g[i] = h[i]
        /\ \A i \in 1 .. Len(d) : g[Len(h) + i] = d[i]
    BY <1>9a, <2>1, <2>2, Joined
  <2>4. Len(h) = 7 /\ Len(d) = 4
    BY <1>8, <1>4
  <2>5. QED
    BY <2>3, <2>4
<1>10. /\ \A i \in 1 .. 3 : g[i] = a[i] /\ h[3 + i] = b[i] /\ g[3 + i] = b[i]
       /\ h[7] = m.typeId /\ g[7] = m.typeId
  <2>1. \A i \in 1 .. 3 : g[i] = h[i] /\ h[i] = a[i] /\ g[3 + i] = h[3 + i] /\ h[3 + i] = k[i] /\ k[i] = b[i]
    BY <1>7, <1>8, <1>9
  <2>2. g[7] = h[7] /\ h[3 + 4] = k[4] /\ k[4] = c[1]
    BY <1>7, <1>8, <1>9
  <2>3. QED
    BY <1>3, <2>1, <2>2
<1>12. f = <<g, h, a, << >> >>[format + 1]
  BY <1>5, <1>7a, <1>8a, <1>9a
<1>13. /\ f \in Seq(B) /\ Len(f) = HeadLength[format]
       /\ format # 3 => \A i \in 1 .. 3 : f[i] = a[i]
       /\ format <= 1 => (\A i \in 1 .. 3 : f[3 + i] = b[i]) /\ f[7] = m.typeId
       /\ format = 0 => \A i \in 1 .. 4 : f[7 + i] = d[i]
  <2>1. CASE format = 0
    <3>1. f = g /\ HeadLength[format] = 11
      BY <1>6, <1>12, <2>1
    <3>2. QED
      BY <1>9, <1>10, <2>1, <3>1
  <2>2. CASE format = 1
    <3>1. f = h /\ HeadLength[format] = 7
      BY <1>6, <1>12, <2>2
    <3>2. QED
      BY <1>8, <1>10, <2>2, <3>1
  <2>3. CASE format = 2
    <3>1. f = a /\ HeadLength[format] = 3
      BY <1>6, <1>12, <2>3
    <3>2. QED
      BY <1>1, <2>3, <3>1
  <2>4. CASE format = 3
    <3>1. f = << >> /\ HeadLength[format] = 0
      BY <1>6, <1>12, <2>4
    <3>2. QED
      BY <2>4, <3>1
  <2>5. QED
    BY <2>1, <2>2, <2>3, <2>4
<1>14. QED
  BY <1>13 DEF a, b, d, f, B, FieldsPlaced

\* The basic header tells the format, the chunk stream and its own length.
LEMMA BytesAreNats ==
  ASSUME NEW s \in Seq(0 .. 255)
  PROVE  s \in Seq(Nat)
<1>1. s \in [1 .. Len(s) -> 0 .. 255] /\ Len(s) \in Nat
  BY LenProperties, ZenonT(60)
<1>2. \A i \in 1 .. Len(s) : s[i] \in Nat
  BY <1>1, ByteIs
<1>3. s \in [1 .. Len(s) -> Nat]
  BY <1>1, <1>2
<1>4. QED
  BY <1>1, <1>3, IsASeq

LEMMA FirstByte ==
  ASSUME NEW format \in 0 .. 3, NEW low \in Nat, low < 64
  PROVE  (format * 64 + low) % 64 = low /\ (format * 64 + low) \div 64 = format
BY SMT

LEMMA BasicRead ==
  ASSUME NEW format \in 0 .. 3, NEW csId \in Nat, csId >= 2, csId <= MaxCsId, NEW s \in Seq(0 .. 255),
         Len(Basic(format, csId)) <= Len(s),
         \A i \in 1 .. Len(Basic(format, csId)) : s[i] = Basic(format, csId)[i]
  PROVE  /\ BasicHead(s).format = format /\ BasicHead(s).csId = csId
         /\ BasicHead(s).used = Len(Basic(format, csId))
<1>1. csId \in Nat /\ csId >= 2 /\ csId <= MaxCsId
  OBVIOUS
<1>2. CASE csId < 64
  <2>1. Basic(format, csId) = <<format * 64 + csId>>
    BY <1>1, <1>2 DEF Basic
  <2>2. s[1] = format * 64 + csId
    BY <2>1
  <2>3. s[1] % 64 = csId /\ s[1] \div 64 = format
    BY <1>1, <1>2, <2>2, FirstByte
  <2>4. csId # 0 /\ csId # 1 /\ Len(Basic(format, csId)) = 1
    BY <1>1, <2>1
  <2>5. QED
    BY <2>3, <2>4 DEF BasicHead
<1>3. CASE csId >= 64 /\ csId < 320
  <2>1. Basic(format, csId) = <<format * 64, csId - 64>>
    BY <1>1, <1>3 DEF Basic
  <2>2. s[1] = format * 64 /\ s[2] = csId - 64 /\ Len(s) \in Nat /\ 2 <= Len(s)
    BY <2>1
  <2>3. s[1] % 64 = 0 /\ s[1] \div 64 = format
    <3>1. (format * 64 + 0) % 64 = 0 /\ (format * 64 + 0) \div 64 = format
      BY FirstByte
    <3>2. QED
      BY <2>2, <3>1
  <2>4. ByteAt(s, 2) = csId - 64
    BY <2>2 DEF ByteAt
  <2>5. \A i \in 1 .. 4 : ByteAt(s, 1 + i) \in Nat
    BY ByteAtByte
  <2>6. ReadLE(s, 1, 1) = ByteAt(s, 1 + 1)
    BY <2>5, Digits
  <2>7. 64 + ReadLE(s, 1, 1) = csId
    BY <1>1, <2>4, <2>6
  <2>8. QED
    BY <2>1, <2>3, <2>7 DEF BasicHead
<1>4. CASE csId >= 320
  <2> DEFINE v == csId - 64
  <2>0. v \in Nat /\ v < 65536
    BY <1>1, <1>4, SMT DEF MaxCsId
  <2>1. Basic(format, csId) = <<format * 64 + 1>> \o LE(v, 2)
    BY <1>1, <1>4 DEF Basic
  <2>1a. LE(v, 2) \in Seq(0 .. 255) /\ Len(LE(v, 2)) = 2
    BY <2>0, BEBytes
  <2>1b. LE(v, 2)[1] + LE(v, 2)[2] * 256 = v
    BY <2>0, LETwo
  <2>1c. csId = 64 + v
    BY <1>1
  <2> HIDE DEF v
  <2>1d. PICK x : x = LE(v, 2)
    OBVIOUS
  <2>1e. PICK e : e = <<format * 64 + 1>>
    OBVIOUS
  <2>1f. PICK z : z = e \o x
    OBVIOUS
  <2>1g. Len(z) = 3 /\ z[1] = format * 64 + 1 /\ z[2] = x[1] /\ z[3] = x[2]
    <3>1. e \in Seq(Nat) /\ Len(e) = 1 /\ e[1] = format * 64 + 1
      BY <2>1e
    <3>2. x \in Seq(Nat)
      BY <2>1a, <2>1d, BytesAreNats
    <3>3. e \in Seq(Nat)
      BY <3>1
    <3>4. /\ Len(z) = Len(e) + Len(x)
          /\ \A i \in 1 .. Len(e) : z[i] = e[i]
          /\ \A i \in 1 .. Len(x) : z[Len(e) + i] = x[i]
      BY <2>1f, <3>2, <3>3, Joined
    <3>5. Len(e) = 1 /\ Len(x) = 2
      BY <2>1a, <2>1d, <3>1
    <3>6. Len(z) = 3 /\ z[1] = e[1] /\ z[1 + 1] = x[1] /\ z[1 + 2] = x[2]
      BY <3>4, <3>5
    <3>7. QED
      BY <3>1, <3>6
  <2>2. /\ s[1] = format * 64 + 1 /\ s[2] = x[1] /\ s[3] = x[2]
        /\ Len(s) \in Nat /\ 3 <= Len(s) /\ Len(Basic(format, csId)) = 3
    <3>1. Basic(format, csId) = z
      BY <2>1, <2>1d, <2>1e, <2>1f
    <3>2. Len(z) <= Len(s) /\ \A i \in 1 .. Len(z) : s[i] = z[i]
      BY <3>1
    <3>3. s[1] = z[1] /\ s[2] = z[2] /\ s[3] = z[3] /\ 3 <= Len(s)
      BY <2>1g, <3>2
    <3>4. Len(s) \in Nat
      BY LenProperties
    <3>5. QED
      BY <2>1g, <3>1, <3>3, <3>4
  <2>3. s[1] % 64 = 1 /\ s[1] \div 64 = format
    BY <2>2, FirstByte
  <2>4. ByteAt(s, 2) = x[1] /\ ByteAt(s, 3) = x[2]
    BY <2>2 DEF ByteAt
  <2>5. \A i \in 1 .. 4 : ByteAt(s, 1 + i) \in Nat
    BY ByteAtByte
  <2>6. ReadLE(s, 1, 2) = ByteAt(s, 1 + 1) + ByteAt(s, 1 + 2) * 256
    BY <2>5, Digits
  <2>7. 64 + ReadLE(s, 1, 2) = csId
    BY <2>1b, <2>1c, <2>1d, <2>4, <2>6
  <2>8. QED
    BY <2>2, <2>3, <2>7 DEF BasicHead
<1>5. QED
  BY <1>1, <1>2, <1>3, <1>4

LEMMA BasicBytes ==
  ASSUME NEW format \in 0 .. 3, NEW csId \in Nat, csId >= 2, csId <= MaxCsId
  PROVE  Basic(format, csId) \in Seq(0 .. 255) /\ Len(Basic(format, csId)) \in 1 .. 3
<1>1. CASE csId < 64
  <2>1. Basic(format, csId) = <<format * 64 + csId>>
    BY <1>1 DEF Basic
  <2>2. format * 64 + csId \in 0 .. 255
    BY <1>1
  <2>3. QED
    BY <2>1, <2>2
<1>2. CASE csId >= 64 /\ csId < 320
  <2>1. Basic(format, csId) = <<format * 64, csId - 64>>
    BY <1>2 DEF Basic
  <2>2. format * 64 \in 0 .. 255 /\ csId - 64 \in 0 .. 255
    BY <1>2
  <2>3. QED
    BY <2>1, <2>2
<1>3. CASE csId >= 320
  <2>1. Basic(format, csId) = <<format * 64 + 1>> \o LE(csId - 64, 2)
    BY <1>3 DEF Basic
  <2>2. PICK e : e = <<format * 64 + 1>>
    OBVIOUS
  <2>3. PICK x : x = LE(csId - 64, 2)
    OBVIOUS
  <2>4. PICK z : z = e \o x
    OBVIOUS
  <2>5. x \in Seq(0 .. 255) /\ Len(x) = 2
    <3>1. csId - 64 \in Nat
      BY <1>3
    <3>2. QED
      BY <2>3, <3>1, BEBytes
  <2>6. e \in Seq(0 .. 255) /\ Len(e) = 1
    <3>1. format * 64 + 1 \in 0 .. 255
      OBVIOUS
    <3>2. QED
      BY <2>2, <3>1
  <2>7. z \in Seq(0 .. 255) /\ Len(z) = Len(e) + Len(x)
    <3>1. e \in Seq(0 .. 255)
      BY <2>6
    <3>2. x \in Seq(0 .. 255)
      BY <2>5
    <3>3. QED
      BY <2>4, <3>1, <3>2, Joined
  <2>8. Basic(format, csId) = z
    BY <2>1, <2>2, <2>3, <2>4
  <2>9. QED
    BY <2>5, <2>6, <2>7, <2>8
<1>4. QED
  BY <1>1, <1>2, <1>3

\* The bytes of a header, and where its fields are.
HeadJoins(h, b, f) ==
  /\ h \in Seq(0 .. 255) /\ b \in Seq(0 .. 255) /\ f \in Seq(0 .. 255)
  /\ Len(h) = Len(b) + Len(f) /\ Len(b) \in 1 .. 3
  /\ \A i \in 1 .. Len(b) : h[i] = b[i]
  /\ \A i \in 1 .. Len(f) : h[Len(b) + i] = f[i]

LEMMA ClientHeadBytes ==
  ASSUME NEW format \in 0 .. 3, NEW m, ChunkMessage(m), NEW time \in Nat, time < Mark
  PROVE  HeadJoins(ClientHead(format, m, time), Basic(format, m.csId), Fields(format, m, time))
<1>1. PICK b : b = Basic(format, m.csId)
  OBVIOUS
<1>2. PICK f : f = Fields(format, m, time)
  OBVIOUS
<1>3. PICK h : h = b \o f
  OBVIOUS
<1>4. b \in Seq(0 .. 255) /\ Len(b) \in 1 .. 3
  BY <1>1, BasicBytes DEF ChunkMessage
<1>5. f \in Seq(0 .. 255) /\ Len(f) = HeadLength[format]
  BY <1>2, FieldsAre, SMTT(60) DEF FieldsPlaced
<1>6. /\ h \in Seq(0 .. 255) /\ Len(h) = Len(b) + Len(f)
      /\ \A i \in 1 .. Len(b) : h[i] = b[i]
      /\ \A i \in 1 .. Len(f) : h[Len(b) + i] = f[i]
  <2>1. b \in Seq(0 .. 255)
    BY <1>4
  <2>2. f \in Seq(0 .. 255)
    BY <1>5
  <2>3. QED
    BY <1>3, <2>1, <2>2, Joined
<1>7. ClientHead(format, m, time) = h
  <2>1. h \o << >> = h
    <3>1. h \in Seq(0 .. 255)
      BY <1>6
    <3>2. QED
      BY <3>1, ConcatEmptySeq
  <2>2. ClientHead(format, m, time) = b \o f \o << >>
    BY <1>1, <1>2, ClientHeadIs
  <2>3. QED
    BY <1>3, <2>1, <2>2
<1>8. HeadJoins(h, b, f)
  BY <1>4, <1>5, <1>6 DEF HeadJoins
<1>9. QED
  BY <1>1, <1>2, <1>7, <1>8

StartsWith(s, h) == Len(h) <= Len(s) /\ \A i \in 1 .. Len(h) : s[i] = h[i]

LEMMA ReadLEStreamBack ==
  ASSUME NEW v \in {0, 1}, NEW s \in Seq(0 .. 255), NEW at \in Nat, at + 4 <= Len(s),
         \A i \in 1 .. 4 : s[at + i] = LE(v, 4)[i]
  PROVE  ReadLE(s, at, 4) = v
<1>1. LE(v, 4)[1] = v /\ LE(v, 4)[2] = 0 /\ LE(v, 4)[3] = 0 /\ LE(v, 4)[4] = 0
  BY LEStream
<1>1a. \A i \in 1 .. 4 : at + i \in Nat /\ at + i # 0
  OBVIOUS
<1>2. \A i \in 1 .. 4 : ByteAt(s, at + i) \in Nat
  BY <1>1a, ByteAtByte
<1>3. ByteAt(s, at + 1) = v /\ ByteAt(s, at + 2) = 0 /\ ByteAt(s, at + 3) = 0 /\ ByteAt(s, at + 4) = 0
  BY <1>1, SMT DEF ByteAt
<1>4. ReadLE(s, at, 4) = ByteAt(s, at + 1) + ByteAt(s, at + 2) * 256
                           + ByteAt(s, at + 3) * 65536 + ByteAt(s, at + 4) * 16777216
  BY <1>2, Digits, SMT
<1>5. QED
  BY <1>3, <1>4, SMT

\* A field of 24 bits is never the reader's mark of 28 bits.
LEMMA MarkBelow ==
  ASSUME NEW v \in Nat, v <= Mark
  PROVE  v # ReaderMark
BY SMT DEF Mark, ReaderMark

\* So no header is wide for the reader.
NarrowHead(c, format, s, at) ==
  LET r == ReadChunkHead(c, format, s, at)
      length == IF format <= 1 THEN ReadBE(s, at + 3, 3) ELSE c.length
      starts == format # 3 \/ c.remain = 0
  IN /\ r.used = HeadLength[format] /\ r.chunk.extend = FALSE
     /\ r.chunk.timestamp = Timestamp(c, format, ReadBE(s, at, 3))
     /\ r.chunk.length = length
     /\ r.chunk.typeId = IF format <= 1 THEN ReadBE(s, at + 6, 1) ELSE c.typeId
     /\ r.chunk.streamId = IF format = 0 THEN ReadLE(s, at + 7, 4) ELSE c.streamId
     /\ r.chunk.remain = IF starts THEN length ELSE c.remain
     /\ r.chunk.data = IF starts THEN << >> ELSE c.data

LEMMA ReadChunkHeadNarrow ==
  ASSUME NEW c, NEW format \in 0 .. 3, NEW s, NEW at, c.extend = FALSE,
         ReadBE(s, at, 3) # ReaderMark
  PROVE  NarrowHead(c, format, s, at)
<1>3. HeadLength[format] + 0 = HeadLength[format]
  BY DEF HeadLength
<1>4. QED
  BY <1>3 DEF ReadChunkHead, NarrowHead

\* The header a client wrote, read at the front of s on a chunk stream c that
\* waits for nothing wide: every field comes back, the ones left out from c.
ReadsHead(c, format, m, time, s) ==
  LET used == BasicHead(s).used
      r == ReadChunkHead(c, format, s, used)
      length == IF format <= 1 THEN Len(m.data) ELSE c.length
      starts == format # 3 \/ c.remain = 0
  IN /\ BasicHead(s).format = format /\ BasicHead(s).csId = m.csId
     /\ used + r.used = Len(ClientHead(format, m, time))
     /\ r.chunk.extend = FALSE /\ r.chunk.length = length
     /\ r.chunk.timestamp = IF format = 0 THEN time
                            ELSE IF format = 3 THEN c.timestamp ELSE c.timestamp + time
     /\ r.chunk.typeId = IF format <= 1 THEN m.typeId ELSE c.typeId
     /\ r.chunk.streamId = IF format = 0 THEN m.streamId ELSE c.streamId
     /\ r.chunk.remain = IF starts THEN length ELSE c.remain
     /\ r.chunk.data = IF starts THEN << >> ELSE c.data

LEMMA ClientHeadRead ==
  ASSUME NEW format \in 0 .. 3, NEW m, ChunkMessage(m), NEW time \in Nat, time < Mark,
         NEW s \in Seq(0 .. 255), NEW c, c.extend = FALSE,
         StartsWith(s, ClientHead(format, m, time))
  PROVE  ReadsHead(c, format, m, time, s)
<1> DEFINE h == ClientHead(format, m, time)
           b == Basic(format, m.csId)
           f == Fields(format, m, time)
<1>3. HeadJoins(h, b, f) /\ StartsWith(s, h)
  BY ClientHeadBytes
<1>3a. FieldsPlaced(f, format, m, time)
  BY FieldsAre
<1> HIDE DEF h, b, f
<1>4. /\ h \in Seq(0 .. 255) /\ b \in Seq(0 .. 255) /\ f \in Seq(0 .. 255)
      /\ Len(h) = Len(b) + Len(f) /\ Len(b) \in 1 .. 3
      /\ \A i \in 1 .. Len(b) : h[i] = b[i]
      /\ \A i \in 1 .. Len(f) : h[Len(b) + i] = f[i]
  BY <1>3 DEF HeadJoins
<1>9. /\ Len(f) = HeadLength[format]
      /\ format # 3 => \A i \in 1 .. 3 : f[i] = BE(time, 3)[i]
      /\ format <= 1 => (\A i \in 1 .. 3 : f[3 + i] = BE(Len(m.data), 3)[i]) /\ f[7] = m.typeId
      /\ format = 0 => \A i \in 1 .. 4 : f[7 + i] = LE(m.streamId, 4)[i]
  BY <1>3a DEF FieldsPlaced
<1>5. Len(h) <= Len(s) /\ \A i \in 1 .. Len(h) : s[i] = h[i]
  BY <1>3 DEF StartsWith
<1>5a. Len(s) \in Nat /\ Len(f) \in Nat /\ Len(b) \in Nat
  BY <1>4, LenProperties
<1>6. Len(b) <= Len(s) /\ \A i \in 1 .. Len(b) : s[i] = b[i]
  BY <1>4, <1>5, <1>5a
<1>7. BasicHead(s).format = format /\ BasicHead(s).csId = m.csId /\ BasicHead(s).used = Len(b)
  <2>1. m.csId \in Nat /\ m.csId >= 2 /\ m.csId <= MaxCsId
    BY DEF ChunkMessage
  <2>2. QED
    BY <1>6, <2>1, BasicRead DEF b
<1>8. PICK at \in 1 .. 3 : at = Len(b)
  BY <1>4
<1>8b. at \in Nat /\ Len(b) = at
  BY <1>8
<1>8a. at + Len(f) <= Len(s) /\ \A i \in 1 .. Len(f) : s[at + i] = f[i]
  <2>1. at + Len(f) <= Len(s)
    BY <1>4, <1>5, <1>8
  <2>2. ASSUME NEW i \in 1 .. Len(f) PROVE s[at + i] = f[i]
    <3>1. h[at + i] = f[i]
      BY <1>4, <1>8b
    <3>1a. Len(h) = at + Len(f)
      BY <1>4, <1>8b
    <3>1b. at + i \in 1 .. Len(h)
      BY <1>5a, <1>8b, <3>1a
    <3>2. QED
      BY <1>5, <3>1, <3>1b
  <2>3. QED
    BY <2>1, <2>2
<1>10. HeadLength[0] = 11 /\ HeadLength[1] = 7 /\ HeadLength[2] = 3 /\ HeadLength[3] = 0
  BY DEF HeadLength
<1>11. format # 3 => ReadBE(s, at, 3) = time
  <2>1. SUFFICES ASSUME format # 3 PROVE ReadBE(s, at, 3) = time
    OBVIOUS
  <2>2. Len(f) >= 3
    BY <1>9, <1>10, <2>1
  <2>3. \A i \in 1 .. 3 : s[at + i] = BE(time, 3)[i]
    <3>1. \A i \in 1 .. 3 : s[at + i] = f[i]
      BY <1>5a, <1>8a, <2>2, SMTT(60)
    <3>2. QED
      BY <1>9, <2>1, <3>1
  <2>4. at + 3 <= Len(s) /\ time <= Mark
    BY <1>5a, <1>8a, <2>2, MarkNat
  <2>5. QED
    BY <1>5a, <2>3, <2>4, ReadBEBack, SMTT(60)
<1>12. format <= 1 => ReadBE(s, at + 3, 3) = Len(m.data) /\ ReadBE(s, at + 6, 1) = m.typeId
  <2>1. SUFFICES ASSUME format <= 1
                 PROVE  ReadBE(s, at + 3, 3) = Len(m.data) /\ ReadBE(s, at + 6, 1) = m.typeId
    OBVIOUS
  <2>2. Len(f) >= 7
    BY <1>9, <1>10, <2>1
  <2>3. at + 7 <= Len(s)
    BY <1>5a, <1>8a, <2>2
  <2>4. \A i \in 1 .. 3 : s[(at + 3) + i] = BE(Len(m.data), 3)[i]
    <3>1. TAKE i \in 1 .. 3
    <3>1a. s[at + (3 + i)] = f[3 + i]
      BY <1>5a, <1>8a, <2>2
    <3>1b. f[3 + i] = BE(Len(m.data), 3)[i]
      BY <1>9, <2>1
    <3>2. s[at + (3 + i)] = BE(Len(m.data), 3)[i]
      BY <3>1a, <3>1b
    <3>3. at + (3 + i) = (at + 3) + i
      OBVIOUS
    <3>4. QED
      BY <3>2, <3>3
  <2>5. ReadBE(s, at + 3, 3) = Len(m.data)
    <3>1. Len(m.data) \in Nat /\ Len(m.data) <= Mark
      BY LenProperties DEF ChunkMessage
    <3>2. at + 3 \in Nat /\ (at + 3) + 3 <= Len(s)
      BY <1>5a, <2>3
    <3>3. QED
      BY <1>5a, <2>4, <3>1, <3>2, ReadBEBack
  <2>6. s[at + 7] = m.typeId
    BY <1>8a, <1>9, <2>1, <2>2
  <2>7. ReadBE(s, at + 6, 1) = m.typeId
    <3>1. \A i \in 1 .. 4 : ByteAt(s, (at + 6) + i) \in Nat
      BY ByteAtByte
    <3>2. ReadBE(s, at + 6, 1) = ByteAt(s, (at + 6) + 1)
      BY <3>1, Digits
    <3>3. ByteAt(s, (at + 6) + 1) = s[at + 7]
      BY <2>3 DEF ByteAt
    <3>4. QED
      BY <2>6, <3>2, <3>3
  <2>8. QED
    BY <2>5, <2>7
<1>13. format = 0 => ReadLE(s, at + 7, 4) = m.streamId
  <2>1. SUFFICES ASSUME format = 0 PROVE ReadLE(s, at + 7, 4) = m.streamId
    OBVIOUS
  <2>2. Len(f) = 11
    BY <1>9, <1>10, <2>1
  <2>3. at + 11 <= Len(s)
    BY <1>5a, <1>8a, <2>2
  <2>4. \A i \in 1 .. 4 : s[(at + 7) + i] = LE(m.streamId, 4)[i]
    <3>1. TAKE i \in 1 .. 4
    <3>0. 7 + i \in 1 .. Len(f)
      BY <2>2
    <3>1a. s[at + (7 + i)] = f[7 + i]
      BY <1>8a, <3>0
    <3>1b. f[7 + i] = LE(m.streamId, 4)[i]
      BY <1>9, <2>1
    <3>2. s[at + (7 + i)] = LE(m.streamId, 4)[i]
      BY <3>1a, <3>1b
    <3>3. at + (7 + i) = (at + 7) + i
      OBVIOUS
    <3>4. QED
      BY <3>2, <3>3
  <2>5. m.streamId \in {0, 1}
    BY DEF ChunkMessage
  <2>6. QED
    <3>1. at + 7 \in Nat /\ (at + 7) + 4 <= Len(s)
      BY <1>8b, <2>3
    <3>2. QED
      BY <2>4, <2>5, <3>1, ReadLEStreamBack
<1>14. ~(ReadBE(s, at, 3) = ReaderMark)
  <2>1. ReadBE(s, at, 3) \in Nat /\ ReadBE(s, at, 3) <= Mark
    BY <1>8b, ReadBERange
  <2>2. QED
    BY <2>1, MarkBelow
<1>15. /\ ReadChunkHead(c, format, s, at).used = HeadLength[format]
       /\ ReadChunkHead(c, format, s, at).chunk.extend = FALSE
       /\ ReadChunkHead(c, format, s, at).chunk.timestamp =
            Timestamp(c, format, ReadBE(s, at, 3))
       /\ ReadChunkHead(c, format, s, at).chunk.length =
            IF format <= 1 THEN ReadBE(s, at + 3, 3) ELSE c.length
       /\ ReadChunkHead(c, format, s, at).chunk.typeId =
            IF format <= 1 THEN ReadBE(s, at + 6, 1) ELSE c.typeId
       /\ ReadChunkHead(c, format, s, at).chunk.streamId =
            IF format = 0 THEN ReadLE(s, at + 7, 4) ELSE c.streamId
       /\ ReadChunkHead(c, format, s, at).chunk.remain =
            IF format # 3 \/ c.remain = 0
            THEN IF format <= 1 THEN ReadBE(s, at + 3, 3) ELSE c.length
            ELSE c.remain
       /\ ReadChunkHead(c, format, s, at).chunk.data =
            IF format # 3 \/ c.remain = 0 THEN << >> ELSE c.data
  <2>1. NarrowHead(c, format, s, at)
    BY <1>14, ReadChunkHeadNarrow
  <2>2. QED
    BY <2>1 DEF NarrowHead
<1>16. Timestamp(c, format, ReadBE(s, at, 3)) =
         IF format = 0 THEN time ELSE IF format = 3 THEN c.timestamp ELSE c.timestamp + time
  BY <1>11 DEF Timestamp
<1>17. BasicHead(s).used = at /\ at + HeadLength[format] = Len(ClientHead(format, m, time))
  <2>1. Len(h) = at + HeadLength[format] /\ BasicHead(s).used = at
    BY <1>4, <1>7, <1>8b, <1>9
  <2>2. QED
    BY <2>1 DEF h
<1>18. QED
  BY <1>7, <1>11, <1>12, <1>13, <1>15, <1>16, <1>17 DEF ReadsHead

-----------------------------------------------------------------------------
(* Slices.                                                                 *)

\* x lies in s behind its first "at" bytes.
Placed(s, at, x) == at + Len(x) <= Len(s) /\ \A i \in 1 .. Len(x) : s[at + i] = x[i]

LEMMA SliceBytes ==
  ASSUME NEW S, NEW s \in Seq(S), NEW at \in Nat, NEW n \in Nat
  PROVE  /\ Slice(s, at, n) \in Seq(S)
         /\ Len(Slice(s, at, n)) = IF at + n <= Len(s) THEN n
                                   ELSE IF at <= Len(s) THEN Len(s) - at ELSE 0
         /\ \A i \in 1 .. Len(Slice(s, at, n)) : Slice(s, at, n)[i] = s[at + i]
<1>1. Len(s) \in Nat
  BY LenProperties
<1>2. PICK e \in Nat : e = Least(at + n, Len(s))
  BY <1>1 DEF Least
<1>3. e <= Len(s) /\ e <= at + n /\ (e = at + n \/ e = Len(s))
  BY <1>1, <1>2 DEF Least
<1>4. Slice(s, at, n) = SubSeq(s, at + 1, e)
  BY <1>2 DEF Slice
<1>5. \A i \in at + 1 .. e : s[i] \in S
  BY <1>1, <1>3
<1>6. /\ SubSeq(s, at + 1, e) \in Seq(S)
      /\ Len(SubSeq(s, at + 1, e)) = IF at + 1 <= e THEN e - (at + 1) + 1 ELSE 0
      /\ \A i \in 1 .. e - (at + 1) + 1 : SubSeq(s, at + 1, e)[i] = s[at + 1 + i - 1]
  BY <1>5, SubSeqProperties
<1>7. PICK x : x = SubSeq(s, at + 1, e)
  OBVIOUS
<1>8. /\ x \in Seq(S) /\ Len(x) = IF at + 1 <= e THEN e - at ELSE 0
      /\ \A i \in 1 .. e - at : x[i] = s[at + i]
  <2>1. \A i \in 1 .. e - at : at + 1 + i - 1 = at + i
    OBVIOUS
  <2>2. e - (at + 1) + 1 = e - at
    OBVIOUS
  <2>3. QED
    BY <1>6, <1>7, <2>1, <2>2
<1>9. Len(x) = IF at + n <= Len(s) THEN n ELSE IF at <= Len(s) THEN Len(s) - at ELSE 0
  BY <1>1, <1>3, <1>8
<1>10. \A i \in 1 .. Len(x) : x[i] = s[at + i]
  BY <1>8
<1>11. QED
  BY <1>4, <1>7, <1>8, <1>9, <1>10

LEMMA SlicePlaced ==
  ASSUME NEW S, NEW s \in Seq(S), NEW at \in Nat, NEW x \in Seq(S)
  PROVE  /\ Placed(s, at, x) => Slice(s, at, Len(x)) = x
         /\ Len(x) # 0 /\ Slice(s, at, Len(x)) = x => Placed(s, at, x)
<1>1. Len(s) \in Nat /\ Len(x) \in Nat
  BY LenProperties
<1>2. PICK n \in Nat : n = Len(x)
  BY <1>1
<1>3. PICK z : z = Slice(s, at, n)
  OBVIOUS
<1>4. /\ z \in Seq(S)
      /\ Len(z) = IF at + n <= Len(s) THEN n ELSE IF at <= Len(s) THEN Len(s) - at ELSE 0
      /\ \A i \in 1 .. Len(z) : z[i] = s[at + i]
  BY <1>3, SliceBytes
<1>5. ASSUME Placed(s, at, x) PROVE z = x
  <2>1. Len(z) = n
    BY <1>2, <1>4, <1>5 DEF Placed
  <2>2. \A i \in 1 .. n : z[i] = x[i]
    BY <1>2, <1>4, <1>5, <2>1 DEF Placed
  <2>3. z \in Seq(S)
    BY <1>4
  <2>4. Len(z) = Len(x) /\ \A i \in 1 .. Len(z) : z[i] = x[i]
    BY <1>2, <2>1, <2>2
  <2>5. QED
    BY <2>3, <2>4, SeqEqual
<1>6. ASSUME n # 0, z = x PROVE Placed(s, at, x)
  <2>1. at + n <= Len(s)
    BY <1>1, <1>2, <1>4, <1>6
  <2>2. \A i \in 1 .. Len(x) : s[at + i] = x[i]
    BY <1>4, <1>6
  <2>3. QED
    BY <1>2, <2>1, <2>2 DEF Placed
<1>7. QED
  BY <1>2, <1>3, <1>5, <1>6

\* A header and a payload one behind the other.
LEMMA PlacedJoined ==
  ASSUME NEW S, NEW s \in Seq(S), NEW at \in Nat, NEW x \in Seq(S), NEW y \in Seq(S)
  PROVE  Placed(s, at, x \o y) <=> Placed(s, at, x) /\ Placed(s, at + Len(x), y)
<1>1. Len(s) \in Nat /\ Len(x) \in Nat /\ Len(y) \in Nat
  BY LenProperties
<1>2. PICK z : z = x \o y
  OBVIOUS
<1>3. /\ z \in Seq(S) /\ Len(z) = Len(x) + Len(y)
      /\ \A i \in 1 .. Len(x) : z[i] = x[i]
      /\ \A i \in 1 .. Len(y) : z[Len(x) + i] = y[i]
  BY <1>2, Joined
<1>4. PICK n \in Nat, k \in Nat : n = Len(x) /\ k = Len(y)
  BY <1>1
<1>5. /\ Len(z) = n + k /\ \A i \in 1 .. n : z[i] = x[i]
      /\ \A i \in 1 .. k : z[n + i] = y[i]
  BY <1>3, <1>4
<1>6. ASSUME Placed(s, at, z) PROVE Placed(s, at, x) /\ Placed(s, at + n, y)
  <2>1. at + (n + k) <= Len(s) /\ \A i \in 1 .. n + k : s[at + i] = z[i]
    BY <1>5, <1>6 DEF Placed
  <2>2. at + n <= Len(s) /\ \A i \in 1 .. n : s[at + i] = x[i]
    BY <1>1, <1>5, <2>1
  <2>3. ASSUME NEW i \in 1 .. k PROVE s[at + n + i] = y[i]
    <3>1. n + i \in 1 .. n + k
      OBVIOUS
    <3>2. s[at + (n + i)] = z[n + i] /\ z[n + i] = y[i]
      BY <1>5, <2>1, <3>1
    <3>3. at + (n + i) = at + n + i
      OBVIOUS
    <3>4. QED
      BY <3>2, <3>3
  <2>4. at + n + k <= Len(s)
    BY <1>1, <2>1
  <2>5. QED
    BY <1>4, <2>2, <2>3, <2>4 DEF Placed
<1>7. ASSUME Placed(s, at, x), Placed(s, at + n, y) PROVE Placed(s, at, z)
  <2>1. /\ \A i \in 1 .. n : s[at + i] = x[i]
        /\ at + n + k <= Len(s) /\ \A i \in 1 .. k : s[at + n + i] = y[i]
    BY <1>4, <1>7 DEF Placed
  <2>2. ASSUME NEW i \in 1 .. n + k PROVE s[at + i] = z[i]
    <3>1. CASE i <= n
      BY <1>5, <2>1, <3>1
    <3>2. CASE i > n
      <4>1. PICK j \in 1 .. k : i = n + j
        <5>1. i - n \in 1 .. k /\ i = n + (i - n)
          BY <3>2
        <5>2. QED
          BY <5>1
      <4>2. s[at + n + j] = y[j] /\ z[n + j] = y[j]
        BY <1>5, <2>1
      <4>3. at + i = at + n + j
        BY <4>1
      <4>4. QED
        BY <4>1, <4>2, <4>3
    <3>3. QED
      BY <3>1, <3>2
  <2>3. at + (n + k) <= Len(s)
    BY <1>1, <2>1
  <2>4. QED
    BY <1>5, <2>2, <2>3 DEF Placed
<1>8. QED
  BY <1>2, <1>4, <1>6, <1>7

\* Bytes stay where they are when more arrive, and move up when some are read.
LEMMA PlacedMoves ==
  ASSUME NEW S, NEW s \in Seq(S), NEW at \in Nat, NEW x \in Seq(S), Placed(s, at, x)
  PROVE  /\ \A y \in Seq(S) : Placed(s \o y, at, x)
         /\ \A k \in 0 .. at : Placed(SubSeq(s, k + 1, Len(s)), at - k, x)
<1>1. Len(s) \in Nat /\ Len(x) \in Nat
  BY LenProperties
<1>2. ASSUME NEW y \in Seq(S) PROVE Placed(s \o y, at, x)
  <2>1. PICK z : z = s \o y
    OBVIOUS
  <2>2. Len(z) = Len(s) + Len(y) /\ \A i \in 1 .. Len(s) : z[i] = s[i]
    BY <2>1, Joined
  <2>3. Len(y) \in Nat
    BY LenProperties
  <2>4. at + Len(x) <= Len(z)
    BY <1>1, <2>2, <2>3 DEF Placed
  <2>5. \A i \in 1 .. Len(x) : z[at + i] = x[i]
    BY <1>1, <2>2 DEF Placed
  <2>6. QED
    BY <2>1, <2>4, <2>5 DEF Placed
<1>3. ASSUME NEW k \in 0 .. at PROVE Placed(SubSeq(s, k + 1, Len(s)), at - k, x)
  <2>0. at + Len(x) <= Len(s) /\ k \in Nat /\ k <= at
    BY DEF Placed
  <2>1. PICK n \in Nat : n = Len(s) - k
    BY <1>1, <2>0
  <2>2. /\ Len(Slice(s, k, n)) = IF k + n <= Len(s) THEN n
                                 ELSE IF k <= Len(s) THEN Len(s) - k ELSE 0
        /\ \A i \in 1 .. Len(Slice(s, k, n)) : Slice(s, k, n)[i] = s[k + i]
    BY <2>0, SliceBytes, ZenonT(60)
  <2>3. PICK z : z = SubSeq(s, k + 1, Len(s))
    OBVIOUS
  <2>4. Slice(s, k, n) = z
    BY <1>1, <2>1, <2>3 DEF Slice, Least
  <2>5. Len(z) = n /\ \A i \in 1 .. n : z[i] = s[k + i]
    BY <1>1, <2>1, <2>2, <2>4, SMTT(60)
  <2>6. at - k + Len(x) <= Len(z)
    BY <1>1, <2>1, <2>5 DEF Placed
  <2>7. ASSUME NEW i \in 1 .. Len(x) PROVE z[at - k + i] = x[i]
    <3>1. at - k + i \in 1 .. n
      BY <1>1, <2>5, <2>6
    <3>2. z[at - k + i] = s[k + (at - k + i)]
      BY <2>5, <3>1
    <3>3. k + (at - k + i) = at + i
      BY <1>1
    <3>4. QED
      BY <3>2, <3>3 DEF Placed
  <2>8. QED
    BY <2>3, <2>6, <2>7 DEF Placed
<1>4. QED
  BY <1>2, <1>3

-----------------------------------------------------------------------------
(* Prefixes.                                                               *)

\* The first n elements.
LEMMA FirstsAre ==
  ASSUME NEW S, NEW st \in Seq(S), NEW n \in 0 .. Len(st)
  PROVE  /\ SubSeq(st, 1, n) \in Seq(S) /\ Len(SubSeq(st, 1, n)) = n
         /\ \A i \in 1 .. n : SubSeq(st, 1, n)[i] = st[i]
<1>1. Len(st) \in Nat
  BY LenProperties
<1>2. n \in Nat /\ n <= Len(st) /\ \A i \in 1 .. n : st[i] \in S
  BY <1>1
<1>3. QED
  BY <1>2, SubSeqProperties

\* One more of the first.
LEMMA FirstsNext ==
  ASSUME NEW S, NEW st \in Seq(S), NEW n \in Nat, n + 1 <= Len(st)
  PROVE  SubSeq(st, 1, n + 1) = Append(SubSeq(st, 1, n), st[n + 1])
<1>1. Len(st) \in Nat
  BY LenProperties
<1>2. PICK x : x = SubSeq(st, 1, n)
  OBVIOUS
<1>3. PICK y : y = SubSeq(st, 1, n + 1)
  OBVIOUS
<1>4. PICK e \in S : e = st[n + 1]
  BY <1>1
<1>5. x \in Seq(S) /\ Len(x) = n /\ \A i \in 1 .. n : x[i] = st[i]
  <2>1. n \in 0 .. Len(st)
    BY <1>1
  <2>2. QED
    BY <1>2, <2>1, FirstsAre
<1>6. y \in Seq(S) /\ Len(y) = n + 1 /\ \A i \in 1 .. n + 1 : y[i] = st[i]
  <2>1. n + 1 \in 0 .. Len(st)
    BY <1>1
  <2>2. QED
    BY <1>3, <2>1, FirstsAre
<1>7. PICK z : z = Append(x, e)
  OBVIOUS
<1>8. z \in Seq(S) /\ Len(z) = n + 1 /\ (\A i \in 1 .. n : z[i] = x[i]) /\ z[n + 1] = e
  BY <1>4, <1>5, <1>7
<1>9. \A i \in 1 .. n + 1 : y[i] = z[i]
  <2>1. ASSUME NEW i \in 1 .. n + 1 PROVE y[i] = z[i]
    <3>1. CASE i <= n
      BY <1>5, <1>6, <1>8, <3>1
    <3>2. CASE i = n + 1
      BY <1>4, <1>6, <1>8, <3>2
    <3>3. QED
      BY <3>1, <3>2
  <2>2. QED
    BY <2>1
<1>10. y = z
  <2>1. y \in Seq(S)
    BY <1>6
  <2>2. z \in Seq(S)
    BY <1>8
  <2>3. Len(y) = Len(z) /\ \A i \in 1 .. Len(y) : y[i] = z[i]
    BY <1>6, <1>8, <1>9
  <2>4. QED
    BY <2>1, <2>2, <2>3, SeqEqual
<1>11. QED
  BY <1>2, <1>3, <1>4, <1>7, <1>10

-----------------------------------------------------------------------------
(* Induction over data: the least number without a property.               *)

LEMMA LeastNumber ==
  ASSUME NEW T, T \subseteq Nat, NEW n \in T
  PROVE  \E m \in T : \A k \in T : m <= k
<1> DEFINE R == {ss \in Nat \X Nat : ss[1] < ss[2]}
<1>1. IsWellFoundedOn(R, Nat)
  BY NatLessThanWellFounded DEF OpToRel
<1>2. \A x, y \in Nat : <<y, x>> \in R <=> y < x
  OBVIOUS
<1> HIDE DEF R
<1>3. \E x \in T : \A y \in T : ~(<<y, x>> \in R)
  BY <1>1, WFMin
<1>4. PICK x \in T : \A y \in T : ~(<<y, x>> \in R)
  BY <1>3
<1>5. ASSUME NEW y \in T PROVE x <= y
  <2>1. x \in Nat /\ y \in Nat
    OBVIOUS
  <2>2. ~(y < x)
    BY <1>2, <1>4, <2>1
  <2>3. QED
    BY <2>1, <2>2
<1>6. QED
  BY <1>5

\* A set of numbers that has 0 and with each number the next has them all, up to a bound.
LEMMA Upwards ==
  ASSUME NEW n \in Nat, NEW G, 0 \in G, \A k \in 0 .. n : k < n /\ k \in G => k + 1 \in G
  PROVE  \A k \in 0 .. n : k \in G
<1>1. SUFFICES ASSUME NEW j \in 0 .. n, j \notin G PROVE FALSE
  OBVIOUS
<1> DEFINE T == {k \in 0 .. n : k \notin G}
<1>2. T \subseteq Nat /\ j \in T
  BY <1>1
<1>3. PICK m \in T : \A k \in T : m <= k
  BY <1>2, LeastNumber
<1>4. m \in 0 .. n /\ m \notin G /\ m # 0
  BY <1>3
<1>5. m - 1 \in 0 .. n /\ m - 1 < n /\ ~(m <= m - 1) /\ (m - 1) + 1 = m
  BY <1>4
<1>6. m - 1 \in G
  BY <1>3, <1>5
<1>7. QED
  BY <1>4, <1>5, <1>6

-----------------------------------------------------------------------------
(* FlattenSeq.                                                             *)

\* The first i of seqs joined, for each i.
Flattens(g, seqs, n) ==
  /\ DOMAIN g = 1 .. n
  /\ \A i \in 1 .. n : g[i] = IF i = 1 THEN seqs[i] ELSE g[i - 1] \o seqs[i]

LEMMA FlattensExists ==
  ASSUME NEW S, NEW seqs \in Seq(Seq(S))
  PROVE  \A n \in 0 .. Len(seqs) : \E g \in [1 .. n -> Seq(S)] : Flattens(g, seqs, n)
<1>0. Len(seqs) \in Nat
  BY LenProperties
<1> DEFINE G == {n \in 0 .. Len(seqs) : \E g \in [1 .. n -> Seq(S)] : Flattens(g, seqs, n)}
<1>1. 0 \in G
  <2>1. PICK g : g = [i \in 1 .. 0 |-> << >>]
    OBVIOUS
  <2>2. g \in [1 .. 0 -> Seq(S)] /\ Flattens(g, seqs, 0)
    BY <2>1 DEF Flattens
  <2>3. 0 \in 0 .. Len(seqs)
    BY <1>0
  <2>4. \E h \in [1 .. 0 -> Seq(S)] : Flattens(h, seqs, 0)
    BY <2>2
  <2>5. QED
    BY <2>3, <2>4
<1>2. ASSUME NEW n \in 0 .. Len(seqs), n < Len(seqs), n \in G PROVE n + 1 \in G
  <2>1. PICK g \in [1 .. n -> Seq(S)] : Flattens(g, seqs, n)
    BY <1>2
  <2>2. n \in Nat /\ n + 1 \in 1 .. Len(seqs) /\ n + 1 \in 0 .. Len(seqs)
    BY <1>0, <1>2
  <2>3. seqs[n + 1] \in Seq(S)
    BY <2>2, ElementOfSeq
  <2>4. PICK e \in Seq(S) : e = IF n = 0 THEN seqs[n + 1] ELSE g[n] \o seqs[n + 1]
    <3>1. CASE n = 0
      BY <2>3, <3>1
    <3>2. CASE n # 0
      <4>1. n \in 1 .. n
        BY <2>2, <3>2
      <4>2. g[n] \in Seq(S)
        BY <4>1
      <4>3. g[n] \o seqs[n + 1] \in Seq(S)
        BY <2>3, <4>2, ConcatProperties
      <4>4. QED
        BY <3>2, <4>3
    <3>3. QED
      BY <3>1, <3>2
  <2>5. PICK h : h = [i \in 1 .. n + 1 |-> IF i <= n THEN g[i] ELSE e]
    OBVIOUS
  <2>6. \A i \in 1 .. n + 1 : i <= n => i \in 1 .. n
    BY <2>2
  <2>7. h \in [1 .. n + 1 -> Seq(S)]
    BY <2>4, <2>5, <2>6
  <2>8. ASSUME NEW i \in 1 .. n + 1
        PROVE  h[i] = IF i = 1 THEN seqs[i] ELSE h[i - 1] \o seqs[i]
    <3>1. CASE i <= n
      <4>1. i \in 1 .. n /\ (i # 1 => i - 1 \in 1 .. n + 1 /\ i - 1 <= n)
        BY <2>2, <3>1
      <4>2. h[i] = g[i] /\ (i # 1 => h[i - 1] = g[i - 1])
        BY <2>5, <3>1, <4>1
      <4>3. g[i] = IF i = 1 THEN seqs[i] ELSE g[i - 1] \o seqs[i]
        BY <2>1, <4>1 DEF Flattens
      <4>4. QED
        BY <4>2, <4>3
    <3>2. CASE i = n + 1
      <4>1. h[i] = e /\ (n = 0 <=> i = 1) /\ i - 1 = n
        BY <2>2, <2>5, <3>2
      <4>2. i # 1 => h[i - 1] = g[n]
        <5>1. i # 1 => n \in 1 .. n + 1 /\ n <= n
          BY <2>2, <3>2
        <5>2. QED
          BY <2>5, <4>1, <5>1
      <4>3. QED
        BY <2>4, <3>2, <4>1, <4>2
    <3>3. QED
      BY <2>2, <3>1, <3>2
  <2>9. Flattens(h, seqs, n + 1)
    BY <2>5, <2>8 DEF Flattens
  <2>10. QED
    BY <2>2, <2>7, <2>9
<1>3. \A n \in 0 .. Len(seqs) : n \in G
  <2> HIDE DEF G
  <2>1. \A k \in 0 .. Len(seqs) : k < Len(seqs) /\ k \in G => k + 1 \in G
    BY <1>2
  <2>2. QED
    BY <1>0, <1>1, <2>1, Upwards
<1>4. QED
  BY <1>3

\* FlattenSeq is what such a function ends with, and there is one only.
LEMMA FlattenIs ==
  ASSUME NEW S, NEW seqs \in Seq(Seq(S)), Len(seqs) # 0
  PROVE  \E g \in [1 .. Len(seqs) -> Seq(S)] :
           Flattens(g, seqs, Len(seqs)) /\ FlattenSeq(seqs) = g[Len(seqs)]
<1> DEFINE f == CHOOSE f : f = [i \in 1 .. Len(seqs) |->
                                 IF i = 1 THEN seqs[i] ELSE f[i - 1] \o seqs[i]]
<1>0. Len(seqs) \in Nat
  BY LenProperties
<1>1. FlattenSeq(seqs) = f[Len(seqs)]
  BY DEF FlattenSeq
<1>2. PICK g \in [1 .. Len(seqs) -> Seq(S)] : Flattens(g, seqs, Len(seqs))
  <2>1. Len(seqs) \in 0 .. Len(seqs)
    BY <1>0
  <2>2. QED
    BY <2>1, FlattensExists
<1>3. g = [i \in 1 .. Len(seqs) |-> IF i = 1 THEN seqs[i] ELSE g[i - 1] \o seqs[i]]
  BY <1>2, ZenonT(60) DEF Flattens
<1>4. f = [i \in 1 .. Len(seqs) |-> IF i = 1 THEN seqs[i] ELSE f[i - 1] \o seqs[i]]
  BY <1>3, ZenonT(60)
<1> HIDE DEF f
<1>5. \A i \in 1 .. Len(seqs) : f[i] = g[i]
  <2> DEFINE G == {n \in 0 .. Len(seqs) : \A i \in 1 .. n : f[i] = g[i]}
  <2>1. 0 \in G
    BY <1>0
  <2>2. ASSUME NEW n \in 0 .. Len(seqs), n < Len(seqs), n \in G PROVE n + 1 \in G
    <3>1. n \in Nat /\ n + 1 \in 1 .. Len(seqs) /\ n + 1 \in 0 .. Len(seqs)
      BY <1>0, <2>2
    <3>2. \A i \in 1 .. n : f[i] = g[i]
      BY <2>2
    <3>3. f[n + 1] = g[n + 1]
      <4>1. (n + 1) - 1 = n /\ (n + 1 # 1 => n \in 1 .. n)
        BY <3>1
      <4>2. /\ f[n + 1] = IF n + 1 = 1 THEN seqs[n + 1] ELSE f[n] \o seqs[n + 1]
            /\ g[n + 1] = IF n + 1 = 1 THEN seqs[n + 1] ELSE g[n] \o seqs[n + 1]
        BY <1>3, <1>4, <3>1, <4>1
      <4>3. QED
        BY <3>2, <4>1, <4>2
    <3>4. \A i \in 1 .. n + 1 : i \in 1 .. n \/ i = n + 1
      BY <3>1
    <3>5. QED
      BY <3>1, <3>2, <3>3, <3>4
  <2>3. \A n \in 0 .. Len(seqs) : n \in G
    <3> HIDE DEF G
    <3>1. \A k \in 0 .. Len(seqs) : k < Len(seqs) /\ k \in G => k + 1 \in G
      BY <2>2
    <3>2. QED
      BY <1>0, <2>1, <3>1, Upwards
  <2>4. Len(seqs) \in 0 .. Len(seqs)
    BY <1>0
  <2>5. QED
    BY <2>3, <2>4
<1>6. Len(seqs) \in 1 .. Len(seqs)
  BY <1>0
<1>7. QED
  BY <1>1, <1>2, <1>5, <1>6

LEMMA FlattenAppend ==
  ASSUME NEW S, NEW seqs \in Seq(Seq(S)), NEW x \in Seq(S)
  PROVE  /\ FlattenSeq(seqs) \in Seq(S)
         /\ FlattenSeq(Append(seqs, x)) = FlattenSeq(seqs) \o x
<1>1. PICK n \in Nat : n = Len(seqs)
  BY LenProperties
<1>2. PICK long : long = Append(seqs, x)
  OBVIOUS
<1>3. /\ long \in Seq(Seq(S)) /\ Len(long) = n + 1 /\ long[n + 1] = x
      /\ \A i \in 1 .. n : long[i] = seqs[i]
  BY <1>1, <1>2
<1>4. PICK g \in [1 .. n + 1 -> Seq(S)] :
        Flattens(g, long, n + 1) /\ FlattenSeq(long) = g[n + 1]
  <2>1. Len(long) # 0
    BY <1>3
  <2>2. \E g \in [1 .. Len(long) -> Seq(S)] :
          Flattens(g, long, Len(long)) /\ FlattenSeq(long) = g[Len(long)]
    BY <1>3, <2>1, FlattenIs
  <2>3. QED
    BY <1>3, <2>2
<1>5. g[n + 1] = IF n + 1 = 1 THEN long[n + 1] ELSE g[(n + 1) - 1] \o long[n + 1]
  <2>1. n + 1 \in 1 .. n + 1
    BY <1>1
  <2>2. QED
    BY <1>4, <2>1 DEF Flattens
<1>6. CASE n = 0
  <2>1. seqs = << >>
    BY <1>1, <1>6, EmptySeq
  <2>2. FlattenSeq(seqs) = << >>
    BY <2>1 DEF FlattenSeq
  <2>3. FlattenSeq(long) = x
    BY <1>3, <1>4, <1>5, <1>6
  <2>4. << >> \o x = x
    BY ConcatEmptySeq
  <2>5. << >> \in Seq(S)
    OBVIOUS
  <2>6. QED
    BY <1>2, <2>2, <2>3, <2>4, <2>5
<1>7. CASE n # 0
  <2>1. PICK h \in [1 .. n -> Seq(S)] : Flattens(h, seqs, n) /\ FlattenSeq(seqs) = h[n]
    <3>1. \E h \in [1 .. Len(seqs) -> Seq(S)] :
            Flattens(h, seqs, Len(seqs)) /\ FlattenSeq(seqs) = h[Len(seqs)]
      BY <1>1, <1>7, FlattenIs
    <3>2. QED
      BY <1>1, <3>1
  <2>2. \A i \in 1 .. n : g[i] = h[i]
    <3> DEFINE G == {k \in 0 .. n : \A i \in 1 .. k : g[i] = h[i]}
    <3>1. 0 \in G
      BY <1>1
    <3>2. ASSUME NEW k \in 0 .. n, k < n, k \in G PROVE k + 1 \in G
      <4>1. k \in Nat /\ k + 1 \in 1 .. n /\ k + 1 \in 1 .. n + 1 /\ k + 1 \in 0 .. n /\ (k + 1) - 1 = k
        BY <3>2
      <4>2. /\ g[k + 1] = IF k + 1 = 1 THEN long[k + 1] ELSE g[k] \o long[k + 1]
            /\ h[k + 1] = IF k + 1 = 1 THEN seqs[k + 1] ELSE h[k] \o seqs[k + 1]
        BY <1>4, <2>1, <4>1 DEF Flattens
      <4>3. long[k + 1] = seqs[k + 1] /\ (k + 1 # 1 => k \in 1 .. k)
        BY <1>3, <4>1
      <4>4. g[k + 1] = h[k + 1]
        BY <3>2, <4>2, <4>3
      <4>5. \A i \in 1 .. k + 1 : i \in 1 .. k \/ i = k + 1
        BY <4>1
      <4>6. QED
        BY <3>2, <4>1, <4>4, <4>5
    <3>3. \A k \in 0 .. n : k \in G
      <4> HIDE DEF G
      <4>1. \A k \in 0 .. n : k < n /\ k \in G => k + 1 \in G
        BY <3>2
      <4>2. QED
        BY <3>1, <4>1, Upwards
    <3>4. n \in 0 .. n
      OBVIOUS
    <3>5. QED
      BY <3>3, <3>4
  <2>3. n \in 1 .. n /\ (n + 1) - 1 = n /\ n + 1 # 1
    BY <1>7
  <2>4. g[n + 1] = h[n] \o x
    BY <1>3, <1>5, <2>2, <2>3
  <2>5. h[n] \in Seq(S)
    BY <2>1, <2>3
  <2>6. QED
    BY <1>2, <1>4, <2>1, <2>4, <2>5
<1>8. QED
  BY <1>6, <1>7

\* What f makes of each element of seq, joined.
Gathered(f, seq) == FlattenSeq([i \in DOMAIN seq |-> f[seq[i]]])

\* f makes a sequence of each element of A.
Makes(f, A, S) == f \in [A -> Seq(S)]

\* Named, for what is said of them to match a lemma.
OneMore(longer, seq, m) == longer = Append(seq, m)
Joins(z, x, y) == z = x \o y

LEMMA GatheredNone ==
  ASSUME NEW f
  PROVE  Gathered(f, << >>) = << >>
<1>1. [i \in DOMAIN << >> |-> f[<< >>[i]]] = << >>
  OBVIOUS
<1>2. QED
  BY <1>1 DEF Gathered, FlattenSeq

LEMMA GatheredBytes ==
  ASSUME NEW A, NEW S, NEW f, Makes(f, A, S), NEW seq \in Seq(A)
  PROVE  Gathered(f, seq) \in Seq(S)
<1>1. PICK s : s = [i \in DOMAIN seq |-> f[seq[i]]]
  OBVIOUS
<1>2. PICK n \in Nat : n = Len(seq)
  BY LenProperties
<1>3. DOMAIN seq = 1 .. n /\ \A i \in 1 .. n : seq[i] \in A
  BY <1>2
<1>4. s \in [1 .. n -> Seq(S)]
  BY <1>1, <1>3 DEF Makes
<1>5. s \in Seq(Seq(S))
  BY <1>4, IsASeq
<1>6. << >> \in Seq(S)
  OBVIOUS
<1>7. FlattenSeq(s) \in Seq(S)
  BY <1>5, <1>6, FlattenAppend
<1>8. QED
  BY <1>1, <1>7 DEF Gathered

LEMMA GatheredNext ==
  ASSUME NEW A, NEW S, NEW f, Makes(f, A, S), NEW seq \in Seq(A), NEW m \in A,
         NEW longer, OneMore(longer, seq, m)
  PROVE  Joins(Gathered(f, longer), Gathered(f, seq), f[m])
<1>0. f \in [A -> Seq(S)]
  BY DEF Makes
<1>1. PICK n \in Nat : n = Len(seq)
  BY LenProperties
<1>2. PICK s : s = [i \in DOMAIN seq |-> f[seq[i]]]
  OBVIOUS
<1>3. DOMAIN seq = 1 .. n /\ \A i \in 1 .. n : seq[i] \in A
  BY <1>1
<1>4. s \in [1 .. n -> Seq(S)]
  BY <1>0, <1>2, <1>3
<1>5. s \in Seq(Seq(S)) /\ Len(s) = n
  BY <1>4, IsASeq
<1>7. /\ DOMAIN longer = 1 .. n + 1 /\ longer[n + 1] = m
      /\ \A i \in 1 .. n : longer[i] = seq[i]
  BY <1>1 DEF OneMore
<1>8. PICK t : t = [i \in DOMAIN longer |-> f[longer[i]]]
  OBVIOUS
<1>9. PICK u : u = Append(s, f[m])
  OBVIOUS
<1>10. t = u
  <2>1. u \in Seq(Seq(S)) /\ Len(u) = n + 1 /\ u[n + 1] = f[m] /\ \A i \in 1 .. n : u[i] = s[i]
    BY <1>0, <1>5, <1>9
  <2>2. \A i \in 1 .. n + 1 : t[i] \in Seq(S) /\ t[i] = u[i]
    <3>1. TAKE i \in 1 .. n + 1
    <3>2. CASE i \in 1 .. n
      BY <1>2, <1>3, <1>7, <1>8, <2>1, <3>2
    <3>3. CASE i = n + 1
      BY <1>7, <1>8, <2>1, <3>3
    <3>4. QED
      BY <3>2, <3>3
  <2>3. t \in [1 .. n + 1 -> Seq(S)]
    BY <1>7, <1>8, <2>2
  <2>4. t \in Seq(Seq(S)) /\ Len(t) = n + 1
    BY <2>3, IsASeq
  <2>5. QED
    <3>1. t \in Seq(Seq(S))
      BY <2>4
    <3>2. u \in Seq(Seq(S))
      BY <2>1
    <3>3. Len(t) = Len(u) /\ \A i \in 1 .. Len(t) : t[i] = u[i]
      BY <2>1, <2>2, <2>4
    <3>4. QED
      BY <3>1, <3>2, <3>3, SeqEqual
<1>11. FlattenSeq(s) \in Seq(S) /\ FlattenSeq(Append(s, f[m])) = FlattenSeq(s) \o f[m]
  <2>1. s \in Seq(Seq(S)) /\ f[m] \in Seq(S)
    BY <1>0, <1>5
  <2>2. QED
    BY <2>1, FlattenAppend
<1>12. QED
  BY <1>0, <1>2, <1>8, <1>9, <1>10, <1>11 DEF Gathered, Joins

\* What f makes of each element of seq lies in z, from one offset to the next.
Tiles(off, z, f, seq) ==
  /\ off \in [0 .. Len(seq) -> Nat] /\ off[0] = 0 /\ off[Len(seq)] = Len(z)
  /\ \A i \in 1 .. Len(seq) : off[i] = off[i - 1] + Len(f[seq[i]]) /\ Placed(z, off[i - 1], f[seq[i]])

LEMMA TilesNext ==
  ASSUME NEW A, NEW S, NEW f, Makes(f, A, S), NEW seq \in Seq(A), NEW m \in A,
         NEW off, Tiles(off, Gathered(f, seq), f, seq)
  PROVE  \E next : Tiles(next, Gathered(f, Append(seq, m)), f, Append(seq, m))
<1>1. PICK n \in Nat : n = Len(seq)
  BY LenProperties
<1>2. PICK x : x = Gathered(f, seq)
  OBVIOUS
<1>3. PICK e : e = f[m]
  OBVIOUS
<1>4. PICK z : z = x \o e
  OBVIOUS
<1>5. x \in Seq(S) /\ e \in Seq(S) /\ Gathered(f, Append(seq, m)) = z
  <2>1. PICK longer : OneMore(longer, seq, m)
    BY DEF OneMore
  <2>2. x \in Seq(S) /\ e \in Seq(S) /\ Gathered(f, longer) = x \o e
    <3>1. x \in Seq(S)
      BY <1>2, GatheredBytes
    <3>2. e \in Seq(S)
      BY <1>3 DEF Makes
    <3>3. Joins(Gathered(f, longer), Gathered(f, seq), f[m])
      BY <2>1, GatheredNext
    <3>4. QED
      BY <1>2, <1>3, <3>1, <3>2, <3>3 DEF Joins
  <2>3. QED
    BY <1>4, <2>1, <2>2 DEF OneMore
<1>6. z \in Seq(S) /\ Len(z) = Len(x) + Len(e) /\ Len(x) \in Nat /\ Len(e) \in Nat
  <2>1. x \in Seq(S)
    BY <1>5
  <2>2. e \in Seq(S)
    BY <1>5
  <2>3. QED
    BY <1>4, <2>1, <2>2, Joined, LenProperties
<1>7. PICK longer : longer = Append(seq, m)
  OBVIOUS
<1>8. /\ longer \in Seq(A) /\ Len(longer) = n + 1 /\ longer[n + 1] = m
      /\ \A i \in 1 .. n : longer[i] = seq[i]
  BY <1>1, <1>7
<1>9. /\ off \in [0 .. n -> Nat] /\ off[0] = 0 /\ off[n] = Len(x)
      /\ \A i \in 1 .. n : off[i] = off[i - 1] + Len(f[seq[i]]) /\ Placed(x, off[i - 1], f[seq[i]])
  BY <1>1, <1>2 DEF Tiles
<1>10. PICK next : next = [i \in 0 .. n + 1 |-> IF i <= n THEN off[i] ELSE Len(z)]
  OBVIOUS
<1>11. next \in [0 .. n + 1 -> Nat] /\ next[0] = 0 /\ next[n + 1] = Len(z)
  <2>1. \A i \in 0 .. n + 1 : i <= n => i \in 0 .. n
    OBVIOUS
  <2>2. ~(n + 1 <= n) /\ n + 1 \in 0 .. n + 1 /\ 0 \in 0 .. n + 1 /\ 0 <= n
    OBVIOUS
  <2>3. Len(z) \in Nat
    BY <1>6
  <2>4. QED
    BY <1>9, <1>10, <2>1, <2>2, <2>3
<1>12. ASSUME NEW i \in 1 .. n + 1
       PROVE  next[i] = next[i - 1] + Len(f[longer[i]]) /\ Placed(z, next[i - 1], f[longer[i]])
  <2>1. CASE i <= n
    <3>1. i \in 1 .. n /\ i - 1 \in 0 .. n + 1 /\ i - 1 <= n /\ i \in 0 .. n + 1 /\ i - 1 \in 0 .. n
      BY <2>1
    <3>2. next[i] = off[i] /\ next[i - 1] = off[i - 1] /\ longer[i] = seq[i]
      BY <1>8, <1>10, <2>1, <3>1
    <3>3. PICK at \in Nat : at = off[i - 1]
      BY <1>9, <3>1
    <3>4. PICK w \in Seq(S) : w = f[seq[i]]
      <4>1. seq[i] \in A
        BY <1>1, <3>1
      <4>2. QED
        BY <4>1 DEF Makes
    <3>5. Placed(x, at, w)
      BY <1>9, <3>1, <3>3, <3>4
    <3>6. Placed(z, at, w)
      <4>1. x \in Seq(S)
        BY <1>5
      <4>2. e \in Seq(S)
        BY <1>5
      <4>3. Placed(x \o e, at, w)
        BY <3>5, <4>1, <4>2, PlacedMoves
      <4>4. QED
        BY <1>4, <4>3
    <3>7. QED
      BY <1>9, <3>1, <3>2, <3>3, <3>4, <3>6
  <2>2. CASE i = n + 1
    <3>1. i - 1 = n /\ n \in 0 .. n + 1 /\ n <= n
      BY <2>2
    <3>2. next[i - 1] = Len(x) /\ next[i] = Len(z) /\ f[longer[i]] = e
      BY <1>3, <1>8, <1>9, <1>10, <1>11, <2>2, <3>1
    <3>3. Placed(z, Len(x), e)
      <4>1. x \in Seq(S)
        BY <1>5
      <4>2. e \in Seq(S)
        BY <1>5
      <4>3. \A j \in 1 .. Len(e) : z[Len(x) + j] = e[j]
        BY <1>4, <4>1, <4>2, Joined
      <4>4. QED
        BY <1>6, <4>3, SMTT(60) DEF Placed
    <3>4. QED
      BY <1>6, <3>2, <3>3
  <2>3. QED
    BY <2>1, <2>2
<1>13. Tiles(next, z, f, longer)
  BY <1>8, <1>11, <1>12 DEF Tiles
<1>14. QED
  BY <1>5, <1>7, <1>13

LEMMA GatheredTiles ==
  ASSUME NEW A, NEW S, NEW f, Makes(f, A, S), NEW seq \in Seq(A)
  PROVE  \E off : Tiles(off, Gathered(f, seq), f, seq)
<1>1. PICK n \in Nat : n = Len(seq)
  BY LenProperties
<1> DEFINE first(k) == SubSeq(seq, 1, k)
           G == {k \in 0 .. n : \E off : Tiles(off, Gathered(f, first(k)), f, first(k))}
<1>2. 0 \in G
  <2>1. first(0) = << >>
    <3>1. 0 \in 0 .. Len(seq)
      BY <1>1
    <3>2. Len(first(0)) = 0 /\ first(0) \in Seq(A)
      BY <3>1, FirstsAre
    <3>3. QED
      BY <3>2, EmptySeq
  <2>2. PICK off : off = [i \in 0 .. 0 |-> 0]
    OBVIOUS
  <2>3. Tiles(off, << >>, f, << >>)
    <3>1. off \in [0 .. 0 -> Nat] /\ off[0] = 0
      BY <2>2
    <3>2. Len(<< >>) = 0 /\ \A i \in 1 .. 0 : FALSE
      OBVIOUS
    <3>3. QED
      BY <3>1, <3>2 DEF Tiles
  <2>4. Gathered(f, << >>) = << >>
    BY GatheredNone
  <2>5. Tiles(off, Gathered(f, first(0)), f, first(0)) /\ 0 \in 0 .. n
    <3> HIDE DEF first
    <3>1. QED
      BY <2>1, <2>3, <2>4
  <2>6. QED
    BY <2>5
<1>3. ASSUME NEW k \in 0 .. n, k < n, k \in G PROVE k + 1 \in G
  <2>1. k \in Nat /\ k + 1 <= Len(seq) /\ k + 1 \in 0 .. n /\ k \in 0 .. Len(seq) /\ k + 1 \in 1 .. Len(seq)
    BY <1>1, <1>3
  <2>2. PICK off : Tiles(off, Gathered(f, first(k)), f, first(k))
    BY <1>3
  <2>3. PICK e \in A : e = seq[k + 1]
    BY <2>1
  <2>4. first(k + 1) = Append(first(k), e)
    BY <2>1, <2>3, FirstsNext
  <2>5. PICK x \in Seq(A) : x = first(k)
    BY <2>1, FirstsAre
  <2>6. Tiles(off, Gathered(f, x), f, x)
    BY <2>2, <2>5
  <2>7. \E next : Tiles(next, Gathered(f, Append(x, e)), f, Append(x, e))
    BY <2>6, TilesNext
  <2>8. QED
    BY <2>1, <2>4, <2>5, <2>7
<1>4. \A k \in 0 .. n : k \in G
  <2> HIDE DEF G
  <2>1. \A k \in 0 .. n : k < n /\ k \in G => k + 1 \in G
    BY <1>3
  <2>2. QED
    BY <1>2, <2>1, Upwards
<1>5. first(n) = seq
  <2>1. n \in 0 .. Len(seq)
    BY <1>1
  <2>2. PICK y : y = first(n)
    OBVIOUS
  <2>3. y \in Seq(A) /\ Len(y) = n /\ \A i \in 1 .. n : y[i] = seq[i]
    BY <2>1, <2>2, FirstsAre
  <2>4. y = seq
    BY <1>1, <2>3, SeqEqual
  <2>5. QED
    BY <2>2, <2>4
<1>6. n \in 0 .. n
  OBVIOUS
<1>7. QED
  BY <1>4, <1>5, <1>6

\* What is placed in a sequence is placed behind whatever precedes it.
LEMMA PlacedAfter ==
  ASSUME NEW S, NEW h \in Seq(S), NEW s \in Seq(S), NEW at \in Nat, NEW x \in Seq(S), Placed(s, at, x)
  PROVE  Placed(h \o s, Len(h) + at, x)
<1>1. PICK z : z = h \o s
  OBVIOUS
<1>2. /\ z \in Seq(S) /\ Len(z) = Len(h) + Len(s)
      /\ \A i \in 1 .. Len(s) : z[Len(h) + i] = s[i]
  BY <1>1, Joined
<1>3. Len(h) \in Nat /\ Len(s) \in Nat /\ Len(x) \in Nat
  BY LenProperties
<1>4. at + Len(x) <= Len(s) /\ \A i \in 1 .. Len(x) : s[at + i] = x[i]
  BY DEF Placed
<1>5. ASSUME NEW i \in 1 .. Len(x) PROVE z[(Len(h) + at) + i] = x[i]
  <2>1. PICK j : j = at + i
    OBVIOUS
  <2>2. j \in 1 .. Len(s) /\ (Len(h) + at) + i = Len(h) + j
    BY <1>3, <1>4, <2>1
  <2>3. z[Len(h) + j] = s[j] /\ s[j] = x[i]
    BY <1>2, <1>4, <2>1, <2>2
  <2>4. QED
    BY <2>2, <2>3
<1>6. (Len(h) + at) + Len(x) <= Len(z)
  BY <1>2, <1>3, <1>4
<1>7. QED
  BY <1>1, <1>5, <1>6 DEF Placed

\* What is read where a number, or a part of something joined, was placed.
LEMMA JoinsBytes ==
  ASSUME NEW S, NEW x \in Seq(S), NEW y \in Seq(S), NEW z, Joins(z, x, y)
  PROVE  z \in Seq(S) /\ Len(z) = Len(x) + Len(y)
BY Joined DEF Joins

\* A sequence of elements of S, so long.
OfLength(x, S, n) == x \in Seq(S) /\ Len(x) = n

LEMMA JoinsLength ==
  ASSUME NEW S, NEW x, NEW y, NEW z, NEW i \in Nat, NEW j \in Nat, NEW n \in Nat, n = i + j,
         OfLength(x, S, i), OfLength(y, S, j), Joins(z, x, y)
  PROVE  OfLength(z, S, n)
<1>1. x \in Seq(S) /\ Len(x) = i
  BY DEF OfLength
<1>2. y \in Seq(S) /\ Len(y) = j
  BY DEF OfLength
<1>3. x \in Seq(S)
  BY <1>1
<1>4. y \in Seq(S)
  BY <1>2
<1>5. z \in Seq(S) /\ Len(z) = Len(x) + Len(y)
  BY <1>3, <1>4, JoinsBytes
<1>6. QED
  BY <1>1, <1>2, <1>5 DEF OfLength

LEMMA PlacedParts ==
  ASSUME NEW S, NEW x \in Seq(S), NEW y \in Seq(S), NEW z, Joins(z, x, y),
         NEW s \in Seq(S), NEW at \in Nat, Placed(s, at, z)
  PROVE  Placed(s, at, x) /\ Placed(s, at + Len(x), y)
<1>1. Placed(s, at, x \o y)
  BY DEF Joins
<1>2. QED
  BY <1>1, PlacedJoined

LEMMA PlacedFront ==
  ASSUME NEW S, NEW x, NEW y, NEW z, NEW i \in Nat, NEW j \in Nat, OfLength(x, S, i), OfLength(y, S, j),
         Joins(z, x, y), NEW s \in Seq(S), NEW at \in Nat, Placed(s, at, z)
  PROVE  Placed(s, at, x)
<1>1. x \in Seq(S) /\ Len(x) = i
  BY DEF OfLength
<1>2. y \in Seq(S) /\ Len(y) = j
  BY DEF OfLength
<1>3. x \in Seq(S)
  BY <1>1
<1>4. y \in Seq(S)
  BY <1>2
<1>5. QED
  BY <1>3, <1>4, PlacedParts

LEMMA PlacedBack ==
  ASSUME NEW S, NEW x, NEW y, NEW z, NEW i \in Nat, NEW j \in Nat, OfLength(x, S, i), OfLength(y, S, j),
         Joins(z, x, y), NEW s \in Seq(S), NEW at \in Nat, Placed(s, at, z), NEW a \in Nat, a = at + i
  PROVE  Placed(s, a, y)
<1>1. x \in Seq(S) /\ Len(x) = i
  BY DEF OfLength
<1>2. y \in Seq(S) /\ Len(y) = j
  BY DEF OfLength
<1>3. x \in Seq(S)
  BY <1>1
<1>4. y \in Seq(S)
  BY <1>2
<1>5. Placed(s, at + Len(x), y)
  BY <1>3, <1>4, PlacedParts
<1>6. QED
  BY <1>1, <1>5

LEMMA PlacedByte ==
  ASSUME NEW b \in 0 .. 255, NEW s \in Seq(0 .. 255), NEW at \in Nat, NEW x, x = <<b>>, Placed(s, at, x)
  PROVE  ByteAt(s, at + 1) = b /\ ReadBE(s, at, 1) = b
<1>1. Len(x) = 1 /\ x[1] = b
  OBVIOUS
<1>2. at + 1 <= Len(s) /\ s[at + 1] = b
  BY <1>1 DEF Placed
<1>3. ByteAt(s, at + 1) = b
  BY <1>2 DEF ByteAt
<1>4. \A i \in 1 .. 4 : at + i \in Nat /\ at + i # 0
  OBVIOUS
<1>5. \A i \in 1 .. 4 : ByteAt(s, at + i) \in Nat
  BY <1>4, ByteAtByte
<1>6. ReadBE(s, at, 1) = ByteAt(s, at + 1)
  BY <1>5, Digits
<1>7. QED
  BY <1>3, <1>6

LEMMA PlacedNumber ==
  ASSUME NEW v \in Nat, v <= Mark, NEW s \in Seq(0 .. 255), NEW at \in Nat, NEW x, x = BE(v, 3),
         Placed(s, at, x)
  PROVE  ReadBE(s, at, 3) = v
<1>1. Len(x) = 3
  <2>1. 3 \in 1 .. 4
    OBVIOUS
  <2>2. QED
    BY <2>1, BEBytes
<1>2. at + 3 <= Len(s) /\ \A i \in 1 .. 3 : s[at + i] = x[i]
  BY <1>1 DEF Placed
<1>3. Len(s) \in Nat /\ \A i \in 1 .. 3 : s[at + i] = BE(v, 3)[i]
  BY <1>2, LenProperties
<1>4. QED
  BY <1>2, <1>3, ReadBEBack

LEMMA PlacedWide ==
  ASSUME NEW v \in Nat, Bits32(v), NEW s \in Seq(0 .. 255), NEW at \in Nat,
         NEW x, x = BE(v, 4), Placed(s, at, x)
  PROVE  ReadBE(s, at, 4) = v
<1>1. Len(x) = 4
  <2>1. 4 \in 1 .. 4
    OBVIOUS
  <2>2. QED
    BY <2>1, BEBytes
<1>2. at + 4 <= Len(s) /\ \A i \in 1 .. 4 : s[at + i] = x[i]
  <2> HIDE DEF Placed
  <2>1. at + Len(x) <= Len(s) /\ \A i \in 1 .. Len(x) : s[at + i] = x[i]
    BY DEF Placed
  <2>2. QED
    BY <1>1, <2>1
<1>3. Len(s) \in Nat
  BY LenProperties
<1>4. at + 4 <= Len(s)
  BY <1>2
<1>5. \A i \in 1 .. 4 : s[at + i] = BE(v, 4)[i]
  BY <1>2
<1>6. QED
  BY <1>3, <1>4, <1>5, ReadBEBackWide

LEMMA PlacedStream ==
  ASSUME NEW v \in {0, 1}, NEW s \in Seq(0 .. 255), NEW at \in Nat,
         NEW x, x = LE(v, 4), Placed(s, at, x)
  PROVE  ReadLE(s, at, 4) = v
<1>1. Len(x) = 4
  <2>1. 4 \in 1 .. 4 /\ v \in Nat
    OBVIOUS
  <2>2. QED
    BY <2>1, BEBytes
<1>2. at + 4 <= Len(s) /\ \A i \in 1 .. 4 : s[at + i] = x[i]
  <2>1. at + Len(x) <= Len(s) /\ \A i \in 1 .. Len(x) : s[at + i] = x[i]
    BY DEF Placed
  <2>2. QED
    BY <1>1, <2>1
<1>3. \A i \in 1 .. 4 : s[at + i] = LE(v, 4)[i]
  BY <1>2
<1>4. QED
  BY <1>2, <1>3, ReadLEStreamBack

LEMMA LowBits ==
  ASSUME NEW v \in Nat
  PROVE  /\ v \div 16777216 \in Nat /\ v % 16777216 \in Nat /\ v % 16777216 < 16777216
         /\ v = 16777216 * (v \div 16777216) + (v % 16777216)
BY SMT

\* A timestamp is its 24 low bits and the rest.
LEMMA LowAndHigh ==
  ASSUME NEW v \in Nat, v \div (Mark + 1) < 256
  PROVE  /\ v % (Mark + 1) \in Nat /\ v % (Mark + 1) <= Mark
         /\ (v \div (Mark + 1)) % 256 \in 0 .. 255
         /\ (v % (Mark + 1)) + ((v \div (Mark + 1)) % 256) * (Mark + 1) = v
<1>1. Mark + 1 = 16777216 /\ Mark = 16777215
  BY SMT DEF Mark
<1>2. v \div 16777216 \in Nat /\ v \div 16777216 < 256
  BY <1>1, SMT
<1>4. /\ v % 16777216 \in Nat /\ v % 16777216 < 16777216
      /\ v = 16777216 * (v \div 16777216) + (v % 16777216)
  BY LowBits, SMT
<1>5. PICK h \in Nat : h = v \div 16777216
  BY <1>2, SMT
<1>6. PICK l \in Nat : l = v % 16777216 /\ l <= Mark
  BY <1>1, <1>4, SMT
<1>7. h < 256 /\ v = 16777216 * h + l
  BY <1>2, <1>4, <1>5, <1>6, SMT
<1>3. h % 256 = h
  BY <1>7, SMT
<1>8. h \in 0 .. 255
  BY <1>7, SMT
<1>9. v % (Mark + 1) = l /\ v \div (Mark + 1) = h
  BY <1>1, <1>5, <1>6, SMT
<1>10. l \in Nat /\ l <= Mark
  BY <1>6, SMT
<1>11. l + h * (Mark + 1) = v
  BY <1>1, <1>7, SMT
<1>12. (v \div (Mark + 1)) % 256 = h
  BY <1>3, <1>9, Zenon
<1>13. v % (Mark + 1) \in Nat /\ v % (Mark + 1) <= Mark
  BY <1>9, <1>10, Zenon
<1>14. (v \div (Mark + 1)) % 256 \in 0 .. 255
  BY <1>8, <1>12, Zenon
<1>15. (v % (Mark + 1)) + ((v \div (Mark + 1)) % 256) * (Mark + 1) = v
  BY <1>9, <1>11, <1>12, Zenon
<1>16. QED
  BY <1>13, <1>14, <1>15, Zenon

-----------------------------------------------------------------------------
(* What the server writes, as a client reads it.                           *)

LEMMA TimesGrows ==
  ASSUME NEW size \in Nat, NEW i \in Nat, NEW j \in Nat, i <= j
  PROVE  i * size \in Nat /\ j * size \in Nat /\ i * size <= j * size
<1>1. PICK d \in Nat : j = i + d
  <2>1. j - i \in Nat /\ j = i + (j - i)
    OBVIOUS
  <2>2. QED
    BY <2>1
<1>2. d * size >= 0 /\ d * size \in Nat /\ i * size \in Nat
  BY SMT
<1>3. j * size = i * size + d * size
  BY <1>1, SMT
<1>4. QED
  BY <1>2, <1>3, SMT

LEMMA CeilingIs ==
  ASSUME NEW size \in Nat \ {0}, NEW len \in Nat, NEW n, n = (len + size - 1) \div size
  PROVE  n \in Nat /\ len <= n * size /\ n * size < len + size
<1>1. PICK v \in Nat : v = len + size - 1
  <2>1. len + size - 1 \in Nat
    OBVIOUS
  <2>2. QED
    BY <2>1
<1>2. n \in Nat /\ size * n <= v /\ v < size * n + size
  BY <1>1, SMT
<1>3. QED
  BY <1>1, <1>2, SMT

\* How many chunks a message is cut into.
LEMMA PieceCount ==
  ASSUME NEW size \in Nat \ {0}, NEW len \in Nat, NEW n, n = (len + size - 1) \div size
  PROVE  /\ n \in Nat /\ len <= n * size /\ (n = 0 <=> len = 0)
         /\ \A k \in Nat : k < n => k * size \in Nat /\ k * size < len
<1>1. n \in Nat /\ len <= n * size /\ n * size < len + size
  BY CeilingIs
<1>2. ASSUME NEW k \in Nat, k < n PROVE k * size \in Nat /\ k * size < len
  <2>1. (k + 1) * size <= n * size /\ k * size \in Nat
    <3>1. size \in Nat /\ k \in Nat /\ k + 1 \in Nat /\ k + 1 <= n /\ k <= k + 1
      BY <1>1, <1>2
    <3>2. QED
      BY <1>1, <3>1, TimesGrows
  <2>2. (k + 1) * size = k * size + size
    BY SMT
  <2>3. QED
    BY <1>1, <2>1, <2>2, SMT
<1>3. n = 0 => len = 0
  <2>1. 0 * size = 0
    BY SMT
  <2>2. QED
    BY <1>1, <2>1
<1>4. n # 0 => len # 0
  BY <1>1, <1>2
<1>5. QED
  BY <1>1, <1>2, <1>3, <1>4

OutMessage(m) ==
  /\ m.csId \in {4, 6} /\ m.typeId \in 0 .. 255 /\ m.streamId \in {0, 1} /\ m.timestamp \in Nat
  /\ m.data \in Seq(0 .. 255) /\ Len(m.data) <= Mark

\* The timestamps that come through: all of 32 bits but the mark itself.
ClearStamp(m) == m.timestamp # Mark /\ Bits32(m.timestamp)

Stamp(m) == IF m.timestamp > Mark THEN Mark ELSE m.timestamp
Extension(m) == IF m.timestamp > Mark THEN BE(m.timestamp, 4) ELSE << >>

FormatFields(format, m) ==
  CASE format = 0 -> BE(Stamp(m), 3) \o (BE(Len(m.data), 3) \o BE(m.typeId, 1)) \o LE(m.streamId, 4)
    [] format = 1 -> BE(Stamp(m), 3) \o (BE(Len(m.data), 3) \o BE(m.typeId, 1))
    [] format = 2 -> BE(Stamp(m), 3)
    [] format = 3 -> << >>

\* One after the other, the parts of a chunk's header.
HeadParts(m, p) ==
  /\ p[1] = <<m.csId>>
  /\ Joins(p[2], BE(Len(m.data), 3), BE(m.typeId, 1))
  /\ Joins(p[3], BE(Stamp(m), 3), p[2])
  /\ Joins(p[4], p[3], LE(m.streamId, 4))
  /\ Joins(p[5], p[1], p[4])
  /\ Joins(p[6], p[5], Extension(m))

LEMMA BasicOut ==
  ASSUME NEW c \in {4, 6}
  PROVE  WriteBasicHead(0, c) = <<c>> /\ WriteBasicHead(3, c) = <<192 + c>>
<1>1. WriteBasicHead(0, c) = BE(0 * 64 + c, 1) /\ WriteBasicHead(3, c) = BE(3 * 64 + c, 1)
  BY DEF WriteBasicHead
<1>2. PICK v \in Nat : v = 0 * 64 + c /\ v = c /\ v < 256
  OBVIOUS
<1>3. PICK w \in Nat : w = 3 * 64 + c /\ w = 192 + c /\ w < 256
  OBVIOUS
<1>4. BE(v, 1) = <<v>> /\ BE(w, 1) = <<w>>
  BY <1>2, <1>3, BEOne
<1>5. QED
  BY <1>1, <1>2, <1>3, <1>4

LEMMA FirstHeadIs ==
  ASSUME NEW m, OutMessage(m)
  PROVE  \E p : HeadParts(m, p) /\ WriteChunkHead(0, m) = p[6]
<1>1. PICK basic : basic = <<m.csId>>
  OBVIOUS
<1>2. PICK kind : kind = BE(Len(m.data), 3) \o BE(m.typeId, 1)
  OBVIOUS
<1>3. PICK front : front = BE(Stamp(m), 3) \o kind
  OBVIOUS
<1>4. PICK fields : fields = front \o LE(m.streamId, 4)
  OBVIOUS
<1>5. PICK narrow : narrow = basic \o fields
  OBVIOUS
<1>6. PICK head : head = narrow \o Extension(m)
  OBVIOUS
<1>7. WriteChunkHead(0, m) = head
  <2>1. WriteBasicHead(0, m.csId) = basic
    BY <1>1, BasicOut DEF OutMessage
  <2>2. WriteChunkHead(0, m) = WriteBasicHead(0, m.csId) \o FormatFields(0, m) \o Extension(m)
    BY Zenon DEF WriteChunkHead, FormatFields, Stamp, Extension
  <2>3. FormatFields(0, m) = fields
    BY <1>2, <1>3, <1>4 DEF FormatFields
  <2>4. QED
    BY <1>5, <1>6, <2>1, <2>2, <2>3
<1>8. PICK p : p = [i \in 1 .. 6 |-> <<basic, kind, front, fields, narrow, head>>[i]]
  OBVIOUS
<1>9. p[1] = basic /\ p[2] = kind /\ p[3] = front /\ p[4] = fields /\ p[5] = narrow /\ p[6] = head
  BY <1>8, SMTT(60)
<1>10. HeadParts(m, p)
  BY <1>1, <1>2, <1>3, <1>4, <1>5, <1>6, <1>9 DEF HeadParts, Joins
<1>11. QED
  BY <1>7, <1>9, <1>10

LEMMA NextHeadIs ==
  ASSUME NEW m, OutMessage(m)
  PROVE  Joins(WriteChunkHead(3, m), <<192 + m.csId>>, Extension(m))
<1>1. WriteBasicHead(3, m.csId) = <<192 + m.csId>>
  BY BasicOut DEF OutMessage
<1>2. PICK basic : basic = <<192 + m.csId>>
  OBVIOUS
<1>3. WriteChunkHead(3, m) = (WriteBasicHead(3, m.csId) \o << >>) \o Extension(m)
  <2>1. WriteChunkHead(3, m) = WriteBasicHead(3, m.csId) \o FormatFields(3, m) \o Extension(m)
    BY Zenon DEF WriteChunkHead, FormatFields, Stamp, Extension
  <2>2. FormatFields(3, m) = << >>
    BY DEF FormatFields
  <2>3. QED
    BY <2>1, <2>2
<1>4. basic \o << >> = basic
  <2>1. basic \in Seq(Nat)
    BY <1>2 DEF OutMessage
  <2>2. QED
    BY <2>1, ConcatEmptySeq
<1>5. QED
  BY <1>1, <1>2, <1>3, <1>4 DEF Joins

LEMMA ByteLength ==
  ASSUME NEW b \in 0 .. 255, NEW x, x = <<b>>
  PROVE  OfLength(x, 0 .. 255, 1)
BY DEF OfLength

LEMMA NumberLength ==
  ASSUME NEW v \in Nat, NEW n \in 1 .. 4
  PROVE  OfLength(BE(v, n), 0 .. 255, n) /\ OfLength(LE(v, n), 0 .. 255, n)
BY BEBytes DEF OfLength

LEMMA LaterByte ==
  ASSUME NEW c \in {4, 6}
  PROVE  192 + c \in 0 .. 255
OBVIOUS

\* Of how many bytes the timestamp of m makes each header longer.
Wide(m) == IF m.timestamp > Mark THEN 4 ELSE 0

LEMMA ExtensionLength ==
  ASSUME NEW m, OutMessage(m)
  PROVE  OfLength(Extension(m), 0 .. 255, Wide(m))
<1>1. m.timestamp \in Nat
  BY DEF OutMessage
<1>2. CASE m.timestamp > Mark
  <2>1. PICK v \in Nat : v = m.timestamp
    BY <1>1
  <2>2. 4 \in 1 .. 4
    OBVIOUS
  <2>3. OfLength(BE(v, 4), 0 .. 255, 4)
    BY <2>2, NumberLength
  <2>4. QED
    BY <1>2, <2>1, <2>3 DEF Extension, Wide
<1>3. CASE ~(m.timestamp > Mark)
  <2>1. << >> \in Seq(0 .. 255) /\ Len(<< >>) = 0
    OBVIOUS
  <2>2. QED
    BY <1>3, <2>1 DEF Extension, Wide, OfLength
<1>4. QED
  BY <1>2, <1>3

HeadSizes(m, p, n, B) ==
  /\ OfLength(p[1], B, 1) /\ OfLength(p[2], B, 4) /\ OfLength(p[3], B, 7) /\ OfLength(p[4], B, 11)
  /\ OfLength(p[5], B, 12) /\ OfLength(p[6], B, n)
  /\ OfLength(BE(Len(m.data), 3), B, 3) /\ OfLength(BE(m.typeId, 1), B, 1) /\ OfLength(BE(Stamp(m), 3), B, 3)
  /\ OfLength(LE(m.streamId, 4), B, 4)

LEMMA HeadLengths ==
  ASSUME NEW m, OutMessage(m), NEW p, HeadParts(m, p), NEW n \in Nat, n = 12 + Wide(m), NEW B, B = 0 .. 255
  PROVE  HeadSizes(m, p, n, B) /\ OfLength(Extension(m), B, Wide(m))
<1>1. PICK len \in Nat : len = Len(m.data)
  BY LenProperties DEF OutMessage
<1>2. PICK type \in Nat : type = m.typeId
  <2>1. m.typeId \in 0 .. 255
    BY DEF OutMessage
  <2>2. QED
    BY <2>1
<1>3. PICK stamp \in Nat : stamp = Stamp(m)
  BY MarkNat DEF OutMessage, Stamp
<1>4. PICK stream \in Nat : stream = m.streamId
  BY DEF OutMessage
<1>5. PICK cs \in 0 .. 255 : cs = m.csId
  BY SMTT(60) DEF OutMessage
<1>6. PICK wide \in Nat : wide = Wide(m) /\ n = 12 + wide
  BY DEF Wide
<1>7. 1 \in 1 .. 4 /\ 3 \in 1 .. 4 /\ 4 \in 1 .. 4
  OBVIOUS
<1>8. OfLength(BE(len, 3), B, 3)
  BY <1>7, NumberLength
<1>9. OfLength(BE(type, 1), B, 1)
  BY <1>7, NumberLength
<1>10. OfLength(BE(stamp, 3), B, 3)
  BY <1>7, NumberLength
<1>11. OfLength(LE(stream, 4), B, 4)
  BY <1>7, NumberLength
<1>12. OfLength(Extension(m), B, wide)
  BY <1>6, ExtensionLength
<1>13. /\ p[1] = <<cs>> /\ Joins(p[2], BE(len, 3), BE(type, 1)) /\ Joins(p[3], BE(stamp, 3), p[2])
       /\ Joins(p[4], p[3], LE(stream, 4)) /\ Joins(p[5], p[1], p[4]) /\ Joins(p[6], p[5], Extension(m))
  BY <1>1, <1>2, <1>3, <1>4, <1>5 DEF HeadParts
<1>14. OfLength(p[1], B, 1)
  BY <1>13, ByteLength
<1>15. OfLength(p[2], B, 4)
  BY <1>8, <1>9, <1>13, JoinsLength
<1>16. OfLength(p[3], B, 7)
  BY <1>10, <1>13, <1>15, JoinsLength
<1>17. OfLength(p[4], B, 11)
  BY <1>11, <1>13, <1>16, JoinsLength
<1>18. OfLength(p[5], B, 12)
  BY <1>13, <1>14, <1>17, JoinsLength
<1>19. OfLength(p[6], B, n)
  BY <1>6, <1>12, <1>13, <1>18, JoinsLength
<1>20. QED
  BY ZenonT(60), <1>1, <1>2, <1>3, <1>4, <1>6, <1>8, <1>9, <1>10, <1>11, <1>12, <1>14, <1>15, <1>16, <1>17, <1>18,
     <1>19, Zenon DEF HeadSizes

LEMMA NextHeadLength ==
  ASSUME NEW m, OutMessage(m), NEW n \in Nat, n = 1 + Wide(m)
  PROVE  OfLength(WriteChunkHead(3, m), 0 .. 255, n)
<1>1. PICK first \in 0 .. 255 : first = 192 + m.csId
  BY LaterByte, ZenonT(60) DEF OutMessage
<1>2. PICK x : x = <<first>>
  OBVIOUS
<1>3. OfLength(x, 0 .. 255, 1)
  BY <1>2, ByteLength
<1>4. PICK wide \in Nat : wide = Wide(m) /\ n = 1 + wide
  BY DEF Wide
<1>5. OfLength(Extension(m), 0 .. 255, wide)
  BY <1>4, ExtensionLength
<1>6. Joins(WriteChunkHead(3, m), x, Extension(m))
  BY <1>1, <1>2, NextHeadIs
<1>7. QED
  BY <1>3, <1>4, <1>5, <1>6, JoinsLength

\* What a client finds of the header of a message's first chunk, and of another.
ReadsFirst(m, s, at) ==
  /\ s[at + 1] = m.csId /\ ReadBE(s, at + 1, 3) = Stamp(m)
  /\ m.timestamp > Mark => ReadBE(s, at + 12, 4) = m.timestamp
  /\ ReadBE(s, at + 4, 3) = Len(m.data) /\ ReadBE(s, at + 7, 1) = m.typeId
  /\ ReadLE(s, at + 8, 4) = m.streamId

LEMMA FirstRead ==
  ASSUME NEW m, OutMessage(m), ClearStamp(m), NEW s \in Seq(0 .. 255), NEW at \in Nat,
         Placed(s, at, WriteChunkHead(0, m))
  PROVE  ReadsFirst(m, s, at)
<1>1. PICK len \in Nat : len = Len(m.data) /\ len <= Mark
  BY LenProperties DEF OutMessage
<1>2. PICK type \in 0 .. 255 : type = m.typeId
  BY DEF OutMessage
<1>3. PICK stamp \in Nat : stamp = Stamp(m) /\ stamp <= Mark
  BY MarkNat DEF OutMessage, Stamp
<1>4. PICK stream \in {0, 1} : stream = m.streamId
  BY DEF OutMessage
<1>5. PICK cs \in 0 .. 255 : cs = m.csId
  BY DEF OutMessage
<1>6. PICK wide \in Nat : wide = Wide(m)
  BY DEF Wide
<1>7. PICK n \in Nat : n = 12 + wide /\ n = 12 + Wide(m)
  BY <1>6
<1>8. PICK p : HeadParts(m, p) /\ WriteChunkHead(0, m) = p[6]
  BY FirstHeadIs
<1>9. PICK B : B = 0 .. 255
  OBVIOUS
<1>10. /\ OfLength(p[1], B, 1) /\ OfLength(p[2], B, 4) /\ OfLength(p[3], B, 7) /\ OfLength(p[4], B, 11)
       /\ OfLength(p[5], B, 12) /\ OfLength(p[6], B, n)
       /\ OfLength(BE(len, 3), B, 3) /\ OfLength(BE(type, 1), B, 1) /\ OfLength(BE(stamp, 3), B, 3)
       /\ OfLength(LE(stream, 4), B, 4) /\ OfLength(Extension(m), B, wide)
  <2>1. HeadSizes(m, p, n, B) /\ OfLength(Extension(m), B, Wide(m))
    BY <1>7, <1>8, <1>9, HeadLengths
  <2>2. QED
    BY <1>1, <1>2, <1>3, <1>4, <1>6, <2>1, Zenon DEF HeadSizes
<1>11. /\ p[1] = <<cs>> /\ Joins(p[2], BE(len, 3), BE(type, 1)) /\ Joins(p[3], BE(stamp, 3), p[2])
       /\ Joins(p[4], p[3], LE(stream, 4)) /\ Joins(p[5], p[1], p[4]) /\ Joins(p[6], p[5], Extension(m))
  BY <1>1, <1>2, <1>3, <1>4, <1>5, <1>8, Zenon DEF HeadParts
<1>12. PICK a1 \in Nat, a4 \in Nat, a7 \in Nat, a8 \in Nat, a12 \in Nat :
         a1 = at + 1 /\ a4 = a1 + 3 /\ a7 = a4 + 3 /\ a8 = a1 + 7 /\ a12 = at + 12
  OBVIOUS
<1>13. a4 = at + 4 /\ a7 = at + 7 /\ a8 = at + 8
  BY <1>12
<1>14. s \in Seq(B) /\ Placed(s, at, p[6])
  BY <1>8, <1>9
<1>15. Placed(s, at, p[5])
  BY <1>10, <1>11, <1>14, PlacedFront, SMTT(60)
<1>16. Placed(s, a12, Extension(m))
  BY <1>10, <1>11, <1>12, <1>14, PlacedBack
<1>17. Placed(s, at, p[1])
  BY <1>10, <1>11, <1>14, <1>15, PlacedFront, SMTT(60)
<1>18. Placed(s, a1, p[4])
  BY <1>10, <1>11, <1>12, <1>14, <1>15, PlacedBack, ZenonT(60)
<1>19. Placed(s, a1, p[3])
  BY <1>10, <1>11, <1>14, <1>18, PlacedFront, SMTT(60)
<1>20. Placed(s, a8, LE(stream, 4))
  BY <1>10, <1>11, <1>12, <1>14, <1>18, PlacedBack, SMTT(60)
<1>21. Placed(s, a1, BE(stamp, 3))
  BY <1>10, <1>11, <1>14, <1>19, PlacedFront, ZenonT(60)
<1>22. Placed(s, a4, p[2])
  BY <1>10, <1>11, <1>12, <1>14, <1>19, PlacedBack, SMTT(60)
<1>23. Placed(s, a4, BE(len, 3))
  BY <1>10, <1>11, <1>14, <1>22, PlacedFront, ZenonT(60)
<1>24. Placed(s, a7, BE(type, 1))
  BY <1>10, <1>11, <1>12, <1>14, <1>22, PlacedBack, SMTT(60)
<1>25. s[at + 1] = cs
  <2>1. Len(p[1]) = 1 /\ p[1][1] = cs
    BY <1>11
  <2>2. QED
    BY <1>17, <2>1 DEF Placed
<1>26. ReadBE(s, a1, 3) = stamp
  BY <1>3, <1>21, PlacedNumber
<1>27. ReadBE(s, a4, 3) = len
  BY <1>1, <1>23, PlacedNumber
<1>28. ReadBE(s, a7, 1) = type
  <2>1. type \in Nat /\ type < 256
    OBVIOUS
  <2>2. BE(type, 1) = <<type>>
    BY <2>1, BEOne
  <2>3. QED
    BY <1>24, <2>2, PlacedByte
<1>29. ReadLE(s, a8, 4) = stream
  BY <1>20, PlacedStream
<1>30. ASSUME m.timestamp > Mark PROVE ReadBE(s, a12, 4) = m.timestamp
  <2>1. PICK v \in Nat : v = m.timestamp /\ Bits32(v)
    BY DEF OutMessage, ClearStamp
  <2>2. Placed(s, a12, BE(v, 4))
    BY <1>16, <1>30, <2>1 DEF Extension
  <2>3. QED
    BY <2>1, <2>2, PlacedWide
<1>31. QED
  BY <1>1, <1>2, <1>3, <1>4, <1>5, <1>12, <1>13, <1>25, <1>26, <1>27, <1>28, <1>29, <1>30 DEF ReadsFirst

LEMMA NextRead ==
  ASSUME NEW m, OutMessage(m), NEW s \in Seq(0 .. 255), NEW at \in Nat, Placed(s, at, WriteChunkHead(3, m))
  PROVE  s[at + 1] = 192 + m.csId
<1>1. PICK first \in 0 .. 255 : first = 192 + m.csId
  BY LaterByte, ZenonT(60) DEF OutMessage
<1>2. PICK x : x = <<first>>
  OBVIOUS
<1>3. OfLength(x, 0 .. 255, 1)
  BY <1>2, ByteLength
<1>4. PICK wide \in Nat : wide = Wide(m)
  BY DEF Wide
<1>5. OfLength(Extension(m), 0 .. 255, wide)
  BY <1>4, ExtensionLength
<1>6. Joins(WriteChunkHead(3, m), x, Extension(m))
  BY <1>1, <1>2, NextHeadIs
<1>7. Placed(s, at, x)
  BY <1>3, <1>5, <1>6, PlacedFront
<1>8. Len(x) = 1 /\ x[1] = first
  BY <1>2
<1>9. QED
  BY <1>1, <1>7, <1>8 DEF Placed

\* A piece of a sequence, behind what comes before it.
PieceAt(data, k, size, take) ==
  /\ take \in Nat /\ take = Least(Len(data) - k, size) /\ k + take <= Len(data)
  /\ Len(Slice(data, k, size)) = take
  /\ SubSeq(data, 1, k) \o Slice(data, k, size) = SubSeq(data, 1, k + take)

LEMMA PieceIs ==
  ASSUME NEW S, NEW data \in Seq(S), NEW k \in Nat, k <= Len(data), NEW size \in Nat
  PROVE  \E take : PieceAt(data, k, size, take) /\ Slice(data, k, size) \in Seq(S)
<1>1. PICK len \in Nat : len = Len(data)
  BY LenProperties
<1>2. PICK take \in Nat : take = Least(len - k, size) /\ k + take <= len
  <2>1. Least(len - k, size) \in Nat /\ k + Least(len - k, size) <= len
    BY <1>1 DEF Least
  <2>2. QED
    BY <2>1
<1>3. PICK y : y = Slice(data, k, size)
  OBVIOUS
<1>4. y \in Seq(S) /\ Len(y) = take /\ \A i \in 1 .. take : y[i] = data[k + i]
  <2>1. /\ y \in Seq(S)
        /\ Len(y) = IF k + size <= Len(data) THEN size ELSE IF k <= Len(data) THEN Len(data) - k ELSE 0
        /\ \A i \in 1 .. Len(y) : y[i] = data[k + i]
    BY <1>3, SliceBytes
  <2>2. Len(y) = take
    BY <1>1, <1>2, <2>1 DEF Least
  <2>3. QED
    BY <2>1, <2>2
<1>5. PICK x : x = SubSeq(data, 1, k)
  OBVIOUS
<1>6. x \in Seq(S) /\ Len(x) = k /\ \A i \in 1 .. k : x[i] = data[i]
  <2>1. k \in 0 .. Len(data)
    BY <1>1
  <2>2. QED
    BY <1>5, <2>1, FirstsAre
<1>7. PICK n \in 0 .. Len(data) : n = k + take
  BY <1>1, <1>2
<1>8. PICK w : w = SubSeq(data, 1, n)
  OBVIOUS
<1>9. w \in Seq(S) /\ Len(w) = n /\ \A i \in 1 .. n : w[i] = data[i]
  BY <1>8, FirstsAre
<1>10. PICK z : z = x \o y
  OBVIOUS
<1>11. /\ z \in Seq(S) /\ Len(z) = k + take
       /\ (\A i \in 1 .. k : z[i] = x[i]) /\ \A i \in 1 .. take : z[k + i] = y[i]
  <2>1. x \in Seq(S)
    BY <1>6
  <2>2. y \in Seq(S)
    BY <1>4
  <2>3. /\ z \in Seq(S) /\ Len(z) = Len(x) + Len(y)
        /\ (\A i \in 1 .. Len(x) : z[i] = x[i]) /\ \A i \in 1 .. Len(y) : z[Len(x) + i] = y[i]
    BY <1>10, <2>1, <2>2, Joined
  <2>4. Len(x) = k /\ Len(y) = take
    BY <1>4, <1>6
  <2>5. QED
    BY <2>3, <2>4
<1>12. ASSUME NEW i \in 1 .. n PROVE z[i] = w[i]
  <2>1. CASE i \in 1 .. k
    BY <1>6, <1>9, <1>11, <2>1
  <2>2. CASE i \notin 1 .. k
    <3>1. i - k \in 1 .. take /\ i = k + (i - k)
      BY <1>7, <2>2
    <3>2. PICK j \in 1 .. take : i = k + j
      BY <3>1
    <3>3. QED
      BY <1>4, <1>9, <1>11, <3>2
  <2>3. QED
    BY <2>1, <2>2
<1>13. z = w
  <2>1. z \in Seq(S)
    BY <1>11
  <2>2. w \in Seq(S)
    BY <1>9
  <2>3. Len(z) = Len(w) /\ \A i \in 1 .. Len(z) : z[i] = w[i]
    BY <1>7, <1>9, <1>11, <1>12
  <2>4. QED
    BY <2>1, <2>2, <2>3, SeqEqual
<1>14. PieceAt(data, k, size, take)
  BY <1>1, <1>2, <1>3, <1>4, <1>5, <1>7, <1>8, <1>10, <1>13 DEF PieceAt
<1>15. QED
  BY <1>3, <1>4, <1>14

\* A client that has k bytes of m's payload.
Holds(m, k) ==
  [timestamp |-> m.timestamp, length |-> 0, typeId |-> m.typeId, streamId |-> m.streamId,
   timeDelta |-> 0, extend |-> m.timestamp > Mark, remain |-> Len(m.data) - k, data |-> SubSeq(m.data, 1, k)]

Plain(m) == [typeId |-> m.typeId, streamId |-> m.streamId, timestamp |-> m.timestamp, data |-> m.data]

ClientAt(r, at, got) == r.at = at /\ r.got = got

Holding(r, at, got, m, k) ==
  IF k = Len(m.data) THEN ClientAt(r, at, Append(got, Plain(m)))
  ELSE ClientAt(r, at, got) /\ m.csId \in DOMAIN r.open /\ r.open[m.csId] = Holds(m, k)

\* The parts of ClientReads: the chunk it finds the header for, and where the payload is.
Was(r, s) ==
  IF s[r.at + 1] \div 64 = 0 \/ s[r.at + 1] % 64 \notin DOMAIN r.open THEN NewChunk
  ELSE r.open[s[r.at + 1] % 64]
IsWide(r, s) ==
  IF s[r.at + 1] \div 64 = 0 THEN ReadBE(s, r.at + 1, 3) = Mark ELSE Was(r, s).extend
AfterHead(r, s) ==
  (r.at + (IF s[r.at + 1] \div 64 = 0 THEN 12 ELSE 1)) + (IF IsWide(r, s) THEN 4 ELSE 0)
Now(r, s) ==
  IF s[r.at + 1] \div 64 # 0 THEN Was(r, s)
  ELSE [NewChunk EXCEPT
         !.timestamp = IF IsWide(r, s)
                       THEN ReadBE(s, r.at + (IF s[r.at + 1] \div 64 = 0 THEN 12 ELSE 1), 4)
                       ELSE ReadBE(s, r.at + 1, 3),
         !.remain = ReadBE(s, r.at + 4, 3),
         !.typeId = ReadBE(s, r.at + 7, 1),
         !.streamId = ReadLE(s, r.at + 8, 4),
         !.extend = IsWide(r, s)]
Filled(c, s, at, size) ==
  [c EXCEPT !.remain = @ - Least(c.remain, size), !.data = @ \o Slice(s, at, Least(c.remain, size))]
ReadOn(r, cs, full, at) ==
  [at |-> at,
   open |-> [k \in DOMAIN r.open \cup {cs} |-> IF k = cs THEN full ELSE r.open[k]],
   got |-> IF full.remain # 0 THEN r.got
           ELSE Append(r.got, [typeId |-> full.typeId, streamId |-> full.streamId,
                               timestamp |-> full.timestamp, data |-> full.data])]

LEMMA ClientReadsIs ==
  ASSUME NEW r, NEW s, NEW size
  PROVE  ClientReads(r, s, size) =
           IF r.at >= Len(s) THEN r
           ELSE ReadOn(r, s[r.at + 1] % 64, Filled(Now(r, s), s, AfterHead(r, s), size),
                       AfterHead(r, s) + Least(Now(r, s).remain, size))
BY Zenon DEF ClientReads, Was, IsWide, AfterHead, Now, Filled, ReadOn

\* A chunk that has k bytes of the payload takes the next piece.
LEMMA TakesNext ==
  ASSUME NEW m, OutMessage(m), NEW k \in Nat, k < Len(m.data), NEW size \in Nat \ {0},
         NEW s \in Seq(0 .. 255), NEW at \in Nat, Placed(s, at, Slice(m.data, k, size)),
         NEW r, NEW got, r.got = got, NEW take, PieceAt(m.data, k, size, take),
         NEW c, c = Holds(m, k), NEW end, end = at + Least(c.remain, size)
  PROVE  Holding(ReadOn(r, m.csId, Filled(c, s, at, size), end), at + take, got, m, k + take)
<1>1. PICK len \in Nat : len = Len(m.data)
  BY LenProperties DEF OutMessage
<1>2. PICK y : y = Slice(m.data, k, size)
  OBVIOUS
<1>3. y \in Seq(0 .. 255) /\ Len(y) = take
  <2>1. m.data \in Seq(0 .. 255)
    BY DEF OutMessage
  <2>2. y \in Seq(0 .. 255)
    BY <1>2, <2>1, SliceBytes
  <2>3. QED
    BY <1>2, <2>2 DEF PieceAt
<1>4. take \in Nat /\ take = Least(len - k, size) /\ k + take <= len
  BY <1>1 DEF PieceAt
<1>5. c.remain = len - k /\ Least(c.remain, size) = take
  BY <1>1, <1>4 DEF Holds
<1>6. Slice(s, at, take) = y
  BY <1>2, <1>3, SlicePlaced
<1>7. PICK front : front = SubSeq(m.data, 1, k)
  OBVIOUS
<1>8. PICK more : more = SubSeq(m.data, 1, k + take)
  OBVIOUS
<1>9. front \o y = more
  BY <1>2, <1>7, <1>8 DEF PieceAt
<1>10. PICK full : full = Filled(c, s, at, size)
  OBVIOUS
<1>11. full = [c EXCEPT !.remain = (len - k) - take, !.data = front \o y]
  BY <1>5, <1>6, <1>7, <1>10 DEF Filled, Holds
<1>12. full = Holds(m, k + take)
  <2>1. (len - k) - take = len - (k + take)
    BY <1>4
  <2>2. PICK rest : rest = len - (k + take)
    OBVIOUS
  <2>3. PICK wide : wide = (m.timestamp > Mark)
    OBVIOUS
  <2>4. c = [timestamp |-> m.timestamp, length |-> 0, typeId |-> m.typeId, streamId |-> m.streamId,
             timeDelta |-> 0, extend |-> wide, remain |-> len - k, data |-> front]
    BY <1>1, <1>7, <2>3, Zenon DEF Holds
  <2>5. Holds(m, k + take) =
          [timestamp |-> m.timestamp, length |-> 0, typeId |-> m.typeId, streamId |-> m.streamId,
           timeDelta |-> 0, extend |-> wide, remain |-> rest, data |-> more]
    BY <1>1, <1>8, <2>2, <2>3, Zenon DEF Holds
  <2>6. full = [c EXCEPT !.remain = rest, !.data = more]
    BY <1>9, <1>11, <2>1, <2>2
  <2>7. full = [timestamp |-> m.timestamp, length |-> 0, typeId |-> m.typeId, streamId |-> m.streamId,
                timeDelta |-> 0, extend |-> wide, remain |-> rest, data |-> more]
    <3>1. PICK left : left = len - k
      OBVIOUS
    <3>2. PICK ts, type, stream : ts = m.timestamp /\ type = m.typeId /\ stream = m.streamId
      OBVIOUS
    <3>3. c = [timestamp |-> ts, length |-> 0, typeId |-> type, streamId |-> stream,
               timeDelta |-> 0, extend |-> wide, remain |-> left, data |-> front]
      BY <2>4, <3>1, <3>2
    <3>4. PICK b : b = [c EXCEPT !.remain = rest]
      OBVIOUS
    <3>5. b = [timestamp |-> ts, length |-> 0, typeId |-> type, streamId |-> stream,
               timeDelta |-> 0, extend |-> wide, remain |-> rest, data |-> front]
      BY <3>3, <3>4
    <3>6. full = [b EXCEPT !.data = more]
      BY <2>6, <3>4
    <3>7. full = [timestamp |-> ts, length |-> 0, typeId |-> type, streamId |-> stream,
                  timeDelta |-> 0, extend |-> wide, remain |-> rest, data |-> more]
      BY <3>5, <3>6
    <3>8. QED
      BY <3>2, <3>7
  <2>8. QED
    BY <2>5, <2>7
<1>13. full.remain = len - (k + take) /\ full.data = more
  BY <1>1, <1>8, <1>12 DEF Holds
<1>14. PICK q : q = ReadOn(r, m.csId, full, end)
  OBVIOUS
<1>15. /\ q.at = at + take /\ m.csId \in DOMAIN q.open /\ q.open[m.csId] = full
       /\ q.got = IF full.remain # 0 THEN got
                  ELSE Append(got, [typeId |-> full.typeId, streamId |-> full.streamId,
                                    timestamp |-> full.timestamp, data |-> full.data])
  BY <1>5, <1>14 DEF ReadOn
<1>16. CASE k + take = len
  <2>1. more = m.data
    <3>1. PICK x \in Seq(0 .. 255) : x = m.data
      BY DEF OutMessage
    <3>2. PICK w : w = SubSeq(x, 1, len)
      OBVIOUS
    <3>3. w \in Seq(0 .. 255) /\ Len(w) = len /\ \A i \in 1 .. len : w[i] = m.data[i]
      <4>1. len \in 0 .. Len(x)
        BY <1>1, <3>1
      <4>2. /\ SubSeq(x, 1, len) \in Seq(0 .. 255) /\ Len(SubSeq(x, 1, len)) = len
            /\ \A i \in 1 .. len : SubSeq(x, 1, len)[i] = x[i]
        BY <4>1, FirstsAre
      <4>3. QED
        BY <3>1, <3>2, <4>2
    <3>4. w = m.data
      <4>1. w \in Seq(0 .. 255)
        BY <3>3
      <4>2. m.data \in Seq(0 .. 255)
        BY <3>1
      <4>3. Len(w) = Len(m.data) /\ \A i \in 1 .. Len(w) : w[i] = m.data[i]
        BY <1>1, <3>3
      <4>4. QED
        BY <4>1, <4>2, <4>3, SeqEqual, ZenonT(60)
    <3>5. QED
      BY <1>8, <1>16, <3>1, <3>2, <3>4
  <2>2. full.remain = 0
    BY <1>4, <1>13, <1>16
  <2>3. q.got = Append(got, Plain(m))
    BY <1>12, <1>13, <1>15, <2>1, <2>2 DEF Holds, Plain
  <2>4. QED
    BY <1>1, <1>10, <1>14, <1>15, <1>16, <2>3 DEF Holding, ClientAt
<1>17. CASE k + take # len
  <2>1. full.remain # 0
    <3>1. PICK sum \in Nat : sum = k + take
      BY <1>4
    <3>2. sum # len /\ full.remain = len - sum
      BY <1>13, <1>17, <3>1
    <3>3. len - sum # 0
      BY <3>2
    <3>4. QED
      BY <3>2, <3>3
  <2>2. QED
    BY <1>1, <1>10, <1>12, <1>14, <1>15, <1>17, <2>1 DEF Holding, ClientAt
<1>18. QED
  BY <1>16, <1>17

LEMMA FirstBytes ==
  ASSUME NEW c \in {4, 6}
  PROVE  /\ c \div 64 = 0 /\ c % 64 = c
         /\ (192 + c) \div 64 = 3 /\ (192 + c) % 64 = c
BY SMT

\* The chunk a first header makes.
LEMMA Opened ==
  ASSUME NEW m, m.data \in Seq(0 .. 255), NEW wide, wide = (m.timestamp > Mark), NEW c,
         c = [NewChunk EXCEPT !.timestamp = m.timestamp, !.remain = Len(m.data), !.typeId = m.typeId,
                              !.streamId = m.streamId, !.extend = wide]
  PROVE  c = Holds(m, 0)
<1>1. PICK len \in Nat : len = Len(m.data)
  BY LenProperties
<1>2. PICK none : none = << >>
  OBVIOUS
<1>3. PICK ts, type, stream : ts = m.timestamp /\ type = m.typeId /\ stream = m.streamId
  OBVIOUS
<1>4. SubSeq(m.data, 1, 0) = << >>
  OBVIOUS
<1>5. len - 0 = len
  OBVIOUS
<1>6. Holds(m, 0) = [timestamp |-> ts, length |-> 0, typeId |-> type, streamId |-> stream,
                     timeDelta |-> 0, extend |-> wide, remain |-> len, data |-> none]
  <2>1. Holds(m, 0) = [timestamp |-> m.timestamp, length |-> 0, typeId |-> m.typeId, streamId |-> m.streamId,
                       timeDelta |-> 0, extend |-> wide, remain |-> len - 0, data |-> SubSeq(m.data, 1, 0)]
    BY <1>1, Zenon DEF Holds
  <2>2. QED
    BY <1>2, <1>3, <1>4, <1>5, <2>1
<1>7. PICK c1 : c1 = [NewChunk EXCEPT !.timestamp = ts]
  OBVIOUS
<1>8. PICK c2 : c2 = [c1 EXCEPT !.remain = len]
  OBVIOUS
<1>9. PICK c3 : c3 = [c2 EXCEPT !.typeId = type]
  OBVIOUS
<1>10. PICK c4 : c4 = [c3 EXCEPT !.streamId = stream]
  OBVIOUS
<1>11. c = [c4 EXCEPT !.extend = wide]
  BY <1>1, <1>3, <1>7, <1>8, <1>9, <1>10
<1>12. c1 = [timestamp |-> ts, length |-> 0, typeId |-> 0, streamId |-> 0,
             timeDelta |-> 0, extend |-> FALSE, remain |-> 0, data |-> none]
  BY <1>2, <1>7 DEF NewChunk
<1>13. c2 = [timestamp |-> ts, length |-> 0, typeId |-> 0, streamId |-> 0,
             timeDelta |-> 0, extend |-> FALSE, remain |-> len, data |-> none]
  BY <1>8, <1>12
<1>14. c3 = [timestamp |-> ts, length |-> 0, typeId |-> type, streamId |-> 0,
             timeDelta |-> 0, extend |-> FALSE, remain |-> len, data |-> none]
  BY <1>9, <1>13
<1>15. c4 = [timestamp |-> ts, length |-> 0, typeId |-> type, streamId |-> stream,
             timeDelta |-> 0, extend |-> FALSE, remain |-> len, data |-> none]
  BY <1>10, <1>14
<1>16. c = [timestamp |-> ts, length |-> 0, typeId |-> type, streamId |-> stream,
            timeDelta |-> 0, extend |-> wide, remain |-> len, data |-> none]
  BY <1>11, <1>15
<1>17. QED
  BY <1>6, <1>16

LEMMA FirstChunkRead ==
  ASSUME NEW m, OutMessage(m), ClearStamp(m), NEW size \in Nat \ {0}, 0 < Len(m.data),
         NEW s \in Seq(0 .. 255), NEW at \in Nat, Placed(s, at, WriteChunkHead(0, m)), at < Len(s),
         NEW body \in Nat, body = at + 12 + Wide(m), Placed(s, body, Slice(m.data, 0, size)),
         NEW r, NEW got, ClientAt(r, at, got), NEW take, PieceAt(m.data, 0, size, take)
  PROVE  Holding(ClientReads(r, s, size), body + take, got, m, take)
<1>1. PICK cs \in {4, 6} : cs = m.csId
  BY DEF OutMessage
<1>2. ReadsFirst(m, s, at)
  BY FirstRead
<1>3. r.at = at /\ r.got = got
  BY DEF ClientAt
<1>4. s[r.at + 1] \div 64 = 0 /\ s[r.at + 1] % 64 = cs
  BY <1>1, <1>2, <1>3, FirstBytes, ZenonT(60) DEF ReadsFirst
<1>5. PICK wide : wide = (m.timestamp > Mark)
  OBVIOUS
<1>6. Was(r, s) = NewChunk
  BY <1>4 DEF Was
<1>7. IsWide(r, s) = wide
  <2>1. IsWide(r, s) = (Stamp(m) = Mark)
    BY <1>2, <1>3, <1>4 DEF IsWide, ReadsFirst
  <2>2. (Stamp(m) = Mark) <=> (m.timestamp > Mark)
    <3>1. m.timestamp \in Nat /\ m.timestamp # Mark
      BY DEF OutMessage, ClearStamp
    <3>2. QED
      BY <3>1, MarkNat DEF Stamp
  <2>3. QED
    BY <1>5, <2>1, <2>2
<1>8. AfterHead(r, s) = body
  BY <1>3, <1>4, <1>5, <1>7 DEF AfterHead, Wide
<1>9. Now(r, s) = Holds(m, 0)
  <2>1. (IF IsWide(r, s) THEN ReadBE(s, r.at + 12, 4) ELSE ReadBE(s, r.at + 1, 3)) = m.timestamp
    <3>1. CASE wide
      BY <1>2, <1>3, <1>5, <1>7, <3>1 DEF ReadsFirst
    <3>2. CASE ~wide
      BY <1>2, <1>3, <1>5, <1>7, <3>2 DEF ReadsFirst, Stamp
    <3>3. QED
      BY <1>5, <3>1, <3>2
  <2>2. Now(r, s) = [NewChunk EXCEPT
                      !.timestamp = IF IsWide(r, s) THEN ReadBE(s, r.at + 12, 4) ELSE ReadBE(s, r.at + 1, 3),
                      !.remain = ReadBE(s, r.at + 4, 3), !.typeId = ReadBE(s, r.at + 7, 1),
                      !.streamId = ReadLE(s, r.at + 8, 4), !.extend = IsWide(r, s)]
    BY <1>4 DEF Now
  <2>3. Now(r, s) = [NewChunk EXCEPT !.timestamp = m.timestamp, !.remain = Len(m.data), !.typeId = m.typeId,
                                     !.streamId = m.streamId, !.extend = wide]
    BY <1>2, <1>3, <1>7, <2>1, <2>2 DEF ReadsFirst
  <2>4. m.data \in Seq(0 .. 255)
    BY DEF OutMessage
  <2>5. QED
    BY <1>5, <2>3, <2>4, Opened
<1>10. ClientReads(r, s, size) =
         ReadOn(r, m.csId, Filled(Holds(m, 0), s, body, size), body + Least(Holds(m, 0).remain, size))
  <2>1. ~(r.at >= Len(s))
    BY <1>3, LenProperties
  <2>2. QED
    BY <1>1, <1>4, <1>8, <1>9, <2>1, ClientReadsIs
<1>11. PICK k \in Nat : k = 0
  OBVIOUS
<1>12. PICK c : c = Holds(m, k)
  OBVIOUS
<1>13. PICK end : end = body + Least(c.remain, size)
  OBVIOUS
<1>14. Holding(ReadOn(r, m.csId, Filled(c, s, body, size), end), body + take, got, m, k + take)
  <2>1. k < Len(m.data) /\ Placed(s, body, Slice(m.data, k, size)) /\ PieceAt(m.data, k, size, take)
    BY <1>11
  <2>2. QED
    BY <1>3, <1>12, <1>13, <2>1, TakesNext
<1>15. k + take = take
  BY <1>11 DEF PieceAt
<1>16. QED
  BY <1>10, <1>11, <1>12, <1>13, <1>14, <1>15

LEMMA NextChunkRead ==
  ASSUME NEW m, OutMessage(m), NEW size \in Nat \ {0}, NEW k \in Nat, k < Len(m.data),
         NEW s \in Seq(0 .. 255), NEW at \in Nat, Placed(s, at, WriteChunkHead(3, m)), at < Len(s),
         NEW body \in Nat, body = at + 1 + Wide(m), Placed(s, body, Slice(m.data, k, size)),
         NEW r, NEW got, Holding(r, at, got, m, k), NEW take, PieceAt(m.data, k, size, take)
  PROVE  Holding(ClientReads(r, s, size), body + take, got, m, k + take)
<1>1. PICK cs \in {4, 6} : cs = m.csId
  BY DEF OutMessage
<1>2. s[at + 1] = 192 + cs
  BY <1>1, NextRead
<1>3. r.at = at /\ r.got = got /\ cs \in DOMAIN r.open /\ r.open[cs] = Holds(m, k)
  <2>1. k # Len(m.data)
    BY LenProperties DEF OutMessage
  <2>2. QED
    BY <1>1, <2>1 DEF Holding, ClientAt
<1>4. s[r.at + 1] \div 64 = 3 /\ s[r.at + 1] % 64 = cs
  BY <1>2, <1>3, FirstBytes
<1>5. Was(r, s) = Holds(m, k)
  BY <1>3, <1>4 DEF Was
<1>6. PICK wide : wide = (m.timestamp > Mark)
  OBVIOUS
<1>7. AfterHead(r, s) = body
  <2>1. IsWide(r, s) = Was(r, s).extend
    BY <1>4 DEF IsWide
  <2>2. Holds(m, k) = [timestamp |-> m.timestamp, length |-> 0, typeId |-> m.typeId, streamId |-> m.streamId,
                       timeDelta |-> 0, extend |-> wide, remain |-> Len(m.data) - k,
                       data |-> SubSeq(m.data, 1, k)]
    BY <1>6, Zenon DEF Holds
  <2>3. Holds(m, k).extend = wide
    BY <2>2
  <2>4. IsWide(r, s) = wide
    BY <1>5, <2>1, <2>3
  <2>5. AfterHead(r, s) = (at + 1) + (IF wide THEN 4 ELSE 0)
    BY <1>3, <1>4, <2>4 DEF AfterHead
  <2>6. Wide(m) = IF wide THEN 4 ELSE 0
    BY <1>6 DEF Wide
  <2>7. QED
    BY <2>5, <2>6
<1>8. Now(r, s) = Holds(m, k)
  BY <1>4, <1>5 DEF Now
<1>9. PICK c : c = Holds(m, k)
  OBVIOUS
<1>10. PICK end : end = body + Least(c.remain, size)
  OBVIOUS
<1>11. ClientReads(r, s, size) = ReadOn(r, m.csId, Filled(c, s, body, size), end)
  <2>1. ~(r.at >= Len(s))
    BY <1>3, LenProperties
  <2>2. QED
    BY <1>1, <1>4, <1>7, <1>8, <1>9, <1>10, <2>1, ClientReadsIs
<1>12. Holding(ReadOn(r, m.csId, Filled(c, s, body, size), end), body + take, got, m, k + take)
  BY <1>3, <1>9, <1>10, TakesNext
<1>13. QED
  BY <1>11, <1>12

\* The chunks a message is written as.
Count(m, size) == (Len(m.data) + size - 1) \div size
HeadOf(m, k) == WriteChunkHead(IF k = 1 THEN 0 ELSE 3, m)
ChunksOf(m, size) == [k \in 1 .. Count(m, size) |-> HeadOf(m, k) \o Slice(m.data, (k - 1) * size, size)]

LEMMA WriteChunkIs ==
  ASSUME NEW w, NEW size, NEW m, m = [w EXCEPT !.csId = OutCsId(w)], m.data = w.data
  PROVE  WriteChunk(w, size) = FlattenSeq(ChunksOf(m, size))
<1>1. PICK p : p = Pieces(w.data, size)
  OBVIOUS
<1>2. PICK n : n = Count(m, size)
  OBVIOUS
<1>3. DOMAIN p = 1 .. n /\ \A k \in 1 .. n : p[k] = Slice(m.data, (k - 1) * size, size)
  BY <1>1, <1>2 DEF Pieces, Count
<1>4. WriteChunk(w, size)
        = FlattenSeq([k \in DOMAIN p |-> WriteChunkHead(IF k = 1 THEN 0 ELSE 3, m) \o p[k]])
  BY <1>1 DEF WriteChunk
<1>5. [k \in DOMAIN p |-> WriteChunkHead(IF k = 1 THEN 0 ELSE 3, m) \o p[k]]
        = [k \in 1 .. n |-> HeadOf(m, k) \o Slice(m.data, (k - 1) * size, size)]
  BY <1>3 DEF HeadOf
<1>6. QED
  BY <1>2, <1>4, <1>5 DEF ChunksOf

LEMMA HeadOfBytes ==
  ASSUME NEW m, OutMessage(m), NEW k \in Nat \ {0}
  PROVE  HeadOf(m, k) \in Seq(0 .. 255) /\ Len(HeadOf(m, k)) = (IF k = 1 THEN 12 ELSE 1) + Wide(m)
<1>1. PICK wide \in Nat : wide = Wide(m)
  BY DEF Wide
<1>2. CASE k = 1
  <2>1. PICK n \in Nat : n = 12 + wide /\ n = 12 + Wide(m)
    BY <1>1
  <2>2. PICK p : HeadParts(m, p) /\ WriteChunkHead(0, m) = p[6]
    BY FirstHeadIs
  <2>3. PICK B : B = 0 .. 255
    OBVIOUS
  <2>4. HeadSizes(m, p, n, B)
    BY <2>1, <2>2, <2>3, HeadLengths
  <2>5. OfLength(p[6], B, n)
    BY <2>4, Zenon DEF HeadSizes
  <2>6. QED
    BY <1>1, <1>2, <2>1, <2>2, <2>3, <2>5 DEF HeadOf, OfLength
<1>3. CASE k # 1
  <2>1. PICK n \in Nat : n = 1 + wide /\ n = 1 + Wide(m)
    BY <1>1
  <2>2. OfLength(WriteChunkHead(3, m), 0 .. 255, n)
    BY <2>1, NextHeadLength
  <2>3. QED
    BY <1>1, <1>3, <2>1, <2>2 DEF HeadOf, OfLength
<1>4. QED
  BY <1>2, <1>3

\* The chunks lie one behind the other.
LaidOut(off, z, chunks, n) ==
  /\ off \in [0 .. n -> Nat] /\ off[0] = 0 /\ off[n] = Len(z)
  /\ \A k \in 1 .. n : off[k] = off[k - 1] + Len(chunks[k]) /\ Placed(z, off[k - 1], chunks[k])

LEMMA ChunksLaidOut ==
  ASSUME NEW S, NEW n \in Nat, NEW f, Makes(f, 1 .. n, S), NEW z, z = FlattenSeq(f)
  PROVE  z \in Seq(S) /\ \E off : LaidOut(off, z, f, n)
<1>1. PICK seq : seq = [k \in 1 .. n |-> k]
  OBVIOUS
<1>2. seq \in [1 .. n -> 1 .. n] /\ \A k \in 1 .. n : seq[k] = k
  BY <1>1
<1>3. seq \in Seq(1 .. n) /\ Len(seq) = n
  BY <1>2, IsASeq
<1>4. Gathered(f, seq) = z
  <2>1. DOMAIN f = 1 .. n /\ f = [k \in 1 .. n |-> f[k]]
    BY DEF Makes
  <2>2. [i \in DOMAIN seq |-> f[seq[i]]] = [k \in 1 .. n |-> f[k]]
    BY <1>2
  <2>3. QED
    BY <2>1, <2>2 DEF Gathered
<1>5. PICK off : Tiles(off, Gathered(f, seq), f, seq)
  BY <1>3, GatheredTiles
<1>6. /\ off \in [0 .. n -> Nat] /\ off[0] = 0 /\ off[n] = Len(z)
      /\ \A i \in 1 .. n : off[i] = off[i - 1] + Len(f[seq[i]]) /\ Placed(z, off[i - 1], f[seq[i]])
  BY <1>3, <1>4, <1>5 DEF Tiles
<1>7. z \in Seq(S)
  BY <1>3, <1>4, GatheredBytes
<1>8. LaidOut(off, z, f, n)
  BY <1>2, <1>6 DEF LaidOut
<1>9. QED
  BY <1>7, <1>8

LEMMA ChunksMake ==
  ASSUME NEW m, OutMessage(m), NEW size \in Nat \ {0}
  PROVE  /\ Count(m, size) \in Nat /\ Makes(ChunksOf(m, size), 1 .. Count(m, size), 0 .. 255)
         /\ \A k \in 1 .. Count(m, size) :
              Joins(ChunksOf(m, size)[k], HeadOf(m, k), Slice(m.data, (k - 1) * size, size))
<1>1. PICK len \in Nat : len = Len(m.data)
  BY LenProperties DEF OutMessage
<1>2. PICK n \in Nat : n = Count(m, size) /\ n = (len + size - 1) \div size
  <2>1. Count(m, size) = (len + size - 1) \div size
    BY <1>1 DEF Count
  <2>2. (len + size - 1) \div size \in Nat
    BY PieceCount
  <2>3. QED
    BY <2>1, <2>2
<1>3. ASSUME NEW k \in 1 .. n
      PROVE  HeadOf(m, k) \o Slice(m.data, (k - 1) * size, size) \in Seq(0 .. 255)
  <2>1. k - 1 \in Nat /\ k - 1 < n /\ k \in Nat \ {0}
    BY <1>3
  <2>2. PICK at \in Nat : at = (k - 1) * size
    BY <1>2, <2>1, PieceCount
  <2>3. m.data \in Seq(0 .. 255)
    BY DEF OutMessage
  <2>4. Slice(m.data, at, size) \in Seq(0 .. 255)
    BY <2>3, SliceBytes
  <2>5. HeadOf(m, k) \in Seq(0 .. 255)
    BY <2>1, HeadOfBytes
  <2>6. QED
    BY <2>2, <2>4, <2>5
<1>4. ChunksOf(m, size) = [k \in 1 .. n |-> HeadOf(m, k) \o Slice(m.data, (k - 1) * size, size)]
  BY <1>2 DEF ChunksOf
<1>5. Makes(ChunksOf(m, size), 1 .. n, 0 .. 255)
  BY <1>3, <1>4, ZenonT(60) DEF Makes
<1>6. \A k \in 1 .. n : Joins(ChunksOf(m, size)[k], HeadOf(m, k), Slice(m.data, (k - 1) * size, size))
  BY <1>4 DEF Joins
<1>7. QED
  BY <1>2, <1>5, <1>6

\* What is placed in a part of a sequence is placed in the whole.
LEMMA PlacedWithin ==
  ASSUME NEW S, NEW s \in Seq(S), NEW z \in Seq(S), NEW o \in Nat, Placed(s, o, z),
         NEW x \in Seq(S), NEW a \in Nat, Placed(z, a, x)
  PROVE  Placed(s, o + a, x)
<1>1. Len(s) \in Nat /\ Len(z) \in Nat /\ Len(x) \in Nat
  BY LenProperties
<1>2. o + Len(z) <= Len(s) /\ a + Len(x) <= Len(z)
  BY DEF Placed
<1>3. (o + a) + Len(x) <= Len(s)
  BY <1>1, <1>2
<1>4. ASSUME NEW i \in 1 .. Len(x) PROVE s[(o + a) + i] = x[i]
  <2>1. PICK j \in 1 .. Len(z) : j = a + i
    BY <1>1, <1>2
  <2>2. z[j] = x[i]
    BY <2>1 DEF Placed
  <2>3. s[o + j] = z[j]
    BY DEF Placed
  <2>4. o + j = (o + a) + i
    BY <2>1
  <2>5. QED
    BY <2>2, <2>3, <2>4
<1>5. QED
  BY <1>3, <1>4 DEF Placed

\* The states of a client that reads s, chunk after chunk.
ClientRuns(g, s, size, n) ==
  g = [i \in 0 .. n |-> IF i = 0 THEN ClientStart ELSE ClientReads(g[i - 1], s, size)]

LEMMA ClientRunExists ==
  ASSUME NEW s, NEW size, NEW n \in Nat
  PROVE  \E g : ClientRuns(g, s, size, n)
<1> DEFINE G == {k \in 0 .. n : \E g : ClientRuns(g, s, size, k)}
<1>1. 0 \in G
  <2>1. PICK g : g = [i \in 0 .. 0 |-> ClientStart]
    OBVIOUS
  <2>2. ClientRuns(g, s, size, 0)
    BY <2>1 DEF ClientRuns
  <2>3. QED
    BY <2>2
<1>2. ASSUME NEW k \in 0 .. n, k < n, k \in G PROVE k + 1 \in G
  <2>1. PICK g : ClientRuns(g, s, size, k)
    BY <1>2
  <2>2. g = [i \in 0 .. k |-> IF i = 0 THEN ClientStart ELSE ClientReads(g[i - 1], s, size)]
    BY <2>1 DEF ClientRuns
  <2>3. PICK h : h = [i \in 0 .. k + 1 |-> IF i <= k THEN g[i] ELSE ClientReads(g[k], s, size)]
    OBVIOUS
  <2>4. ASSUME NEW i \in 0 .. k + 1
        PROVE  h[i] = IF i = 0 THEN ClientStart ELSE ClientReads(h[i - 1], s, size)
    <3>1. CASE i <= k
      <4>1. i \in 0 .. k /\ (i # 0 => i - 1 \in 0 .. k + 1 /\ i - 1 <= k)
        BY <3>1
      <4>2. h[i] = g[i] /\ (i # 0 => h[i - 1] = g[i - 1])
        BY <2>3, <3>1, <4>1
      <4>3. g[i] = IF i = 0 THEN ClientStart ELSE ClientReads(g[i - 1], s, size)
        BY <2>2, <4>1
      <4>4. QED
        BY <4>2, <4>3
    <3>2. CASE i = k + 1
      <4>1. i - 1 = k /\ k \in 0 .. k + 1 /\ k <= k /\ i # 0 /\ ~(i <= k)
        BY <3>2
      <4>2. h[i] = ClientReads(g[k], s, size) /\ h[i - 1] = g[k]
        BY <2>3, <4>1
      <4>3. QED
        BY <4>1, <4>2
    <3>3. i <= k \/ i = k + 1
      OBVIOUS
    <3>4. QED
      BY <3>1, <3>2, <3>3
  <2>5. h = [i \in 0 .. k + 1 |-> IF i = 0 THEN ClientStart ELSE ClientReads(h[i - 1], s, size)]
    BY <2>3, <2>4
  <2>6. k + 1 \in 0 .. n
    BY <1>2
  <2>7. ClientRuns(h, s, size, k + 1)
    BY <2>5 DEF ClientRuns
  <2>8. QED
    BY <2>6, <2>7
<1>3. \A k \in 0 .. n : k \in G
  <2> HIDE DEF G
  <2>1. \A k \in 0 .. n : k < n /\ k \in G => k + 1 \in G
    BY <1>2
  <2>2. QED
    BY <1>1, <2>1, Upwards
<1>4. n \in 0 .. n
  OBVIOUS
<1>5. QED
  BY <1>3, <1>4

LEMMA ClientDecoded ==
  ASSUME NEW s, NEW size, NEW n \in Nat, n = Len(s)
  PROVE  \E g : ClientRuns(g, s, size, n) /\ ClientDecodes(s, size) = g[n].got
<1> DEFINE f == CHOOSE f : f = [i \in 0 .. Len(s) |->
                                  IF i = 0 THEN ClientStart ELSE ClientReads(f[i - 1], s, size)]
<1>1. ClientDecodes(s, size) = f[Len(s)].got
  BY DEF ClientDecodes
<1>2. \E g : g = [i \in 0 .. Len(s) |-> IF i = 0 THEN ClientStart ELSE ClientReads(g[i - 1], s, size)]
  <2>1. PICK k \in Nat : k = Len(s)
    OBVIOUS
  <2>2. PICK g : ClientRuns(g, s, size, k)
    BY ClientRunExists
  <2>3. g = [i \in 0 .. k |-> IF i = 0 THEN ClientStart ELSE ClientReads(g[i - 1], s, size)]
    BY <2>2 DEF ClientRuns
  <2>4. QED
    BY <2>1, <2>3
<1>3. f = [i \in 0 .. Len(s) |-> IF i = 0 THEN ClientStart ELSE ClientReads(f[i - 1], s, size)]
  BY <1>2
<1> HIDE DEF f
<1>4. ClientRuns(f, s, size, n)
  BY <1>3 DEF ClientRuns
<1>5. QED
  BY <1>1, <1>4

\* A client reads the chunks of a message, wherever they lie.
LEMMA MessageRead ==
  ASSUME NEW m, OutMessage(m), ClearStamp(m), 0 < Len(m.data), NEW size \in Nat \ {0},
         NEW z, z = FlattenSeq(ChunksOf(m, size)), NEW s \in Seq(0 .. 255), NEW o \in Nat, Placed(s, o, z),
         NEW n \in Nat, n = Len(s), NEW g, ClientRuns(g, s, size, n),
         NEW j \in Nat, j <= o, NEW got, ClientAt(g[j], o, got)
  PROVE  \E i \in Nat : i <= o + Len(z) /\ ClientAt(g[i], o + Len(z), Append(got, Plain(m)))
<1>1. PICK len \in Nat : len = Len(m.data) /\ len > 0
  BY LenProperties DEF OutMessage
<1>2. PICK c \in Nat : c = Count(m, size) /\ c = (len + size - 1) \div size
  BY <1>1, ChunksMake DEF Count
<1>3. PICK f : f = ChunksOf(m, size)
  OBVIOUS
<1>4. Makes(f, 1 .. c, 0 .. 255)
  BY <1>2, <1>3, ChunksMake
<1>5. z \in Seq(0 .. 255) /\ \E off : LaidOut(off, z, f, c)
  BY <1>3, <1>4, ChunksLaidOut
<1>6. PICK off : LaidOut(off, z, f, c)
  BY <1>5
<1>7. /\ off \in [0 .. c -> Nat] /\ off[0] = 0 /\ off[c] = Len(z)
      /\ \A k \in 1 .. c : off[k] = off[k - 1] + Len(f[k]) /\ Placed(z, off[k - 1], f[k])
  BY <1>6 DEF LaidOut
<1>8. c # 0 /\ len <= c * size /\ \A k \in Nat : k < c => k * size \in Nat /\ k * size < len
  <2>1. c = (len + size - 1) \div size /\ len \in Nat
    BY <1>2
  <2>2. len <= c * size /\ (c = 0 <=> len = 0)
    BY <2>1, PieceCount, ZenonT(60)
  <2>3. \A k \in Nat : k < c => k * size \in Nat /\ k * size < len
    BY <2>1, PieceCount, Zenon
  <2>4. QED
    BY <1>1, <2>2, <2>3
<1>9. \A i \in 0 .. n : g[i] = IF i = 0 THEN ClientStart ELSE ClientReads(g[i - 1], s, size)
  BY DEF ClientRuns
<1>10. o + Len(z) <= n /\ Len(z) \in Nat
  BY <1>5, LenProperties DEF Placed
<1> DEFINE done(k) == IF k = c THEN len ELSE k * size
           G == {k \in 0 .. c : /\ k <= off[k]
                                /\ IF k = 0 THEN ClientAt(g[j], o, got)
                                   ELSE Holding(g[j + k], o + off[k], got, m, done(k))}
<1>11. 0 \in G
  <2>1. 0 \in 0 .. c /\ 0 <= off[0]
    BY <1>7
  <2>2. QED
    BY <2>1
<1>12. ASSUME NEW k \in 0 .. c, k < c, k \in G PROVE k + 1 \in G
  <2>1. k \in Nat /\ k + 1 \in 1 .. c /\ k + 1 \in 0 .. c /\ (k + 1) - 1 = k /\ k + 1 \in Nat \ {0} /\ k # c
    BY <1>12
  <2>2. PICK b \in Nat : b = off[k] /\ k <= b
    BY <1>7, <1>12
  <2>3. PICK d \in Nat : d = k * size /\ d < len
    BY <1>8, <1>12, <2>1
  <2>4. PICK piece : piece = Slice(m.data, d, size)
    OBVIOUS
  <2>5. PICK take \in Nat : PieceAt(m.data, d, size, take) /\ piece \in Seq(0 .. 255)
    <3>1. m.data \in Seq(0 .. 255) /\ d <= Len(m.data) /\ size \in Nat
      BY <1>1, <2>3 DEF OutMessage
    <3>2. \E t : PieceAt(m.data, d, size, t) /\ piece \in Seq(0 .. 255)
      BY <2>4, <3>1, PieceIs, ZenonT(60)
    <3>3. QED
      BY <3>2 DEF PieceAt
  <2>6. PICK head \in Seq(0 .. 255) : head = HeadOf(m, k + 1)
    BY <2>1, HeadOfBytes
  <2>7. PICK wide \in Nat : wide = Wide(m)
    BY DEF Wide
  <2>8. PICK h \in Nat : h = Len(head) /\ h = (IF k = 0 THEN 12 ELSE 1) + wide /\ h > 0
    <3>1. Len(HeadOf(m, k + 1)) = (IF k + 1 = 1 THEN 12 ELSE 1) + Wide(m)
      BY <2>1, HeadOfBytes
    <3>2. (k + 1 = 1) <=> (k = 0)
      BY <2>1
    <3>3. (IF k = 0 THEN 12 ELSE 1) + wide \in Nat /\ (IF k = 0 THEN 12 ELSE 1) + wide > 0
      <4>1. CASE k = 0
        BY <4>1
      <4>2. CASE k # 0
        BY <4>2
      <4>3. QED
        BY <4>1, <4>2
    <3>4. QED
      BY <2>6, <2>7, <3>1, <3>2, <3>3
  <2>9. PICK x \in Seq(0 .. 255) : x = f[k + 1]
    BY <1>4, <2>1 DEF Makes
  <2>10. Joins(x, head, piece)
    <3>1. Joins(f[k + 1], HeadOf(m, k + 1), Slice(m.data, ((k + 1) - 1) * size, size))
      BY <1>2, <1>3, <2>1, ChunksMake
    <3>2. ((k + 1) - 1) * size = d
      BY <2>1, <2>3
    <3>3. QED
      BY <2>4, <2>6, <2>9, <3>1, <3>2
  <2>11. take \in Nat /\ take = Least(len - d, size) /\ d + take <= len /\ Len(piece) = take
    BY <1>1, <2>4, <2>5 DEF PieceAt
  <2>12. Len(x) = h + take
    <3>1. Len(x) = Len(head) + Len(piece)
      BY <2>5, <2>10, JoinsBytes
    <3>2. QED
      BY <2>8, <2>11, <3>1
  <2>13. PICK at \in Nat : at = o + b
    OBVIOUS
  <2>14. Placed(s, at, x)
    <3>1. Placed(z, b, x)
      BY <1>7, <2>1, <2>2, <2>9
    <3>2. z \in Seq(0 .. 255)
      BY <1>5
    <3>3. QED
      BY <2>13, <3>1, <3>2, PlacedWithin
  <2>15. Placed(s, at, head) /\ Placed(s, at + Len(head), piece)
    BY <2>5, <2>10, <2>14, PlacedParts
  <2>16. PICK body \in Nat : body = at + h
    OBVIOUS
  <2>17. Placed(s, body, piece)
    BY <2>8, <2>15, <2>16
  <2>18. at < Len(s)
    <3>1. at + (h + take) <= n
      BY <2>12, <2>14 DEF Placed
    <3>2. at < n
      BY <2>8, <3>1
    <3>3. QED
      BY <3>2
  <2>19. PICK u \in Nat : u = off[k + 1] /\ u = b + (h + take) /\ h > 0
    <3>1. off[k + 1] = b + Len(x)
      BY <1>7, <2>1, <2>2, <2>9
    <3>2. b + (h + take) \in Nat
      OBVIOUS
    <3>3. QED
      BY <2>8, <2>12, <3>1, <3>2
  <2>20. PICK next \in Nat : next = o + off[k + 1] /\ next = body + take
    <3>1. o + u \in Nat /\ o + u = body + take
      BY <2>13, <2>16, <2>19
    <3>2. QED
      BY <2>19, <3>1
  <2>21. k + 1 <= off[k + 1]
    <3>1. k + 1 <= u
      BY <2>2, <2>19, SMTT(60)
    <3>2. QED
      BY <2>19, <3>1
  <2>22. j + (k + 1) \in 0 .. n /\ j + (k + 1) # 0 /\ (j + (k + 1)) - 1 = j + k
    <3>1. at + (h + take) <= n
      BY <2>12, <2>14 DEF Placed
    <3>2. o + u <= n
      BY <2>13, <2>19, <3>1
    <3>3. k + 1 <= u
      BY <2>19, <2>21
    <3>4. QED
      BY <2>1, <3>2, <3>3
  <2>23. g[j + (k + 1)] = ClientReads(g[j + k], s, size)
    BY <1>9, <2>22
  <2>24. d + take = done(k + 1)
    <3>1. CASE k + 1 = c
      <4>1. d + size = (k + 1) * size
        BY <2>3, SMT
      <4>2. len <= d + size
        BY <1>8, <3>1, <4>1
      <4>3. take = len - d
        BY <2>3, <2>11, <4>2 DEF Least
      <4>4. QED
        BY <2>3, <3>1, <4>3
    <3>2. CASE k + 1 # c
      <4>1. (k + 1) * size = d + size
        BY <2>3, SMT
      <4>2. (k + 1) * size < len
        <5>1. k + 1 \in Nat /\ k + 1 < c
          BY <2>1, <3>2
        <5>2. QED
          BY <1>8, <5>1
      <4>3. take = size
        BY <2>3, <2>11, <4>1, <4>2 DEF Least
      <4>4. QED
        BY <3>2, <4>1, <4>3
    <3>3. QED
      BY <3>1, <3>2
  <2>25. Holding(ClientReads(g[j + k], s, size), body + take, got, m, d + take)
    <3>1. CASE k = 0
      <4>1. d = 0
        <5>1. 0 * size = 0
          BY SMT
        <5>2. QED
          BY <2>3, <3>1, <5>1
      <4>2. ClientAt(g[j + k], at, got)
        <5>1. j + k = j /\ at = o
          BY <1>7, <2>2, <2>13, <3>1
        <5>2. QED
          BY <1>12, <3>1, <5>1
      <4>3. Placed(s, at, WriteChunkHead(0, m)) /\ Placed(s, body, Slice(m.data, 0, size))
        BY <2>4, <2>6, <2>15, <2>17, <3>1, <4>1 DEF HeadOf
      <4>4. body = at + 12 + Wide(m) /\ PieceAt(m.data, 0, size, take)
        BY <2>5, <2>7, <2>8, <2>16, <3>1, <4>1
      <4>5. Holding(ClientReads(g[j + k], s, size), body + take, got, m, take)
        BY <2>18, <4>2, <4>3, <4>4, FirstChunkRead
      <4>6. QED
        BY <2>11, <4>1, <4>5
    <3>2. CASE k # 0
      <4>1. Holding(g[j + k], at, got, m, d)
        BY <1>12, <2>1, <2>2, <2>3, <2>13, <3>2
      <4>2. Placed(s, at, WriteChunkHead(3, m)) /\ Placed(s, body, Slice(m.data, d, size))
        <5>1. k + 1 # 1
          BY <2>1, <3>2
        <5>2. QED
          BY <2>4, <2>6, <2>15, <2>17, <5>1 DEF HeadOf
      <4>3. body = at + 1 + Wide(m) /\ d < Len(m.data)
        BY <1>1, <2>3, <2>7, <2>8, <2>16, <3>2
      <4>4. QED
        BY <2>5, <2>18, <4>1, <4>2, <4>3, NextChunkRead, ZenonT(60)
    <3>3. QED
      BY <3>1, <3>2
  <2>26. Holding(g[j + (k + 1)], o + off[k + 1], got, m, done(k + 1))
    <3> HIDE DEF done
    <3>1. QED
      BY <2>20, <2>23, <2>24, <2>25
  <2>27. k + 1 # 0
    BY <2>1
  <2>28. QED
    BY <2>1, <2>21, <2>26, <2>27
<1>13. c \in G
  <2> HIDE DEF G
  <2>1. \A k \in 0 .. c : k < c /\ k \in G => k + 1 \in G
    BY <1>12
  <2>2. \A k \in 0 .. c : k \in G
    BY <1>11, <2>1, Upwards
  <2>3. QED
    BY <2>2
<1>14. c <= Len(z) /\ Holding(g[j + c], o + Len(z), got, m, len)
  BY <1>7, <1>8, <1>13
<1>15. ClientAt(g[j + c], o + Len(z), Append(got, Plain(m)))
  BY <1>1, <1>14 DEF Holding
<1>16. j + c \in Nat /\ j + c <= o + Len(z)
  BY <1>10, <1>14
<1>17. QED
  BY <1>15, <1>16
=============================================================================

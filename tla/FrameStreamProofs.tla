-------------------------- MODULE FrameStreamProofs -------------------------
(***************************************************************************)
(* Proofs that readLoop cuts a byte stream into the frames that were       *)
(* written to it, for any messages, any chunks, and noise between them.    *)
(***************************************************************************)
EXTENDS FrameStream, WellFoundedInduction, SequenceTheorems, TLAPS

-----------------------------------------------------------------------------
(* The codecs.                                                             *)

\* u is s with t behind it.
Joins(u, s, t) ==
    /\ u \in Seq(Nat) /\ Len(u) = Len(s) + Len(t) /\ Len(s) \in Nat /\ Len(t) \in Nat
    /\ \A i \in 1 .. Len(s) : u[i] = s[i]
    /\ \A i \in 1 .. Len(t) : u[Len(s) + i] = t[i]

\* Concatenation puts the bytes of t behind those of s.
LEMMA Concat ==
  ASSUME NEW s \in Seq(Nat), NEW t \in Seq(Nat)
  PROVE  Joins(s \o t, s, t)
BY DEF Joins

\* The two bytes of PutUint16 hold its argument.
LEMMA Uint16Bytes ==
  ASSUME NEW v \in Nat
  PROVE  /\ PutUint16(v) \in Seq(Nat) /\ Len(PutUint16(v)) = 2
         /\ PutUint16(v)[1] * 256 + PutUint16(v)[2] = v
<1>1. v \div 256 \in Nat /\ v % 256 \in Nat /\ (v \div 256) * 256 + (v % 256) = v
  OBVIOUS
<1> QED
  BY <1>1 DEF PutUint16

\* An address is decoded from the three bytes it was encoded to.
LEMMA AddressBytes ==
  ASSUME NEW a \in Address
  PROVE  /\ PutAddress(a) \in Seq(Nat) /\ Len(PutAddress(a)) = 3
         /\ AddressAt(PutAddress(a), 1) = a
<1>1. a = [Network |-> a.Network, Node |-> a.Node, Unit |-> a.Unit]
  BY Zenon DEF Address
<1>2. PutAddress(a) \in Seq(Nat) /\ Len(PutAddress(a)) = 3
  BY DEF PutAddress, Address
<1>3. /\ PutAddress(a)[1] = a.Network /\ PutAddress(a)[1 + 1] = a.Node
      /\ PutAddress(a)[1 + 2] = a.Unit
  BY DEF PutAddress
<1> QED
  BY <1>1, <1>2, <1>3, Zenon DEF AddressAt

Message2Fins(m) == EncodeFINSFrame(m.header, m.command, m.endCode, m.data)
Bytes(m) == EncodeFINSTCPFrame(TCPCommandFINSFrame, 0, Message2Fins(m))

\* The fields of a FINS frame lie where DecodeFINSFrame looks for them.
Fields(f, m) ==
    /\ f[1] = m.header.ICF /\ f[2] = m.header.RSV /\ f[3] = m.header.GCT
    /\ AddressAt(f, 4) = m.header.Dest /\ AddressAt(f, 7) = m.header.Src
    /\ f[10] = m.header.SID
    /\ Uint16(f, 11) = m.command /\ Uint16(f, 13) = m.endCode

\* EncodeFINSFrame puts every field of a message at its place, and the
\* data behind them.
LEMMA FinsBytes ==
  ASSUME NEW m \in Message
  PROVE  /\ Message2Fins(m) \in Seq(Nat) /\ Len(m.data) \in Nat
         /\ Len(Message2Fins(m)) = 14 + Len(m.data)
         /\ Fields(Message2Fins(m), m)
         /\ \A i \in 1 .. Len(m.data) : Message2Fins(m)[14 + i] = m.data[i]
<1>1. /\ m.header \in Header /\ m.command \in Nat /\ m.endCode \in Nat /\ m.data \in Seq(Nat)
  BY MessageAssumption, Zenon
<1>2. /\ m.header.ICF \in Nat /\ m.header.RSV \in Nat /\ m.header.GCT \in Nat
      /\ m.header.Dest \in Address /\ m.header.Src \in Address /\ m.header.SID \in Nat
      /\ m.command \in Nat /\ m.endCode \in Nat
  BY <1>1, Zenon DEF Header
<1>3. PICK a : a = <<m.header.ICF, m.header.RSV, m.header.GCT>>
  BY Zenon
<1>4. /\ a \in Seq(Nat) /\ Len(a) = 3
      /\ a[1] = m.header.ICF /\ a[2] = m.header.RSV /\ a[3] = m.header.GCT
  BY <1>2, <1>3
<1>5. PICK b : b = a \o PutAddress(m.header.Dest)
  BY Zenon
<1>6. /\ b \in Seq(Nat) /\ Len(b) = 6 /\ \A i \in 1 .. 3 : b[i] = a[i]
      /\ AddressAt(b, 4) = m.header.Dest
  <2>1. /\ PutAddress(m.header.Dest) \in Seq(Nat) /\ Len(PutAddress(m.header.Dest)) = 3
        /\ AddressAt(PutAddress(m.header.Dest), 1) = m.header.Dest
    BY <1>2, AddressBytes, Zenon
  <2>2. Joins(b, a, PutAddress(m.header.Dest))
    BY <1>4, <1>5, <2>1, Concat, Zenon
  <2>3. PICK t : t = PutAddress(m.header.Dest)
    BY Zenon
  <2>4. t \in Seq(Nat) /\ Len(t) = 3 /\ Joins(b, a, t)
    BY <2>1, <2>2, <2>3, Zenon
  <2>5. /\ b \in Seq(Nat) /\ Len(b) = 6 /\ \A i \in 1 .. 3 : b[i] = a[i]
        /\ b[4] = t[1] /\ b[4 + 1] = t[1 + 1] /\ b[4 + 2] = t[1 + 2]
    BY <1>4, <2>4 DEF Joins
  <2>6. AddressAt(b, 4) = AddressAt(t, 1)
    BY <2>5, Zenon DEF AddressAt
  <2> QED
    BY <2>1, <2>3, <2>5, <2>6, Zenon
<1>7. PICK c : c = b \o PutAddress(m.header.Src)
  BY Zenon
<1>8. /\ c \in Seq(Nat) /\ Len(c) = 9 /\ \A i \in 1 .. 6 : c[i] = b[i]
      /\ AddressAt(c, 7) = m.header.Src
  <2>1. /\ PutAddress(m.header.Src) \in Seq(Nat) /\ Len(PutAddress(m.header.Src)) = 3
        /\ AddressAt(PutAddress(m.header.Src), 1) = m.header.Src
    BY <1>2, AddressBytes, Zenon
  <2>2. Joins(c, b, PutAddress(m.header.Src))
    BY <1>6, <1>7, <2>1, Concat, Zenon
  <2>3. PICK t : t = PutAddress(m.header.Src)
    BY Zenon
  <2>4. t \in Seq(Nat) /\ Len(t) = 3 /\ Joins(c, b, t)
    BY <2>1, <2>2, <2>3, Zenon
  <2>5. /\ c \in Seq(Nat) /\ Len(c) = 9 /\ \A i \in 1 .. 6 : c[i] = b[i]
        /\ c[7] = t[1] /\ c[7 + 1] = t[1 + 1] /\ c[7 + 2] = t[1 + 2]
    BY <1>6, <2>4 DEF Joins
  <2>6. AddressAt(c, 7) = AddressAt(t, 1)
    BY <2>5, Zenon DEF AddressAt
  <2> QED
    BY <2>1, <2>3, <2>5, <2>6, Zenon
<1>9. PICK d : d = c \o <<m.header.SID>>
  BY Zenon
<1>10. /\ d \in Seq(Nat) /\ Len(d) = 10 /\ \A i \in 1 .. 9 : d[i] = c[i]
      /\ d[10] = m.header.SID
  <2>1. /\ <<m.header.SID>> \in Seq(Nat) /\ Len(<<m.header.SID>>) = 1
        /\ <<m.header.SID>>[1] = m.header.SID
    BY <1>2, SMT
  <2>2. Joins(d, c, <<m.header.SID>>)
    BY <1>8, <1>9, <2>1, Concat, Zenon
  <2> QED
    BY <1>8, <2>1, <2>2 DEF Joins
<1>11. PICK e : e = d \o PutUint16(m.command)
  BY Zenon
<1>12. /\ e \in Seq(Nat) /\ Len(e) = 12 /\ \A i \in 1 .. 10 : e[i] = d[i]
      /\ Uint16(e, 11) = m.command
  <2>1. /\ PutUint16(m.command) \in Seq(Nat) /\ Len(PutUint16(m.command)) = 2
        /\ PutUint16(m.command)[1] * 256 + PutUint16(m.command)[2] = m.command
    BY <1>2, Uint16Bytes, Zenon
  <2>2. Joins(e, d, PutUint16(m.command))
    BY <1>10, <1>11, <2>1, Concat, Zenon
  <2> QED
    BY <1>10, <2>1, <2>2 DEF Joins, Uint16
<1>13. PICK g : g = e \o PutUint16(m.endCode)
  BY Zenon
<1>14. /\ g \in Seq(Nat) /\ Len(g) = 14 /\ \A i \in 1 .. 12 : g[i] = e[i]
      /\ Uint16(g, 13) = m.endCode
  <2>1. /\ PutUint16(m.endCode) \in Seq(Nat) /\ Len(PutUint16(m.endCode)) = 2
        /\ PutUint16(m.endCode)[1] * 256 + PutUint16(m.endCode)[2] = m.endCode
    BY <1>2, Uint16Bytes, Zenon
  <2>2. Joins(g, e, PutUint16(m.endCode))
    BY <1>12, <1>13, <2>1, Concat, Zenon
  <2> QED
    BY <1>12, <2>1, <2>2 DEF Joins, Uint16
<1>15. PICK f : f = g \o m.data
  BY Zenon
<1>16. /\ f \in Seq(Nat) /\ Len(f) = 14 + Len(m.data) /\ Len(m.data) \in Nat
       /\ \A i \in 1 .. 14 : f[i] = g[i]
       /\ \A i \in 1 .. Len(m.data) : f[14 + i] = m.data[i]
  <2>1. Joins(f, g, m.data)
    BY <1>1, <1>14, <1>15, Concat, Zenon
  <2> QED
    BY <1>14, <2>1, Zenon DEF Joins
<1>17. Message2Fins(m) = f
  BY <1>3, <1>5, <1>7, <1>9, <1>11, <1>13, <1>15, Zenon DEF Message2Fins, EncodeFINSFrame
<1>18. /\ \A i \in 1 .. 14 : f[i] = g[i]
       /\ \A i \in 1 .. 12 : g[i] = e[i]
       /\ \A i \in 1 .. 10 : e[i] = d[i]
       /\ \A i \in 1 .. 9 : d[i] = c[i]
       /\ \A i \in 1 .. 6 : c[i] = b[i]
       /\ \A i \in 1 .. 3 : b[i] = a[i]
  BY <1>6, <1>8, <1>10, <1>12, <1>14, <1>16, Zenon
<1>19. f[4] = b[4] /\ f[5] = b[5] /\ f[6] = b[6]
  BY <1>18
<1>20. f[7] = c[7] /\ f[8] = c[8] /\ f[9] = c[9] /\ f[10] = d[10]
  BY <1>18
<1>21. /\ f[11] = e[11] /\ f[12] = e[12] /\ f[13] = g[13] /\ f[14] = g[14]
       /\ f[1] = a[1] /\ f[2] = a[2] /\ f[3] = a[3]
  BY <1>18
<1>22. Fields(f, m)
  <2>1. f[1] = m.header.ICF /\ f[2] = m.header.RSV /\ f[3] = m.header.GCT
    BY <1>4, <1>21, Zenon
  <2>2. AddressAt(f, 4) = m.header.Dest /\ AddressAt(f, 7) = m.header.Src
    BY <1>6, <1>8, <1>19, <1>20 DEF AddressAt
  <2>3. Uint16(f, 11) = m.command /\ Uint16(f, 13) = m.endCode
    BY <1>12, <1>14, <1>21 DEF Uint16
  <2> QED
    BY <1>10, <1>20, <2>1, <2>2, <2>3, Zenon DEF Fields
<1> QED
  BY <1>16, <1>17, <1>22, Zenon

\* The Length field of an envelope.
LengthOf(b) == Uint32(b, 5)

\* The length field is a sum of its four bytes, with factors c and d.
LEMMA LengthBytes ==
  \E c, d \in Nat : \A b : LengthOf(b) = (b[5] * c + b[6]) * d + (b[7] * c + b[8])
<1>1. 256 \in Nat /\ 65536 \in Nat
  OBVIOUS
<1>2. \A b : LengthOf(b) = (b[5] * 256 + b[6]) * 65536 + (b[7] * 256 + b[8])
  BY DEF LengthOf, Uint32, Uint16
<1> WITNESS 256 \in Nat, 65536 \in Nat
<1> QED
  BY <1>2

\* A length whose upper word is zero is its lower word.
LEMMA LowWord ==
  ASSUME NEW b, NEW v \in Nat, Uint16(b, 5) = 0, Uint16(b, 7) = v
  PROVE  LengthOf(b) = v
<1>1. PICK c \in Nat : LengthOf(b) = Uint16(b, 5) * c + Uint16(b, 5 + 2)
  BY DEF LengthOf, Uint32
<1>2. 5 + 2 = 7
  OBVIOUS
<1>3. LengthOf(b) = 0 * c + v
  BY <1>1, <1>2, Zenon
<1>4. 0 * c + v = v
  OBVIOUS
<1> QED
  BY <1>3, <1>4, Zenon

\* A word is a sum of its two bytes, with a factor c.
LEMMA WordBytes ==
  \E c \in Nat : \A b, i : Uint16(b, i) = b[i] * c + b[i + 1]
<1>1. 256 \in Nat
  OBVIOUS
<1>2. \A b, i : Uint16(b, i) = b[i] * 256 + b[i + 1]
  BY Zenon DEF Uint16
<1> WITNESS 256 \in Nat
<1> QED
  BY <1>2, Zenon

\* Equal bytes give equal words.
LEMMA SameWord ==
  ASSUME NEW s, NEW b, NEW i, s[i] = b[i], s[i + 1] = b[i + 1]
  PROVE  Uint16(s, i) = Uint16(b, i)
<1>1. PICK c \in Nat : \A x, y : Uint16(x, y) = x[y] * c + x[y + 1]
  BY WordBytes, Zenon
<1>2. Uint16(s, i) = s[i] * c + s[i + 1] /\ Uint16(b, i) = b[i] * c + b[i + 1]
  BY <1>1, Zenon
<1> QED
  BY <1>2, Zenon

\* The length field depends on bytes 5 to 8 only.
LEMMA LengthDepends ==
  ASSUME NEW s \in Seq(Nat), NEW b \in Seq(Nat), \A i \in 5 .. 8 : s[i] = b[i]
  PROVE  LengthOf(s) = LengthOf(b)
<1>1. s[5] = b[5] /\ s[6] = b[6] /\ s[7] = b[7] /\ s[8] = b[8]
  OBVIOUS
<1>2. PICK c \in Nat, d \in Nat :
         \A x : LengthOf(x) = (x[5] * c + x[6]) * d + (x[7] * c + x[8])
  BY LengthBytes, Zenon
<1>3. LengthOf(s) = (b[5] * c + b[6]) * d + (b[7] * c + b[8])
  BY <1>1, <1>2, Zenon
<1> QED
  BY <1>2, <1>3, Zenon

\* The length field of a complete header is a natural number.
LEMMA LengthNat ==
  ASSUME NEW b \in Seq(Nat), Len(b) >= 12
  PROVE  LengthOf(b) \in Nat
<1>1. b[5] \in Nat /\ b[6] \in Nat /\ b[7] \in Nat /\ b[8] \in Nat
  BY SMTT(20)
<1>2. PICK c \in Nat, d \in Nat :
         \A x : LengthOf(x) = (x[5] * c + x[6]) * d + (x[7] * c + x[8])
  BY LengthBytes, Zenon
<1>3. \A i, j \in Nat : i * c + j \in Nat /\ i * d + j \in Nat
  OBVIOUS
<1> QED
  BY <1>1, <1>2, <1>3, Zenon

\* The envelope of a message: the magic, a Length that counts the fourteen
\* bytes of the FINS header and codes, the data and four bytes of its own,
\* and from the thirteenth byte the FINS message.
Enveloped(b, m) ==
    /\ Len(b) = 26 + Len(m.data) /\ Len(m.data) \in Nat
    /\ \A q \in 1 .. 4 : b[q] = Magic[q]
    /\ LengthOf(b) = Len(m.data) + 18
    /\ \A i \in 1 .. 14 + Len(m.data) : b[12 + i] = Message2Fins(m)[i]

\* EncodeFINSTCPFrame writes the magic and the length of the message, and
\* then the message.
LEMMA EnvelopeBytes ==
  ASSUME NEW m \in Message
  PROVE  Bytes(m) \in Seq(Nat) /\ Enveloped(Bytes(m), m)
<1>1. /\ Message2Fins(m) \in Seq(Nat) /\ Len(m.data) \in Nat
      /\ Len(Message2Fins(m)) = 14 + Len(m.data) /\ Len(Message2Fins(m)) + 4 \in Nat
      /\ TCPCommandFINSFrame \in Nat /\ 0 \in Nat
  BY FinsBytes DEF TCPCommandFINSFrame
<1>2. Magic \in Seq(Nat) /\ Len(Magic) = 4
  BY DEF Magic
<1>3. PICK a : a = Magic \o PutUint16(0)
  BY Zenon
<1>4. /\ a \in Seq(Nat) /\ Len(a) = 6 /\ \A i \in 1 .. 4 : a[i] = Magic[i]
      /\ Uint16(a, 5) = 0
  <2>1. PICK t : t = PutUint16(0)
    BY Zenon
  <2>2. t \in Seq(Nat) /\ Len(t) = 2
    BY <1>1, <2>1, Uint16Bytes, ZenonT(30)
  <2>3. t[1] * 256 + t[2] = 0
    BY <1>1, <2>1, Uint16Bytes, ZenonT(30)
  <2>4. Joins(a, Magic, t)
    BY <1>2, <1>3, <2>1, <2>2, Concat, Zenon
  <2>5. /\ a \in Seq(Nat) /\ Len(a) = 6 /\ \A i \in 1 .. 4 : a[i] = Magic[i]
        /\ a[4 + 1] = t[1] /\ a[4 + 2] = t[2]
    BY <1>2, <2>2, <2>4 DEF Joins
  <2>6. 4 + 1 = 5 /\ 4 + 2 = 5 + 1
    OBVIOUS
  <2> QED
    BY <2>3, <2>5, <2>6, ZenonT(30) DEF Uint16
<1>5. PICK b : b = a \o PutUint16(Len(Message2Fins(m)) + 4)
  BY Zenon
<1>6. /\ b \in Seq(Nat) /\ Len(b) = 8 /\ \A i \in 1 .. 6 : b[i] = a[i]
      /\ Uint16(b, 7) = Len(Message2Fins(m)) + 4
  <2>1. PICK t : t = PutUint16(Len(Message2Fins(m)) + 4)
    BY Zenon
  <2>2. t \in Seq(Nat) /\ Len(t) = 2
    BY <1>1, <2>1, Uint16Bytes, Zenon
  <2>3. t[1] * 256 + t[2] = Len(Message2Fins(m)) + 4
    BY <1>1, <2>1, Uint16Bytes, Zenon
  <2>4. Joins(b, a, t)
    BY <1>4, <1>5, <2>1, <2>2, Concat, Zenon
  <2>5. /\ b \in Seq(Nat) /\ Len(b) = 8 /\ \A i \in 1 .. 6 : b[i] = a[i]
        /\ b[6 + 1] = t[1] /\ b[6 + 2] = t[2]
    BY <1>4, <2>2, <2>4 DEF Joins
  <2>6. 6 + 1 = 7 /\ 6 + 2 = 7 + 1
    OBVIOUS
  <2> QED
    BY <2>3, <2>5, <2>6, ZenonT(30) DEF Uint16
<1>7. PICK c : c = b \o PutUint16(TCPCommandFINSFrame)
  BY Zenon
<1>8. /\ c \in Seq(Nat) /\ Len(c) = 10 /\ \A i \in 1 .. 8 : c[i] = b[i]
      /\ Uint16(c, 9) = TCPCommandFINSFrame
  <2>1. PICK t : t = PutUint16(TCPCommandFINSFrame)
    BY Zenon
  <2>2. t \in Seq(Nat) /\ Len(t) = 2
    BY <1>1, <2>1, Uint16Bytes, Zenon
  <2>3. t[1] * 256 + t[2] = TCPCommandFINSFrame
    BY <1>1, <2>1, Uint16Bytes, ZenonT(30)
  <2>4. Joins(c, b, t)
    BY <1>6, <1>7, <2>1, <2>2, Concat, Zenon
  <2>5. /\ c \in Seq(Nat) /\ Len(c) = 10 /\ \A i \in 1 .. 8 : c[i] = b[i]
        /\ c[8 + 1] = t[1] /\ c[8 + 2] = t[2]
    BY <1>6, <2>2, <2>4 DEF Joins
  <2>6. 8 + 1 = 9 /\ 8 + 2 = 9 + 1
    OBVIOUS
  <2> QED
    BY <2>3, <2>5, <2>6, ZenonT(30) DEF Uint16
<1>9. PICK d : d = c \o PutUint16(0)
  BY Zenon
<1>10. /\ d \in Seq(Nat) /\ Len(d) = 12 /\ \A i \in 1 .. 10 : d[i] = c[i]
      /\ Uint16(d, 11) = 0
  <2>1. PICK t : t = PutUint16(0)
    BY Zenon
  <2>2. t \in Seq(Nat) /\ Len(t) = 2
    BY <1>1, <2>1, Uint16Bytes, Zenon
  <2>3. t[1] * 256 + t[2] = 0
    BY <1>1, <2>1, Uint16Bytes, Zenon
  <2>4. Joins(d, c, t)
    BY <1>8, <1>9, <2>1, <2>2, Concat, Zenon
  <2>5. /\ d \in Seq(Nat) /\ Len(d) = 12 /\ \A i \in 1 .. 10 : d[i] = c[i]
        /\ d[10 + 1] = t[1] /\ d[10 + 2] = t[2]
    BY <1>8, <2>2, <2>4 DEF Joins
  <2>6. 10 + 1 = 11 /\ 10 + 2 = 11 + 1
    OBVIOUS
  <2> QED
    BY <2>3, <2>5, <2>6, ZenonT(30) DEF Uint16
<1>11. PICK f : f = d \o Message2Fins(m)
  BY Zenon
<1>12. /\ f \in Seq(Nat) /\ Len(f) = 26 + Len(m.data)
       /\ \A i \in 1 .. 12 : f[i] = d[i]
       /\ \A i \in 1 .. 14 + Len(m.data) : f[12 + i] = Message2Fins(m)[i]
  <2>1. Joins(f, d, Message2Fins(m))
    BY <1>1, <1>10, <1>11, Concat, Zenon
  <2> QED
    BY <1>1, <1>10, <2>1 DEF Joins
<1>13. Bytes(m) = f
  BY <1>3, <1>5, <1>7, <1>9, <1>11, Zenon DEF Bytes, EncodeFINSTCPFrame
<1>14. /\ \A i \in 1 .. 12 : f[i] = d[i]
       /\ \A i \in 1 .. 10 : d[i] = c[i]
       /\ \A i \in 1 .. 8 : c[i] = b[i]
       /\ \A i \in 1 .. 6 : b[i] = a[i]
       /\ \A i \in 1 .. 4 : a[i] = Magic[i]
  BY <1>4, <1>6, <1>8, <1>10, <1>12, Zenon
<1>15. f[5] = a[5] /\ f[5 + 1] = a[5 + 1]
  BY <1>14
<1>16. \A q \in 1 .. 4 : f[q] = Magic[q]
  BY <1>14
<1>17. f[7] = b[7] /\ f[7 + 1] = b[7 + 1]
  BY <1>14
<1>18. LengthOf(f) = Len(m.data) + 18
  <2>1. (14 + Len(m.data)) + 4 = Len(m.data) + 18 /\ Len(m.data) + 18 \in Nat
    BY <1>1
  <2>2. Uint16(f, 5) = Uint16(a, 5)
    BY <1>15, SameWord, ZenonT(30)
  <2>3. Uint16(f, 7) = Uint16(b, 7)
    BY <1>17, SameWord, ZenonT(30)
  <2>4. Uint16(f, 5) = 0 /\ Uint16(f, 7) = Len(m.data) + 18
    BY <1>1, <1>4, <1>6, <2>1, <2>2, <2>3, Zenon
  <2> QED
    BY <2>1, <2>4, LowWord, Zenon
<1> QED
  BY <1>1, <1>12, <1>13, <1>16, <1>18, Zenon DEF Enveloped

\* DecodeFINSTCPFrame accepts what begins with the magic.
LEMMA HeaderDecodes ==
  ASSUME NEW s \in Seq(Nat)
  PROVE  /\ DecodeFINSTCPFrame(s).ok <=> Len(s) >= 12 /\ \A q \in 1 .. 4 : s[q] = Magic[q]
         /\ DecodeFINSTCPFrame(s).ok => DecodeFINSTCPFrame(s).Length = LengthOf(s)
<1>1. Len(s) \in Nat
  OBVIOUS
<1>2. CASE Len(s) < 12
  BY <1>1, <1>2 DEF DecodeFINSTCPFrame, Invalid
<1>3. CASE Len(s) >= 12
  <2>1. SubSeq(s, 1, 4) = Magic <=> \A q \in 1 .. 4 : s[q] = Magic[q]
    <3>1. SubSeq(s, 1, 4) \in Seq(Nat) /\ Len(SubSeq(s, 1, 4)) = 4
          /\ \A q \in 1 .. 4 : SubSeq(s, 1, 4)[q] = s[q]
      BY <1>3, SMTT(30)
    <3>2. Magic \in Seq(Nat) /\ Len(Magic) = 4
      BY DEF Magic
    <3> QED
      BY <3>1, <3>2, SeqEqual, SMTT(20)
  <2>2. ~(Len(s) < 12)
    BY <1>1, <1>3
  <2>3. CASE SubSeq(s, 1, 4) = Magic
    <3>1. DecodeFINSTCPFrame(s).ok /\ DecodeFINSTCPFrame(s).Length = LengthOf(s)
      BY <2>2, <2>3, Zenon DEF DecodeFINSTCPFrame, LengthOf
    <3> QED
      BY <1>3, <2>1, <2>3, <3>1, Zenon
  <2>4. CASE SubSeq(s, 1, 4) # Magic
    <3>1. ~DecodeFINSTCPFrame(s).ok
      BY <2>4, Zenon DEF DecodeFINSTCPFrame, Invalid
    <3> QED
      BY <2>1, <2>4, <3>1, Zenon
  <2> QED
    BY <2>3, <2>4, Zenon
<1> QED
  BY <1>1, <1>2, <1>3

\* DecodeFINSFrame gives back what EncodeFINSFrame wrote.
LEMMA FinsDecodes ==
  ASSUME NEW m \in Message
  PROVE  DecodeFINSFrame(Message2Fins(m)) = FrameOf(m)
<1>1. PICK f : f = Message2Fins(m)
  BY Zenon
<1>2. /\ f \in Seq(Nat) /\ Len(m.data) \in Nat /\ Len(f) = 14 + Len(m.data) /\ Fields(f, m)
      /\ \A i \in 1 .. Len(m.data) : f[14 + i] = m.data[i]
  BY <1>1, FinsBytes, Zenon
<1>3. m.header \in Header /\ m.data \in Seq(Nat)
  BY MessageAssumption, Zenon
<1>4. SubSeq(f, 15, Len(f)) = m.data
  <2>1. /\ SubSeq(f, 15, Len(f)) \in Seq(Nat) /\ Len(SubSeq(f, 15, Len(f))) = Len(m.data)
        /\ \A i \in 1 .. Len(m.data) : SubSeq(f, 15, Len(f))[i] = f[14 + i]
    BY <1>2, SMTT(20)
  <2> QED
    BY <1>2, <1>3, <2>1, SeqEqual, SMTT(30)
<1>5. m.header = [ICF |-> m.header.ICF, RSV |-> m.header.RSV, GCT |-> m.header.GCT,
                  Dest |-> m.header.Dest, Src |-> m.header.Src, SID |-> m.header.SID]
  BY <1>3, Zenon DEF Header
<1>6. ~(Len(f) < 14)
  BY <1>2
<1>7. m.header = [ICF |-> f[1], RSV |-> f[2], GCT |-> f[3], Dest |-> AddressAt(f, 4),
                  Src |-> AddressAt(f, 7), SID |-> f[10]]
  BY <1>2, <1>5, Zenon DEF Fields
<1>8. Uint16(f, 11) = m.command /\ Uint16(f, 13) = m.endCode
  BY <1>2, Zenon DEF Fields
<1> QED
  BY <1>1, <1>4, <1>6, <1>7, <1>8, Zenon DEF DecodeFINSFrame, FrameOf

\* The header of a message gives the length of its frame.
LEMMA MessageHeader ==
  ASSUME NEW m \in Message, NEW s \in Seq(Nat), NEW b \in Seq(Nat), Enveloped(b, m),
         Len(s) >= 12, \A i \in 1 .. 12 : s[i] = b[i]
  PROVE  DecodeFINSTCPFrame(s).ok /\ DecodeFINSTCPFrame(s).Length = Len(m.data) + 18
<1>1. (\A q \in 1 .. 4 : b[q] = Magic[q]) /\ LengthOf(b) = Len(m.data) + 18
  BY Zenon DEF Enveloped
<1>2. (\A i \in 1 .. 4 : i \in 1 .. 12) /\ (\A i \in 5 .. 8 : i \in 1 .. 12)
  OBVIOUS
<1>3. (\A i \in 1 .. 4 : s[i] = b[i]) /\ (\A i \in 5 .. 8 : s[i] = b[i])
  BY <1>2, Zenon
<1>4. DecodeFINSTCPFrame(s).ok
  BY <1>1, <1>3, HeaderDecodes, Zenon
<1> QED
  BY <1>1, <1>3, <1>4, LengthDepends, HeaderDecodes, Zenon

\* A whole message decodes to itself, whatever follows it.
LEMMA MessageDecodes ==
  ASSUME NEW m \in Message, NEW s \in Seq(Nat), NEW b \in Seq(Nat), Enveloped(b, m),
         Len(s) >= Len(b), \A i \in 1 .. Len(b) : s[i] = b[i]
  PROVE  DecodeFINSFrame(DecodeFINSTCPFrame(s).Data) = FrameOf(m)
<1>1. PICK n \in Nat : n = Len(m.data)
  BY Zenon DEF Enveloped
<1>2. PICK f \in Seq(Nat) : f = Message2Fins(m)
  BY FinsBytes, Zenon
<1>3. Len(b) = 26 + n /\ Len(f) = 14 + n /\ \A i \in 1 .. 14 + n : b[12 + i] = f[i]
  BY <1>1, <1>2, FinsBytes, Zenon DEF Enveloped
<1>4. Len(s) \in Nat /\ Len(s) >= 26 + n /\ Len(s) >= 12
  BY <1>3, SMTT(20)
<1>5. \A i \in 1 .. 12 : s[i] = b[i]
  BY <1>3, SMTT(20)
<1>6. DecodeFINSTCPFrame(s).ok /\ DecodeFINSTCPFrame(s).Length = n + 18
  BY <1>1, <1>4, <1>5, MessageHeader, Zenon
<1>7. LengthOf(s) = n + 18
  BY <1>6, HeaderDecodes, Zenon
<1>8. ~(8 + LengthOf(s) > Len(s)) /\ 8 + LengthOf(s) = 26 + n
  BY <1>4, <1>7, SMTT(30)
<1>9. DecodeFINSTCPFrame(s).Data = SubSeq(s, 13, 26 + n)
  <2>1. DecodeFINSTCPFrame(s) # Invalid
    BY <1>6 DEF Invalid
  <2>2. ~(Len(s) < 12 \/ SubSeq(s, 1, 4) # Magic)
    BY <2>1, Zenon DEF DecodeFINSTCPFrame
  <2> QED
    BY <1>8, <2>2, Zenon DEF DecodeFINSTCPFrame, LengthOf
<1>10. SubSeq(s, 13, 26 + n) = f
  <2>1. PICK g : g = SubSeq(s, 13, 26 + n)
    BY Zenon
  <2>2. g \in Seq(Nat)
    BY <1>4, <2>1, SMTT(20)
  <2>3. Len(g) = 14 + n
    BY <1>4, <2>1
  <2>4. \A i \in 1 .. 14 + n : 12 + i \in 1 .. 26 + n
    OBVIOUS
  <2>5. ASSUME NEW i \in 1 .. 14 + n PROVE g[i] = f[i]
    <3>1. g[i] = s[12 + i]
      BY <1>4, <2>1, SMTT(20)
    <3>2. s[12 + i] = b[12 + i]
      BY <1>3, <2>4, Zenon
    <3> QED
      BY <1>3, <3>1, <3>2, Zenon
  <2>6. Len(g) = Len(f) /\ \A i \in 1 .. Len(g) : g[i] = f[i]
    BY <1>3, <2>3, <2>5, Zenon
  <2>7. g = f
    BY <2>2, <2>6, SeqEqual, Zenon
  <2> QED
    BY <2>1, <2>7, Zenon
<1> QED
  BY <1>2, <1>9, <1>10, FinsDecodes, Zenon

\* A Length below eighteen leaves no room for a FINS message.
LEMMA ShortDecodes ==
  ASSUME NEW s \in Seq(Nat), DecodeFINSTCPFrame(s).ok, LengthOf(s) \in Nat, LengthOf(s) < 18
  PROVE  ~DecodeFINSFrame(DecodeFINSTCPFrame(s).Data).ok
<1>1. PICK e : e = IF 8 + LengthOf(s) > Len(s) THEN Len(s) ELSE 8 + LengthOf(s)
  BY Zenon
<1>2. e \in Nat /\ e < 26 /\ e <= Len(s) /\ Len(s) \in Nat
  BY <1>1
<1>3. DecodeFINSTCPFrame(s).Data = SubSeq(s, 13, e)
  <2>1. DecodeFINSTCPFrame(s) # Invalid
    BY DEF Invalid
  <2>2. ~(Len(s) < 12 \/ SubSeq(s, 1, 4) # Magic)
    BY <2>1, Zenon DEF DecodeFINSTCPFrame
  <2> QED
    BY <1>1, <2>2, Zenon DEF DecodeFINSTCPFrame, LengthOf
<1>4. Len(SubSeq(s, 13, e)) < 14
  BY <1>2
<1> QED
  BY <1>3, <1>4, Zenon DEF DecodeFINSFrame, Invalid

-----------------------------------------------------------------------------
(* The stream.  H is everything that was ever written.  P holds the        *)
(* positions at which the inner loop may stand, and idx[o] is the number   *)
(* of messages that lie in the first o bytes of H.                         *)

Frame == {FrameOf(m) : m \in Message}

At(H, o, b) == o + Len(b) <= Len(H) /\ \A i \in 1 .. Len(b) : H[o + i] = b[i]

\* The magic does not begin behind o and cannot be completed by more bytes.
JunkAt(H, o) ==
    \E q \in 1 .. 4 : \/ o + q <= Len(H) /\ H[o + q] # Magic[q]
                      \/ o + q = Len(H) + 1 /\ Magic[q] \notin First

\* What may lie behind a position: a message, a frame too short to hold one,
\* or a byte to skip.
IsMessage(H, P, idx, s, o, m) ==
    /\ At(H, o, Bytes(m)) /\ o + Len(Bytes(m)) \in P
    /\ idx[o + Len(Bytes(m))] = idx[o] + 1
    /\ idx[o] < Len(s) /\ s[idx[o] + 1] = FrameOf(m)
IsShort(H, P, idx, o, b) ==
    /\ ShortFrame(b) /\ At(H, o, b) /\ o + (8 + LengthOf(b)) \in P
    /\ idx[o + (8 + LengthOf(b))] = idx[o]
IsJunk(H, P, idx, o) == JunkAt(H, o) /\ o + 1 \in P /\ idx[o + 1] = idx[o]
Token(H, P, idx, s, o) ==
    \/ \E m \in Message : IsMessage(H, P, idx, s, o, m)
    \/ \E b \in Noise : IsShort(H, P, idx, o, b)
    \/ IsJunk(H, P, idx, o)

\* The tokens cover H, and s is the messages among them.
Tiled(H, P, idx, s) ==
    /\ H \in Seq(Nat) /\ P \subseteq 0 .. Len(H) /\ idx \in [Nat -> Nat] /\ s \in Seq(Frame)
    /\ Len(H) \in P /\ idx[Len(H)] = Len(s)
    /\ \A o \in P : o < Len(H) => Token(H, P, idx, s, o)

\* G and t can be tiled so that what P and idx say stays true.
Retiled(G, t, P, idx) ==
    \E Q, jdx : Tiled(G, Q, jdx, t) /\ P \subseteq Q /\ \A o \in P : jdx[o] = idx[o]

\* What ShortFrame says, with the length field under its name.
LEMMA ShortShape ==
  ASSUME NEW b \in Seq(Nat), ShortFrame(b)
  PROVE  /\ Len(b) >= 12 /\ (\A q \in 1 .. 4 : b[q] = Magic[q])
         /\ LengthOf(b) \in Nat /\ LengthOf(b) < 18 /\ LengthOf(b) + 8 <= Len(b)
BY LengthNat, Zenon DEF ShortFrame, LengthOf

\* Noise is not empty, starts with a byte of First, and is junk or a short
\* frame with junk behind it.
LEMMA NoiseShape ==
  ASSUME NEW b \in Noise
  PROVE  /\ b \in Seq(Nat) /\ Len(b) \in Nat /\ Len(b) >= 1 /\ b[1] \in First
         /\ Junk(b, 1) \/ (ShortFrame(b) /\ Junk(b, LengthOf(b) + 9))
<1>1. /\ b \in Seq(Nat) /\ b # <<>>
      /\ Junk(b, 1) \/ (ShortFrame(b) /\ Junk(b, LengthOf(b) + 9))
  BY NoiseAssumption, Zenon DEF LengthOf
<1>2. Len(b) \in Nat /\ Len(b) >= 1
  BY <1>1
<1>3. b[1] \in First
  BY Zenon DEF First
<1> QED
  BY <1>1, <1>2, <1>3, Zenon

\* A message takes at least 26 bytes and starts with a byte of First.
LEMMA MessageShape ==
  ASSUME NEW m \in Message
  PROVE  /\ Bytes(m) \in Seq(Nat) /\ Len(Bytes(m)) \in Nat /\ Len(Bytes(m)) >= 26
         /\ Bytes(m)[1] \in First
<1>1. PICK n : n = Len(m.data)
  BY Zenon
<1>2. PICK b : b = Bytes(m)
  BY Zenon
<1>3. b \in Seq(Nat) /\ n \in Nat /\ Len(b) = 26 + n /\ \A q \in 1 .. 4 : b[q] = Magic[q]
  BY <1>1, <1>2, EnvelopeBytes, Zenon DEF Enveloped
<1>4. Len(b) \in Nat /\ Len(b) >= 26 /\ 1 \in 1 .. 4
  BY <1>3
<1>5. b[1] \in First
  BY <1>3, <1>4, Zenon DEF First
<1> QED
  BY <1>2, <1>3, <1>4, <1>5, Zenon

\* What lies in the history stays there when more is written.
LEMMA AtGrows ==
  ASSUME NEW H \in Seq(Nat), NEW b \in Seq(Nat), NEW G, Joins(G, H, b),
         NEW o \in Nat, NEW c \in Seq(Nat), At(H, o, c)
  PROVE  At(G, o, c)
<1>1. /\ Len(G) = Len(H) + Len(b) /\ Len(H) \in Nat /\ Len(b) \in Nat
      /\ \A i \in 1 .. Len(H) : G[i] = H[i]
  BY Zenon DEF Joins
<1>2. o + Len(c) <= Len(H) /\ \A i \in 1 .. Len(c) : H[o + i] = c[i]
  BY Zenon DEF At
<1>3. Len(c) \in Nat
  OBVIOUS
<1>4. o + Len(c) <= Len(G)
  BY <1>1, <1>2, <1>3
<1>5. \A i \in 1 .. Len(c) : o + i \in 1 .. Len(H)
  BY <1>1, <1>2, <1>3
<1> QED
  BY <1>1, <1>2, <1>4, <1>5, Zenon DEF At

\* Bytes that cannot complete the magic turn the second form of JunkAt into
\* the first.
LEMMA JunkGrows ==
  ASSUME NEW H \in Seq(Nat), NEW b \in Seq(Nat), NEW G, Joins(G, H, b),
         Len(b) >= 1, b[1] \in First, NEW o \in Nat, JunkAt(H, o)
  PROVE  JunkAt(G, o)
<1>1. /\ Len(G) = Len(H) + Len(b) /\ Len(H) \in Nat /\ Len(b) \in Nat
      /\ \A i \in 1 .. Len(H) : G[i] = H[i]
      /\ \A i \in 1 .. Len(b) : G[Len(H) + i] = b[i]
  BY Zenon DEF Joins
<1>2. PICK q \in 1 .. 4 : \/ o + q <= Len(H) /\ H[o + q] # Magic[q]
                          \/ o + q = Len(H) + 1 /\ Magic[q] \notin First
  BY Zenon DEF JunkAt
<1>3. CASE o + q <= Len(H) /\ H[o + q] # Magic[q]
  <2>1. o + q \in 1 .. Len(H) /\ o + q <= Len(G)
    BY <1>1, <1>3
  <2>2. G[o + q] # Magic[q]
    BY <1>1, <1>3, <2>1, Zenon
  <2> QED
    BY <2>1, <2>2, Zenon DEF JunkAt
<1>4. CASE o + q = Len(H) + 1 /\ Magic[q] \notin First
  <2>1. 1 \in 1 .. Len(b) /\ o + q <= Len(G)
    BY <1>1, <1>4
  <2>2. G[o + q] = b[1]
    BY <1>1, <1>4, <2>1, Zenon
  <2>3. G[o + q] # Magic[q]
    BY <1>4, <2>2, Zenon
  <2> QED
    BY <2>1, <2>3, Zenon DEF JunkAt
<1> QED
  BY <1>2, <1>3, <1>4, Zenon

\* Append adds one element behind the others.
LEMMA Appends ==
  ASSUME NEW S, NEW s \in Seq(S), NEW x \in S
  PROVE  /\ Append(s, x) \in Seq(S) /\ Len(s) \in Nat /\ Len(Append(s, x)) = Len(s) + 1
         /\ (\A i \in 1 .. Len(s) : Append(s, x)[i] = s[i]) /\ Append(s, x)[Len(s) + 1] = x
OBVIOUS

\* Counts that agree up to n and are v from there on.
GoesOn(jdx, idx, n, v) ==
    /\ jdx \in [Nat -> Nat] /\ \A o \in 0 .. n : jdx[o] = idx[o]
    /\ \A o \in Nat : o > n => jdx[o] = v

\* A count of messages can be given a value at the new end of the history.
LEMMA CountsGoOn ==
  ASSUME NEW idx \in [Nat -> Nat], NEW n \in Nat, NEW v \in Nat
  PROVE  \E jdx : GoesOn(jdx, idx, n, v)
<1> DEFINE jdx == [o \in Nat |-> IF o <= n THEN idx[o] ELSE v]
<1>1. GoesOn(jdx, idx, n, v)
  BY DEF GoesOn
<1> QED
  BY <1>1, Zenon

\* Writing more changes no token that was there.
LEMMA TokenGrows ==
  ASSUME NEW H \in Seq(Nat), NEW b \in Seq(Nat), NEW G, Joins(G, H, b),
         Len(b) >= 1, b[1] \in First,
         NEW P \in SUBSET (0 .. Len(H)), NEW Q, P \subseteq Q,
         NEW idx \in [Nat -> Nat], NEW jdx, \A p \in 0 .. Len(H) : jdx[p] = idx[p],
         NEW s, NEW t, Len(s) \in Nat, Len(t) \in Nat, Len(s) <= Len(t),
         \A i \in 1 .. Len(s) : t[i] = s[i],
         NEW o \in P, Token(H, P, idx, s, o)
  PROVE  Token(G, Q, jdx, t, o)
<1>1. o \in Nat /\ o \in 0 .. Len(H) /\ jdx[o] = idx[o] /\ idx[o] \in Nat
  <2>1. o \in 0 .. Len(H)
    BY Zenon
  <2>2. \A p \in 0 .. Len(H) : p \in Nat
    OBVIOUS
  <2> QED
    BY <2>1, <2>2, Zenon
<1>2. ASSUME NEW m \in Message, IsMessage(H, P, idx, s, o, m)
      PROVE  IsMessage(G, Q, jdx, t, o, m)
  <2>1. /\ At(H, o, Bytes(m)) /\ o + Len(Bytes(m)) \in P
        /\ idx[o + Len(Bytes(m))] = idx[o] + 1
        /\ idx[o] < Len(s) /\ s[idx[o] + 1] = FrameOf(m)
    BY <1>2, Zenon DEF IsMessage
  <2>2. At(G, o, Bytes(m))
    BY <1>1, <2>1, AtGrows, MessageShape, Zenon
  <2>3. jdx[o + Len(Bytes(m))] = jdx[o] + 1
    BY <1>1, <2>1, Zenon
  <2>4. idx[o] + 1 \in 1 .. Len(s) /\ idx[o] < Len(t)
    <3>1. \A i, j, n \in Nat : i < j /\ j <= n => i + 1 \in 1 .. j /\ i < n
      OBVIOUS
    <3> QED
      BY <1>1, <2>1, <3>1, Zenon
  <2>5. jdx[o] < Len(t) /\ t[jdx[o] + 1] = FrameOf(m)
    BY <1>1, <2>1, <2>4, Zenon
  <2> QED
    BY <2>1, <2>2, <2>3, <2>5, Zenon DEF IsMessage
<1>3. ASSUME NEW c \in Noise, IsShort(H, P, idx, o, c)
      PROVE  IsShort(G, Q, jdx, o, c)
  <2>1. /\ ShortFrame(c) /\ At(H, o, c) /\ o + (8 + LengthOf(c)) \in P
        /\ idx[o + (8 + LengthOf(c))] = idx[o]
    BY <1>3, Zenon DEF IsShort
  <2>2. At(G, o, c)
    BY <1>1, <2>1, AtGrows, NoiseShape, Zenon
  <2> QED
    BY <1>1, <2>1, <2>2, Zenon DEF IsShort
<1>4. ASSUME IsJunk(H, P, idx, o)
      PROVE  IsJunk(G, Q, jdx, o)
  <2>1. JunkAt(H, o) /\ o + 1 \in P /\ idx[o + 1] = idx[o]
    BY <1>4, Zenon DEF IsJunk
  <2>2. JunkAt(G, o)
    BY <1>1, <2>1, JunkGrows, Zenon
  <2> QED
    BY <1>1, <2>1, <2>2, Zenon DEF IsJunk
<1> QED
  BY <1>2, <1>3, <1>4, Zenon DEF Token

\* A message written behind the stream is one more token and one more message.
LEMMA TiledMessage ==
  ASSUME NEW H, NEW P, NEW idx, NEW s, Tiled(H, P, idx, s), NEW m \in Message
  PROVE  Retiled(H \o Bytes(m), Append(s, FrameOf(m)), P, idx)
<1>1. /\ H \in Seq(Nat) /\ P \subseteq 0 .. Len(H) /\ idx \in [Nat -> Nat] /\ s \in Seq(Frame)
      /\ Len(H) \in P /\ idx[Len(H)] = Len(s)
      /\ \A o \in P : o < Len(H) => Token(H, P, idx, s, o)
  BY Zenon DEF Tiled
<1>2. PICK b : b = Bytes(m)
  BY Zenon
<1>3. b \in Seq(Nat) /\ Len(b) \in Nat /\ Len(b) >= 26 /\ b[1] \in First
  BY <1>2, MessageShape, Zenon
<1>4. PICK G : G = H \o Bytes(m)
  BY Zenon
<1>5. Joins(G, H, b)
  BY <1>1, <1>2, <1>3, <1>4, Concat, ZenonT(30)
<1>6. /\ G \in Seq(Nat) /\ Len(G) = Len(H) + Len(b) /\ Len(H) \in Nat
      /\ \A i \in 1 .. Len(b) : G[Len(H) + i] = b[i]
  BY <1>5, Zenon DEF Joins
<1>7. PICK t : t = Append(s, FrameOf(m))
  BY Zenon
<1>8. /\ t \in Seq(Frame) /\ Len(s) \in Nat /\ Len(t) = Len(s) + 1
      /\ (\A i \in 1 .. Len(s) : t[i] = s[i]) /\ t[Len(s) + 1] = FrameOf(m)
  <2>1. FrameOf(m) \in Frame
    BY Zenon DEF Frame
  <2>2. s \in Seq(Frame)
    BY <1>1, Zenon
  <2>3. /\ Append(s, FrameOf(m)) \in Seq(Frame) /\ Len(s) \in Nat
        /\ Len(Append(s, FrameOf(m))) = Len(s) + 1
        /\ \A i \in 1 .. Len(s) : Append(s, FrameOf(m))[i] = s[i]
        /\ Append(s, FrameOf(m))[Len(s) + 1] = FrameOf(m)
    BY <2>1, <2>2, Appends
  <2> QED
    BY <1>7, <2>3, Zenon
<1>9. PICK Q : Q = P \cup {Len(G)}
  BY Zenon
<1>10. PICK jdx : GoesOn(jdx, idx, Len(H), Len(t))
  <2>1. Len(t) \in Nat
    BY <1>8
  <2> QED
    BY <1>1, <1>6, <2>1, CountsGoOn, Zenon
<1>11. /\ jdx \in [Nat -> Nat] /\ jdx[Len(G)] = Len(t)
       /\ \A o \in 0 .. Len(H) : jdx[o] = idx[o]
  <2>1. Len(G) \in Nat /\ Len(G) > Len(H)
    BY <1>3, <1>6
  <2> QED
    BY <1>10, <2>1, Zenon DEF GoesOn
<1>12. /\ Q \subseteq 0 .. Len(G) /\ P \subseteq Q /\ Len(G) \in Q /\ Len(H) <= Len(G)
  <2>1. /\ Len(G) \in 0 .. Len(G) /\ Len(H) <= Len(G)
        /\ \A o \in 0 .. Len(H) : o \in 0 .. Len(G)
    BY <1>3, <1>6, SMTT(20)
  <2> QED
    BY <1>1, <1>9, <2>1, Zenon
<1>13. ASSUME NEW o \in Q, o < Len(G)
       PROVE  Token(G, Q, jdx, t, o)
  <2>1. o \in P
    BY <1>6, <1>9, <1>13, <1>3
  <2>2. o \in 0 .. Len(H)
    BY <1>1, <2>1, Zenon
  <2>3. CASE o < Len(H)
    <3>1. Token(H, P, idx, s, o)
      BY <1>1, <2>1, <2>3, Zenon
    <3>2. Len(b) >= 1 /\ Len(s) <= Len(t) /\ Len(t) \in Nat
      BY <1>3, <1>8, SMT
    <3> QED
      BY <1>1, <1>3, <1>5, <1>8, <1>11, <1>12, <2>1, <3>1, <3>2, TokenGrows, ZenonT(30)
  <2>4. CASE o = Len(H)
    <3>1. o + Len(b) = Len(G) /\ o + Len(b) <= Len(G) /\ Len(s) < Len(t)
      <4>1. Len(G) = Len(H) + Len(b) /\ Len(H) \in Nat /\ Len(s) \in Nat /\ Len(t) = Len(s) + 1
        BY <1>6, <1>8, Zenon
      <4> QED
        BY <1>3, <2>4, <4>1, SMT
    <3>2. At(G, o, b)
      BY <1>6, <2>4, <3>1, Zenon DEF At
    <3>3. jdx[o] = Len(s) /\ jdx[o + Len(b)] = jdx[o] + 1
      BY <1>1, <1>8, <1>11, <2>2, <2>4, <3>1, Zenon
    <3>4. IsMessage(G, Q, jdx, t, o, m)
      BY <1>2, <1>8, <1>12, <3>1, <3>2, <3>3, Zenon DEF IsMessage
    <3> QED
      BY <3>4, Zenon DEF Token
  <2> QED
    BY <1>6, <2>2, <2>3, <2>4
<1>14. Tiled(G, Q, jdx, t)
  BY <1>6, <1>8, <1>11, <1>12, <1>13, Zenon DEF Tiled
<1>15. \A o \in P : jdx[o] = idx[o]
  BY <1>1, <1>11, Zenon
<1> QED
  BY <1>4, <1>7, <1>12, <1>14, <1>15, Zenon DEF Retiled

\* Noise behind the stream: where it is junk in b it is junk in the stream.
LEMMA JunkLands ==
  ASSUME NEW H \in Seq(Nat), NEW b \in Seq(Nat), NEW G, Joins(G, H, b),
         NEW e \in Nat, Junk(b, e + 1), NEW r \in Nat, e <= r, r < Len(b)
  PROVE  JunkAt(G, Len(H) + r)
<1>0. \A i \in 1 .. Len(b) : G[Len(H) + i] = b[i]
  BY Zenon DEF Joins
<1>1. Len(G) = Len(H) + Len(b) /\ Len(H) \in Nat /\ Len(b) \in Nat
  BY Zenon DEF Joins
<1>2. r + 1 \in (e + 1) .. Len(b)
  BY <1>1, SMT
<1>3. PICK q \in 1 .. 4 :
         \/ (r + 1) + q - 1 <= Len(b) /\ b[(r + 1) + q - 1] # Magic[q]
         \/ (r + 1) + q - 1 = Len(b) + 1 /\ Magic[q] \notin First
  BY <1>2, Zenon DEF Junk
<1>4. (r + 1) + q - 1 = r + q /\ (Len(H) + r) + q = Len(H) + (r + q) /\ r + q >= 1
  BY <1>1, SMT
<1>5. CASE r + q <= Len(b) /\ b[r + q] # Magic[q]
  <2>1. r + q \in 1 .. Len(b) /\ Len(H) + (r + q) <= Len(G)
    BY <1>1, <1>5, SMT
  <2> QED
    BY <1>0, <1>4, <1>5, <2>1, Zenon DEF JunkAt
<1>6. CASE r + q = Len(b) + 1 /\ Magic[q] \notin First
  <2>1. Len(H) + (r + q) = Len(G) + 1
    <3>1. \A h, l \in Nat : h + (l + 1) = (h + l) + 1
      BY SMT
    <3> QED
      BY <1>1, <1>6, <3>1, ZenonT(30)
  <2> QED
    BY <1>4, <1>6, <2>1, Zenon DEF JunkAt
<1> QED
  BY <1>3, <1>4, <1>5, <1>6, Zenon

\* The byte that follows the y-th of l, h bytes into the stream.
NextByte(h, x, y, l) ==
    y \in Nat /\ x <= y /\ y + 1 \in x .. l /\ y + 1 \in Nat /\ (h + y) + 1 = h + (y + 1)

\* Every byte but the last has one.
LEMMA ByteFollows ==
  ASSUME NEW h \in Nat, NEW l \in Nat, NEW x \in Nat, NEW y \in x .. l, y < l
  PROVE  NextByte(h, x, y, l)
BY SMT DEF NextByte

\* Noise written behind the stream adds tokens and no message.
LEMMA TiledNoise ==
  ASSUME NEW H, NEW P, NEW idx, NEW s, Tiled(H, P, idx, s), NEW b \in Noise
  PROVE  Retiled(H \o b, s, P, idx)
<1>1. /\ H \in Seq(Nat) /\ P \subseteq 0 .. Len(H) /\ idx \in [Nat -> Nat] /\ s \in Seq(Frame)
      /\ Len(H) \in P /\ idx[Len(H)] = Len(s)
      /\ \A o \in P : o < Len(H) => Token(H, P, idx, s, o)
  BY Zenon DEF Tiled
<1>2. /\ b \in Seq(Nat) /\ Len(b) \in Nat /\ Len(b) >= 1 /\ b[1] \in First
      /\ Junk(b, 1) \/ (ShortFrame(b) /\ Junk(b, LengthOf(b) + 9))
  BY NoiseShape, Zenon
<1>3. PICK G : G = H \o b
  BY Zenon
<1>4. Joins(G, H, b)
  BY <1>1, <1>2, <1>3, Concat, Zenon
<1>5. /\ G \in Seq(Nat) /\ Len(G) = Len(H) + Len(b) /\ Len(H) \in Nat
      /\ \A i \in 1 .. Len(b) : G[Len(H) + i] = b[i]
  BY <1>4, Zenon DEF Joins
<1>6. PICK e \in Nat : /\ Junk(b, e + 1) /\ e <= Len(b)
                       /\ e = 0 \/ (ShortFrame(b) /\ e = 8 + LengthOf(b))
  <2>1. CASE Junk(b, 1)
    <3>1. 0 + 1 = 1 /\ 0 \in Nat /\ 0 <= Len(b)
      BY <1>2
    <3> QED
      BY <2>1, <3>1, Zenon
  <2>2. CASE ShortFrame(b) /\ Junk(b, LengthOf(b) + 9)
    <3>1. LengthOf(b) \in Nat /\ LengthOf(b) + 8 <= Len(b)
      BY <1>2, <2>2, ShortShape, Zenon
    <3>2. /\ 8 + LengthOf(b) \in Nat /\ 8 + LengthOf(b) <= Len(b)
          /\ (8 + LengthOf(b)) + 1 = LengthOf(b) + 9
      BY <1>2, <3>1, SMTT(30)
    <3> QED
      BY <2>2, <3>2, Zenon
  <2> QED
    BY <1>2, <2>1, <2>2, Zenon
<1>7. PICK jdx : GoesOn(jdx, idx, Len(H), Len(s))
  <2>1. Len(s) \in Nat
    BY <1>1
  <2> QED
    BY <1>1, <1>5, <2>1, CountsGoOn, Zenon
<1>8. /\ jdx \in [Nat -> Nat] /\ (\A o \in 0 .. Len(H) : jdx[o] = idx[o])
      /\ \A r \in Nat : jdx[Len(H) + r] = Len(s)
  <2>1. \A r \in Nat : Len(H) + r \in Nat /\ (Len(H) + r > Len(H) \/ Len(H) + r = Len(H))
    BY <1>5
  <2>2. Len(H) \in 0 .. Len(H)
    BY <1>5
  <2> QED
    BY <1>1, <1>7, <2>1, <2>2, Zenon DEF GoesOn
<1>9. PICK Q : Q = P \cup {Len(H) + r : r \in e .. Len(b)}
  BY Zenon
<1>10. Q \subseteq 0 .. Len(G) /\ P \subseteq Q /\ Len(G) \in Q
  <2>1. /\ \A o \in 0 .. Len(H) : o \in 0 .. Len(G)
        /\ \A r \in e .. Len(b) : Len(H) + r \in 0 .. Len(G)
    BY <1>2, <1>5, SMTT(20)
  <2>2. Len(b) \in e .. Len(b)
    BY <1>2, <1>6
  <2> QED
    BY <1>1, <1>5, <1>9, <2>1, <2>2, Zenon
<1>11. \A r \in e .. Len(b) : Len(H) + r \in Q
  BY <1>9, Zenon
<1>12. ASSUME NEW r \in e .. Len(b), r < Len(b)
       PROVE  Token(G, Q, jdx, s, Len(H) + r)
  <2>1. /\ r \in Nat /\ e <= r /\ r + 1 \in e .. Len(b) /\ r + 1 \in Nat
        /\ (Len(H) + r) + 1 = Len(H) + (r + 1)
    <3>1. Len(b) \in Nat /\ Len(H) \in Nat /\ e \in Nat
      BY <1>2, <1>5, <1>6, Zenon
    <3>2. NextByte(Len(H), e, r, Len(b))
      BY <1>12, <3>1, ByteFollows, Zenon
    <3> QED
      BY <3>2, Zenon DEF NextByte
  <2>2. JunkAt(G, Len(H) + r)
    BY <1>1, <1>2, <1>4, <1>6, <1>12, <2>1, JunkLands, Zenon
  <2>3. IsJunk(G, Q, jdx, Len(H) + r)
    BY <1>8, <1>11, <2>1, <2>2, Zenon DEF IsJunk
  <2> QED
    BY <2>3, Zenon DEF Token
<1>13. Token(G, Q, jdx, s, Len(H))
  <2>1. CASE e = 0
    <3>1. 0 \in e .. Len(b) /\ 0 < Len(b) /\ Len(H) + 0 = Len(H)
      BY <1>2, <1>5, <2>1
    <3> QED
      BY <1>12, <3>1, Zenon
  <2>2. CASE ShortFrame(b) /\ e = 8 + LengthOf(b)
    <3>1. At(G, Len(H), b)
      <4>1. Len(H) + Len(b) <= Len(G)
        BY <1>2, <1>5
      <4> QED
        BY <1>5, <4>1, Zenon DEF At
    <3>2. e \in e .. Len(b) /\ 0 \in Nat /\ Len(H) + 0 = Len(H)
      BY <1>2, <1>5, <1>6
    <3>3. Len(H) + e \in Q /\ jdx[Len(H) + e] = Len(s) /\ jdx[Len(H)] = Len(s)
      BY <1>8, <1>11, <3>2, Zenon
    <3>4. IsShort(G, Q, jdx, Len(H), b)
      BY <2>2, <3>1, <3>3, Zenon DEF IsShort
    <3> QED
      BY <3>4, Zenon DEF Token
  <2> QED
    BY <1>6, <2>1, <2>2, Zenon
<1>14. ASSUME NEW o \in Q, o < Len(G)
       PROVE  Token(G, Q, jdx, s, o)
  <2>1. CASE o \in P
    <3>1. o \in 0 .. Len(H)
      BY <1>1, <2>1, Zenon
    <3>2. o < Len(H) \/ o = Len(H)
      BY <1>5, <3>1
    <3>3. ASSUME o < Len(H)
          PROVE  Token(G, Q, jdx, s, o)
      <4>1. Token(H, P, idx, s, o)
        BY <1>1, <2>1, <3>3, Zenon
      <4>2. Len(s) \in Nat /\ Len(s) <= Len(s)
        BY <1>1
      <4> QED
        BY <1>1, <1>2, <1>4, <1>8, <1>10, <2>1, <4>1, <4>2, TokenGrows, ZenonT(30)
    <3> QED
      BY <1>13, <3>2, <3>3, Zenon
  <2>2. CASE o \in {Len(H) + r : r \in e .. Len(b)}
    <3>1. PICK r \in e .. Len(b) : o = Len(H) + r
      BY <2>2, Zenon
    <3>2. r < Len(b)
      BY <1>2, <1>5, <1>14, <3>1
    <3> QED
      BY <1>12, <3>1, <3>2, Zenon
  <2> QED
    BY <1>9, <1>14, <2>1, <2>2, Zenon
<1>15. jdx[Len(G)] = Len(s)
  BY <1>2, <1>5, <1>8, Zenon
<1>16. Tiled(G, Q, jdx, s)
  BY <1>1, <1>5, <1>8, <1>10, <1>14, <1>15, Zenon DEF Tiled
<1>17. \A o \in P : jdx[o] = idx[o]
  BY <1>1, <1>8, Zenon
<1> QED
  BY <1>3, <1>10, <1>16, <1>17, Zenon DEF Retiled

-----------------------------------------------------------------------------
(* The window: k bytes of H are consumed, the next ones up to j are in the *)
(* accumulator a, and the rest is on the wire w.                           *)

Window(a, w, H, k, j) ==
    /\ a \in Seq(Nat) /\ w \in Seq(Nat) /\ H \in Seq(Nat) /\ k \in Nat /\ j \in Nat
    /\ Len(a) \in Nat /\ Len(w) \in Nat /\ Len(H) \in Nat
    /\ j = k + Len(a) /\ Len(H) = j + Len(w)
    /\ \A i \in 1 .. Len(a) : a[i] = H[k + i]
    /\ \A i \in 1 .. Len(w) : w[i] = H[j + i]

\* c is the part of s behind d and up to e.
SliceOf(c, s, d, e) ==
    c \in Seq(Nat) /\ Len(c) = e - d /\ \A i \in 1 .. e - d : c[i] = s[d + i]

\* SubSeq takes the bytes after d up to e.
LEMMA Slice ==
  ASSUME NEW s \in Seq(Nat), NEW d \in Nat, NEW e \in Nat, d <= e, e <= Len(s)
  PROVE  SliceOf(SubSeq(s, d + 1, e), s, d, e)
BY DEF SliceOf

\* Writing extends the history and the wire.
LEMMA WindowWrites ==
  ASSUME NEW a, NEW w, NEW H, NEW k, NEW j, Window(a, w, H, k, j), NEW b \in Seq(Nat)
  PROVE  Window(a, w \o b, H \o b, k, j)
<1>1. /\ a \in Seq(Nat) /\ w \in Seq(Nat) /\ H \in Seq(Nat) /\ k \in Nat /\ j \in Nat
      /\ Len(a) \in Nat /\ Len(w) \in Nat /\ Len(H) \in Nat
      /\ j = k + Len(a) /\ Len(H) = j + Len(w)
  BY Zenon DEF Window
<1>0. /\ \A i \in 1 .. Len(a) : a[i] = H[k + i]
      /\ \A i \in 1 .. Len(w) : w[i] = H[j + i]
  BY Zenon DEF Window
<1>2. PICK v : v = w \o b
  BY Zenon
<1>3. PICK G : G = H \o b
  BY Zenon
<1>4. Joins(v, w, b) /\ Joins(G, H, b)
  BY <1>1, <1>2, <1>3, Concat, Zenon
<1>5. /\ v \in Seq(Nat) /\ Len(v) = Len(w) + Len(b) /\ Len(b) \in Nat
      /\ (\A i \in 1 .. Len(w) : v[i] = w[i]) /\ \A i \in 1 .. Len(b) : v[Len(w) + i] = b[i]
  BY <1>4, Zenon DEF Joins
<1>6. /\ G \in Seq(Nat) /\ Len(G) = Len(H) + Len(b)
      /\ (\A i \in 1 .. Len(H) : G[i] = H[i]) /\ \A i \in 1 .. Len(b) : G[Len(H) + i] = b[i]
  BY <1>4, Zenon DEF Joins
<1>7. Len(v) \in Nat /\ Len(G) \in Nat /\ Len(G) = j + Len(v)
  BY <1>1, <1>5, <1>6
<1>8. ASSUME NEW i \in 1 .. Len(a) PROVE a[i] = G[k + i]
  <2>1. k + i \in 1 .. Len(H)
    BY <1>1
  <2> QED
    BY <1>0, <1>6, <2>1, Zenon
<1>9. ASSUME NEW i \in 1 .. Len(v) PROVE v[i] = G[j + i]
  <2>1. CASE i \in 1 .. Len(w)
    <3>1. j + i \in 1 .. Len(H)
      BY <1>1, <2>1
    <3> QED
      BY <1>0, <1>5, <1>6, <2>1, <3>1, Zenon
  <2>2. CASE i \notin 1 .. Len(w)
    <3>1. i - Len(w) \in 1 .. Len(b) /\ Len(w) + (i - Len(w)) = i
          /\ Len(H) + (i - Len(w)) = j + i
      <4>1. Len(v) = Len(w) + Len(b) /\ Len(b) \in Nat
        BY <1>5, Zenon
      <4> QED
        BY <1>1, <2>2, <4>1, SMT
    <3>2. v[i] = b[i - Len(w)]
      BY <1>5, <3>1, Zenon
    <3>3. G[j + i] = b[i - Len(w)]
      BY <1>6, <3>1, Zenon
    <3> QED
      BY <3>2, <3>3, Zenon
  <2> QED
    BY <2>1, <2>2, Zenon
<1>10. Window(a, v, G, k, j)
  BY <1>1, <1>5, <1>6, <1>7, <1>8, <1>9, Zenon DEF Window
<1> QED
  BY <1>2, <1>3, <1>10, Zenon

\* Read moves n bytes from the wire to the accumulator.
LEMMA WindowReads ==
  ASSUME NEW a, NEW w, NEW H, NEW k, NEW j, Window(a, w, H, k, j), NEW n \in 1 .. Len(w)
  PROVE  Window(a \o SubSeq(w, 1, n), SubSeq(w, n + 1, Len(w)), H, k, j + n)
<1>1. /\ a \in Seq(Nat) /\ w \in Seq(Nat) /\ H \in Seq(Nat) /\ k \in Nat /\ j \in Nat
      /\ Len(a) \in Nat /\ Len(w) \in Nat /\ Len(H) \in Nat
      /\ j = k + Len(a) /\ Len(H) = j + Len(w)
  BY Zenon DEF Window
<1>0. /\ \A i \in 1 .. Len(a) : a[i] = H[k + i]
      /\ \A i \in 1 .. Len(w) : w[i] = H[j + i]
  BY Zenon DEF Window
<1>2. n \in Nat /\ 0 \in Nat /\ 0 <= n /\ n <= Len(w) /\ Len(w) <= Len(w)
      /\ 0 + 1 = 1 /\ n - 0 = n /\ \A i \in 1 .. n : 0 + i = i
  BY <1>1
<1>3. PICK c : c = SubSeq(w, 1, n)
  BY Zenon
<1>4. c \in Seq(Nat) /\ Len(c) = n /\ \A i \in 1 .. n : c[i] = w[i]
  <2>1. SliceOf(c, w, 0, n)
    BY <1>1, <1>2, <1>3, Slice, Zenon
  <2> QED
    BY <1>2, <2>1, Zenon DEF SliceOf
<1>5. PICK v : v = SubSeq(w, n + 1, Len(w))
  BY Zenon
<1>6. v \in Seq(Nat) /\ Len(v) = Len(w) - n /\ \A i \in 1 .. Len(w) - n : v[i] = w[n + i]
  <2>1. SliceOf(v, w, n, Len(w))
    BY <1>1, <1>2, <1>5, Slice, Zenon
  <2> QED
    BY <2>1, Zenon DEF SliceOf
<1>7. PICK d : d = a \o c
  BY Zenon
<1>8. Joins(d, a, c)
  BY <1>1, <1>4, <1>7, Concat, Zenon
<1>9. /\ d \in Seq(Nat) /\ Len(d) = Len(a) + n
      /\ (\A i \in 1 .. Len(a) : d[i] = a[i]) /\ \A i \in 1 .. n : d[Len(a) + i] = c[i]
  BY <1>4, <1>8, Zenon DEF Joins
<1>10. ASSUME NEW i \in 1 .. Len(d) PROVE d[i] = H[k + i]
  <2>1. CASE i \in 1 .. Len(a)
    BY <1>9, <1>0, <2>1, Zenon
  <2>2. CASE i \notin 1 .. Len(a)
    <3>1. /\ i - Len(a) \in 1 .. n /\ i - Len(a) \in 1 .. Len(w)
          /\ Len(a) + (i - Len(a)) = i /\ j + (i - Len(a)) = k + i
      <4>1. Len(d) = Len(a) + n
        BY <1>9, Zenon
      <4>2. /\ n \in Nat /\ n <= Len(w) /\ Len(a) \in Nat /\ Len(w) \in Nat
            /\ k \in Nat /\ j = k + Len(a)
        BY <1>1, <1>2, Zenon
      <4>3. i \in Nat /\ i <= Len(a) + n /\ i > Len(a)
        BY <2>2, <4>1, <4>2
      <4> QED
        BY <4>2, <4>3
    <3>2. d[i] = c[i - Len(a)]
      BY <1>9, <3>1, Zenon
    <3> QED
      BY <1>4, <1>0, <3>1, <3>2, Zenon
  <2> QED
    BY <2>1, <2>2, Zenon
<1>11. ASSUME NEW i \in 1 .. Len(v) PROVE v[i] = H[(j + n) + i]
  <2>1. i \in 1 .. Len(w) - n /\ n + i \in 1 .. Len(w) /\ j + (n + i) = (j + n) + i
    BY <1>1, <1>2, <1>6
  <2> QED
    BY <1>0, <1>6, <2>1, Zenon
<1>12. /\ j + n \in Nat /\ Len(d) \in Nat /\ Len(v) \in Nat
       /\ j + n = k + Len(d) /\ Len(H) = (j + n) + Len(v)
  BY <1>1, <1>2, <1>6, <1>9
<1>13. Window(d, v, H, k, j + n)
  BY <1>1, <1>6, <1>9, <1>10, <1>11, <1>12, <1>0, ZenonT(30) DEF Window
<1> QED
  BY <1>3, <1>5, <1>7, <1>13, Zenon

\* Dropping n bytes of the accumulator moves its start in the history.
LEMMA WindowDrops ==
  ASSUME NEW a, NEW w, NEW H, NEW k, NEW j, Window(a, w, H, k, j), NEW n \in Nat, n <= Len(a)
  PROVE  Window(Drop(a, n), w, H, k + n, j)
<1>1. /\ a \in Seq(Nat) /\ w \in Seq(Nat) /\ H \in Seq(Nat) /\ k \in Nat /\ j \in Nat
      /\ Len(a) \in Nat /\ Len(w) \in Nat /\ Len(H) \in Nat
      /\ j = k + Len(a) /\ Len(H) = j + Len(w)
  BY Zenon DEF Window
<1>0. /\ \A i \in 1 .. Len(a) : a[i] = H[k + i]
      /\ \A i \in 1 .. Len(w) : w[i] = H[j + i]
  BY Zenon DEF Window
<1>2. PICK c : c = SubSeq(a, n + 1, Len(a))
  BY Zenon
<1>3. c \in Seq(Nat) /\ Len(c) = Len(a) - n /\ \A i \in 1 .. Len(a) - n : c[i] = a[n + i]
  <2>1. Len(a) <= Len(a)
    BY <1>1
  <2>2. SliceOf(c, a, n, Len(a))
    BY <1>1, <1>2, <2>1, Slice, Zenon
  <2> QED
    BY <2>2, Zenon DEF SliceOf
<1>4. ASSUME NEW i \in 1 .. Len(c) PROVE c[i] = H[(k + n) + i]
  <2>1. i \in 1 .. Len(a) - n /\ n + i \in 1 .. Len(a) /\ k + (n + i) = (k + n) + i
    BY <1>1, <1>3
  <2> QED
    BY <1>3, <1>0, <2>1, Zenon
<1>5. k + n \in Nat /\ Len(c) \in Nat /\ j = (k + n) + Len(c)
  BY <1>1, <1>3
<1>6. Window(c, w, H, k + n, j)
  BY <1>1, <1>3, <1>4, <1>5, <1>0, Zenon DEF Window
<1> QED
  BY <1>2, <1>6, Zenon DEF Drop

\* The accumulator begins with what lies behind the position of the loop.
LEMMA WindowFront ==
  ASSUME NEW a, NEW w, NEW H, NEW k, NEW j, Window(a, w, H, k, j),
         NEW b \in Seq(Nat), At(H, k, b)
  PROVE  \A i \in 1 .. Len(b) : i <= Len(a) => a[i] = b[i]
<1>1. Len(a) \in Nat /\ \A i \in 1 .. Len(a) : a[i] = H[k + i]
  BY Zenon DEF Window
<1>2. \A i \in 1 .. Len(b) : H[k + i] = b[i]
  BY Zenon DEF At
<1>3. \A i \in 1 .. Len(b) : i <= Len(a) => i \in 1 .. Len(a)
  BY <1>1
<1> QED
  BY <1>1, <1>2, <1>3, Zenon

\* What a header in the accumulator says of the token behind it.
LEMMA HeadMessage ==
  ASSUME NEW a, NEW w, NEW H, NEW k, NEW j, Window(a, w, H, k, j), Len(a) >= 12,
         NEW m \in Message, At(H, k, Bytes(m))
  PROVE  /\ DecodeFINSTCPFrame(a).ok
         /\ 12 + DecodeFINSTCPFrame(a).Length - 4 = Len(Bytes(m))
         /\ Len(a) >= Len(Bytes(m)) => DecodeFINSFrame(DecodeFINSTCPFrame(a).Data) = FrameOf(m)
<1>1. a \in Seq(Nat) /\ Len(a) \in Nat
  BY Zenon DEF Window
<1>2. PICK b : b = Bytes(m)
  BY Zenon
<1>3. PICK n : n = Len(m.data)
  BY Zenon
<1>4. b \in Seq(Nat) /\ Enveloped(b, m)
  BY <1>2, EnvelopeBytes, Zenon
<1>5. n \in Nat /\ Len(b) = 26 + n
  BY <1>3, <1>4, Zenon DEF Enveloped
<1>6. \A i \in 1 .. Len(b) : i <= Len(a) => a[i] = b[i]
  BY <1>2, <1>4, WindowFront, Zenon
<1>7. \A i \in 1 .. 12 : i \in 1 .. Len(b) /\ i <= Len(a)
  BY <1>1, <1>5
<1>8. DecodeFINSTCPFrame(a).ok /\ DecodeFINSTCPFrame(a).Length = n + 18
  BY <1>1, <1>3, <1>4, <1>6, <1>7, MessageHeader, Zenon
<1>9. 12 + DecodeFINSTCPFrame(a).Length - 4 = Len(b)
  <2>1. 12 + (n + 18) - 4 = 26 + n
    BY <1>5
  <2> QED
    BY <1>5, <1>8, <2>1, Zenon
<1>10. ASSUME Len(a) >= Len(b)
       PROVE  DecodeFINSFrame(DecodeFINSTCPFrame(a).Data) = FrameOf(m)
  <2>1. \A i \in 1 .. Len(b) : i <= Len(a)
    BY <1>1, <1>5, <1>10
  <2> QED
    BY <1>1, <1>4, <1>6, <1>10, <2>1, MessageDecodes, ZenonT(30)
<1> QED
  BY <1>2, <1>8, <1>9, <1>10, Zenon

\* A short frame at the front is cut off and holds no FINS message.
LEMMA HeadShort ==
  ASSUME NEW a, NEW w, NEW H, NEW k, NEW j, Window(a, w, H, k, j), Len(a) >= 12,
         NEW b \in Seq(Nat), ShortFrame(b), At(H, k, b)
  PROVE  /\ DecodeFINSTCPFrame(a).ok
         /\ 12 + DecodeFINSTCPFrame(a).Length - 4 = 8 + LengthOf(b)
         /\ ~DecodeFINSFrame(DecodeFINSTCPFrame(a).Data).ok
<1>1. a \in Seq(Nat) /\ Len(a) \in Nat
  BY Zenon DEF Window
<1>2. /\ Len(b) >= 12 /\ (\A q \in 1 .. 4 : b[q] = Magic[q])
      /\ LengthOf(b) \in Nat /\ LengthOf(b) < 18
  BY ShortShape, Zenon
<1>3. \A i \in 1 .. Len(b) : i <= Len(a) => a[i] = b[i]
  BY WindowFront, Zenon
<1>4. Len(b) \in Nat
  OBVIOUS
<1>5. \A i \in 1 .. 12 : i \in 1 .. Len(b) /\ i <= Len(a)
  <2>1. \A x, y \in Nat : x >= 12 /\ y >= 12 => \A i \in 1 .. 12 : i \in 1 .. x /\ i <= y
    OBVIOUS
  <2> QED
    BY <1>1, <1>2, <1>4, <2>1, Zenon
<1>6. (\A i \in 1 .. 4 : i \in 1 .. 12) /\ (\A i \in 5 .. 8 : i \in 1 .. 12)
  OBVIOUS
<1>7. (\A i \in 1 .. 4 : a[i] = Magic[i]) /\ (\A i \in 5 .. 8 : a[i] = b[i])
  BY <1>2, <1>3, <1>5, <1>6, Zenon
<1>8. LengthOf(a) = LengthOf(b)
  BY <1>1, <1>7, LengthDepends, Zenon
<1>9. DecodeFINSTCPFrame(a).ok /\ DecodeFINSTCPFrame(a).Length = LengthOf(b)
  BY <1>1, <1>7, <1>8, HeaderDecodes, Zenon
<1>10. 12 + LengthOf(b) - 4 = 8 + LengthOf(b)
  BY <1>2
<1>11. ~DecodeFINSFrame(DecodeFINSTCPFrame(a).Data).ok
  BY <1>1, <1>2, <1>8, <1>9, ShortDecodes, Zenon
<1> QED
  BY <1>9, <1>10, <1>11, Zenon

\* Junk at the front has no header.
LEMMA HeadJunk ==
  ASSUME NEW a, NEW w, NEW H, NEW k, NEW j, Window(a, w, H, k, j), Len(a) >= 12, JunkAt(H, k)
  PROVE  ~DecodeFINSTCPFrame(a).ok
<1>1. /\ a \in Seq(Nat) /\ Len(a) \in Nat /\ k \in Nat /\ j \in Nat /\ Len(w) \in Nat
      /\ j = k + Len(a) /\ Len(H) = j + Len(w)
  BY Zenon DEF Window
<1>2. \A i \in 1 .. Len(a) : a[i] = H[k + i]
  BY Zenon DEF Window
<1>3. PICK q \in 1 .. 4 : \/ k + q <= Len(H) /\ H[k + q] # Magic[q]
                          \/ k + q = Len(H) + 1 /\ Magic[q] \notin First
  BY Zenon DEF JunkAt
<1>4. q \in 1 .. Len(a) /\ k + q # Len(H) + 1
  BY <1>1, SMTT(20)
<1>5. a[q] # Magic[q]
  BY <1>2, <1>3, <1>4, Zenon
<1> QED
  BY <1>1, <1>5, HeaderDecodes, Zenon

-----------------------------------------------------------------------------
(* The invariant.                                                          *)

\* The loop stands at a position of the tiling, behind n messages.
Placed(a, w, s, n, H, P, idx, k, j) ==
    Tiled(H, P, idx, s) /\ k \in P /\ idx[k] = n /\ Window(a, w, H, k, j)
Stream(a, w, s, n) == \E H, P, idx, k, j : Placed(a, w, s, n, H, P, idx, k, j)

\* What makes the inner loop go back to Read.
Incomplete(a) ==
    Len(a) < 12 \/ (DecodeFINSTCPFrame(a).ok /\ Len(a) < 12 + DecodeFINSTCPFrame(a).Length - 4)

\* What is dispatched is a prefix of what was sent, the bytes in between are
\* tiled with messages and noise, and readLoop waits for bytes only when it
\* cannot go on without them.
StreamInv ==
    /\ sent \in Seq(Frame) /\ dispatched \in Seq(Frame)
    /\ Len(dispatched) <= Len(sent) /\ \A i \in 1 .. Len(dispatched) : dispatched[i] = sent[i]
    /\ phase = "read" => Incomplete(accumulator)
    /\ Stream(accumulator, wire, sent, Len(dispatched))

\* The stream stays tiled when the peer writes a message.
LEMMA StreamSends ==
  ASSUME NEW a, NEW w, NEW s, NEW n, Stream(a, w, s, n), NEW m \in Message
  PROVE  Stream(a, w \o Bytes(m), Append(s, FrameOf(m)), n)
<1>1. PICK H, P, idx, k, j : Placed(a, w, s, n, H, P, idx, k, j)
  BY Zenon DEF Stream
<1>2. Tiled(H, P, idx, s) /\ k \in P /\ idx[k] = n /\ Window(a, w, H, k, j)
  BY <1>1, Zenon DEF Placed
<1>3. PICK Q, jdx : /\ Tiled(H \o Bytes(m), Q, jdx, Append(s, FrameOf(m)))
                    /\ P \subseteq Q /\ \A o \in P : jdx[o] = idx[o]
  <2>1. Retiled(H \o Bytes(m), Append(s, FrameOf(m)), P, idx)
    BY <1>2, TiledMessage, Zenon
  <2> QED
    BY <2>1, Zenon DEF Retiled
<1>4. Window(a, w \o Bytes(m), H \o Bytes(m), k, j)
  BY <1>2, WindowWrites, MessageShape, Zenon
<1>5. Placed(a, w \o Bytes(m), Append(s, FrameOf(m)), n, H \o Bytes(m), Q, jdx, k, j)
  BY <1>2, <1>3, <1>4, Zenon DEF Placed
<1> QED
  BY <1>5, Zenon DEF Stream

\* The stream stays tiled when the peer writes noise.
LEMMA StreamNoise ==
  ASSUME NEW a, NEW w, NEW s, NEW n, Stream(a, w, s, n), NEW b \in Noise
  PROVE  Stream(a, w \o b, s, n)
<1>1. PICK H, P, idx, k, j : Placed(a, w, s, n, H, P, idx, k, j)
  BY Zenon DEF Stream
<1>2. Tiled(H, P, idx, s) /\ k \in P /\ idx[k] = n /\ Window(a, w, H, k, j)
  BY <1>1, Zenon DEF Placed
<1>3. PICK Q, jdx : /\ Tiled(H \o b, Q, jdx, s)
                    /\ P \subseteq Q /\ \A o \in P : jdx[o] = idx[o]
  <2>1. Retiled(H \o b, s, P, idx)
    BY <1>2, TiledNoise, Zenon
  <2> QED
    BY <2>1, Zenon DEF Retiled
<1>4. Window(a, w \o b, H \o b, k, j)
  BY <1>2, WindowWrites, NoiseShape, Zenon
<1>5. Placed(a, w \o b, s, n, H \o b, Q, jdx, k, j)
  BY <1>2, <1>3, <1>4, Zenon DEF Placed
<1> QED
  BY <1>5, Zenon DEF Stream

\* The stream stays tiled when readLoop reads a chunk.
LEMMA StreamReads ==
  ASSUME NEW a, NEW w, NEW s, NEW n, Stream(a, w, s, n), NEW r \in 1 .. Len(w)
  PROVE  Stream(a \o SubSeq(w, 1, r), SubSeq(w, r + 1, Len(w)), s, n)
<1>1. PICK H, P, idx, k, j : Placed(a, w, s, n, H, P, idx, k, j)
  BY Zenon DEF Stream
<1>2. Tiled(H, P, idx, s) /\ k \in P /\ idx[k] = n /\ Window(a, w, H, k, j)
  BY <1>1, Zenon DEF Placed
<1>3. Window(a \o SubSeq(w, 1, r), SubSeq(w, r + 1, Len(w)), H, k, j + r)
  BY <1>2, WindowReads, Zenon
<1>4. Placed(a \o SubSeq(w, 1, r), SubSeq(w, r + 1, Len(w)), s, n, H, P, idx, k, j + r)
  BY <1>2, <1>3, Zenon DEF Placed
<1> QED
  BY <1>4, Zenon DEF Stream

\* While a byte is in the accumulator there is a token to look at.
LEMMA TokenAhead ==
  ASSUME NEW a, NEW w, NEW s, NEW n, NEW H, NEW P, NEW idx, NEW k, NEW j,
         Placed(a, w, s, n, H, P, idx, k, j), Len(a) >= 1
  PROVE  Token(H, P, idx, s, k)
<1>1. Tiled(H, P, idx, s) /\ k \in P /\ Window(a, w, H, k, j)
  BY Zenon DEF Placed
<1>2. /\ Len(a) \in Nat /\ k \in Nat /\ j \in Nat /\ Len(w) \in Nat
      /\ j = k + Len(a) /\ Len(H) = j + Len(w)
  BY <1>1, Zenon DEF Window
<1>3. k < Len(H)
  BY <1>2
<1> QED
  BY <1>1, <1>3, Zenon DEF Tiled

\* A header that does not decode stands before a byte that belongs to nothing.
LEMMA StreamSkips ==
  ASSUME NEW a, NEW w, NEW s, NEW n, Stream(a, w, s, n),
         Len(a) >= 12, ~DecodeFINSTCPFrame(a).ok
  PROVE  Stream(Drop(a, 1), w, s, n)
<1>1. PICK H, P, idx, k, j : Placed(a, w, s, n, H, P, idx, k, j)
  BY Zenon DEF Stream
<1>2. Tiled(H, P, idx, s) /\ k \in P /\ idx[k] = n /\ Window(a, w, H, k, j)
  BY <1>1, Zenon DEF Placed
<1>3. Len(a) >= 1 /\ 1 <= Len(a) /\ 1 \in Nat
  <2>1. Len(a) \in Nat
    BY <1>2, Zenon DEF Window
  <2> QED
    BY <2>1
<1>4. Token(H, P, idx, s, k)
  BY <1>1, <1>3, TokenAhead, Zenon
<1>5. ASSUME NEW m \in Message, IsMessage(H, P, idx, s, k, m) PROVE FALSE
  <2>1. At(H, k, Bytes(m))
    BY <1>5, Zenon DEF IsMessage
  <2> QED
    BY <1>2, <2>1, HeadMessage, Zenon
<1>6. ASSUME NEW b \in Noise, IsShort(H, P, idx, k, b) PROVE FALSE
  <2>1. ShortFrame(b) /\ At(H, k, b) /\ b \in Seq(Nat)
    BY <1>6, NoiseShape, Zenon DEF IsShort
  <2> QED
    BY <1>2, <2>1, HeadShort, Zenon
<1>7. IsJunk(H, P, idx, k)
  BY <1>4, <1>5, <1>6, Zenon DEF Token
<1>8. Window(Drop(a, 1), w, H, k + 1, j)
  BY <1>2, <1>3, WindowDrops, Zenon
<1>9. Placed(Drop(a, 1), w, s, n, H, P, idx, k + 1, j)
  BY <1>2, <1>7, <1>8, Zenon DEF Placed, IsJunk
<1> QED
  BY <1>9, Zenon DEF Stream

\* The first f bytes are cut off: d is the next message, or it is noise that
\* does not decode.
Consumed(a, w, s, n, f, d) ==
    /\ f \in Nat /\ Len(a) \in Nat /\ a \in Seq(Nat)
    /\ \/ /\ n \in Nat /\ n < Len(s) /\ d = s[n + 1] /\ d \in Frame
          /\ Stream(Drop(a, f), w, s, n + 1)
       \/ ~d.ok /\ Stream(Drop(a, f), w, s, n)

\* A complete frame is the next message, or it is noise that does not decode.
LEMMA StreamCuts ==
  ASSUME NEW a, NEW w, NEW s, NEW n, Stream(a, w, s, n), DecodeFINSTCPFrame(a).ok,
         NEW f, f = 12 + DecodeFINSTCPFrame(a).Length - 4, Len(a) >= f,
         NEW d, d = DecodeFINSFrame(DecodeFINSTCPFrame(a).Data)
  PROVE  Consumed(a, w, s, n, f, d)
<1>1. PICK H, P, idx, k, j : Placed(a, w, s, n, H, P, idx, k, j)
  BY Zenon DEF Stream
<1>2. Tiled(H, P, idx, s) /\ k \in P /\ idx[k] = n /\ Window(a, w, H, k, j)
  BY <1>1, Zenon DEF Placed
<1>3. a \in Seq(Nat) /\ Len(a) \in Nat /\ k \in Nat
  BY <1>2, Zenon DEF Window
<1>4. Len(a) >= 12
  BY <1>3, HeaderDecodes, Zenon
<1>5. Len(a) >= 1
  BY <1>3, <1>4
<1>6. Token(H, P, idx, s, k)
  BY <1>1, <1>5, TokenAhead, Zenon
<1>7. CASE \E m \in Message : IsMessage(H, P, idx, s, k, m)
  <2>1. PICK m \in Message : IsMessage(H, P, idx, s, k, m)
    BY <1>7, Zenon
  <2>2. /\ At(H, k, Bytes(m)) /\ k + Len(Bytes(m)) \in P
        /\ idx[k + Len(Bytes(m))] = idx[k] + 1
        /\ idx[k] < Len(s) /\ s[idx[k] + 1] = FrameOf(m)
    BY <2>1, Zenon DEF IsMessage
  <2>3. f = Len(Bytes(m)) /\ f \in Nat
    BY <1>2, <1>4, <2>2, HeadMessage, MessageShape, ZenonT(30)
  <2>4. d = FrameOf(m)
    BY <1>2, <1>4, <2>2, <2>3, HeadMessage, ZenonT(30)
  <2>5. f <= Len(a)
    BY <1>3, <2>3, Zenon
  <2>6. Window(Drop(a, f), w, H, k + f, j)
    BY <1>2, <2>3, <2>5, WindowDrops, Zenon
  <2>7. Placed(Drop(a, f), w, s, n + 1, H, P, idx, k + f, j)
    BY <1>2, <2>2, <2>3, <2>6, Zenon DEF Placed
  <2>8. n \in Nat
    BY <1>2, <1>3, Zenon DEF Tiled
  <2>9. d \in Frame
    BY <2>4, Zenon DEF Frame
  <2> QED
    BY <1>2, <1>3, <2>2, <2>3, <2>4, <2>7, <2>8, <2>9, ZenonT(30) DEF Stream, Consumed
<1>8. CASE \E b \in Noise : IsShort(H, P, idx, k, b)
  <2>1. PICK b \in Noise : IsShort(H, P, idx, k, b)
    BY <1>8, Zenon
  <2>2. /\ ShortFrame(b) /\ At(H, k, b) /\ k + (8 + LengthOf(b)) \in P
        /\ idx[k + (8 + LengthOf(b))] = idx[k] /\ b \in Seq(Nat)
    BY <2>1, NoiseShape, Zenon DEF IsShort
  <2>3. f = 8 + LengthOf(b) /\ ~d.ok
    BY <1>2, <1>4, <2>2, HeadShort, Zenon
  <2>4. f \in Nat /\ f <= Len(a)
    <3>1. LengthOf(b) \in Nat
      BY <2>2, ShortShape, Zenon
    <3>2. 8 + LengthOf(b) \in Nat
      BY <3>1
    <3>3. f \in Nat
      BY <2>3, <3>2, Zenon
    <3> QED
      BY <1>3, <3>3, Zenon
  <2>5. Window(Drop(a, f), w, H, k + f, j)
    BY <1>2, <2>4, WindowDrops, Zenon
  <2>6. Placed(Drop(a, f), w, s, n, H, P, idx, k + f, j)
    BY <1>2, <2>2, <2>3, <2>5, Zenon DEF Placed
  <2> QED
    BY <1>3, <2>3, <2>4, <2>6, Zenon DEF Stream, Consumed
<1>9. CASE IsJunk(H, P, idx, k)
  BY <1>2, <1>4, <1>9, HeadJunk, Zenon DEF IsJunk
<1> QED
  BY <1>6, <1>7, <1>8, <1>9, Zenon DEF Token

-----------------------------------------------------------------------------
(* What is left in the accumulator when nothing is on the wire.            *)

\* A set of naturals that is not empty has a least element.
LEMMA LeastNatural ==
  ASSUME NEW T \in SUBSET Nat, T # {}
  PROVE  \E x \in T : \A y \in T : x <= y
<1> DEFINE R == OpToRel(<, Nat)
<1>1. IsWellFoundedOn(R, Nat)
  BY NatLessThanWellFounded, Zenon
<1>2. \A x, y \in Nat : x < y => <<x, y>> \in R
  BY Zenon DEF OpToRel
<1> HIDE DEF R
<1>3. PICK x \in T : \A y \in T : ~(<<y, x>> \in R)
  BY <1>1, WFMin, Zenon
<1>4. \A y \in T : ~(y < x)
  BY <1>2, <1>3, Zenon
<1>5. \A y \in T : x <= y
  BY <1>4
<1> QED
  BY <1>5, Zenon

\* Induction on the naturals from k on, with the property given as a set.
LEMMA InductionFrom ==
  ASSUME NEW k \in Nat, NEW T, k \in T, \A n \in Nat : n >= k /\ n \in T => n + 1 \in T
  PROVE  \A n \in Nat : n >= k => n \in T
<1> DEFINE Bad == {n \in Nat : n >= k /\ n \notin T}
<1>1. SUFFICES ASSUME Bad # {} PROVE FALSE
  BY Zenon
<1>2. PICK x \in Bad : \A y \in Bad : x <= y
  BY <1>1, LeastNatural, Zenon
<1>3. x \in Nat /\ x > k /\ x \notin T
  BY <1>2
<1>4. x - 1 \in Nat /\ x - 1 >= k /\ (x - 1) + 1 = x /\ ~(x <= x - 1)
  BY <1>3
<1>5. x - 1 \in T
  BY <1>2, <1>4, Zenon
<1> QED
  BY <1>3, <1>4, <1>5, Zenon

\* When nothing is on the wire and the loop cannot go on, every message has
\* been cut off: what is left in the accumulator is junk.
LEMMA StreamEmpty ==
  ASSUME NEW a, NEW w, NEW s, NEW n, Stream(a, w, s, n), Len(w) = 0, Incomplete(a)
  PROVE  n = Len(s)
<1>1. PICK H, P, idx, k, j : Placed(a, w, s, n, H, P, idx, k, j)
  BY Zenon DEF Stream
<1>2. Tiled(H, P, idx, s) /\ k \in P /\ idx[k] = n /\ Window(a, w, H, k, j)
  BY <1>1, Zenon DEF Placed
<1>3. /\ a \in Seq(Nat) /\ Len(a) \in Nat /\ k \in Nat /\ j \in Nat
      /\ j = k + Len(a) /\ Len(H) = j + Len(w)
  BY <1>2, Zenon DEF Window
<1>4. Len(H) = k + Len(a) /\ Len(H) \in Nat
  BY <1>3
<1>5. CASE Len(a) < 12
  <2> DEFINE T == {o \in Nat : o <= Len(H) => o \in P /\ idx[o] = n}
  <2>1. k \in T
    BY <1>2, <1>3, Zenon
  <2>2. ASSUME NEW o \in Nat, o >= k, o \in T PROVE o + 1 \in T
    <3>1. SUFFICES ASSUME o + 1 <= Len(H) PROVE o + 1 \in P /\ idx[o + 1] = n
      OBVIOUS
    <3>2. o < Len(H) /\ o <= Len(H) /\ Len(H) < o + 12
      BY <1>3, <1>4, <1>5, <2>2, <3>1
    <3>3. o \in P /\ idx[o] = n
      BY <2>2, <3>2, Zenon
    <3>4. Token(H, P, idx, s, o)
      BY <1>2, <3>2, <3>3, Zenon DEF Tiled
    <3>5. ASSUME NEW m \in Message, IsMessage(H, P, idx, s, o, m) PROVE FALSE
      <4>1. o + Len(Bytes(m)) <= Len(H) /\ Len(Bytes(m)) \in Nat /\ Len(Bytes(m)) >= 26
        BY <3>5, MessageShape, Zenon DEF IsMessage, At
      <4> QED
        BY <1>4, <3>2, <4>1
    <3>6. ASSUME NEW b \in Noise, IsShort(H, P, idx, o, b) PROVE FALSE
      <4>1. b \in Seq(Nat) /\ Len(b) \in Nat
        BY NoiseShape, Zenon
      <4>2. o + Len(b) <= Len(H) /\ Len(b) >= 12
        BY <3>6, <4>1, ShortShape, Zenon DEF IsShort, At
      <4> QED
        BY <1>4, <3>2, <4>1, <4>2
    <3> QED
      BY <3>3, <3>4, <3>5, <3>6, ZenonT(30) DEF Token, IsJunk
  <2> HIDE DEF T
  <2>3. Len(H) \in T
    <3>1. Len(H) >= k
      BY <1>3, <1>4
    <3> QED
      BY <1>3, <1>4, <2>1, <2>2, <3>1, InductionFrom, ZenonT(30)
  <2>4. Len(H) <= Len(H)
    BY <1>4
  <2>5. idx[Len(H)] = n
    BY <2>3, <2>4, Zenon DEF T
  <2> QED
    BY <1>2, <2>5, Zenon DEF Tiled
<1>6. CASE DecodeFINSTCPFrame(a).ok /\ Len(a) < 12 + DecodeFINSTCPFrame(a).Length - 4
  <2>1. Len(a) >= 12
    BY <1>3, <1>6, HeaderDecodes, Zenon
  <2>2. Len(a) >= 1
    BY <1>3, <2>1
  <2>3. Token(H, P, idx, s, k)
    BY <1>1, <2>2, TokenAhead, Zenon
  <2>4. ASSUME NEW m \in Message, IsMessage(H, P, idx, s, k, m) PROVE FALSE
    <3>1. At(H, k, Bytes(m)) /\ k + Len(Bytes(m)) <= Len(H) /\ Len(Bytes(m)) \in Nat
      BY <2>4, MessageShape, Zenon DEF IsMessage, At
    <3>2. Len(a) < Len(Bytes(m))
      BY <1>2, <1>6, <2>1, <3>1, HeadMessage, ZenonT(30)
    <3> QED
      BY <1>3, <1>4, <3>1, <3>2
  <2>5. ASSUME NEW b \in Noise, IsShort(H, P, idx, k, b) PROVE FALSE
    <3>1. b \in Seq(Nat) /\ Len(b) \in Nat /\ ShortFrame(b) /\ At(H, k, b)
      BY <2>5, NoiseShape, Zenon DEF IsShort
    <3>2. k + Len(b) <= Len(H) /\ LengthOf(b) \in Nat /\ LengthOf(b) + 8 <= Len(b)
      BY <3>1, ShortShape, Zenon DEF At
    <3>3. Len(a) < 8 + LengthOf(b)
      BY <1>2, <1>6, <2>1, <3>1, HeadShort, ZenonT(30)
    <3> QED
      BY <1>3, <1>4, <3>1, <3>2, <3>3
  <2>6. ~IsJunk(H, P, idx, k)
    BY <1>2, <1>6, <2>1, HeadJunk, Zenon DEF IsJunk
  <2> QED
    BY <2>3, <2>4, <2>5, <2>6, Zenon DEF Token
<1> QED
  BY <1>5, <1>6, Zenon DEF Incomplete

-----------------------------------------------------------------------------
(* The steps.                                                              *)

\* Nothing has been written or read at first.
LEMMA StreamInit == Init => StreamInv
<1> SUFFICES ASSUME Init PROVE StreamInv
  BY Zenon
<1>1. /\ wire = <<>> /\ accumulator = <<>> /\ sent = <<>> /\ dispatched = <<>>
  BY Zenon DEF Init
<1>2. PICK e : e = <<>>
  BY Zenon
<1>3. e \in Seq(Nat) /\ e \in Seq(Frame) /\ Len(e) = 0 /\ 0 \in Nat /\ 1 .. 0 = {} /\ 0 + 0 = 0
  BY <1>2
<1>4. PICK idx : idx = [o \in Nat |-> 0]
  BY Zenon
<1>5. idx \in [Nat -> Nat] /\ idx[0] = 0
  BY <1>4, Zenon
<1>6. {0} \subseteq 0 .. 0 /\ 0 \in {0} /\ ~(0 < 0) /\ \A o \in {0} : o = 0
  OBVIOUS
<1>7. Tiled(e, {0}, idx, e)
  BY <1>3, <1>5, <1>6, Zenon DEF Tiled
<1>8. Window(e, e, e, 0, 0)
  BY <1>3, Zenon DEF Window
<1>9. Stream(e, e, e, 0)
  BY <1>5, <1>6, <1>7, <1>8, Zenon DEF Stream, Placed
<1>10. Incomplete(e) /\ 0 <= 0
  BY <1>3 DEF Incomplete
<1> QED
  BY <1>1, <1>2, <1>3, <1>9, <1>10, ZenonT(30) DEF StreamInv

\* The peer writes a frame: the abstract Send.
LEMMA SendStep ==
  ASSUME StreamInv, NEW m \in Message, PeerSend(m)
  PROVE  StreamInv' /\ Delivery!Next
<1>1. /\ wire' = wire \o Bytes(m) /\ sent' = Append(sent, FrameOf(m))
      /\ accumulator' = accumulator /\ phase' = phase /\ dispatched' = dispatched
  BY Zenon DEF PeerSend, Bytes, Message2Fins
<1>2. /\ sent \in Seq(Frame) /\ dispatched \in Seq(Frame)
      /\ Len(dispatched) <= Len(sent) /\ \A i \in 1 .. Len(dispatched) : dispatched[i] = sent[i]
      /\ phase = "read" => Incomplete(accumulator)
      /\ Stream(accumulator, wire, sent, Len(dispatched))
  BY Zenon DEF StreamInv
<1>3. FrameOf(m) \in Frame
  BY Zenon DEF Frame
<1>4. PICK t : t = Append(sent, FrameOf(m))
  BY Zenon
<1>5. /\ t \in Seq(Frame) /\ Len(sent) \in Nat /\ Len(t) = Len(sent) + 1
      /\ \A i \in 1 .. Len(sent) : t[i] = sent[i]
  <2>1. sent \in Seq(Frame)
    BY <1>2, Zenon
  <2> QED
    BY <1>3, <1>4, <2>1
<1>6. Len(dispatched) \in Nat
  <2>1. dispatched \in Seq(Frame)
    BY <1>2, Zenon
  <2> QED
    BY <2>1
<1>7. Len(dispatched) <= Len(t) /\ \A i \in 1 .. Len(dispatched) : i \in 1 .. Len(sent)
  <2>1. Len(dispatched) <= Len(sent) /\ Len(t) = Len(sent) + 1 /\ Len(sent) \in Nat
    BY <1>2, <1>5, ZenonT(30)
  <2> QED
    BY <1>6, <2>1
<1>8. Stream(accumulator, wire \o Bytes(m), t, Len(dispatched))
  BY <1>2, <1>4, StreamSends, Zenon
<1>9. StreamInv'
  BY <1>1, <1>2, <1>4, <1>5, <1>7, <1>8, ZenonT(30) DEF StreamInv
<1>10. Delivery!Next
  BY <1>1, <1>3, Zenon DEF Delivery!Next, Delivery!Send, Frame
<1> QED
  BY <1>9, <1>10, Zenon

\* The peer writes other bytes: no abstract step.
LEMMA NoiseStep ==
  ASSUME StreamInv, NEW b \in Noise, PeerNoise(b)
  PROVE  StreamInv' /\ UNCHANGED Delivery!vars
<1>1. /\ wire' = wire \o b /\ sent' = sent
      /\ accumulator' = accumulator /\ phase' = phase /\ dispatched' = dispatched
  BY Zenon DEF PeerNoise
<1>2. Stream(accumulator, wire \o b, sent, Len(dispatched))
  BY StreamNoise, Zenon DEF StreamInv
<1>3. StreamInv'
  BY <1>1, <1>2, Zenon DEF StreamInv
<1> QED
  BY <1>1, <1>3, Zenon DEF Delivery!vars

\* readLoop reads a chunk: no abstract step.
LEMMA ReadStep ==
  ASSUME StreamInv, NEW n \in 1 .. MaxRead, Read(n)
  PROVE  StreamInv' /\ UNCHANGED Delivery!vars
<1>1. /\ accumulator' = accumulator \o SubSeq(wire, 1, n)
      /\ wire' = SubSeq(wire, n + 1, Len(wire)) /\ phase' = "parse"
      /\ sent' = sent /\ dispatched' = dispatched
      /\ n \in 1 .. (IF Len(wire) < MaxRead THEN Len(wire) ELSE MaxRead)
  BY Zenon DEF Read
<1>2. Stream(accumulator, wire, sent, Len(dispatched))
  BY Zenon DEF StreamInv
<1>3. Len(wire) \in Nat
  BY <1>2, ZenonT(30) DEF Stream, Placed, Window
<1>4. n \in 1 .. Len(wire)
  BY <1>1, <1>3, SizesAssumption
<1>5. Stream(accumulator \o SubSeq(wire, 1, n), SubSeq(wire, n + 1, Len(wire)),
             sent, Len(dispatched))
  BY <1>2, <1>4, StreamReads, ZenonT(30)
<1>6. phase' # "read"
  BY <1>1, Zenon
<1>7. StreamInv'
  BY <1>1, <1>5, <1>6, Zenon DEF StreamInv
<1> QED
  BY <1>1, <1>7, Zenon DEF Delivery!vars

\* readLoop goes back to Read: the accumulator holds no complete frame.
LEMMA NeedMoreStep ==
  ASSUME StreamInv, NeedMore
  PROVE  StreamInv' /\ UNCHANGED Delivery!vars
<1>1. /\ wire' = wire /\ accumulator' = accumulator /\ sent' = sent /\ dispatched' = dispatched
      /\ Incomplete(accumulator)
  BY Zenon DEF NeedMore, Incomplete, HeaderOK, FrameLen
<1>2. StreamInv'
  BY <1>1, Zenon DEF StreamInv
<1> QED
  BY <1>1, <1>2, Zenon DEF Delivery!vars

\* readLoop drops a byte: it belongs to no message.
LEMMA SkipStep ==
  ASSUME StreamInv, Skip
  PROVE  StreamInv' /\ UNCHANGED Delivery!vars
<1>1. /\ wire' = wire /\ accumulator' = Drop(accumulator, 1) /\ phase' = "parse"
      /\ sent' = sent /\ dispatched' = dispatched
      /\ Len(accumulator) >= 12 /\ ~DecodeFINSTCPFrame(accumulator).ok
  BY Zenon DEF Skip, HeaderOK
<1>2. Stream(Drop(accumulator, 1), wire, sent, Len(dispatched))
  BY <1>1, StreamSkips, Zenon DEF StreamInv
<1>3. phase' # "read"
  BY <1>1, Zenon
<1>4. StreamInv'
  BY <1>1, <1>2, <1>3, Zenon DEF StreamInv
<1> QED
  BY <1>1, <1>4, Zenon DEF Delivery!vars

\* readLoop cuts a frame off: the abstract Deliver, unless the frame is too
\* short to hold a FINS message.
LEMMA CutStep ==
  ASSUME StreamInv, Cut
  PROVE  StreamInv' /\ (Delivery!Next \/ UNCHANGED Delivery!vars)
<1>1. PICK f : f = 12 + DecodeFINSTCPFrame(accumulator).Length - 4
  BY Zenon
<1>2. PICK d : d = DecodeFINSFrame(DecodeFINSTCPFrame(accumulator).Data)
  BY Zenon
<1>3. /\ wire' = wire /\ accumulator' = Drop(accumulator, f) /\ sent' = sent
      /\ DecodeFINSTCPFrame(accumulator).ok /\ Len(accumulator) >= f
      /\ dispatched' = IF d.ok THEN Append(dispatched, d) ELSE dispatched
      /\ phase' = IF f >= Len(accumulator) THEN "read" ELSE "parse"
  BY <1>1, <1>2, Zenon DEF Cut, HeaderOK, FrameLen
<1>4. /\ sent \in Seq(Frame) /\ dispatched \in Seq(Frame)
      /\ Len(dispatched) <= Len(sent) /\ \A i \in 1 .. Len(dispatched) : dispatched[i] = sent[i]
      /\ Stream(accumulator, wire, sent, Len(dispatched))
  BY Zenon DEF StreamInv
<1>5. /\ f \in Nat /\ Len(accumulator) \in Nat /\ accumulator \in Seq(Nat)
      /\ \/ /\ Len(dispatched) \in Nat /\ Len(dispatched) < Len(sent)
            /\ d = sent[Len(dispatched) + 1] /\ d \in Frame
            /\ Stream(Drop(accumulator, f), wire, sent, Len(dispatched) + 1)
         \/ ~d.ok /\ Stream(Drop(accumulator, f), wire, sent, Len(dispatched))
  <2>1. Consumed(accumulator, wire, sent, Len(dispatched), f, d)
    BY <1>1, <1>2, <1>3, <1>4, StreamCuts, ZenonT(30)
  <2> QED
    BY <2>1, Zenon DEF Consumed
<1>6. phase' = "read" => Incomplete(accumulator')
  <2>1. SUFFICES ASSUME f >= Len(accumulator) PROVE Incomplete(Drop(accumulator, f))
    BY <1>3, Zenon
  <2>2. f = Len(accumulator) /\ f \in Nat /\ accumulator \in Seq(Nat)
    BY <1>3, <1>5, <2>1
  <2>3. Len(SubSeq(accumulator, f + 1, Len(accumulator))) < 12
    BY <2>2
  <2> QED
    BY <2>3, Zenon DEF Drop, Incomplete
<1>7. CASE d \in Frame /\ Len(dispatched) \in Nat /\ Len(dispatched) < Len(sent)
           /\ d = sent[Len(dispatched) + 1]
           /\ Stream(Drop(accumulator, f), wire, sent, Len(dispatched) + 1)
  <2>1. d.ok
    <3>1. PICK m \in Message : d = FrameOf(m)
      BY <1>7, Zenon DEF Frame
    <3>2. FrameOf(m).ok
      BY Zenon DEF FrameOf
    <3> QED
      BY <3>1, <3>2, Zenon
  <2>2. dispatched' = Append(dispatched, d)
    BY <1>3, <2>1, Zenon
  <2>3. /\ dispatched' \in Seq(Frame) /\ Len(dispatched') = Len(dispatched) + 1
        /\ (\A i \in 1 .. Len(dispatched) : dispatched'[i] = dispatched[i])
        /\ dispatched'[Len(dispatched) + 1] = d
    <3>1. dispatched \in Seq(Frame) /\ d \in Frame
      BY <1>4, <1>7, ZenonT(30)
    <3>2. PICK t : t = Append(dispatched, d)
      BY Zenon
    <3>3. /\ t \in Seq(Frame) /\ Len(t) = Len(dispatched) + 1
          /\ (\A i \in 1 .. Len(dispatched) : t[i] = dispatched[i]) /\ t[Len(dispatched) + 1] = d
      BY <3>1, <3>2
    <3> QED
      BY <2>2, <3>2, <3>3, ZenonT(30)
  <2>4. /\ Len(dispatched) + 1 <= Len(sent)
        /\ \A i \in 1 .. Len(dispatched) + 1 : i \in 1 .. Len(dispatched) \/ i = Len(dispatched) + 1
    <3>1. sent \in Seq(Frame)
      BY <1>4, Zenon
    <3>2. Len(sent) \in Nat
      BY <3>1
    <3> QED
      BY <1>7, <3>2
  <2>5. \A i \in 1 .. Len(dispatched') : dispatched'[i] = sent'[i]
    BY <1>3, <1>4, <1>7, <2>3, <2>4, ZenonT(30)
  <2>6. StreamInv'
    BY <1>3, <1>4, <1>6, <1>7, <2>3, <2>4, <2>5, ZenonT(30) DEF StreamInv
  <2>7. Delivery!Next
    BY <1>3, <1>7, <2>2, Zenon DEF Delivery!Next, Delivery!Deliver
  <2> QED
    BY <2>6, <2>7, Zenon
<1>8. CASE ~d.ok /\ Stream(Drop(accumulator, f), wire, sent, Len(dispatched))
  <2>1. dispatched' = dispatched
    BY <1>3, <1>8, Zenon
  <2>2. StreamInv'
    BY <1>3, <1>4, <1>6, <1>8, <2>1, ZenonT(30) DEF StreamInv
  <2> QED
    BY <1>3, <2>1, <2>2, Zenon DEF Delivery!vars
<1> QED
  BY <1>5, <1>7, <1>8, Zenon

\* Every step keeps the invariant and is a step of FrameDelivery.
LEMMA StreamStep == StreamInv /\ [Next]_vars => StreamInv' /\ [Delivery!Next]_Delivery!vars
<1> SUFFICES ASSUME StreamInv, [Next]_vars
             PROVE  StreamInv' /\ (Delivery!Next \/ UNCHANGED Delivery!vars)
  BY Zenon
<1>1. CASE \E m \in Message : PeerSend(m)
  BY <1>1, SendStep, Zenon
<1>2. CASE \E b \in Noise : PeerNoise(b)
  BY <1>2, NoiseStep, Zenon
<1>3. CASE \E n \in 1 .. MaxRead : Read(n)
  BY <1>3, ReadStep, Zenon
<1>4. CASE NeedMore
  BY <1>4, NeedMoreStep, Zenon
<1>5. CASE Skip
  BY <1>5, SkipStep, Zenon
<1>6. CASE Cut
  BY <1>6, CutStep, Zenon
<1>7. CASE UNCHANGED vars
  <2>1. /\ wire' = wire /\ accumulator' = accumulator /\ phase' = phase
        /\ sent' = sent /\ dispatched' = dispatched
    BY <1>7, Zenon DEF vars
  <2> QED
    BY <2>1, Zenon DEF StreamInv, Delivery!vars
<1> QED
  BY <1>1, <1>2, <1>3, <1>4, <1>5, <1>6, <1>7, ZenonT(30) DEF Next, Parse

-----------------------------------------------------------------------------
(* Theorems.                                                               *)

\* readLoop hands on the frames that were sent, whole, once each and in
\* order, for any messages, any way TCP cuts the stream into chunks and any
\* noise between the frames: the safety part of FrameDelivery.
THEOREM DeliverySafetyTheorem == Spec => Delivery!Safety
<1>1. Init => Delivery!Init
  BY Zenon DEF Init, Delivery!Init
<1> QED
  BY <1>1, StreamInit, StreamStep, PTL DEF Spec, Delivery!Safety

\* When readLoop waits in Read and nothing is on the wire, every frame that
\* was sent has been dispatched: none waits in the accumulator for the bytes
\* of the next response.
THEOREM NoneHeldBackTheorem == Spec => []NoneHeldBack
<1>1. StreamInv => NoneHeldBack
  <2>1. SUFFICES ASSUME StreamInv, phase = "read", wire = <<>> PROVE dispatched = sent
    BY Zenon DEF NoneHeldBack
  <2>2. /\ sent \in Seq(Frame) /\ dispatched \in Seq(Frame)
        /\ \A i \in 1 .. Len(dispatched) : dispatched[i] = sent[i]
        /\ Incomplete(accumulator) /\ Stream(accumulator, wire, sent, Len(dispatched))
    BY <2>1, Zenon DEF StreamInv
  <2>3. Len(wire) = 0
    BY <2>1, Zenon
  <2>4. Len(dispatched) = Len(sent)
    BY <2>2, <2>3, StreamEmpty, Zenon
  <2> QED
    BY <2>2, <2>4, SeqEqual, Zenon
<1> QED
  BY <1>1, StreamInit, StreamStep, PTL DEF Spec
=============================================================================

---------------------------- MODULE UdpPlcProofs -----------------------------
(***************************************************************************)
(* Proofs about the UDP client's operations and the servers, for any       *)
(* clients, calls, byte order, addresses and sizes: both sides' codecs     *)
(* agree, every answer is of its request, the demonstration server's       *)
(* auxiliary area is never written, and the simulator does with one        *)
(* request what its call means.                                            *)
(***************************************************************************)
EXTENDS UdpPlc, TLAPS

-----------------------------------------------------------------------------
(* Sequences.                                                              *)

\* u is s and then t.
Joins(u, s, t) ==
    /\ u \in Seq(Nat) /\ Len(u) = Len(s) + Len(t)
    /\ \A i \in 1 .. Len(s) : u[i] = s[i]
    /\ \A i \in 1 .. Len(t) : u[Len(s) + i] = t[i]

\* The length and the elements of a concatenation.
LEMMA Concatenated ==
  ASSUME NEW s \in Seq(Nat), NEW t \in Seq(Nat)
  PROVE  Joins(s \o t, s, t)
BY SMT DEF Joins

\* u is the part of s from m to n.
Cuts(u, s, m, n) ==
    /\ u \in Seq(Nat) /\ Len(u) = n - m + 1
    /\ \A i \in 1 .. n - m + 1 : u[i] = s[m + i - 1]

\* The length and the elements of a slice.
LEMMA Sliced ==
  ASSUME NEW s \in Seq(Nat), NEW m \in Nat, NEW n \in Nat, 1 <= m, m <= n + 1, n <= Len(s)
  PROVE  Cuts(SubSeq(s, m, n), s, m, n)
BY SMT DEF Cuts

\* Sequences with the same elements are the same.
LEMMA SameElements ==
  ASSUME NEW s \in Seq(Nat), NEW t \in Seq(Nat), Len(s) = Len(t),
         \A i \in 1 .. Len(s) : s[i] = t[i]
  PROVE  s = t
BY SMTT(30)

-----------------------------------------------------------------------------
(* Datagrams.                                                              *)

Addresses == [Network : Nat, Node : Nat, Unit : Nat]

\* The ten bytes of a header, where decodeHeader looks for them.
HeaderOf(e, type, required, src, dst, sid) ==
    /\ e \in Seq(Nat) /\ Len(e) = 10
    /\ e[1] = 128 + (IF type = "response" THEN 64 ELSE 0) + (IF required THEN 0 ELSE 1)
    /\ e[4] = dst.Network /\ e[5] = dst.Node /\ e[6] = dst.Unit
    /\ e[7] = src.Network /\ e[8] = src.Node /\ e[9] = src.Unit
    /\ e[10] = sid

\* What encodeHeader puts there.
LEMMA HeaderBytes ==
  ASSUME NEW type, NEW required \in BOOLEAN, NEW src \in Addresses, NEW dst \in Addresses,
         NEW sid \in Nat
  PROVE  HeaderOf(encodeHeader(defaultHeader(type, required, src, dst, sid)),
                  type, required, src, dst, sid)
<1> DEFINE e == encodeHeader(defaultHeader(type, required, src, dst, sid))
           icf == 128 + (IF type = "response" THEN 64 ELSE 0) + (IF required THEN 0 ELSE 1)
           d1 == dst.Network
           d2 == dst.Node
           d3 == dst.Unit
           s1 == src.Network
           s2 == src.Node
           s3 == src.Unit
<1>1. icf \in Nat
  BY SMT
<1>2. e = <<icf, 0, 2>> \o <<d1, d2, d3>> \o <<s1, s2, s3>> \o <<sid>>
  BY SMT DEF encodeHeader, defaultHeader, PutAddress
<1>3. d1 \in Nat /\ d2 \in Nat /\ d3 \in Nat /\ s1 \in Nat /\ s2 \in Nat /\ s3 \in Nat
  BY SMT DEF Addresses
<1> HIDE DEF e, icf, d1, d2, d3, s1, s2, s3
<1>4. /\ e \in Seq(Nat) /\ Len(e) = 10 /\ e[1] = icf
      /\ e[4] = d1 /\ e[5] = d2 /\ e[6] = d3
      /\ e[7] = s1 /\ e[8] = s2 /\ e[9] = s3 /\ e[10] = sid
  BY <1>1, <1>2, <1>3, SMT
<1> QED
  BY <1>4, Zenon DEF HeaderOf, e, icf, d1, d2, d3, s1, s2, s3

\* The bytes of a number.
LEMMA NumberBytes ==
  ASSUME NEW v \in Nat
  PROVE  /\ v \div 256 \in Nat /\ v % 256 \in Nat
         /\ (v \div 256) * 256 + (v % 256) = v
BY SMT

Places == [memoryArea : Nat, address : Nat, bitOffset : Nat]

\* The bytes of a command about memory and of what it writes.
CommandOf(cmd, code, m, n, bytes) ==
    /\ cmd \in Seq(Nat) /\ Len(cmd) = 8 + Len(bytes)
    /\ cmd[1] * 256 + cmd[2] = code /\ cmd[3] = m.memoryArea
    /\ cmd[4] * 256 + cmd[5] = m.address /\ cmd[6] = m.bitOffset /\ cmd[7] * 256 + cmd[8] = n
    /\ \A i \in 1 .. Len(bytes) : cmd[8 + i] = bytes[i]

\* What is encoded without the bytes to write.
LEMMA CommandBytes ==
  ASSUME NEW code \in Nat, NEW m \in Places, NEW n \in Nat
  PROVE  CommandOf(PutUint16(code) \o encodeMemoryAddress(m) \o PutUint16(n), code, m, n, <<>>)
<1> DEFINE area == m.memoryArea
           address == m.address
           bit == m.bitOffset
           s == PutUint16(code) \o encodeMemoryAddress(m) \o PutUint16(n)
           c1 == code \div 256
           c2 == code % 256
           a1 == address \div 256
           a2 == address % 256
           n1 == n \div 256
           n2 == n % 256
<1>0. area \in Nat /\ address \in Nat /\ bit \in Nat
  BY SMT DEF Places
<1>1. s = <<c1, c2>> \o (<<area>> \o <<a1, a2>> \o <<bit>>) \o <<n1, n2>>
  BY Zenon DEF PutUint16, encodeMemoryAddress
<1> HIDE DEF s, area, address, bit
<1>2. c1 \in Nat /\ c2 \in Nat /\ c1 * 256 + c2 = code
  BY NumberBytes, SMT
<1>3. a1 \in Nat /\ a2 \in Nat /\ a1 * 256 + a2 = address
  BY <1>0, NumberBytes, SMT
<1>4. n1 \in Nat /\ n2 \in Nat /\ n1 * 256 + n2 = n
  BY NumberBytes, SMT
<1> HIDE DEF c1, c2, a1, a2, n1, n2
<1>5. /\ s \in Seq(Nat) /\ Len(s) = 8
      /\ s[1] = c1 /\ s[2] = c2 /\ s[3] = area /\ s[4] = a1 /\ s[5] = a2
      /\ s[6] = bit /\ s[7] = n1 /\ s[8] = n2
  BY <1>0, <1>1, <1>2, <1>3, <1>4, SMT
<1>6. /\ s[1] * 256 + s[2] = code /\ s[3] = area /\ s[4] * 256 + s[5] = address
      /\ s[6] = bit /\ s[7] * 256 + s[8] = n
  BY <1>2, <1>3, <1>4, <1>5, ZenonT(30)
<1>7. Len(s) = 8 + Len(<<>>) /\ \A i \in 1 .. Len(<<>>) : s[8 + i] = <<>>[i]
  BY <1>5, SMT
<1>8. CommandOf(s, code, m, n, <<>>)
  BY <1>5, <1>6, <1>7, Zenon DEF CommandOf, area, address, bit
<1> QED
  BY <1>8, Zenon DEF s

\* A datagram in the server's buffer, with what the buffer held behind it.
Filled(d, b) == d \o SubSeq(b, Len(d) + 1, BufSize)

\* What the server makes of a header and a command in its buffer.
RequestOf(f, req, e, cmd) ==
    /\ f \in Seq(Nat) /\ Len(f) = BufSize
    /\ req.header = decodeHeader(e)
    /\ req.commandCode = cmd[1] * 256 + cmd[2]
    /\ \A i \in 1 .. Len(cmd) - 2 : req.data[i] = cmd[i + 2]
    /\ req.data \o req.beyond \in Seq(Nat) /\ Len(req.data \o req.beyond) = BufSize - 12
    /\ \A i \in 1 .. Len(cmd) - 2 : (req.data \o req.beyond)[i] = cmd[i + 2]

\* It is this, whatever the buffer held before.
LEMMA RequestBytes ==
  ASSUME NEW e \in Seq(Nat), Len(e) = 10, NEW cmd \in Seq(Nat), Len(cmd) >= 2,
         10 + Len(cmd) <= BufSize, NEW b \in Seq(Nat), Len(b) = BufSize
  PROVE  LET f == Filled(e \o cmd, b)
         IN RequestOf(f, decodeRequest(f, Len(e \o cmd)), e, cmd)
<1> DEFINE d == e \o cmd
           rest == SubSeq(b, Len(d) + 1, BufSize)
           f == d \o rest
           req == decodeRequest(f, Len(d))
<1>1. /\ d \in Seq(Nat) /\ Len(d) = Len(e) + Len(cmd)
      /\ \A i \in 1 .. Len(e) : d[i] = e[i]
      /\ \A i \in 1 .. Len(cmd) : d[Len(e) + i] = cmd[i]
  <2>1. Joins(d, e, cmd)
    BY Concatenated, Zenon
  <2> QED
    BY <2>1, Zenon DEF Joins
<1>2. Filled(e \o cmd, b) = f
  BY Zenon DEF Filled
<1> HIDE DEF d
<1>3. BufSize \in Nat /\ Len(cmd) \in Nat
  BY SizesAssumption, SMT
<1>31. Len(d) = 10 + Len(cmd)
  BY <1>1, <1>3, Zenon
<1>4. rest \in Seq(Nat) /\ Len(rest) = BufSize - (Len(d) + 1) + 1
  <2>1. Len(d) + 1 \in Nat /\ 1 <= Len(d) + 1 /\ Len(d) + 1 <= BufSize + 1 /\ BufSize <= Len(b)
    BY <1>31, <1>3, SMT
  <2>2. Cuts(rest, b, Len(d) + 1, BufSize)
    BY <2>1, <1>3, Sliced, Zenon
  <2> QED
    BY <2>2, Zenon DEF Cuts
<1> HIDE DEF rest
<1>5. /\ f \in Seq(Nat) /\ Len(f) = Len(d) + Len(rest)
      /\ \A i \in 1 .. Len(d) : f[i] = d[i]
  <2>1. Joins(f, d, rest)
    BY <1>1, <1>4, Concatenated, Zenon
  <2> QED
    BY <2>1, Zenon DEF Joins
<1>6. Len(f) = BufSize /\ Len(d) = 10 + Len(cmd)
  BY <1>31, <1>3, <1>4, <1>5, SMT
<1> HIDE DEF f
<1>7. /\ req.header = decodeHeader(f) /\ req.commandCode = Uint16(f, 11)
      /\ req.data = SubSeq(f, 13, Len(d)) /\ req.beyond = SubSeq(f, Len(d) + 1, Len(f))
  BY Zenon DEF decodeRequest
<1>8. \A i \in 1 .. Len(e) : f[i] = e[i]
  <2>1. \A i \in 1 .. Len(e) : i \in 1 .. Len(d)
    BY <1>3, <1>6, SMTT(30)
  <2> QED
    BY <2>1, <1>1, <1>5, Zenon
<1>9. \A i \in 1 .. Len(cmd) : f[Len(e) + i] = cmd[i]
  <2>1. \A i \in 1 .. Len(cmd) : Len(e) + i \in 1 .. Len(d)
    BY <1>3, <1>6, SMT
  <2> QED
    BY <2>1, <1>1, <1>5, Zenon
<1>10. req.header = decodeHeader(e)
  <2>1. /\ f[1] = e[1] /\ f[3] = e[3] /\ f[4] = e[4] /\ f[4 + 1] = e[4 + 1] /\ f[4 + 2] = e[4 + 2]
        /\ f[7] = e[7] /\ f[7 + 1] = e[7 + 1] /\ f[7 + 2] = e[7 + 2] /\ f[10] = e[10]
    BY <1>8, SMT
  <2> QED
    BY <2>1, <1>7, Zenon DEF decodeHeader, AddressAt
<1>11. req.commandCode = cmd[1] * 256 + cmd[2]
  <2>1. f[11] = cmd[1] /\ f[11 + 1] = cmd[2]
    BY <1>3, <1>9, SMT
  <2> QED
    BY <2>1, <1>7, Zenon DEF Uint16
<1> DEFINE data == SubSeq(f, 13, Len(d))
           beyond == SubSeq(f, Len(d) + 1, Len(f))
<1>12. /\ data \in Seq(Nat) /\ Len(data) = Len(d) - 13 + 1
       /\ \A i \in 1 .. Len(d) - 13 + 1 : data[i] = f[13 + i - 1]
  <2>1. 13 \in Nat /\ Len(d) \in Nat /\ 1 <= 13 /\ 13 <= Len(d) + 1 /\ Len(d) <= Len(f)
    BY <1>3, <1>6, SMT
  <2>2. Cuts(data, f, 13, Len(d))
    BY <2>1, <1>5, Sliced, Zenon
  <2> QED
    BY <2>2, Zenon DEF Cuts
<1>13. beyond \in Seq(Nat) /\ Len(beyond) = Len(f) - (Len(d) + 1) + 1
  <2>1. /\ Len(d) + 1 \in Nat /\ Len(f) \in Nat /\ 1 <= Len(d) + 1
        /\ Len(d) + 1 <= Len(f) + 1 /\ Len(f) <= Len(f)
    BY <1>3, <1>6, SMT
  <2>2. Cuts(beyond, f, Len(d) + 1, Len(f))
    BY <2>1, <1>5, Sliced, Zenon
  <2> QED
    BY <2>2, Zenon DEF Cuts
<1>14. req.data = data /\ req.beyond = beyond
  BY <1>7, Zenon
<1> HIDE DEF data, beyond, req
<1>15. \A i \in 1 .. Len(cmd) - 2 : data[i] = cmd[i + 2]
  BY <1>3, <1>6, <1>9, <1>12, SMTT(30)
<1>16. /\ data \o beyond \in Seq(Nat) /\ Len(data \o beyond) = Len(data) + Len(beyond)
       /\ \A i \in 1 .. Len(data) : (data \o beyond)[i] = data[i]
  <2>1. Joins(data \o beyond, data, beyond)
    BY <1>12, <1>13, Concatenated, Zenon
  <2> QED
    BY <2>1, Zenon DEF Joins
<1>17. Len(data \o beyond) = BufSize - 12 /\ Len(data) = Len(cmd) - 2
  BY <1>3, <1>6, <1>12, <1>13, <1>16, SMT
<1>18. /\ req.data \o req.beyond \in Seq(Nat) /\ Len(req.data \o req.beyond) = BufSize - 12
       /\ \A i \in 1 .. Len(cmd) - 2 : (req.data \o req.beyond)[i] = cmd[i + 2]
  BY <1>14, <1>15, <1>16, <1>17, Zenon
<1>19. \A i \in 1 .. Len(cmd) - 2 : req.data[i] = cmd[i + 2]
  BY <1>14, <1>15, Zenon
<1> QED
  BY <1>2, <1>5, <1>6, <1>10, <1>11, <1>18, <1>19, ZenonT(30) DEF RequestOf, req, d

\* Ten bytes of a header, and what is read of them.
Begins(f, type, required, src, dst, sid) ==
    \A i \in 1 .. 10 : f[i] = encodeHeader(defaultHeader(type, required, src, dst, sid))[i]
Names(q, type, src, dst, sid) ==
    q.messageType = type /\ q.src = src /\ q.dst = dst /\ q.serviceID = sid

\* decodeHeader returns what encodeHeader was given, from the first ten bytes.
\* It takes the type from bit 0, which says whether an answer is required.
LEMMA HeaderDecoded ==
  ASSUME NEW type, NEW required \in BOOLEAN, NEW src \in Addresses, NEW dst \in Addresses,
         NEW sid \in Nat, type \in {"command", "response"}, required <=> type = "command",
         NEW f, Begins(f, type, required, src, dst, sid)
  PROVE  Names(decodeHeader(f), type, src, dst, sid)
<1> DEFINE e == encodeHeader(defaultHeader(type, required, src, dst, sid))
<1>1. /\ e[1] = 128 + (IF type = "response" THEN 64 ELSE 0) + (IF required THEN 0 ELSE 1)
      /\ e[4] = dst.Network /\ e[5] = dst.Node /\ e[6] = dst.Unit
      /\ e[7] = src.Network /\ e[8] = src.Node /\ e[9] = src.Unit
      /\ e[10] = sid
  <2>1. HeaderOf(e, type, required, src, dst, sid)
    BY HeaderBytes, Zenon
  <2> QED
    BY <2>1, Zenon DEF HeaderOf
<1> HIDE DEF e
<1>2. \A i \in 1 .. 10 : f[i] = e[i]
  BY Zenon DEF e, Begins
<1>3. /\ f[1] = e[1] /\ f[4] = e[4] /\ f[5] = e[5] /\ f[6] = e[6]
      /\ f[7] = e[7] /\ f[8] = e[8] /\ f[9] = e[9] /\ f[10] = e[10]
  BY <1>2, SMT
<1>4. src = [Network |-> src.Network, Node |-> src.Node, Unit |-> src.Unit]
  BY SMT DEF Addresses
<1>5. dst = [Network |-> dst.Network, Node |-> dst.Node, Unit |-> dst.Unit]
  BY SMT DEF Addresses
<1>6. AddressAt(f, 4) = dst /\ AddressAt(f, 7) = src
  <2>1. 4 + 1 = 5 /\ 4 + 2 = 6 /\ 7 + 1 = 8 /\ 7 + 2 = 9
    BY SMT
  <2> QED
    BY <2>1, <1>1, <1>3, <1>4, <1>5, ZenonT(30) DEF AddressAt
<1>7. (f[1] % 2 = 0) <=> required
  <2>1. f[1] = IF required THEN 128 ELSE 193
    BY <1>1, <1>3, SMT
  <2> QED
    BY <2>1, SMT
<1>8. (IF f[1] % 2 = 0 THEN "command" ELSE "response") = type
  BY <1>7, SMT
<1>9. /\ decodeHeader(f).messageType = IF f[1] % 2 = 0 THEN "command" ELSE "response"
      /\ decodeHeader(f).src = AddressAt(f, 7) /\ decodeHeader(f).dst = AddressAt(f, 4)
      /\ decodeHeader(f).serviceID = f[10]
  BY SMT DEF decodeHeader
<1> QED
  BY <1>1, <1>3, <1>6, <1>8, <1>9, Zenon DEF Names

\* An answer, and what is read of it.
Returns(r, end, data) ==
    r \in Seq(Nat) /\ r # <<>> /\ decodeResponse(r).endCode = end /\ decodeResponse(r).data = data

\* What decodeResponse makes of encodeResponse.
LEMMA ResponseDecoded ==
  ASSUME NEW src \in Addresses, NEW dst \in Addresses, NEW sid \in Nat,
         NEW code \in Nat, NEW end \in Nat, NEW data \in Seq(Nat)
  PROVE  LET h == defaultHeader("response", FALSE, src, dst, sid)
             r == encodeResponse([header |-> h, commandCode |-> code, endCode |-> end,
                                  data |-> data])
         IN Returns(r, end, data) /\ Begins(r, "response", FALSE, src, dst, sid)
<1> DEFINE h == defaultHeader("response", FALSE, src, dst, sid)
           e == encodeHeader(h)
           r == encodeResponse([header |-> h, commandCode |-> code, endCode |-> end, data |-> data])
           c1 == code \div 256
           c2 == code % 256
           e1 == end \div 256
           e2 == end % 256
<1> DEFINE code2 == <<c1, c2>>
           end2 == <<e1, e2>>
           p == e \o code2
           q == p \o end2
<1>1. e \in Seq(Nat) /\ Len(e) = 10
  <2>1. HeaderOf(e, "response", FALSE, src, dst, sid)
    BY HeaderBytes, Zenon
  <2> QED
    BY <2>1, Zenon DEF HeaderOf
<1>2. r = q \o data
  <2> DEFINE v == [header |-> h, commandCode |-> code, endCode |-> end, data |-> data]
  <2> HIDE DEF h
  <2>1. v.header = h /\ v.commandCode = code /\ v.endCode = end /\ v.data = data
    BY Zenon
  <2> HIDE DEF v
  <2>2. encodeResponse(v) = e \o <<c1, c2>> \o <<e1, e2>> \o data
    BY <2>1, ZenonT(30) DEF encodeResponse, PutUint16
  <2> QED
    BY <2>2, Zenon DEF v
<1>3. c1 \in Nat /\ c2 \in Nat /\ e1 \in Nat /\ e2 \in Nat /\ e1 * 256 + e2 = end
  BY NumberBytes, SMT
<1> HIDE DEF h, e, r, c1, c2, e1, e2
<1>4. /\ code2 \in Seq(Nat) /\ Len(code2) = 2
      /\ end2 \in Seq(Nat) /\ Len(end2) = 2 /\ end2[1] = e1 /\ end2[2] = e2
  BY <1>3, SMT
<1> HIDE DEF code2, end2
<1>5. Joins(p, e, code2)
  BY <1>1, <1>4, Concatenated, Zenon
<1>6. /\ p \in Seq(Nat) /\ Len(p) = Len(e) + 2 /\ \A i \in 1 .. Len(e) : p[i] = e[i]
  BY <1>4, <1>5, Zenon DEF Joins
<1> HIDE DEF p
<1>7. Joins(q, p, end2)
  BY <1>4, <1>6, Concatenated, Zenon
<1>8. /\ q \in Seq(Nat) /\ Len(q) = Len(p) + 2 /\ \A i \in 1 .. Len(p) : q[i] = p[i]
      /\ \A i \in 1 .. 2 : q[Len(p) + i] = end2[i]
  BY <1>4, <1>7, Zenon DEF Joins
<1> HIDE DEF q
<1>9. Joins(r, q, data)
  BY <1>2, <1>8, Concatenated, Zenon
<1>10. /\ r \in Seq(Nat) /\ Len(r) = Len(q) + Len(data) /\ \A i \in 1 .. Len(q) : r[i] = q[i]
       /\ \A i \in 1 .. Len(data) : r[Len(q) + i] = data[i]
  BY <1>9, Zenon DEF Joins
<1>11. Len(p) = 12 /\ Len(q) = 14 /\ Len(data) \in Nat /\ Len(r) = 14 + Len(data)
  BY <1>1, <1>6, <1>8, <1>10, SMT
<1>12. \A i \in 1 .. Len(e) : r[i] = e[i]
  <2>1. \A i \in 1 .. Len(e) : i \in 1 .. Len(p) /\ i \in 1 .. Len(q)
    BY <1>1, <1>11, SMT
  <2> QED
    BY <2>1, <1>6, <1>8, <1>10, Zenon
<1>13. decodeResponse(r).endCode = end
  <2>1. r[13] = e1 /\ r[13 + 1] = e2
    <3>1. q[13] = e1 /\ q[14] = e2
      BY <1>4, <1>8, <1>11, SMT
    <3> QED
      BY <3>1, <1>10, <1>11, SMT
  <2>2. decodeResponse(r).endCode = r[13] * 256 + r[13 + 1]
    BY Zenon DEF decodeResponse, Uint16
  <2> QED
    BY <2>1, <2>2, <1>3, Zenon
<1>14. decodeResponse(r).data = data
  <2>1. 15 \in Nat /\ Len(r) \in Nat /\ 1 <= 15 /\ 15 <= Len(r) + 1 /\ Len(r) <= Len(r)
    BY <1>11, SMT
  <2>2. Cuts(SubSeq(r, 15, Len(r)), r, 15, Len(r))
    BY <2>1, <1>10, Sliced, Zenon
  <2>3. /\ SubSeq(r, 15, Len(r)) \in Seq(Nat) /\ Len(SubSeq(r, 15, Len(r))) = Len(r) - 15 + 1
        /\ \A i \in 1 .. Len(r) - 15 + 1 : SubSeq(r, 15, Len(r))[i] = r[15 + i - 1]
    BY <2>2, Zenon DEF Cuts
  <2>4. Len(r) - 15 + 1 = Len(data) /\ \A i \in 1 .. Len(data) : 15 + i - 1 = Len(q) + i
    BY <1>11, SMT
  <2>5. \A i \in 1 .. Len(data) : SubSeq(r, 15, Len(r))[i] = data[i]
    BY <2>3, <2>4, <1>10, Zenon
  <2>6. SubSeq(r, 15, Len(r)) = data
    BY <2>3, <2>4, <2>5, SameElements, Zenon
  <2> QED
    BY <2>6, Zenon DEF decodeResponse
<1>15. r # <<>>
  BY <1>11, SMT
<1>16. Returns(r, end, data)
  BY <1>10, <1>13, <1>14, <1>15, Zenon DEF Returns
<1>17. Begins(r, "response", FALSE, src, dst, sid)
  BY <1>1, <1>12, Zenon DEF e, h, Begins
<1> QED
  BY <1>16, <1>17, Zenon DEF r, h
-----------------------------------------------------------------------------
(* Requests about memory.                                                  *)

\* What readCommand encodes.
LEMMA ReadEncoded ==
  ASSUME NEW m \in Places, NEW n \in Nat
  PROVE  CommandOf(readCommand(m, n), 257, m, n, <<>>)
<1>1. 257 \in Nat
  BY SMT
<1> QED
  BY <1>1, CommandBytes, ZenonT(30) DEF readCommand, CommandCodeMemoryAreaRead

\* What writeCommand encodes.
LEMMA WriteEncoded ==
  ASSUME NEW m \in Places, NEW n \in Nat, NEW bytes \in Seq(Nat)
  PROVE  CommandOf(writeCommand(m, n, bytes), 258, m, n, bytes)
<1> DEFINE s == PutUint16(258) \o encodeMemoryAddress(m) \o PutUint16(n)
           u == s \o bytes
<1>1. 258 \in Nat
  BY SMT
<1>2. writeCommand(m, n, bytes) = u
  BY Zenon DEF writeCommand, CommandCodeMemoryAreaWrite
<1>3. CommandOf(s, 258, m, n, <<>>)
  BY <1>1, CommandBytes, ZenonT(30)
<1> HIDE DEF s
<1>4. s \in Seq(Nat) /\ Len(s) = 8
  BY <1>3, SMT DEF CommandOf
<1>5. Joins(u, s, bytes)
  BY <1>4, Concatenated, Zenon
<1> HIDE DEF u
<1>6. /\ u \in Seq(Nat) /\ Len(u) = 8 + Len(bytes) /\ \A i \in 1 .. 8 : u[i] = s[i]
      /\ \A i \in 1 .. Len(bytes) : u[8 + i] = bytes[i]
  BY <1>4, <1>5, Zenon DEF Joins
<1>7. /\ u[1] = s[1] /\ u[2] = s[2] /\ u[3] = s[3] /\ u[4] = s[4] /\ u[5] = s[5]
      /\ u[6] = s[6] /\ u[7] = s[7] /\ u[8] = s[8]
  <2>1. \A i \in 1 .. 8 : u[i] = s[i]
    BY <1>6, Zenon
  <2> QED
    BY <2>1, SMT
<1>8. CommandOf(u, 258, m, n, bytes)
  BY <1>3, <1>6, <1>7, ZenonT(30) DEF CommandOf
<1> QED
  BY <1>2, <1>8, Zenon

\* A request that asks for n items at m, or gives bytes for them.
Asks(req, code, m, n, bytes) ==
    /\ req.commandCode = code /\ decodeMemoryAddress(req.data) = m /\ Uint16(req.data, 5) = n
    /\ req.data \o req.beyond \in Seq(Nat) /\ 6 + Len(bytes) <= Len(req.data \o req.beyond)
    /\ \A i \in 1 .. Len(bytes) : (req.data \o req.beyond)[6 + i] = bytes[i]

\* What the server reads of such a command.
LEMMA RequestRead ==
  ASSUME NEW e \in Seq(Nat), Len(e) = 10, NEW b \in Seq(Nat), Len(b) = BufSize,
         NEW code \in Nat, NEW m \in Places, NEW n \in Nat, NEW bytes \in Seq(Nat), NEW cmd,
         CommandOf(cmd, code, m, n, bytes), 10 + Len(cmd) <= BufSize
  PROVE  LET f == Filled(e \o cmd, b)
             req == decodeRequest(f, Len(e \o cmd))
         IN /\ f \in Seq(Nat) /\ Len(f) = BufSize
            /\ req.header = decodeHeader(e)
            /\ Asks(req, code, m, n, bytes)
<1> DEFINE f == Filled(e \o cmd, b)
           req == decodeRequest(f, Len(e \o cmd))
           all == req.data \o req.beyond
<1>1. /\ cmd \in Seq(Nat) /\ Len(cmd) = 8 + Len(bytes) /\ Len(bytes) \in Nat
      /\ \A i \in 1 .. Len(bytes) : cmd[8 + i] = bytes[i]
  BY SMT DEF CommandOf
<1>2. /\ cmd[1] * 256 + cmd[2] = code /\ cmd[3] = m.memoryArea
      /\ cmd[4] * 256 + cmd[5] = m.address /\ cmd[6] = m.bitOffset /\ cmd[7] * 256 + cmd[8] = n
  BY Zenon DEF CommandOf
<1>3. Len(cmd) >= 2
  BY <1>1, SMT
<1>4. /\ f \in Seq(Nat) /\ Len(f) = BufSize
      /\ req.header = decodeHeader(e)
      /\ req.commandCode = cmd[1] * 256 + cmd[2]
      /\ \A i \in 1 .. Len(cmd) - 2 : req.data[i] = cmd[i + 2]
      /\ all \in Seq(Nat) /\ Len(all) = BufSize - 12
      /\ \A i \in 1 .. Len(cmd) - 2 : all[i] = cmd[i + 2]
  <2>1. RequestOf(f, req, e, cmd)
    BY <1>1, <1>3, RequestBytes, Zenon
  <2> QED
    BY <2>1, Zenon DEF RequestOf
<1> HIDE DEF f, req
<1> DEFINE data == req.data
<1>5. \A i \in 1 .. Len(cmd) - 2 : data[i] = cmd[i + 2]
  BY <1>4, Zenon
<1> HIDE DEF data
<1>6. /\ data[1] = cmd[3] /\ data[2] = cmd[4] /\ data[3] = cmd[5]
      /\ data[4] = cmd[6] /\ data[5] = cmd[7] /\ data[6] = cmd[8]
  <2>1. /\ 1 \in 1 .. Len(cmd) - 2 /\ 2 \in 1 .. Len(cmd) - 2 /\ 3 \in 1 .. Len(cmd) - 2
        /\ 4 \in 1 .. Len(cmd) - 2 /\ 5 \in 1 .. Len(cmd) - 2 /\ 6 \in 1 .. Len(cmd) - 2
        /\ 1 + 2 = 3 /\ 2 + 2 = 4 /\ 3 + 2 = 5 /\ 4 + 2 = 6 /\ 5 + 2 = 7 /\ 6 + 2 = 8
    BY <1>1, SMT
  <2> QED
    BY <2>1, <1>5, Zenon
<1>7. m = [memoryArea |-> m.memoryArea, address |-> m.address, bitOffset |-> m.bitOffset]
  BY SMT DEF Places
<1>8. decodeMemoryAddress(data) = m /\ Uint16(data, 5) = n
  <2>1. 2 + 1 = 3 /\ 5 + 1 = 6
    BY SMT
  <2> QED
    BY <2>1, <1>2, <1>6, <1>7, ZenonT(30) DEF decodeMemoryAddress, Uint16
<1> HIDE DEF all
<1>9. 6 + Len(bytes) <= Len(all)
  BY <1>1, <1>4, SizesAssumption, SMT
<1>10. \A i \in 1 .. Len(bytes) : all[6 + i] = bytes[i]
  <2>1. \A i \in 1 .. Len(cmd) - 2 : all[i] = cmd[i + 2]
    BY <1>4, Zenon
  <2>2. \A i \in 1 .. Len(bytes) : 6 + i \in 1 .. Len(cmd) - 2 /\ 6 + i + 2 = 8 + i
    BY <1>1, SMT
  <2> QED
    BY <2>1, <2>2, <1>1, Zenon
<1>11. Asks(req, code, m, n, bytes)
  BY <1>2, <1>4, <1>8, <1>9, <1>10, Zenon DEF Asks, all, data
<1> QED
  BY <1>4, <1>11, Zenon DEF f, req
-----------------------------------------------------------------------------
(* The commands of the calls.                                              *)

Width(k) == IF k.op \in BitOps THEN 1 ELSE 2
ReadOps == Reads \cup {"ToggleBit"}
WriteOps == {"WriteWords", "WriteString", "WriteBytes", "WriteBits", "SetBit", "ResetBit"}

\* A call names a place.
LEMMA PlaceOfCall ==
  ASSUME NEW k, WellFormed(k), k.op # "ReadClock"
  PROVE  At(k) \in Places /\ FirstMeant(k) \in Nat
<1>1. k.area \in Nat /\ k.address \in Nat /\ (k.op \in BitOps => k.bit \in Nat)
  BY Zenon DEF WellFormed
<1> QED
  BY <1>1, SMT DEF At, Places, FirstMeant

\* A call is one that reads, one that writes or the one for the clock.
LEMMA KindOfCall ==
  ASSUME NEW k, WellFormed(k), k.op # "ReadClock"
  PROVE  k.op \in ReadOps \/ k.op \in WriteOps
<1>1. k.op \in WordOps \cup BitOps
  BY Zenon DEF WellFormed
<1> QED
  BY <1>1, SMT DEF WordOps, BitOps, ReadOps, WriteOps, Reads

\* A call that reads: its command asks for n items, and it has n items to get.
ReadsItems(k, n) ==
    /\ n \in Nat /\ Command(k) = readCommand(At(k), n)
    /\ Asked(k) = Width(k) * n /\ Given(k) = <<>>

\* A read asks for as many bytes as its items have, and gives none.
LEMMA ReadCall ==
  ASSUME NEW k, WellFormed(k), k.op \in ReadOps
  PROVE  \E n : ReadsItems(k, n)
<1> DEFINE n == IF k.op = "ToggleBit" THEN 1 ELSE k.count
<1>1. n \in Nat
  <2>1. k.op \in Reads => k.count \in Nat
    BY Zenon DEF WellFormed
  <2> QED
    BY <2>1, SMT DEF ReadOps
<1>2. Command(k) = readCommand(At(k), n)
  <2>1. CASE k.op = "ToggleBit"
    <3>1. Command(k) = readCommand(At(k), 1)
      BY <2>1, SMT DEF Command
    <3> QED
      BY <2>1, <3>1, Zenon
  <2>2. CASE k.op # "ToggleBit"
    <3>1. k.op \in {"ReadWords", "ReadBytes", "ReadString", "ReadBits"}
      BY <2>2, Zenon DEF ReadOps, Reads
    <3>2. Command(k) = readCommand(At(k), k.count)
      BY <3>1, Zenon DEF Command
    <3> QED
      BY <2>2, <3>2, Zenon
  <2> QED
    BY <2>1, <2>2, Zenon
<1>3. Given(k) = <<>>
  <2>1. /\ k.op # "WriteWords" /\ k.op # "WriteString" /\ k.op # "WriteBytes"
        /\ k.op # "WriteBits" /\ k.op # "SetBit" /\ k.op # "ResetBit"
    BY SMT DEF ReadOps, Reads
  <2> QED
    BY <2>1, Zenon DEF Given
<1>4. Asked(k) = Width(k) * n
  BY <1>1, SMT DEF Asked, Width, ReadOps, Reads, BitOps
<1> QED
  BY <1>1, <1>2, <1>3, <1>4, Zenon DEF ReadsItems

\* A call that writes: its command gives bytes for n items, and what the call
\* names is where they begin.
WritesItems(k, n, bytes) ==
    /\ n \in Nat /\ bytes \in Seq(Nat) /\ Command(k) = writeCommand(At(k), n, bytes)
    /\ Asked(k) = 0 /\ Given(k) \in Seq(Nat) /\ Len(Given(k)) <= Len(bytes)
    /\ \A i \in 1 .. Len(Given(k)) : Given(k)[i] = bytes[i]
    /\ Simulated(k) => Len(Given(k)) = Width(k) * n
    /\ k.op \in BitOps => \A i \in 1 .. Len(Given(k)) : Given(k)[i] \in {0, 1}

\* The bytes of words.
LEMMA WordBytesFact ==
  ASSUME NEW words \in Seq(Nat)
  PROVE  WordBytes(words) \in Seq(Nat) /\ Len(WordBytes(words)) = 2 * Len(words)
<1>1. \A w \in Nat : \A j \in {1, 2} : PutWord(w)[j] \in Nat
  <2> SUFFICES ASSUME NEW w \in Nat PROVE PutWord(w)[1] \in Nat /\ PutWord(w)[2] \in Nat
    BY Zenon
  <2>1. w \div 256 \in Nat /\ w % 256 \in Nat
    BY NumberBytes, ZenonT(30)
  <2>2. PutWord(w) = <<w \div 256, w % 256>> \/ PutWord(w) = <<w % 256, w \div 256>>
    BY Zenon DEF PutWord, PutUint16
  <2> DEFINE hi == w \div 256
             lo == w % 256
  <2> HIDE DEF hi, lo
  <2>3. hi \in Nat /\ lo \in Nat /\ (PutWord(w) = <<hi, lo>> \/ PutWord(w) = <<lo, hi>>)
    BY <2>1, <2>2, Zenon DEF hi, lo
  <2> QED
    BY <2>3, SMT
<1>2. \A i \in 1 .. 2 * Len(words) : (i + 1) \div 2 \in 1 .. Len(words) /\ 2 - (i % 2) \in {1, 2}
  BY SMT
<1>3. \A i \in 1 .. 2 * Len(words) : words[(i + 1) \div 2] \in Nat
  <2>1. \A j \in 1 .. Len(words) : words[j] \in Nat
    BY SMT
  <2> QED
    BY <2>1, <1>2, Zenon
<1>4. \A i \in 1 .. 2 * Len(words) : PutWord(words[(i + 1) \div 2])[2 - (i % 2)] \in Nat
  BY <1>1, <1>2, <1>3, Zenon
<1> DEFINE F(i) == PutWord(words[(i + 1) \div 2])[2 - (i % 2)]
           n == 2 * Len(words)
<1>5. n \in Nat /\ WordBytes(words) = [i \in 1 .. n |-> F(i)] /\ \A i \in 1 .. n : F(i) \in Nat
  <2>1. n \in Nat
    BY SMT
  <2> QED
    BY <2>1, <1>4, Zenon DEF WordBytes
<1> HIDE DEF F, n
<1>6. WordBytes(words) \in Seq(Nat) /\ Len(WordBytes(words)) = n
  BY <1>5, SMT
<1> QED
  BY <1>6, Zenon DEF n

\* WriteWords gives the bytes of its words.
LEMMA WriteWordsCall ==
  ASSUME NEW k, WellFormed(k), k.op = "WriteWords"
  PROVE  WritesItems(k, Len(k.data), WordBytes(k.data))
<1>1. k.data \in Seq(Nat)
  BY Zenon DEF WellFormed
<1>2. Len(k.data) \in Nat /\ WordBytes(k.data) \in Seq(Nat)
      /\ Len(WordBytes(k.data)) = 2 * Len(k.data)
  <2>1. Len(k.data) \in Nat
    BY <1>1, SMT
  <2> QED
    BY <2>1, <1>1, WordBytesFact, Zenon
<1>3. Command(k) = writeCommand(At(k), Len(k.data), WordBytes(k.data))
  <2>1. Command(k) = WriteWords(k)
    BY SMT DEF Command
  <2> QED
    BY <2>1, Zenon DEF WriteWords
<1>4. Given(k) = WordBytes(k.data)
  BY SMT DEF Given
<1>5. Asked(k) = 0 /\ Width(k) = 2 /\ k.op \notin BitOps
  BY SMT DEF Asked, Width, BitOps
<1>6. Len(WordBytes(k.data)) <= Len(WordBytes(k.data))
  BY <1>2, SMT
<1> QED
  BY <1>2, <1>3, <1>4, <1>5, <1>6, Zenon DEF WritesItems

\* WriteString gives its bytes and, if they are odd in number, a zero; what
\* it sends beyond that the server does not take.
LEMMA WriteStringCall ==
  ASSUME NEW k, WellFormed(k), k.op = "WriteString"
  PROVE  WritesItems(k, (Len(k.data) + 1) \div 2, k.data \o Zeroes(Len(k.data)))
<1> DEFINE s == k.data
           l == Len(s)
           z == Zeroes(l)
           y == Zeroes(l % 2)
           n == (l + 1) \div 2
<1>1. s \in Seq(Nat)
  BY Zenon DEF WellFormed
<1>2. Command(k) = writeCommand(At(k), n, s \o z)
  <2>1. Command(k) = WriteString(k)
    BY SMT DEF Command
  <2> QED
    BY <2>1, Zenon DEF WriteString
<1>3. Given(k) = s \o y
  <2>1. k.op # "WriteWords"
    BY SMT
  <2> QED
    BY <2>1, Zenon DEF Given
<1>4. Asked(k) = 0 /\ Width(k) = 2 /\ k.op \notin BitOps
  BY SMT DEF Asked, Width, BitOps
<1> HIDE DEF s
<1>5. l \in Nat /\ l % 2 \in Nat /\ l % 2 <= l /\ n \in Nat /\ l + (l % 2) = 2 * n
  BY <1>1, SMT
<1>6. \A j \in Nat : /\ Zeroes(j) \in Seq(Nat) /\ Len(Zeroes(j)) = j
                     /\ \A i \in 1 .. j : Zeroes(j)[i] = 0
  BY SMT DEF Zeroes
<1>7. /\ z \in Seq(Nat) /\ Len(z) = l /\ \A i \in 1 .. l : z[i] = 0
      /\ y \in Seq(Nat) /\ Len(y) = l % 2 /\ \A i \in 1 .. l % 2 : y[i] = 0
  BY <1>5, <1>6, Zenon
<1> HIDE DEF z, y, n
<1>8. Joins(s \o z, s, z) /\ Joins(s \o y, s, y)
  BY <1>1, <1>7, Concatenated, Zenon
<1> DEFINE sz == s \o z
           sy == s \o y
<1>9. /\ sz \in Seq(Nat) /\ Len(sz) = l + l
      /\ \A i \in 1 .. l : sz[i] = s[i]
      /\ \A i \in 1 .. l : sz[l + i] = z[i]
  BY <1>7, <1>8, Zenon DEF Joins
<1>10. /\ sy \in Seq(Nat) /\ Len(sy) = l + (l % 2)
       /\ \A i \in 1 .. l : sy[i] = s[i]
       /\ \A i \in 1 .. l % 2 : sy[l + i] = y[i]
  BY <1>7, <1>8, Zenon DEF Joins
<1> HIDE DEF sz, sy, l
<1>11. Len(sy) <= Len(sz) /\ Len(sy) = 2 * n
  BY <1>5, <1>9, <1>10, SMT
<1>12. \A i \in 1 .. Len(sy) : sy[i] = sz[i]
  <2> SUFFICES ASSUME NEW i \in 1 .. Len(sy) PROVE sy[i] = sz[i]
    BY Zenon
  <2>1. CASE i <= l
    <3>1. i \in 1 .. l
      BY <2>1, <1>5, <1>10, SMT
    <3> QED
      BY <3>1, <1>9, <1>10, Zenon
  <2>2. CASE ~(i <= l)
    <3> DEFINE j == i - l
    <3>1. j \in 1 .. l % 2 /\ j \in 1 .. l /\ l + j = i
      BY <2>2, <1>5, <1>10, SMT
    <3> HIDE DEF j
    <3> QED
      BY <3>1, <1>7, <1>9, <1>10, ZenonT(30)
  <2> QED
    BY <2>1, <2>2, Zenon
<1>13. WritesItems(k, n, sz)
  BY <1>2, <1>3, <1>4, <1>5, <1>9, <1>10, <1>11, <1>12, Zenon DEF WritesItems, sz, sy
<1> QED
  BY <1>13, Zenon DEF sz, z, n, l, s

\* WriteBytes gives its bytes.
LEMMA WriteBytesCall ==
  ASSUME NEW k, WellFormed(k), k.op = "WriteBytes"
  PROVE  WritesItems(k, (Len(k.data) + 1) \div 2, k.data)
<1> DEFINE n == (Len(k.data) + 1) \div 2
<1>1. k.data \in Seq(Nat)
  BY Zenon DEF WellFormed
<1>2. Command(k) = writeCommand(At(k), n, k.data)
  <2>1. Command(k) = WriteBytes(k)
    BY SMT DEF Command
  <2> QED
    BY <2>1, Zenon DEF WriteBytes
<1>3. Given(k) = k.data
  BY SMT DEF Given
<1>4. Asked(k) = 0 /\ Width(k) = 2 /\ k.op \notin BitOps
  BY SMT DEF Asked, Width, BitOps
<1>5. Simulated(k) => Len(k.data) % 2 = 0
  <2>1. k.op # "ReadClock"
    BY SMT
  <2> QED
    BY <2>1, Zenon DEF Simulated
<1>6. /\ n \in Nat /\ Len(k.data) <= Len(k.data)
      /\ (Len(k.data) % 2 = 0) => Len(k.data) = 2 * n
  <2>1. Len(k.data) \in Nat
    BY <1>1, SMT
  <2> DEFINE l == Len(k.data)
  <2> HIDE DEF l
  <2>2. l \in Nat => (l + 1) \div 2 \in Nat /\ l <= l /\ ((l % 2 = 0) => l = 2 * ((l + 1) \div 2))
    BY SMT
  <2> QED
    BY <2>1, <2>2, Zenon DEF l
<1> QED
  BY <1>1, <1>2, <1>3, <1>4, <1>5, <1>6, Zenon DEF WritesItems

\* The calls that write bits give zeros and ones.
LEMMA WriteBitsCall ==
  ASSUME NEW k, WellFormed(k), k.op = "WriteBits"
  PROVE  WritesItems(k, Len(k.data), [i \in DOMAIN k.data |-> Flag(k.data[i])])
<1> DEFINE s == k.data
           l == Len(s)
           bytes == [i \in DOMAIN s |-> Flag(s[i])]
<1>1. s \in Seq(BOOLEAN)
  BY Zenon DEF WellFormed
<1>2. Command(k) = writeCommand(At(k), l, bytes)
  <2>1. Command(k) = WriteBits(k)
    BY SMT DEF Command
  <2> QED
    BY <2>1, Zenon DEF WriteBits
<1>3. Given(k) = bytes
  <2>1. k.op # "WriteWords" /\ k.op # "WriteString" /\ k.op # "WriteBytes"
    BY SMT
  <2> QED
    BY <2>1, Zenon DEF Given
<1>4. Asked(k) = 0 /\ Width(k) = 1
  BY SMT DEF Asked, Width, BitOps
<1> HIDE DEF s
<1>5. l \in Nat /\ DOMAIN s = 1 .. l /\ l = 1 * l /\ l <= l
  BY <1>1, SMT
<1>6. \A x : Flag(x) \in Nat /\ Flag(x) \in {0, 1}
  BY SMT DEF Flag
<1>7. bytes = [i \in 1 .. l |-> Flag(s[i])]
  BY <1>5, Zenon
<1>8. \A i \in 1 .. l : bytes[i] \in Nat /\ bytes[i] \in {0, 1}
  BY <1>6, <1>7, Zenon
<1> HIDE DEF l
<1>9. bytes \in Seq(Nat) /\ Len(bytes) = l
  BY <1>5, <1>6, <1>7, SMT
<1> HIDE DEF bytes
<1>10. WritesItems(k, l, bytes)
  BY <1>2, <1>3, <1>4, <1>5, <1>8, <1>9, Zenon DEF WritesItems
<1> QED
  BY <1>10, Zenon DEF bytes, l, s

\* SetBit and ResetBit.
LEMMA SetBitCall ==
  ASSUME NEW k, WellFormed(k), NEW v \in {0, 1}, k.op = IF v = 1 THEN "SetBit" ELSE "ResetBit"
  PROVE  WritesItems(k, 1, <<v>>)
<1> DEFINE bytes == <<v>>
<1>1. Command(k) = writeCommand(At(k), 1, bytes)
  <2>1. Command(k) = bitTwiddle(k, v)
    BY SMT DEF Command
  <2> QED
    BY <2>1, Zenon DEF bitTwiddle
<1>2. Given(k) = bytes
  <2>1. k.op # "WriteWords" /\ k.op # "WriteString" /\ k.op # "WriteBytes" /\ k.op # "WriteBits"
    BY SMT
  <2>2. (v = 1 => k.op = "SetBit") /\ (v = 0 => k.op = "ResetBit" /\ k.op # "SetBit")
    BY SMT
  <2>3. v = 0 \/ v = 1
    BY SMT
  <2> QED
    BY <2>1, <2>2, <2>3, Zenon DEF Given
<1>3. Asked(k) = 0 /\ Width(k) = 1
  BY SMT DEF Asked, Width, BitOps
<1>4. /\ 1 \in Nat /\ bytes \in Seq(Nat) /\ Len(bytes) = 1 /\ 1 <= 1 /\ 1 = 1 * 1
      /\ \A i \in 1 .. 1 : bytes[i] \in {0, 1}
  BY SMT
<1> HIDE DEF bytes
<1>5. WritesItems(k, 1, bytes)
  BY <1>1, <1>2, <1>3, <1>4, Zenon DEF WritesItems
<1> QED
  BY <1>5, Zenon DEF bytes

\* So each call that writes has a command that gives its bytes.
LEMMA WriteCall ==
  ASSUME NEW k, WellFormed(k), k.op \in WriteOps
  PROVE  \E n, bytes : WritesItems(k, n, bytes)
<1>1. \/ k.op = "WriteWords" \/ k.op = "WriteString" \/ k.op = "WriteBytes" \/ k.op = "WriteBits"
      \/ k.op = "SetBit" \/ k.op = "ResetBit"
  BY Zenon DEF WriteOps
<1>2. CASE k.op = "SetBit"
  <2>1. 1 \in {0, 1} /\ k.op = IF 1 = 1 THEN "SetBit" ELSE "ResetBit"
    BY <1>2, Zenon
  <2> QED
    BY <2>1, SetBitCall, Zenon
<1>3. CASE k.op = "ResetBit"
  <2>1. 0 \in {0, 1} /\ k.op = IF 0 = 1 THEN "SetBit" ELSE "ResetBit"
    BY <1>3, SMT
  <2> QED
    BY <2>1, SetBitCall, Zenon
<1> QED
  BY <1>1, <1>2, <1>3, WriteWordsCall, WriteStringCall, WriteBytesCall, WriteBitsCall, Zenon
-----------------------------------------------------------------------------
(* The servers' memory.                                                    *)

MemOK(m) ==
    /\ DOMAIN m = DOMAIN Codes
    /\ \A a \in DOMAIN Codes : m[a] \in [0 .. AreaSize - 1 -> Nat]

\* An area with data written from start to end.
Written(area, start, end, data) ==
    [k \in DOMAIN area |-> IF k \in start .. end - 1 THEN data[7 + k - start] ELSE area[k]]

\* What a server does with a request that it answers.
Answers(h, end, data, after) ==
    h.panic = FALSE /\ h.endCode = end /\ h.data = data /\ h.mem = after

\* The fields of an answer.
LEMMA AnsweredFields ==
  ASSUME NEW end, NEW data
  PROVE  Answers(Answered(end, data), end, data, mem)
BY SMT DEF Answered, Answers

\* The fields of a panic.
LEMMA PanicFields == Panic.panic = TRUE /\ Panic.mem = mem
BY SMT DEF Panic

\* The fields of the answer to a write.
LEMMA WriteAreaFields ==
  ASSUME NEW a, NEW r, NEW data, ~(r.start > r.end \/ r.end > AreaSize \/ 6 + r.given > Len(data))
  PROVE  Answers(WriteArea(a, r, data), 0, <<>>,
                 [mem EXCEPT ![a] = Written(mem[a], r.start, r.end, data)])
<1> DEFINE ans == [panic |-> FALSE, endCode |-> 0, data |-> <<>>, mem |-> mem]
<1>1. WriteArea(a, r, data) =
        [ans EXCEPT !.mem = [mem EXCEPT ![a] = Written(mem[a], r.start, r.end, data)]]
  BY DEF WriteArea, Answered, Written
<1> DEFINE x == [mem EXCEPT ![a] = Written(mem[a], r.start, r.end, data)]
<1> HIDE DEF x
<1>2. WriteArea(a, r, data) = [ans EXCEPT !.mem = x]
  BY <1>1, Zenon DEF x
<1>3. [ans EXCEPT !.mem = x].panic = FALSE /\ [ans EXCEPT !.mem = x].endCode = 0
      /\ [ans EXCEPT !.mem = x].data = <<>> /\ [ans EXCEPT !.mem = x].mem = x
  BY SMT
<1> QED
  BY <1>2, <1>3, Zenon DEF Answers, x
RangeOK(r) == r.start \in Nat /\ r.end \in Nat /\ r.sum \in Nat /\ r.given \in Nat

\* The numbers of Range16 are numbers.
LEMMA RangeNumbers ==
  ASSUME NEW a, NEW m \in Places, NEW ic \in Nat
  PROVE  RangeOK(Range16(a, m, ic))
<1>1. U16 \in Nat /\ U16 > 0
  BY SizesAssumption, SMT
<1>2. \A x \in Nat : x % U16 \in Nat
  BY <1>1, SMT
<1>3. m.address \in Nat /\ m.bitOffset \in Nat
  BY SMT DEF Places
<1>4. /\ m.address + m.bitOffset \in Nat /\ m.address + ic \in Nat
      /\ m.address + ic * 2 \in Nat /\ ic * 2 \in Nat
  BY <1>3, SMT
<1>5. (m.address + m.bitOffset) % U16 \in Nat
  BY <1>2, <1>4, Zenon
<1>6. ((m.address + m.bitOffset) % U16) + ic \in Nat
  BY <1>5, SMT
<1> QED
  BY <1>2, <1>3, <1>4, <1>5, <1>6, Zenon DEF RangeOK, Range16

\* A read that does not panic answers with the bytes of the range.
LEMMA ReadAreaFields ==
  ASSUME NEW a \in DOMAIN Codes, NEW r, RangeOK(r), MemOK(mem), ~(r.start > r.end \/ r.end > AreaSize)
  PROVE  LET data == [i \in 1 .. r.end - r.start |-> mem[a][r.start + i - 1]]
         IN /\ Answers(ReadArea(a, r), 0, data, mem)
            /\ data \in Seq(Nat) /\ Len(data) = r.end - r.start
<1> DEFINE F(i) == mem[a][r.start + i - 1]
           n == r.end - r.start
           data == [i \in 1 .. n |-> F(i)]
<1>1. ReadArea(a, r) = Answered(0, data)
  BY Zenon DEF ReadArea
<1>2. n \in Nat /\ \A i \in 1 .. n : r.start + i - 1 \in 0 .. AreaSize - 1
  BY SizesAssumption, SMT DEF RangeOK
<1>3. mem[a] \in [0 .. AreaSize - 1 -> Nat]
  BY Zenon DEF MemOK
<1>4. \A i \in 1 .. n : F(i) \in Nat
  BY <1>2, <1>3, Zenon
<1> HIDE DEF F, n
<1>5. data \in Seq(Nat) /\ Len(data) = n
  BY <1>2, <1>4, SMT
<1> HIDE DEF data
<1>6. Answers(ReadArea(a, r), 0, data, mem)
  BY <1>1, AnsweredFields, Zenon
<1> QED
  BY <1>5, <1>6, Zenon DEF data, F, n

\* What a server may make of a request: numbers to answer with, and a memory
\* in which the areas it does not let be written are as before.
Outcome(h, readOnly) ==
    /\ h.panic \in BOOLEAN
    /\ ~h.panic => h.endCode \in Nat /\ h.data \in Seq(Nat)
    /\ MemOK(h.mem)
    /\ \A x \in readOnly : h.mem[x] = mem[x]

\* An answer that leaves the memory alone is such an outcome.
LEMMA AnsweredOutcome ==
  ASSUME NEW end \in Nat, NEW data \in Seq(Nat), NEW readOnly, MemOK(mem)
  PROVE  Outcome(Answered(end, data), readOnly)
<1> DEFINE h == Answered(end, data)
<1>1. Answers(h, end, data, mem)
  BY AnsweredFields, Zenon
<1> HIDE DEF h
<1> QED
  BY <1>1, Zenon DEF Answers, Outcome, h

\* That of a panic is one.
LEMMA PanicOutcome ==
  ASSUME NEW readOnly, MemOK(mem)
  PROVE  Outcome(Panic, readOnly)
BY PanicFields, Zenon DEF Outcome

\* So is that of a read.
LEMMA ReadOutcome ==
  ASSUME NEW a \in DOMAIN Codes, NEW r, RangeOK(r), MemOK(mem), NEW readOnly
  PROVE  Outcome(ReadArea(a, r), readOnly)
<1>1. CASE r.start > r.end \/ r.end > AreaSize
  BY <1>1, PanicOutcome, Zenon DEF ReadArea
<1>2. CASE ~(r.start > r.end \/ r.end > AreaSize)
  <2>1. 0 \in Nat
    BY SMT
  <2> QED
    BY <1>2, <2>1, ReadAreaFields, Zenon DEF Answers, Outcome
<1> QED
  BY <1>1, <1>2, Zenon

\* And that of a write to an area that may be written.
LEMMA WriteOutcome ==
  ASSUME NEW a \in DOMAIN Codes, NEW r, RangeOK(r), MemOK(mem), NEW readOnly, a \notin readOnly,
         NEW data, \A i \in 1 .. Len(data) : data[i] \in Nat, Len(data) \in Nat,
         r.end - r.start <= r.given \/ r.start > r.end
  PROVE  Outcome(WriteArea(a, r, data), readOnly)
<1> DEFINE bad == r.start > r.end \/ r.end > AreaSize \/ 6 + r.given > Len(data)
<1>1. CASE bad
  BY <1>1, PanicOutcome, Zenon DEF WriteArea
<1>2. CASE ~bad
  <2> DEFINE h == WriteArea(a, r, data)
             w == Written(mem[a], r.start, r.end, data)
  <2>1. h.panic = FALSE /\ h.endCode = 0 /\ h.data = <<>> /\ h.mem = [mem EXCEPT ![a] = w]
    <3>1. Answers(h, 0, <<>>, [mem EXCEPT ![a] = w])
      BY <1>2, WriteAreaFields, Zenon
    <3> HIDE DEF h, w
    <3> QED
      BY <3>1, Zenon DEF Answers
  <2>2. mem[a] \in [0 .. AreaSize - 1 -> Nat]
    BY Zenon DEF MemOK
  <2>3. w \in [0 .. AreaSize - 1 -> Nat]
    <3> DEFINE first == r.start
               last == r.end
               given == r.given
               len == Len(data)
    <3>0. /\ first \in Nat /\ last \in Nat /\ given \in Nat /\ len \in Nat
          /\ ~(first > last) /\ ~(6 + given > len) /\ (last - first <= given \/ first > last)
      BY <1>2, Zenon DEF RangeOK
    <3> HIDE DEF first, last, given, len
    <3>1. \A k \in first .. last - 1 : 7 + k - first \in 1 .. len
      BY <3>0, SMT
    <3>2. \A k \in 0 .. AreaSize - 1 : k \in r.start .. r.end - 1 => data[7 + k - r.start] \in Nat
      BY <3>1, Zenon DEF first, last, len
    <3>3. DOMAIN mem[a] = 0 .. AreaSize - 1 /\ \A k \in 0 .. AreaSize - 1 : mem[a][k] \in Nat
      BY <2>2, Zenon
    <3> QED
      BY <3>2, <3>3, Zenon DEF Written
  <2> HIDE DEF h, w
  <2>4. DOMAIN mem = DOMAIN Codes
    BY Zenon DEF MemOK
  <2>5. MemOK(h.mem)
    BY <2>1, <2>3, <2>4, SMT DEF MemOK
  <2>6. \A x \in readOnly : h.mem[x] = mem[x]
    BY <2>1, SMT
  <2>7. 0 \in Nat /\ <<>> \in Seq(Nat)
    BY SMT
  <2> QED
    BY <2>1, <2>5, <2>6, <2>7, Zenon DEF Outcome, h
<1> QED
  BY <1>1, <1>2, Zenon

\* Division with remainder, and that it is unique.
LEMMA Division ==
  ASSUME NEW x \in Nat, NEW u \in Nat, u > 0
  PROVE  /\ x = u * (x \div u) + (x % u)
         /\ x \div u \in Nat /\ x % u \in Nat /\ x % u < u
BY SMT

\* The remainder of a smaller number is the number.
LEMMA SmallRemainder ==
  ASSUME NEW x \in Nat, NEW u \in Nat, x < u
  PROVE  x % u = x
BY SMT

\* A remainder is no more than the number.
LEMMA RemainderBelow ==
  ASSUME NEW x \in Nat, NEW u \in Nat, u > 0
  PROVE  x % u <= x
<1> DEFINE q == x \div u
           g == x % u
           p == u * q
<1>1. x = p + g /\ q \in Nat /\ g \in Nat
  BY Division, Zenon
<1> HIDE DEF q, g
<1>2. p \in Nat
  BY <1>1, SMT
<1> HIDE DEF p
<1>3. g <= x
  BY <1>1, <1>2, SMT
<1> QED
  BY <1>3, Zenon DEF g

\* The remainder of a number between u and 2u.
LEMMA OneRemainder ==
  ASSUME NEW u \in Nat, NEW p \in Int, NEW q \in Int, NEW d \in Nat, NEW g \in Nat,
         d < u, g < u, u * p + d = u * q + g
  PROVE  d <= g
<1>1. CASE p = q
  BY <1>1, SMT
<1>2. CASE p > q
  <2>1. u * p = u * q + u + u * (p - q - 1)
    BY SMT
  <2>2. u * (p - q - 1) \in Nat
    <3>1. p - q - 1 \in Nat
      BY <1>2, SMT
    <3> QED
      BY <3>1, SMT
  <2> DEFINE y == u * (p - q - 1)
             z == u * q
  <2>3. z \in Int
    BY SMT
  <2> HIDE DEF y, z
  <2>4. y \in Nat /\ z + u + y + d = z + g
    BY <2>1, <2>2, Zenon DEF y, z
  <2> QED
    BY <2>3, <2>4, SMT
<1>3. CASE p < q
  <2>1. u * q = u * p + u + u * (q - p - 1)
    BY SMT
  <2>2. u * (q - p - 1) \in Nat
    <3>1. q - p - 1 \in Nat
      BY <1>3, SMT
    <3> QED
      BY <3>1, SMT
  <2> DEFINE y == u * (q - p - 1)
             z == u * p
  <2>3. z \in Int
    BY SMT
  <2> HIDE DEF y, z
  <2>4. y \in Nat /\ z + d = z + u + y + g
    BY <2>1, <2>2, Zenon DEF y, z
  <2> QED
    BY <2>3, <2>4, SMT
<1> QED
  BY <1>1, <1>2, <1>3, SMT

\* A range that does not panic is no longer than what was given for it.
LEMMA RangeGiven ==
  ASSUME NEW first \in Nat, NEW n \in Nat
  PROVE  ((first + n) % U16) - first <= n % U16 \/ first > (first + n) % U16
<1> DEFINE end == (first + n) % U16
           p == (first + n) \div U16
           q == n \div U16
           g == n % U16
<1>1. U16 \in Nat /\ U16 > 0
  BY SizesAssumption, SMT
<1>2. first + n \in Nat
  BY SMT
<1>3. first + n = U16 * p + end /\ p \in Nat /\ end \in Nat /\ end < U16
  BY <1>1, <1>2, Division, Zenon
<1>4. n = U16 * q + g /\ q \in Nat /\ g \in Nat /\ g < U16
  BY <1>1, Division, Zenon
<1> HIDE DEF end, p, q, g
<1> SUFFICES ASSUME ~(first > end) PROVE end - first <= g
  BY Zenon DEF end, g
<1>5. end - first \in Nat /\ end - first < U16
  BY <1>1, <1>3, SMT
<1>6. U16 * p + (end - first) = U16 * q + g
  BY <1>1, <1>3, <1>4, SMT
<1>7. p \in Int /\ q \in Int
  BY <1>3, <1>4, SMT
<1> QED
  BY <1>1, <1>4, <1>5, <1>6, <1>7, OneRemainder, Zenon

\* Where a request about memory lies.
Area(m) == CHOOSE a \in AreaOf(m) : TRUE

\* What a server makes of a request about memory is such an outcome.
LEMMA MemoryOutcome ==
  ASSUME MemOK(mem), NEW req, decodeMemoryAddress(req.data) \in Places,
         Uint16(req.data, 5) \in Nat, req.data \o req.beyond \in Seq(Nat),
         IsMemory(req), Known(req), NEW exceeded \in Nat, NEW readOnly
  PROVE  Outcome(Memory(req, exceeded, readOnly), readOnly)
<1> DEFINE m == decodeMemoryAddress(req.data)
           n == Uint16(req.data, 5)
           code == req.commandCode
           ic == n % U16
           a == Area(m)
           r == Range16(a, m, ic)
           all == req.data \o req.beyond
           h == Memory(req, exceeded, readOnly)
<1>1. U16 \in Nat /\ U16 > 0
  BY SizesAssumption, SMT
<1>2. ic \in Nat
  BY <1>1, Division, Zenon
<1>3. a \in DOMAIN Codes
  <2>1. a \in AreaOf(m)
    BY Zenon DEF Area, Known
  <2> QED
    BY <2>1, Zenon DEF AreaOf
<1>4. RangeOK(r)
  BY <1>2, RangeNumbers, Zenon
<1>5. all \in Seq(Nat)
  BY Zenon
<1>6. h = IF code = 258 /\ a \in readOnly THEN Answered(513, <<>>)
          ELSE IF r.sum > AreaSize THEN Answered(exceeded, <<>>)
          ELSE IF code = 257 THEN ReadArea(a, r) ELSE WriteArea(a, r, all)
  BY Zenon DEF Memory, Area, CommandCodeMemoryAreaWrite, CommandCodeMemoryAreaRead
<1>7. r.end - r.start <= r.given \/ r.start > r.end
  <2> HIDE DEF m, n
  <2>1. m.address \in Nat /\ m.bitOffset \in Nat
    <3>1. m \in Places
      BY Zenon DEF m
    <3> QED
      BY <3>1, SMT DEF Places
  <2>2. CASE a = "DMBit"
    <3> DEFINE start == (m.address + m.bitOffset) % U16
    <3>1. r.start = start /\ r.end = (start + ic) % U16 /\ r.given = ic
      BY <2>2, Zenon DEF Range16
    <3>2. start \in Nat
      <4>1. m.address + m.bitOffset \in Nat
        BY <2>1, SMT
      <4> QED
        BY <4>1, <1>1, SMT
    <3> HIDE DEF start, ic
    <3>3. ((start + ic) % U16) - start <= ic % U16 \/ start > (start + ic) % U16
      BY <3>2, <1>2, RangeGiven, Zenon
    <3>4. ic % U16 <= ic /\ ic % U16 \in Nat /\ (start + ic) % U16 \in Nat
      <4>1. start + ic \in Nat
        BY <3>2, <1>2, SMT
      <4>2. (start + ic) % U16 \in Nat /\ ic % U16 \in Nat
        BY <4>1, <1>1, <1>2, Division, Zenon
      <4>3. ic % U16 <= ic
        BY <1>1, <1>2, RemainderBelow, Zenon
      <4> QED
        BY <4>2, <4>3, Zenon
    <3>5. ((start + ic) % U16) - start <= ic \/ start > (start + ic) % U16
      BY <3>2, <3>3, <3>4, <1>2, SMT
    <3> QED
      BY <3>1, <3>5, Zenon
  <2>3. CASE a # "DMBit"
    <3>1. r.start = m.address /\ r.end = (m.address + ic * 2) % U16 /\ r.given = (ic * 2) % U16
      BY <2>3, Zenon DEF Range16
    <3>2. ic * 2 \in Nat
      BY <1>2, SMT
    <3> DEFINE first == m.address
               two == ic * 2
    <3> HIDE DEF first, two
    <3>3. first \in Nat /\ two \in Nat
      BY <2>1, <3>2, Zenon DEF first, two
    <3>4. ((first + two) % U16) - first <= two % U16 \/ first > (first + two) % U16
      BY <3>3, RangeGiven, Zenon
    <3> QED
      BY <3>1, <3>4, Zenon DEF first, two
  <2> QED
    BY <2>2, <2>3, Zenon
<1>9. 257 # 258 /\ (code = 257 \/ code = 258)
  BY SMT DEF IsMemory, CommandCodeMemoryAreaWrite, CommandCodeMemoryAreaRead
<1> HIDE DEF h, r, a, all, code
<1>8. <<>> \in Seq(Nat) /\ 513 \in Nat /\ Len(all) \in Nat /\ \A i \in 1 .. Len(all) : all[i] \in Nat
  BY <1>5, SMT
<1> SUFFICES Outcome(h, readOnly)
  BY Zenon DEF h
<1>10. CASE code = 258 /\ a \in readOnly
  <2>1. h = Answered(513, <<>>)
    BY <1>6, <1>9, <1>10, Zenon
  <2> QED
    BY <2>1, <1>8, AnsweredOutcome, ZenonT(30)
<1>11. CASE ~(code = 258 /\ a \in readOnly) /\ r.sum > AreaSize
  <2>1. h = Answered(exceeded, <<>>)
    BY <1>6, <1>9, <1>11, Zenon
  <2> QED
    BY <2>1, <1>8, AnsweredOutcome, Zenon
<1>12. CASE ~(r.sum > AreaSize) /\ code = 257
  <2>1. h = ReadArea(a, r)
    BY <1>6, <1>9, <1>12, Zenon
  <2> QED
    BY <2>1, <1>3, <1>4, ReadOutcome, Zenon
<1>13. CASE code = 258 /\ a \notin readOnly /\ ~(r.sum > AreaSize)
  <2>1. h = WriteArea(a, r, all)
    BY <1>6, <1>9, <1>13, Zenon
  <2> QED
    BY <2>1, <1>3, <1>4, <1>7, <1>8, <1>13, WriteOutcome, Zenon
<1> QED
  BY <1>9, <1>10, <1>11, <1>12, <1>13, Zenon
-----------------------------------------------------------------------------
(* The clock.                                                              *)

\* The byte of a number of at most two digits.
Bcd2(x, pad) == IF x = 0 THEN pad ELSE IF x < 10 THEN x * 16 + pad
                ELSE (x \div 10) * 16 + (x % 10)

\* PaddedBCD of such a number is that one byte.
LEMMA OneByte ==
  ASSUME NEW x \in Nat, x < 100, NEW pad \in Nat
  PROVE  PaddedBCD(x, pad) = <<Bcd2(x, pad)>> /\ Bcd2(x, pad) \in Nat
<1>1. Bcd2(x, pad) \in Nat
  BY SMT DEF Bcd2
<1>2. CASE x = 0
  BY <1>1, <1>2, SMT DEF PaddedBCD, Bcd2
<1>3. CASE x > 0 /\ x < 10
  <2>1. CountDigits(x) = 1
    BY <1>3, SMT DEF CountDigits
  <2> DEFINE P(i) == ((x \div 10) \div 100 ^ (0 - i)) % 100
             Q(i) == (P(i) \div 10) * 16 + (P(i) % 10)
  <2>2. 1 % 2 = 1 /\ 1 \div 2 = 0
    BY SMT
  <2>3. PaddedBCD(x, pad) = [i \in 1 .. 0 |-> Q(i)] \o <<(x % 10) * 16 + pad>>
    BY <1>3, <2>1, <2>2, SMT DEF PaddedBCD
  <2> HIDE DEF Q
  <2>4. [i \in 1 .. 0 |-> Q(i)] = <<>>
    BY SMT
  <2>5. (x % 10) * 16 + pad = Bcd2(x, pad)
    BY <1>3, SMT DEF Bcd2
  <2>6. <<>> \o <<Bcd2(x, pad)>> = <<Bcd2(x, pad)>>
    BY <1>1, SMT
  <2> QED
    BY <1>1, <2>3, <2>4, <2>5, <2>6, Zenon
<1>4. CASE x > 9
  <2>1. CountDigits(x) = 2
    BY <1>4, SMT DEF CountDigits
  <2> DEFINE P(i) == (x \div 100 ^ (1 - i)) % 100
             Q(i) == (P(i) \div 10) * 16 + (P(i) % 10)
  <2>2. 2 % 2 = 0 /\ 2 % 2 # 1 /\ 2 \div 2 = 1
    BY SMT
  <2>3. PaddedBCD(x, pad) = [i \in 1 .. 1 |-> Q(i)] \o <<>>
    BY <1>4, <2>1, <2>2, SMT DEF PaddedBCD
  <2>4. Q(1) = Bcd2(x, pad)
    BY <1>4, SMT DEF Bcd2
  <2> HIDE DEF Q
  <2>5. [i \in 1 .. 1 |-> Q(i)] \in Seq(Nat) /\ Len([i \in 1 .. 1 |-> Q(i)]) = 1
        /\ [i \in 1 .. 1 |-> Q(i)][1] = Bcd2(x, pad)
    BY <1>1, <2>4, SMT
  <2> DEFINE s == [i \in 1 .. 1 |-> Q(i)]
  <2> HIDE DEF s
  <2>6. s \in Seq(Nat) /\ Len(s) = 1 /\ s[1] = Bcd2(x, pad) /\ PaddedBCD(x, pad) = s \o <<>>
    BY <2>3, <2>5, Zenon DEF s
  <2>7. s \o <<>> = <<Bcd2(x, pad)>>
    BY <1>1, <2>6, SMT
  <2> QED
    BY <1>1, <2>6, <2>7, Zenon
<1> QED
  BY <1>1, <1>2, <1>3, <1>4, SMT

\* The bytes of a time.
ClockOf(s, t, pad) ==
    /\ s \in Seq(Nat) /\ Len(s) = 6
    /\ s[1] = Bcd2(t[1] % 100, pad) /\ s[2] = Bcd2(t[2], pad) /\ s[3] = Bcd2(t[3], pad)
    /\ s[4] = Bcd2(t[4], pad) /\ s[5] = Bcd2(t[5], pad) /\ s[6] = Bcd2(t[6], pad)

\* A clock's answer has one byte for each field.
LEMMA ClockBytes ==
  ASSUME NEW t \in Times, NEW pad \in Nat
  PROVE  ClockOf(Clock(t, pad), t, pad)
<1> DEFINE a1 == Bcd2(t[1] % 100, pad)
           a2 == Bcd2(t[2], pad)
           a3 == Bcd2(t[3], pad)
           a4 == Bcd2(t[4], pad)
           a5 == Bcd2(t[5], pad)
           a6 == Bcd2(t[6], pad)
<1>1. /\ t[1] % 100 \in Nat /\ t[1] % 100 < 100
      /\ t[2] \in Nat /\ t[2] < 100 /\ t[3] \in Nat /\ t[3] < 100
      /\ t[4] \in Nat /\ t[4] < 100 /\ t[5] \in Nat /\ t[5] < 100
      /\ t[6] \in Nat /\ t[6] < 100
  <2>1. t \in [1 .. 6 -> Nat] /\ \A i \in 2 .. 6 : t[i] < 100
    BY TimesAssumption, SMT
  <2>2. t[1] \in Nat
    BY <2>1, SMT
  <2>3. t[1] % 100 \in Nat /\ t[1] % 100 < 100
    BY <2>2, SMT
  <2>4. t[2] \in Nat /\ t[2] < 100 /\ t[3] \in Nat /\ t[3] < 100
    BY <2>1, SMT
  <2>5. /\ t[4] \in Nat /\ t[4] < 100 /\ t[5] \in Nat /\ t[5] < 100
        /\ t[6] \in Nat /\ t[6] < 100
    BY <2>1, SMT
  <2> QED
    BY <2>3, <2>4, <2>5, Zenon
<1>2. /\ PaddedBCD(t[1] % 100, pad) = <<a1>> /\ a1 \in Nat
      /\ PaddedBCD(t[2], pad) = <<a2>> /\ a2 \in Nat
      /\ PaddedBCD(t[3], pad) = <<a3>> /\ a3 \in Nat
  BY <1>1, OneByte, Zenon
<1>3. /\ PaddedBCD(t[4], pad) = <<a4>> /\ a4 \in Nat
      /\ PaddedBCD(t[5], pad) = <<a5>> /\ a5 \in Nat
      /\ PaddedBCD(t[6], pad) = <<a6>> /\ a6 \in Nat
  BY <1>1, OneByte, Zenon
<1>4. Clock(t, pad) = <<a1>> \o <<a2>> \o <<a3>> \o <<a4>> \o <<a5>> \o <<a6>>
  BY <1>2, <1>3, Zenon DEF Clock
<1> DEFINE s == <<a1>> \o <<a2>> \o <<a3>> \o <<a4>> \o <<a5>> \o <<a6>>
<1> HIDE DEF a1, a2, a3, a4, a5, a6
<1>5. /\ s \in Seq(Nat) /\ Len(s) = 6 /\ s[1] = a1 /\ s[2] = a2 /\ s[3] = a3
      /\ s[4] = a4 /\ s[5] = a5 /\ s[6] = a6
  BY <1>2, <1>3, SMT
<1> HIDE DEF s
<1>6. Clock(t, pad) = s
  BY <1>4, Zenon DEF s
<1> QED
  BY <1>5, <1>6, Zenon DEF ClockOf, a1, a2, a3, a4, a5, a6

\* A request that is about memory or about the clock, as it is read.
Readable(req) ==
    /\ req.commandCode \in Nat
    /\ IsMemory(req) => /\ decodeMemoryAddress(req.data) \in Places
                        /\ Uint16(req.data, 5) \in Nat
                        /\ req.data \o req.beyond \in Seq(Nat)

\* What the simulator makes of a request.
LEMMA HandlerOutcome ==
  ASSUME MemOK(mem), NEW req, Readable(req), NEW t \in Times
  PROVE  Outcome(handler(req, t), {})
<1> DEFINE range == 4356
           unknown == 1026
<1>0. range \in Nat /\ unknown \in Nat /\ <<>> \in Seq(Nat)
  BY SMT
<1> HIDE DEF range, unknown
<1>1. CASE IsMemory(req) /\ Known(req)
  <2>1. req.commandCode # 1793
    BY <1>1, SMT DEF IsMemory, CommandCodeMemoryAreaRead, CommandCodeMemoryAreaWrite
  <2>2. handler(req, t) = Memory(req, range, {})
    BY <1>1, <2>1, SMT DEF handler, range, CommandCodeClockRead
  <2> QED
    BY <1>0, <1>1, <2>2, MemoryOutcome, Zenon DEF Readable
<1>2. CASE ~(IsMemory(req) /\ Known(req)) /\ req.commandCode = 1793
  <2>1. handler(req, t) = Answered(0, Clock(t, Pad))
    BY <1>2, SMT DEF handler, CommandCodeClockRead
  <2>2. 0 \in Nat /\ Pad \in Nat
    BY SMT DEF Pad
  <2>3. Clock(t, Pad) \in Seq(Nat)
    BY <2>2, ClockBytes, Zenon DEF ClockOf
  <2> QED
    BY <2>1, <2>2, <2>3, AnsweredOutcome, Zenon
<1>3. CASE ~(IsMemory(req) /\ Known(req)) /\ req.commandCode # 1793
  <2>1. handler(req, t) = Answered(unknown, <<>>)
    BY <1>3, SMT DEF handler, unknown, CommandCodeClockRead
  <2> QED
    BY <1>0, <2>1, AnsweredOutcome, Zenon
<1> QED
  BY <1>1, <1>2, <1>3

\* What the demonstration server makes of it.
LEMMA HandleRequestOutcome ==
  ASSUME MemOK(mem), NEW req, Readable(req), NEW t \in Times
  PROVE  Outcome(handleRequest(req, t), {"AR"})
<1>1. CASE IsMemory(req) /\ Known(req)
  <2>1. req.commandCode # 1793
    BY <1>1, SMT DEF IsMemory, CommandCodeMemoryAreaRead, CommandCodeMemoryAreaWrite
  <2>2. handleRequest(req, t) = Memory(req, 257, {"AR"})
    BY <1>1, <2>1, SMT DEF handleRequest, CommandCodeClockRead
  <2>3. 257 \in Nat
    BY SMT
  <2> QED
    BY <1>1, <2>2, <2>3, MemoryOutcome, ZenonT(30) DEF Readable
<1>2. CASE ~(IsMemory(req) /\ Known(req)) /\ req.commandCode = 1793
  <2>1. handleRequest(req, t) = Answered(0, Clock(t, 0))
    BY <1>2, SMT DEF handleRequest, CommandCodeClockRead
  <2>2. 0 \in Nat
    BY SMT
  <2>3. Clock(t, 0) \in Seq(Nat)
    BY <2>2, ClockBytes, Zenon DEF ClockOf
  <2> QED
    BY <2>1, <2>2, <2>3, AnsweredOutcome, Zenon
<1>3. CASE ~(IsMemory(req) /\ Known(req)) /\ req.commandCode # 1793
  <2>1. handleRequest(req, t) = Answered(259, <<>>)
    BY <1>3, SMT DEF handleRequest, CommandCodeClockRead
  <2>2. 259 \in Nat /\ <<>> \in Seq(Nat)
    BY SMT
  <2> QED
    BY <2>1, <2>2, AnsweredOutcome, Zenon
<1> QED
  BY <1>1, <1>2, <1>3

-----------------------------------------------------------------------------
(* What the server makes of the clients' datagrams.                        *)

Heading(id) == encodeHeader(defaultCommandHeader(Src, Dst, id))
Arrived(id, cmd, b) == Filled(Heading(id) \o cmd, b)
Request(id, cmd, b) == decodeRequest(Arrived(id, cmd, b), Len(Heading(id) \o cmd))

\* The addresses are addresses.
LEMMA OwnAddresses == Src \in Addresses /\ Dst \in Addresses
  BY SMT DEF Src, Dst, Addresses

\* The header of a datagram.
LEMMA HeadingBytes ==
  ASSUME NEW id \in Nat
  PROVE  /\ Heading(id) \in Seq(Nat) /\ Len(Heading(id)) = 10
         /\ HeaderOf(Heading(id), "command", TRUE, Src, Dst, id)
<1>1. TRUE \in BOOLEAN
  OBVIOUS
<1>2. HeaderOf(encodeHeader(defaultHeader("command", TRUE, Src, Dst, id)),
               "command", TRUE, Src, Dst, id)
  BY <1>1, OwnAddresses, HeaderBytes, Zenon
<1> QED
  BY <1>2, Zenon DEF Heading, defaultCommandHeader, HeaderOf

\* A command that the server can read, whatever its buffer held.
Understood(cmd) ==
    /\ cmd \in Seq(Nat)
    /\ \A id \in Nat, b \in Seq(Nat) : Len(b) = BufSize =>
           /\ Arrived(id, cmd, b) \in Seq(Nat) /\ Len(Arrived(id, cmd, b)) = BufSize
           /\ Request(id, cmd, b).header = decodeHeader(Heading(id))
           /\ Readable(Request(id, cmd, b))

\* What is read of a command about memory.
LEMMA MemoryRequest ==
  ASSUME NEW code \in Nat, NEW m \in Places, NEW n \in Nat, NEW bytes \in Seq(Nat), NEW cmd,
         CommandOf(cmd, code, m, n, bytes), 10 + Len(cmd) <= BufSize,
         NEW id \in Nat, NEW b \in Seq(Nat), Len(b) = BufSize
  PROVE  /\ Arrived(id, cmd, b) \in Seq(Nat) /\ Len(Arrived(id, cmd, b)) = BufSize
         /\ Request(id, cmd, b).header = decodeHeader(Heading(id))
         /\ Asks(Request(id, cmd, b), code, m, n, bytes)
<1> DEFINE e == Heading(id)
<1>1. e \in Seq(Nat) /\ Len(e) = 10
  BY HeadingBytes, Zenon
<1>2. LET f == Filled(e \o cmd, b)
          req == decodeRequest(f, Len(e \o cmd))
      IN /\ f \in Seq(Nat) /\ Len(f) = BufSize
         /\ req.header = decodeHeader(e)
         /\ Asks(req, code, m, n, bytes)
  <2> HIDE DEF e
  <2> QED
    BY <1>1, RequestRead
<1> QED
  BY <1>2, Zenon DEF Arrived, Request

\* So it is understood.
LEMMA MemoryUnderstood ==
  ASSUME NEW code \in Nat, NEW m \in Places, NEW n \in Nat, NEW bytes \in Seq(Nat), NEW cmd,
         CommandOf(cmd, code, m, n, bytes), 10 + Len(cmd) <= BufSize
  PROVE  Understood(cmd)
<1>1. cmd \in Seq(Nat)
  BY Zenon DEF CommandOf
<1>2. ASSUME NEW id \in Nat, NEW b \in Seq(Nat), Len(b) = BufSize
      PROVE  /\ Arrived(id, cmd, b) \in Seq(Nat) /\ Len(Arrived(id, cmd, b)) = BufSize
             /\ Request(id, cmd, b).header = decodeHeader(Heading(id))
             /\ Readable(Request(id, cmd, b))
  <2> DEFINE req == Request(id, cmd, b)
  <2>1. /\ Arrived(id, cmd, b) \in Seq(Nat) /\ Len(Arrived(id, cmd, b)) = BufSize
        /\ req.header = decodeHeader(Heading(id)) /\ Asks(req, code, m, n, bytes)
    BY <1>2, MemoryRequest
  <2> HIDE DEF req
  <2>2. Readable(req)
    BY <2>1, Zenon DEF Asks, Readable
  <2> QED
    BY <2>1, <2>2, Zenon DEF req
<1> QED
  BY <1>1, <1>2, Zenon DEF Understood

\* So is the command for the clock.
LEMMA ClockRequest ==
  ASSUME NEW id \in Nat, NEW b \in Seq(Nat), Len(b) = BufSize
  PROVE  /\ Arrived(id, clockReadCommand, b) \in Seq(Nat)
         /\ Len(Arrived(id, clockReadCommand, b)) = BufSize
         /\ Request(id, clockReadCommand, b).header = decodeHeader(Heading(id))
         /\ Request(id, clockReadCommand, b).commandCode = CommandCodeClockRead
<1> DEFINE e == Heading(id)
           cmd == clockReadCommand
<1>1. e \in Seq(Nat) /\ Len(e) = 10
  BY HeadingBytes, Zenon
<1>2. cmd \in Seq(Nat) /\ Len(cmd) = 2 /\ cmd[1] * 256 + cmd[2] = CommandCodeClockRead
  BY SMT DEF clockReadCommand, PutUint16, CommandCodeClockRead
<1> HIDE DEF e, cmd
<1>3. Len(cmd) >= 2 /\ 10 + Len(cmd) <= BufSize
  BY <1>2, SizesAssumption, SMT
<1> DEFINE f == Filled(e \o cmd, b)
           req == decodeRequest(f, Len(e \o cmd))
<1>4. RequestOf(f, req, e, cmd)
  <2>1. cmd \in Seq(Nat)
    BY <1>2
  <2> QED
    BY <1>1, <1>3, <2>1, RequestBytes, Zenon
<1> HIDE DEF f, req
<1>5. f \in Seq(Nat) /\ Len(f) = BufSize /\ req.header = decodeHeader(e) /\ req.commandCode = CommandCodeClockRead
  BY <1>2, <1>4, Zenon DEF RequestOf
<1> QED
  BY <1>5, Zenon DEF f, req, e, cmd, Arrived, Request

\* The command that reads the clock is understood.
LEMMA ClockUnderstood == Understood(clockReadCommand)
<1>1. clockReadCommand \in Seq(Nat)
  BY SMT DEF clockReadCommand, PutUint16, CommandCodeClockRead
<1>2. ASSUME NEW id \in Nat, NEW b \in Seq(Nat), Len(b) = BufSize
      PROVE  Readable(Request(id, clockReadCommand, b))
  <2> DEFINE req == Request(id, clockReadCommand, b)
  <2>1. req.commandCode = CommandCodeClockRead
    BY <1>2, ClockRequest, Zenon
  <2> HIDE DEF req
  <2>2. req.commandCode \in Nat /\ ~IsMemory(req)
    BY <2>1, SMT DEF CommandCodeClockRead, IsMemory, CommandCodeMemoryAreaRead, CommandCodeMemoryAreaWrite
  <2> QED
    BY <2>2, Zenon DEF Readable, req
<1> QED
  BY <1>1, <1>2, ClockRequest, Zenon DEF Understood

\* The command of a call is understood.
LEMMA CallUnderstood ==
  ASSUME NEW k, WellFormed(k)
  PROVE  Understood(Command(k))
<1> DEFINE cmd == Command(k)
<1>1. 10 + Len(cmd) <= BufSize
  BY Zenon DEF WellFormed
<1> HIDE DEF cmd
<1>2. 257 \in Nat /\ 258 \in Nat /\ <<>> \in Seq(Nat)
  BY SMT
<1>3. CASE k.op = "ReadClock"
  <2>1. cmd = clockReadCommand
    BY <1>3, SMT DEF cmd, Command
  <2> QED
    BY <2>1, ClockUnderstood, Zenon DEF cmd
<1>4. CASE k.op # "ReadClock" /\ k.op \in ReadOps
  <2>1. PICK n : ReadsItems(k, n)
    BY <1>4, ReadCall, Zenon
  <2>2. n \in Nat /\ cmd = readCommand(At(k), n)
    BY <2>1, Zenon DEF ReadsItems, cmd
  <2>3. At(k) \in Places
    BY <1>4, PlaceOfCall, Zenon
  <2>4. CommandOf(cmd, 257, At(k), n, <<>>)
    BY <2>2, <2>3, ReadEncoded, Zenon
  <2> QED
    BY <1>1, <1>2, <2>2, <2>3, <2>4, MemoryUnderstood, Zenon DEF cmd
<1>5. CASE k.op # "ReadClock" /\ k.op \in WriteOps
  <2>1. PICK n, bytes : WritesItems(k, n, bytes)
    BY <1>5, WriteCall, Zenon
  <2>2. n \in Nat /\ bytes \in Seq(Nat) /\ cmd = writeCommand(At(k), n, bytes)
    BY <2>1, Zenon DEF WritesItems, cmd
  <2>3. At(k) \in Places
    BY <1>5, PlaceOfCall, Zenon
  <2>4. CommandOf(cmd, 258, At(k), n, bytes)
    BY <2>2, <2>3, WriteEncoded, Zenon
  <2> QED
    BY <1>1, <1>2, <2>2, <2>3, <2>4, MemoryUnderstood, Zenon DEF cmd
<1> QED
  BY <1>3, <1>4, <1>5, KindOfCall, Zenon

\* What ToggleBit writes.
LEMMA TwiddleEncoded ==
  ASSUME NEW k, WellFormed(k), Toggled(k), NEW v \in {0, 1}
  PROVE  /\ At(k) \in Places /\ <<v>> \in Seq(Nat)
         /\ CommandOf(bitTwiddle(k, v), 258, At(k), 1, <<v>>)
         /\ 10 + Len(bitTwiddle(k, v)) <= BufSize
<1>1. k.op # "ReadClock"
  BY SMT DEF Toggled
<1>2. At(k) \in Places
  BY <1>1, PlaceOfCall, Zenon
<1>3. <<v>> \in Seq(Nat) /\ Len(<<v>>) = 1 /\ 1 \in Nat
  BY SMT
<1>4. CommandOf(bitTwiddle(k, v), 258, At(k), 1, <<v>>)
  BY <1>2, <1>3, WriteEncoded, Zenon DEF bitTwiddle
<1> DEFINE cmd == bitTwiddle(k, v)
           vs == <<v>>
<1> HIDE DEF cmd, vs
<1>5. Len(cmd) = 8 + Len(vs)
  BY <1>4, Zenon DEF cmd, vs, CommandOf
<1>6. Len(cmd) = 9
  BY <1>3, <1>5, SMT DEF vs
<1> QED
  BY <1>2, <1>3, <1>4, <1>6, SizesAssumption, SMT DEF cmd

\* The second half of a toggle is understood.
LEMMA TwiddleUnderstood ==
  ASSUME NEW k, WellFormed(k), Toggled(k), NEW v \in {0, 1}
  PROVE  Understood(bitTwiddle(k, v))
<1>1. 258 \in Nat /\ 1 \in Nat
  BY SMT
<1> QED
  BY <1>1, TwiddleEncoded, MemoryUnderstood, ZenonT(30)

-----------------------------------------------------------------------------
(* Both servers: what is under way, and what is answered.                  *)

Stages == {"idle", "sent", "answered", "twiddling", "twiddled"}

\* A datagram with a command in it, and an answer to one.
Carries(d, cmd) == \E id \in Nat : d = Heading(id) \o cmd
Reply(id, code, end, data) ==
    encodeResponse([header |-> defaultHeader("response", FALSE, Dst, Src, id),
                    commandCode |-> code, endCode |-> end, data |-> data])
AnswerTo(r, d) ==
    \E id \in Nat, cmd \in Seq(Nat), code \in Nat, end \in Nat, data \in Seq(Nat) :
        d = Heading(id) \o cmd /\ r = Reply(id, code, end, data)

PlcTypes ==
    /\ server \in {"sim", "cmd"}
    /\ MemOK(mem) /\ buf \in Seq(Nat) /\ Len(buf) = BufSize
    /\ DOMAIN stage = Client /\ DOMAIN current = Client /\ DOMAIN datagram = Client
    /\ DOMAIN response = Client /\ DOMAIN result = Client /\ DOMAIN expected = Client
    /\ made \in Nat

\* Where a client is with its call: what its datagram carries, and that what
\* came back is an answer to that datagram.
UnderWay(c) ==
    /\ stage[c] \in Stages
    /\ stage[c] \in {"idle", "sent", "twiddling"} => response[c] = <<>>
    /\ stage[c] # "idle" => current[c] \in Calls(c, server)
    /\ stage[c] = "sent" => Carries(datagram[c], Command(current[c]))
    /\ stage[c] = "twiddling" => \E v \in {0, 1} : Carries(datagram[c], bitTwiddle(current[c], v))
    /\ stage[c] \in {"twiddling", "twiddled"} => Toggled(current[c])
    /\ response[c] # <<>> => AnswerTo(response[c], datagram[c])

ReadOnlyKept == server = "cmd" => \A k \in DOMAIN mem["AR"] : mem["AR"][k] = 0

PlcInv == PlcTypes /\ (\A c \in Client : UnderWay(c)) /\ ReadOnlyKept

\* The calls a client makes are well formed.
LEMMA CurrentWellFormed ==
  ASSUME PlcTypes, NEW c \in Client, NEW k \in Calls(c, server)
  PROVE  WellFormed(k)
  BY CallsAssumption, Zenon DEF PlcTypes

\* What a datagram carries is understood.
LEMMA DatagramUnderstood ==
  ASSUME PlcTypes, NEW c \in Client, UnderWay(c), stage[c] \in {"sent", "twiddling"}
  PROVE  \E id \in Nat : \E cmd : datagram[c] = Heading(id) \o cmd /\ Understood(cmd)
<1>1. WellFormed(current[c])
  <2>1. stage[c] # "idle"
    BY SMT
  <2> QED
    BY <2>1, CurrentWellFormed, Zenon DEF UnderWay
<1>2. CASE stage[c] = "sent"
  <2>1. Carries(datagram[c], Command(current[c]))
    BY <1>2, Zenon DEF UnderWay
  <2> QED
    BY <1>1, <2>1, CallUnderstood, Zenon DEF Carries
<1>3. CASE stage[c] = "twiddling"
  <2>1. Toggled(current[c])
    BY <1>3, Zenon DEF UnderWay
  <2>2. PICK v \in {0, 1} : Carries(datagram[c], bitTwiddle(current[c], v))
    BY <1>3, Zenon DEF UnderWay
  <2>3. Understood(bitTwiddle(current[c], v))
    BY <1>1, <2>1, TwiddleUnderstood, Zenon
  <2> QED
    BY <2>2, <2>3, Zenon DEF Carries
<1> QED
  BY <1>2, <1>3, Zenon

\* What a server makes of a request, the one or the other.
Handled(req, t) == IF server = "sim" THEN handler(req, t) ELSE handleRequest(req, t)

\* What either server makes of a request that it can read is an outcome.
LEMMA HandledOutcome ==
  ASSUME PlcTypes, NEW req, Readable(req), NEW t \in Times
  PROVE  Outcome(Handled(req, t), {}) /\ (server = "cmd" => Outcome(Handled(req, t), {"AR"}))
<1>1. MemOK(mem)
  BY Zenon DEF PlcTypes
<1>2. CASE server = "sim"
  <2>1. server # "cmd"
    BY <1>2, SMT
  <2> QED
    BY <1>1, <1>2, <2>1, HandlerOutcome, Zenon DEF Handled
<1>3. CASE server # "sim"
  <2>1. Outcome(Handled(req, t), {"AR"})
    BY <1>1, <1>3, HandleRequestOutcome, Zenon DEF Handled
  <2>2. Outcome(Handled(req, t), {})
    BY <2>1, Zenon DEF Outcome
  <2> QED
    BY <2>1, <2>2, Zenon
<1> QED
  BY <1>2, <1>3, Zenon

\* A step of the server: what it reads, what it makes of it, what it answers.
Step(c, t, id, cmd) ==
    /\ stage[c] \in {"sent", "twiddling"}
    /\ id \in Nat /\ datagram[c] = Heading(id) \o cmd /\ Understood(cmd)
    /\ buf' = Arrived(id, cmd, buf)
    /\ mem' = Handled(Request(id, cmd, buf), t).mem
    /\ panicked' = Handled(Request(id, cmd, buf), t).panic
    /\ panicked' => response' = response
    /\ ~panicked' =>
          response' = [response EXCEPT ![c] =
              Reply(id, Request(id, cmd, buf).commandCode,
                    Handled(Request(id, cmd, buf), t).endCode, Handled(Request(id, cmd, buf), t).data)]

\* The answer goes back to where the request came from.
LEMMA ReplyHeader ==
  ASSUME NEW id \in Nat, NEW h, h = decodeHeader(Heading(id))
  PROVE  defaultResponseHeader(h) = defaultHeader("response", FALSE, Dst, Src, id)
<1>1. TRUE \in BOOLEAN /\ (TRUE <=> "command" = "command") /\ "command" \in {"command", "response"}
  OBVIOUS
<1>2. Begins(Heading(id), "command", TRUE, Src, Dst, id)
  BY Zenon DEF Heading, defaultCommandHeader, Begins
<1>3. Names(h, "command", Src, Dst, id)
  BY <1>1, <1>2, OwnAddresses, HeaderDecoded, Zenon
<1> QED
  BY <1>3, Zenon DEF defaultResponseHeader, Names

\* Every step of the server is such a step.
LEMMA ServeStep ==
  ASSUME PlcTypes, NEW c \in Client, NEW t \in Times, Serve(c, t), NEW id \in Nat, NEW cmd,
         datagram[c] = Heading(id) \o cmd, Understood(cmd)
  PROVE  Step(c, t, id, cmd)
<1>1. stage[c] \in {"sent", "twiddling"}
  BY Zenon DEF Serve
<1> DEFINE req == decodeRequest(buf', Len(datagram[c]))
           h == IF server = "sim" THEN handler(req, t) ELSE handleRequest(req, t)
<1>4. /\ buf' = datagram[c] \o SubSeq(buf, Len(datagram[c]) + 1, BufSize)
      /\ mem' = h.mem /\ panicked' = h.panic
      /\ response' = IF h.panic THEN response
                     ELSE [response EXCEPT ![c] =
                             encodeResponse([header |-> defaultResponseHeader(req.header),
                                             commandCode |-> req.commandCode,
                                             endCode |-> h.endCode, data |-> h.data])]
  BY Zenon DEF Serve
<1>5. buf' = Arrived(id, cmd, buf)
  BY <1>4, Zenon DEF Arrived, Filled
<1>6. req = Request(id, cmd, buf) /\ h = Handled(req, t)
  BY <1>5, Zenon DEF Request, Handled
<1> HIDE DEF req, h
<1>7. req.header = decodeHeader(Heading(id))
  BY <1>6, Zenon DEF Understood, PlcTypes
<1>8. defaultResponseHeader(req.header) = defaultHeader("response", FALSE, Dst, Src, id)
  BY <1>7, ReplyHeader, Zenon
<1>9. ~panicked' => response' = [response EXCEPT ![c] = Reply(id, req.commandCode, h.endCode, h.data)]
  BY <1>4, <1>8, Zenon DEF Reply
<1>10. panicked' => response' = response
  BY <1>4, Zenon
<1>11. mem' = Handled(req, t).mem /\ panicked' = Handled(req, t).panic
  BY <1>4, <1>6, Zenon
<1>12. ~panicked' => response' = [response EXCEPT ![c] =
                         Reply(id, req.commandCode, Handled(req, t).endCode, Handled(req, t).data)]
  BY <1>6, <1>9, Zenon
<1>13. req = Request(id, cmd, buf)
  BY <1>6, Zenon
<1> QED
  BY <1>1, <1>5, <1>10, <1>11, <1>12, <1>13, Zenon DEF Step

\* The server's step, for some command.
LEMMA ServeIsStep ==
  ASSUME PlcTypes, NEW c \in Client, UnderWay(c), NEW t \in Times, Serve(c, t)
  PROVE  \E id \in Nat : \E cmd : Step(c, t, id, cmd)
<1>1. stage[c] \in {"sent", "twiddling"}
  BY Zenon DEF Serve
<1>2. PICK id \in Nat : \E cmd : datagram[c] = Heading(id) \o cmd /\ Understood(cmd)
  BY <1>1, DatagramUnderstood, Zenon
<1>3. PICK cmd : datagram[c] = Heading(id) \o cmd /\ Understood(cmd)
  BY <1>2, Zenon
<1>4. Step(c, t, id, cmd)
  BY <1>3, ServeStep, Zenon
<1> QED
  BY <1>4, Zenon

\* What holds of another client is kept.
LEMMA UnderWayKept ==
  ASSUME NEW d, UnderWay(d), server' = server, stage'[d] = stage[d], current'[d] = current[d],
         datagram'[d] = datagram[d], response'[d] = response[d]
  PROVE  UnderWay(d)'
  BY Zenon DEF UnderWay

\* The server's step keeps the types, and its answer is one to the datagram.
LEMMA StepOutcome ==
  ASSUME PlcTypes, NEW c \in Client, NEW t \in Times, NEW id, NEW cmd, Step(c, t, id, cmd)
  PROVE  /\ MemOK(mem') /\ (server = "cmd" => mem'["AR"] = mem["AR"])
         /\ buf' \in Seq(Nat) /\ Len(buf') = BufSize
         /\ DOMAIN response' = Client
         /\ \A d \in Client : d # c => response'[d] = response[d]
         /\ response'[c] # response[c] => AnswerTo(response'[c], datagram[c])
<1> DEFINE req == Request(id, cmd, buf)
           h == Handled(req, t)
<1>1. id \in Nat /\ cmd \in Seq(Nat) /\ buf \in Seq(Nat) /\ Len(buf) = BufSize
  BY Zenon DEF Step, Understood, PlcTypes
<1>2. Arrived(id, cmd, buf) \in Seq(Nat) /\ Len(Arrived(id, cmd, buf)) = BufSize /\ Readable(req)
  BY <1>1, Zenon DEF Step, Understood
<1>3. /\ datagram[c] = Heading(id) \o cmd /\ buf' = Arrived(id, cmd, buf)
      /\ mem' = h.mem /\ panicked' = h.panic
      /\ panicked' => response' = response
      /\ ~panicked' => response' = [response EXCEPT ![c] = Reply(id, req.commandCode, h.endCode, h.data)]
  BY Zenon DEF Step
<1> HIDE DEF req
<1>4. Outcome(h, {}) /\ (server = "cmd" => Outcome(h, {"AR"}))
  BY <1>2, HandledOutcome, Zenon
<1> HIDE DEF h
<1>5. /\ h.panic \in BOOLEAN /\ (~h.panic => h.endCode \in Nat /\ h.data \in Seq(Nat))
      /\ MemOK(h.mem)
  BY <1>4, Zenon DEF Outcome
<1>6. server = "cmd" => h.mem["AR"] = mem["AR"]
  BY <1>4, Zenon DEF Outcome
<1>7. req.commandCode \in Nat
  BY <1>2, Zenon DEF Readable
<1>8. DOMAIN response = Client
  BY Zenon DEF PlcTypes
<1> DEFINE r == Reply(id, req.commandCode, h.endCode, h.data)
<1>9. CASE panicked'
  BY <1>2, <1>3, <1>5, <1>6, <1>8, <1>9, Zenon
<1>10. CASE ~panicked'
  <2>1. AnswerTo(r, datagram[c])
    BY <1>1, <1>3, <1>5, <1>7, <1>10, Zenon DEF AnswerTo
  <2> HIDE DEF r
  <2>2. response' = [response EXCEPT ![c] = r]
    BY <1>3, <1>10, Zenon DEF r
  <2>3. DOMAIN response' = Client /\ response'[c] = r /\ \A d \in Client : d # c => response'[d] = response[d]
    BY <1>8, <2>2, SMT
  <2> QED
    BY <1>2, <1>3, <1>5, <1>6, <2>1, <2>3, Zenon
<1> QED
  BY <1>9, <1>10, Zenon

\* A function changed at c.
Changed(g, f, c, e) ==
    DOMAIN g = Client /\ g[c] = e /\ \A d \in Client : d # c => g[d] = f[d]

\* So is what EXCEPT makes of one.
LEMMA ChangedAt ==
  ASSUME NEW f, DOMAIN f = Client, NEW c \in Client, NEW e
  PROVE  Changed([f EXCEPT ![c] = e], f, c, e)
  BY SMT DEF Changed

\* The client: a call that is made.
LEMMA MakeCallKeeps ==
  ASSUME PlcInv, NEW c \in Client, NEW k \in Calls(c, server), MakeCall(c, k)
  PROVE  PlcInv'
<1>1. PlcTypes /\ ReadOnlyKept /\ UnderWay(c)
  BY Zenon DEF PlcInv
<1>2. /\ server' = server /\ mem' = mem /\ buf' = buf /\ panicked' = panicked /\ meant' = meant
      /\ response' = response /\ stage[c] = "idle" /\ made' = made + 1
      /\ current' = [current EXCEPT ![c] = k]
  BY Zenon DEF MakeCall, served
<1>3. Changed(current', current, c, k)
  BY <1>1, <1>2, ChangedAt, Zenon DEF PlcTypes
<1>4. response[c] = <<>>
  BY <1>1, <1>2, Zenon DEF UnderWay
<1>5. made' \in Nat
  BY <1>1, <1>2, SMT DEF PlcTypes
<1>6. MemOK(mem)'
  BY <1>1, <1>2, Zenon DEF PlcTypes, MemOK, Codes
<1>7. ReadOnlyKept'
  BY <1>1, <1>2, Zenon DEF ReadOnlyKept
<1>8. CASE Allowed(k) /\ datagram' = [datagram EXCEPT ![c] = Datagram(Command(k))]
           /\ stage' = [stage EXCEPT ![c] = "sent"] /\ UNCHANGED <<result, expected>>
  <2>1. /\ Changed(stage', stage, c, "sent") /\ Changed(datagram', datagram, c, Datagram(Command(k)))
    BY <1>1, <1>8, ChangedAt, Zenon DEF PlcTypes
  <2>2. PlcTypes'
    BY <1>1, <1>2, <1>3, <1>5, <1>6, <1>8, <2>1, Zenon DEF PlcTypes, Changed
  <2>3. made % 256 \in Nat
    BY <1>1, SMT DEF PlcTypes
  <2>4. Carries(datagram'[c], Command(k))
    BY <2>1, <2>3, Zenon DEF Carries, Changed, Datagram, Heading
  <2>5. "sent" \in Stages /\ "sent" # "idle" /\ "sent" # "twiddling" /\ "sent" # "twiddled"
    BY SMT DEF Stages
  <2>6. UnderWay(c)'
    BY <1>2, <1>3, <1>4, <2>1, <2>4, <2>5, Zenon DEF UnderWay, Changed
  <2>7. ASSUME NEW d \in Client, d # c PROVE UnderWay(d)'
    <3>1. /\ stage'[d] = stage[d] /\ current'[d] = current[d] /\ datagram'[d] = datagram[d]
          /\ response'[d] = response[d]
      BY <1>2, <1>3, <2>1, <2>7, Zenon DEF Changed
    <3> QED
      BY <1>2, <3>1, UnderWayKept, Zenon DEF PlcInv
  <2> QED
    BY <1>7, <2>2, <2>6, <2>7, Zenon DEF PlcInv
<1>9. CASE ~Allowed(k) /\ result' = [result EXCEPT ![c] = Failure]
           /\ expected' = [expected EXCEPT ![c] = Failure] /\ UNCHANGED <<stage, datagram>>
  <2>1. Changed(result', result, c, Failure) /\ Changed(expected', expected, c, Failure)
    BY <1>1, <1>9, ChangedAt, Zenon DEF PlcTypes
  <2>2. PlcTypes'
    BY <1>1, <1>2, <1>3, <1>5, <1>6, <1>9, <2>1, Zenon DEF PlcTypes, Changed
  <2>3. "idle" \in Stages /\ "idle" # "sent" /\ "idle" # "twiddling" /\ "idle" # "twiddled"
    BY SMT DEF Stages
  <2>4. UnderWay(c)'
    BY <1>2, <1>4, <1>9, <2>3, Zenon DEF UnderWay
  <2>5. ASSUME NEW d \in Client, d # c PROVE UnderWay(d)'
    <3>1. /\ stage'[d] = stage[d] /\ current'[d] = current[d] /\ datagram'[d] = datagram[d]
          /\ response'[d] = response[d]
      BY <1>2, <1>3, <1>9, <2>5, Zenon DEF Changed
    <3> QED
      BY <1>2, <3>1, UnderWayKept, Zenon DEF PlcInv
  <2> QED
    BY <1>7, <2>2, <2>4, <2>5, Zenon DEF PlcInv
<1> QED
  BY <1>8, <1>9, Zenon DEF MakeCall

\* The server: a datagram that is answered, or that ends it.
LEMMA ServeKeeps ==
  ASSUME PlcInv, NEW c \in Client, NEW t \in Times, Serve(c, t)
  PROVE  PlcInv'
<1>1. PlcTypes /\ ReadOnlyKept /\ UnderWay(c)
  BY Zenon DEF PlcInv
<1>2. /\ server' = server /\ current' = current /\ datagram' = datagram /\ result' = result
      /\ made' = made
  BY Zenon DEF Serve
<1>3. PICK id \in Nat : \E cmd : Step(c, t, id, cmd)
  BY <1>1, ServeIsStep, Zenon
<1>4. PICK cmd : Step(c, t, id, cmd)
  BY <1>3, Zenon
<1>5. /\ MemOK(mem') /\ (server = "cmd" => mem'["AR"] = mem["AR"])
      /\ buf' \in Seq(Nat) /\ Len(buf') = BufSize
      /\ DOMAIN response' = Client
      /\ \A d \in Client : d # c => response'[d] = response[d]
      /\ response'[c] # response[c] => AnswerTo(response'[c], datagram[c])
  BY <1>1, <1>4, StepOutcome, Zenon
<1>6. MemOK(mem)'
  BY <1>2, <1>5, Zenon DEF MemOK, Codes
<1>7. ReadOnlyKept'
  BY <1>1, <1>2, <1>5, Zenon DEF ReadOnlyKept
<1>8. DOMAIN expected' = Client
  <2>1. \/ expected' = [expected EXCEPT ![c] = MeantResult(current[c], t)]
        \/ expected' = expected
    BY Zenon DEF Serve
  <2> QED
    BY <1>1, <2>1, SMT DEF PlcTypes
<1>9. stage[c] \in {"sent", "twiddling"} /\ response[c] = <<>>
  BY <1>1, <1>4, Zenon DEF Step, UnderWay
<1>10. PICK s : /\ Changed(stage', stage, c, s) /\ s \in Stages
                /\ stage[c] = "sent" => s = "answered"
                /\ stage[c] = "twiddling" => s = "twiddled"
  <2>1. "answered" \in Stages /\ "twiddled" \in Stages /\ "sent" # "twiddling"
    BY SMT DEF Stages
  <2>2. CASE stage[c] = "sent"
    <3>1. stage' = [stage EXCEPT ![c] = "answered"]
      BY <2>2, Zenon DEF Serve
    <3>2. Changed(stage', stage, c, "answered")
      BY <1>1, <3>1, ChangedAt, Zenon DEF PlcTypes
    <3> QED
      BY <2>1, <2>2, <3>2, Zenon
  <2>3. CASE stage[c] = "twiddling"
    <3>1. stage' = [stage EXCEPT ![c] = "twiddled"]
      BY <2>1, <2>3, Zenon DEF Serve
    <3>2. Changed(stage', stage, c, "twiddled")
      BY <1>1, <3>1, ChangedAt, Zenon DEF PlcTypes
    <3> QED
      BY <2>1, <2>3, <3>2, Zenon
  <2> QED
    BY <1>9, <2>2, <2>3, Zenon
<1>11. PlcTypes'
  BY <1>1, <1>2, <1>5, <1>6, <1>8, <1>10, Zenon DEF PlcTypes, Changed
<1>12. UnderWay(c)'
  <2>1. s \notin {"idle", "sent", "twiddling"} /\ stage[c] # "idle"
        /\ (s = "twiddled" => stage[c] = "twiddling")
    BY <1>9, <1>10, SMT
  <2>2. s # "sent" /\ s # "twiddling"
    BY <2>1, SMT
  <2>3. stage'[c] = s
    BY <1>10, Zenon DEF Changed
  <2>4. current[c] \in Calls(c, server) /\ (s = "twiddled" => Toggled(current[c]))
    BY <1>1, <2>1, Zenon DEF UnderWay
  <2>5. response'[c] # <<>> => AnswerTo(response'[c], datagram[c])
    BY <1>5, <1>9, Zenon
  <2> QED
    BY <1>2, <1>10, <2>1, <2>2, <2>3, <2>4, <2>5, Zenon DEF UnderWay
<1>13. ASSUME NEW d \in Client, d # c PROVE UnderWay(d)'
  <2>1. stage'[d] = stage[d] /\ response'[d] = response[d]
    BY <1>5, <1>10, <1>13, Zenon DEF Changed
  <2> QED
    BY <1>2, <2>1, UnderWayKept, Zenon DEF PlcInv
<1> QED
  BY <1>7, <1>11, <1>12, <1>13, Zenon DEF PlcInv

\* The client: an answer that came back.
LEMMA ReceiveKeeps ==
  ASSUME PlcInv, NEW c \in Client, Receive(c)
  PROVE  PlcInv'
<1>1. PlcTypes /\ ReadOnlyKept /\ UnderWay(c)
  BY Zenon DEF PlcInv
<1>2. /\ server' = server /\ mem' = mem /\ buf' = buf /\ panicked' = panicked /\ meant' = meant
      /\ current' = current /\ expected' = expected /\ made' = made
      /\ stage[c] \in {"answered", "twiddled"} /\ response' = [response EXCEPT ![c] = <<>>]
  BY Zenon DEF Receive, served
<1>3. Changed(response', response, c, <<>>)
  BY <1>1, <1>2, ChangedAt, Zenon DEF PlcTypes
<1>4. MemOK(mem)'
  BY <1>1, <1>2, Zenon DEF PlcTypes, MemOK, Codes
<1>5. ReadOnlyKept'
  BY <1>1, <1>2, Zenon DEF ReadOnlyKept
<1>6. stage[c] # "idle"
  BY <1>2, SMT
<1> DEFINE r == decodeResponse(response[c])
           v == Flag(~ReadBits(r.data, 1)[1])
<1>7. CASE /\ Toggled(current[c])
           /\ datagram' = [datagram EXCEPT ![c] = Datagram(bitTwiddle(current[c], v))]
           /\ result' = [result EXCEPT ![c] = Success(ReadBits(r.data, 1))]
           /\ stage' = [stage EXCEPT ![c] = "twiddling"]
  <2>1. v \in {0, 1}
    BY SMT DEF Flag
  <2> HIDE DEF r, v
  <2>2. /\ Changed(stage', stage, c, "twiddling")
        /\ Changed(datagram', datagram, c, Datagram(bitTwiddle(current[c], v)))
        /\ Changed(result', result, c, Success(ReadBits(r.data, 1)))
    BY <1>1, <1>7, ChangedAt, Zenon DEF PlcTypes
  <2>3. PlcTypes'
    BY <1>1, <1>2, <1>3, <1>4, <2>2, Zenon DEF PlcTypes, Changed
  <2>4. made % 256 \in Nat
    BY <1>1, SMT DEF PlcTypes
  <2>5. Carries(datagram'[c], bitTwiddle(current[c], v))
    BY <2>2, <2>4, ZenonT(30) DEF Carries, Changed, Datagram, Heading
  <2>6. "twiddling" \in Stages /\ "twiddling" # "idle" /\ "twiddling" # "sent"
    BY SMT DEF Stages
  <2>7. UnderWay(c)'
    BY <1>1, <1>2, <1>3, <1>6, <1>7, <2>1, <2>2, <2>5, <2>6, Zenon DEF UnderWay, Changed
  <2>8. ASSUME NEW d \in Client, d # c PROVE UnderWay(d)'
    <3>1. /\ stage'[d] = stage[d] /\ datagram'[d] = datagram[d] /\ response'[d] = response[d]
      BY <1>3, <2>2, <2>8, Zenon DEF Changed
    <3> QED
      BY <1>2, <3>1, UnderWayKept, Zenon DEF PlcInv
  <2> QED
    BY <1>5, <2>3, <2>7, <2>8, Zenon DEF PlcInv
<1>8. CASE /\ stage' = [stage EXCEPT ![c] = "idle"] /\ UNCHANGED datagram
           /\ DOMAIN result' = Client
  <2>1. Changed(stage', stage, c, "idle")
    BY <1>1, <1>8, ChangedAt, Zenon DEF PlcTypes
  <2>2. PlcTypes'
    BY <1>1, <1>2, <1>3, <1>4, <1>8, <2>1, Zenon DEF PlcTypes, Changed
  <2>3. "idle" \in Stages /\ "idle" # "sent" /\ "idle" # "twiddling" /\ "idle" # "twiddled"
    BY SMT DEF Stages
  <2>4. UnderWay(c)'
    BY <1>2, <1>3, <1>8, <2>1, <2>3, Zenon DEF UnderWay, Changed
  <2>5. ASSUME NEW d \in Client, d # c PROVE UnderWay(d)'
    <3>1. /\ stage'[d] = stage[d] /\ datagram'[d] = datagram[d] /\ response'[d] = response[d]
      BY <1>3, <1>8, <2>1, <2>5, Zenon DEF Changed
    <3> QED
      BY <1>2, <3>1, UnderWayKept, Zenon DEF PlcInv
  <2> QED
    BY <1>5, <2>2, <2>4, <2>5, Zenon DEF PlcInv
<1>9. \/ /\ Toggled(current[c])
         /\ datagram' = [datagram EXCEPT ![c] = Datagram(bitTwiddle(current[c], v))]
         /\ result' = [result EXCEPT ![c] = Success(ReadBits(r.data, 1))]
         /\ stage' = [stage EXCEPT ![c] = "twiddling"]
      \/ /\ stage' = [stage EXCEPT ![c] = "idle"] /\ UNCHANGED datagram
         /\ DOMAIN result' = Client
  <2>1. CASE checkResponse(r) /\ Toggled(current[c]) /\ stage[c] = "answered"
    BY <2>1, Zenon DEF Receive
  <2>2. CASE ~(checkResponse(r) /\ Toggled(current[c]) /\ stage[c] = "answered")
    <3> DEFINE new == IF ~checkResponse(r) THEN Failure
                      ELSE IF stage[c] = "twiddled" THEN result[c]
                      ELSE Success(Result(current[c], r.data))
    <3>1. /\ stage' = [stage EXCEPT ![c] = "idle"] /\ UNCHANGED datagram
          /\ result' = [result EXCEPT ![c] = new]
      BY <2>2, Zenon DEF Receive
    <3> HIDE DEF new
    <3>2. Changed(result', result, c, new)
      BY <1>1, <3>1, ChangedAt, Zenon DEF PlcTypes
    <3> QED
      BY <3>1, <3>2, Zenon DEF Changed
  <2> QED
    BY <2>1, <2>2, Zenon
<1> QED
  BY <1>7, <1>8, <1>9, Zenon

\* Steps that change nothing.
LEMMA StutterKeeps == PlcInv /\ UNCHANGED plcVars => PlcInv'
  BY Zenon DEF PlcInv, PlcTypes, UnderWay, ReadOnlyKept, MemOK, Codes, plcVars, served

\* The beginning.
LEMMA PlcStarts == PlcInit => PlcInv
<1> SUFFICES ASSUME PlcInit PROVE PlcInv
  OBVIOUS
<1>1. AreaSize \in Nat /\ BufSize \in Nat
  BY SizesAssumption, Zenon
<1>2. \A a \in DOMAIN Codes : mem[a] \in [0 .. AreaSize - 1 -> Nat] /\ \A k \in 0 .. AreaSize - 1 : mem[a][k] = 0
  <2> DEFINE areas == DOMAIN Codes
  <2>1. mem = [a \in areas |-> [k \in 0 .. AreaSize - 1 |-> 0]]
    BY Zenon DEF PlcInit
  <2> HIDE DEF areas
  <2>2. \A a \in areas : mem[a] \in [0 .. AreaSize - 1 -> Nat] /\ \A k \in 0 .. AreaSize - 1 : mem[a][k] = 0
    BY <2>1, SMT
  <2> QED
    BY <2>2, Zenon DEF areas
<1>3. MemOK(mem)
  <2>1. DOMAIN mem = DOMAIN Codes
    BY Zenon DEF PlcInit
  <2> QED
    BY <1>2, <2>1, Zenon DEF MemOK
<1>4. buf \in Seq(Nat) /\ Len(buf) = BufSize
  BY <1>1, SMT DEF PlcInit, Zeroes
<1>5. made \in Nat
  BY SMT DEF PlcInit
<1>6. PlcTypes
  BY <1>3, <1>4, <1>5, Zenon DEF PlcInit, PlcTypes
<1>7. "idle" \in Stages /\ "idle" # "sent" /\ "idle" # "twiddling" /\ "idle" # "twiddled"
  BY SMT DEF Stages
<1>8. ASSUME NEW c \in Client PROVE UnderWay(c)
  BY <1>7, Zenon DEF UnderWay, PlcInit
<1>9. ReadOnlyKept
  <2> SUFFICES ASSUME server = "cmd" PROVE \A k \in DOMAIN mem["AR"] : mem["AR"][k] = 0
    BY Zenon DEF ReadOnlyKept
  <2>1. server # "sim"
    BY SMT
  <2>2. "AR" \in DOMAIN [DM |-> 2, DMBit |-> 3, CIO |-> 48, WR |-> 49, HR |-> 50, AR |-> 51]
    BY SMT
  <2>3. "AR" \in DOMAIN Codes
    BY <2>1, <2>2, Zenon DEF Codes
  <2> DEFINE ar == mem["AR"]
  <2>4. ar \in [0 .. AreaSize - 1 -> Nat] /\ \A k \in 0 .. AreaSize - 1 : ar[k] = 0
    BY <1>2, <2>3, Zenon
  <2> HIDE DEF ar
  <2>5. \A k \in DOMAIN ar : ar[k] = 0
    BY <2>4, Zenon
  <2> QED
    BY <2>5, Zenon DEF ar
<1> QED
  BY <1>6, <1>8, <1>9, Zenon DEF PlcInv

\* PlcInv holds throughout.
THEOREM PlcInvariance == PlcSpec => []PlcInv
<1>1. PlcInv /\ [PlcNext]_plcVars => PlcInv'
  <2> SUFFICES ASSUME PlcInv, PlcNext PROVE PlcInv'
    BY StutterKeeps, Zenon
  <2> QED
    BY MakeCallKeeps, ServeKeeps, ReceiveKeeps, Zenon DEF PlcNext
<1> QED
  BY PlcStarts, <1>1, PTL DEF PlcSpec

\* What decodeHeader makes of a datagram and of an answer to it.
LEMMA DatagramHeader ==
  ASSUME NEW id \in Nat, NEW cmd \in Seq(Nat)
  PROVE  Names(decodeHeader(Heading(id) \o cmd), "command", Src, Dst, id)
<1> DEFINE e == Heading(id)
           d == e \o cmd
<1>1. TRUE \in BOOLEAN /\ (TRUE <=> "command" = "command") /\ "command" \in {"command", "response"}
  OBVIOUS
<1>2. \A i \in 1 .. 10 : e[i] = encodeHeader(defaultHeader("command", TRUE, Src, Dst, id))[i]
  BY Zenon DEF Heading, defaultCommandHeader
<1>3. e \in Seq(Nat) /\ Len(e) = 10
  BY HeadingBytes, Zenon
<1> HIDE DEF e
<1>4. \A i \in 1 .. 10 : d[i] = e[i]
  <2>1. Joins(d, e, cmd)
    BY <1>3, Concatenated, Zenon
  <2> QED
    BY <1>3, <2>1, Zenon DEF Joins
<1> HIDE DEF d
<1>5. Begins(d, "command", TRUE, Src, Dst, id)
  BY <1>2, <1>4, Zenon DEF Begins
<1>6. Names(decodeHeader(d), "command", Src, Dst, id)
  BY <1>1, <1>5, OwnAddresses, HeaderDecoded, Zenon
<1> QED
  BY <1>6, Zenon DEF d, e

\* The client reads the end code and the data that the server gave.
LEMMA ReplyDecoded ==
  ASSUME NEW id \in Nat, NEW code \in Nat, NEW end \in Nat, NEW data \in Seq(Nat)
  PROVE  /\ Names(decodeHeader(Reply(id, code, end, data)), "response", Dst, Src, id)
         /\ Returns(Reply(id, code, end, data), end, data)
<1> DEFINE r == Reply(id, code, end, data)
<1>1. FALSE \in BOOLEAN /\ (FALSE <=> "response" = "command") /\ "response" \in {"command", "response"}
  BY SMT
<1>2. Returns(r, end, data) /\ Begins(r, "response", FALSE, Dst, Src, id)
  BY OwnAddresses, ResponseDecoded, Zenon DEF Reply
<1> HIDE DEF r
<1>3. Names(decodeHeader(r), "response", Dst, Src, id)
  BY <1>1, <1>2, OwnAddresses, HeaderDecoded, Zenon
<1> QED
  BY <1>2, <1>3, Zenon DEF r

\* Every answer is of its request, whatever the clients ask, of either
\* server, and however their datagrams interleave in its buffer.
THEOREM AnswersOwnRequestTheorem == PlcSpec => []AnswersOwnRequest
<1>1. PlcInv => AnswersOwnRequest
  <2> SUFFICES ASSUME PlcInv, NEW c \in Client, response[c] # <<>>
               PROVE  LET q == decodeHeader(datagram[c])
                          r == decodeHeader(response[c])
                      IN /\ r.serviceID = q.serviceID /\ r.messageType = "response"
                         /\ q.messageType = "command" /\ r.src = q.dst /\ r.dst = q.src
    BY Zenon DEF AnswersOwnRequest
  <2>1. AnswerTo(response[c], datagram[c])
    BY Zenon DEF PlcInv, UnderWay
  <2>2. PICK id \in Nat, cmd \in Seq(Nat), code \in Nat, end \in Nat, data \in Seq(Nat) :
            datagram[c] = Heading(id) \o cmd /\ response[c] = Reply(id, code, end, data)
    BY <2>1, Zenon DEF AnswerTo
  <2>3. Names(decodeHeader(datagram[c]), "command", Src, Dst, id)
    BY <2>2, DatagramHeader, Zenon
  <2>4. Names(decodeHeader(response[c]), "response", Dst, Src, id)
    BY <2>2, ReplyDecoded, Zenon
  <2> QED
    BY <2>3, <2>4, Zenon DEF Names
<1> QED
  BY PlcInvariance, <1>1, PTL

-----------------------------------------------------------------------------
(* The simulator does what a request asks.                                 *)

\* The sum of two numbers below u, if it is not.
LEMMA Wraps ==
  ASSUME NEW u \in Nat, NEW x \in Nat, NEW y \in Nat, x < u, y < u, x + y >= u
  PROVE  (x + y) % u < x /\ (x + y) % u \in Nat
<1>1. x + y - u \in Nat /\ x + y - u < u
  BY SMT
<1>2. (x + y) % u = x + y - u
  BY <1>1, SMT
<1> QED
  BY <1>1, <1>2, SMT

\* Where a request lies in an area of the simulator, as the call meant it.
SimFirst(a, m) == IF a = "DMBit" THEN m.address + m.bitOffset ELSE m.address
SimLen(a, n) == IF a = "DMBit" THEN n ELSE n * 2
Counted(a, m, n) == m \in Places /\ n \in Nat /\ SimFirst(a, m) < U16 /\ SimLen(a, n) < U16

\* The range that the simulator computes in uint16 is the one meant if that
\* fits, and one that it refuses if not.
RangeMeant(r, first, len) ==
    /\ r.start = first
    /\ first + len <= AreaSize => r.end = first + len /\ ~(r.sum > AreaSize) /\ r.given = len
    /\ ~(first + len <= AreaSize) => r.start > r.end \/ r.end > AreaSize

\* The range that Range16 computes is the one that is meant, if it fits.
LEMMA SimRange ==
  ASSUME NEW a, NEW m, NEW n, Counted(a, m, n)
  PROVE  RangeMeant(Range16(a, m, n), SimFirst(a, m), SimLen(a, n))
<1> DEFINE first == SimFirst(a, m)
           len == SimLen(a, n)
           r == Range16(a, m, n)
           ad == m.address
           bo == m.bitOffset
<1>1. U16 \in Nat /\ AreaSize \in Nat /\ AreaSize < U16
  BY SizesAssumption, Zenon
<1>2. ad \in Nat /\ bo \in Nat /\ n \in Nat /\ first < U16 /\ len < U16
  <2>1. m \in Places /\ n \in Nat /\ first < U16 /\ len < U16
    BY Zenon DEF Counted
  <2> QED
    BY <2>1, SMT DEF Places
<1>3. first = (IF a = "DMBit" THEN ad + bo ELSE ad) /\ len = (IF a = "DMBit" THEN n ELSE n * 2)
  BY Zenon DEF SimFirst, SimLen
<1> HIDE DEF first, len
<1>4. first \in Nat /\ len \in Nat /\ (a = "DMBit" => ad + n <= first + len)
  BY <1>2, <1>3, SMT
<1> DEFINE end == (first + len) % U16
<1>5. /\ first + len <= AreaSize => end = first + len
      /\ ~(first + len <= AreaSize) => first > end \/ end > AreaSize
  <2>1. first + len \in Nat
    BY <1>4, SMT
  <2>2. CASE first + len < U16
    <3>1. end = first + len
      BY <1>1, <2>1, <2>2, SmallRemainder, Zenon
    <3> HIDE DEF end
    <3> QED
      BY <1>1, <1>4, <3>1, SMT
  <2>3. CASE first + len >= U16
    <3>1. end < first /\ end \in Nat
      BY <1>1, <1>2, <1>4, <2>3, Wraps, Zenon
    <3> HIDE DEF end
    <3> QED
      BY <1>1, <1>4, <2>3, <3>1, SMT
  <2> QED
    BY <1>1, <1>4, <2>2, <2>3, SMT
<1>6. CASE a = "DMBit"
  <2>1. first = ad + bo /\ len = n
    BY <1>3, <1>6, Zenon
  <2>2. (ad + bo) % U16 = first
    BY <1>1, <1>2, <1>4, <2>1, SmallRemainder, Zenon
  <2>3. r.start = first /\ r.end = end /\ r.sum = (ad + n) % U16 /\ r.given = len
    BY <1>6, <2>1, <2>2, Zenon DEF Range16
  <2>4. first + len <= AreaSize => ~((ad + n) % U16 > AreaSize)
    <3> SUFFICES ASSUME first + len <= AreaSize PROVE ~((ad + n) % U16 > AreaSize)
      OBVIOUS
    <3>1. ad + n \in Nat /\ ad + n < U16 /\ ad + n <= AreaSize
      BY <1>1, <1>2, <1>4, <1>6, SMT
    <3>2. (ad + n) % U16 = ad + n
      BY <1>1, <3>1, SmallRemainder, Zenon
    <3> QED
      BY <1>1, <3>1, <3>2, SMT
  <2> HIDE DEF r, end
  <2> QED
    BY <1>5, <2>3, <2>4, Zenon DEF RangeMeant, r, first, len
<1>7. CASE a # "DMBit"
  <2>1. first = ad /\ len = n * 2
    BY <1>3, <1>7, Zenon
  <2>2. len % U16 = len
    BY <1>1, <1>2, <1>4, SmallRemainder, Zenon
  <2>3. r.start = first /\ r.end = end /\ r.sum = end /\ r.given = len
    BY <1>7, <2>1, <2>2, Zenon DEF Range16
  <2>4. first + len <= AreaSize => ~(end > AreaSize)
    <3> SUFFICES ASSUME first + len <= AreaSize PROVE ~(end > AreaSize)
      OBVIOUS
    <3>1. end = first + len
      BY <1>5
    <3> HIDE DEF end
    <3> QED
      BY <1>1, <1>4, <3>1, SMT
  <2> HIDE DEF r, end
  <2> QED
    BY <1>5, <2>3, <2>4, Zenon DEF RangeMeant, r, first, len
<1> QED
  BY <1>6, <1>7, Zenon

SimAreas == {"DM", "DMBit"}
SimCode(a) == IF a = "DM" THEN MemoryAreaDMWord ELSE MemoryAreaDMBit

\* The areas of the simulator.
LEMMA SimArea ==
  ASSUME server = "sim", NEW a \in SimAreas, NEW m, m.memoryArea = SimCode(a)
  PROVE  DOMAIN Codes = SimAreas /\ Area(m) = a /\ AreaOf(m) # {}
<1>1. Codes = [DM |-> 130, DMBit |-> 2]
  BY Zenon DEF Codes, MemoryAreaDMWord, MemoryAreaDMBit
<1>2. DOMAIN [DM |-> 130, DMBit |-> 2] = SimAreas
  BY SMT DEF SimAreas
<1> DEFINE codes == [DM |-> 130, DMBit |-> 2]
<1>3. codes["DM"] = 130 /\ codes["DMBit"] = 2 /\ 130 # 2
  BY SMT
<1> HIDE DEF codes
<1>4. \A b \in SimAreas : codes[b] = m.memoryArea <=> b = a
  BY <1>3, SMT DEF SimAreas, SimCode, MemoryAreaDMWord, MemoryAreaDMBit
<1>5. AreaOf(m) = {a}
  <2>1. AreaOf(m) = {b \in SimAreas : codes[b] = m.memoryArea}
    BY <1>1, <1>2, Zenon DEF AreaOf, codes
  <2> QED
    BY <1>4, <2>1, SMT
<1>6. (CHOOSE b \in {a} : TRUE) = a
  BY SMT
<1>7. {a} # {}
  BY SMT
<1> QED
  BY <1>1, <1>2, <1>5, <1>6, <1>7, Zenon DEF Area

\* An area with len bytes written from first on.
Placed(area, first, len, bytes) ==
    [j \in DOMAIN area |-> IF j \in first .. (first + len) - 1 THEN bytes[j - first + 1] ELSE area[j]]
Piece(area, first, len) == [i \in 1 .. len |-> area[first + i - 1]]

Refused(h) == h.mem = mem /\ (h.panic = TRUE \/ (h.panic = FALSE /\ h.endCode # 0))

\* What the simulator makes of a request about memory.
SimMet(h, code, a, first, len, bytes) ==
    /\ ~(first + len <= AreaSize) => Refused(h)
    /\ first + len <= AreaSize /\ code = CommandCodeMemoryAreaRead => Answers(h, 0, Piece(mem[a], first, len), mem)
    /\ first + len <= AreaSize /\ code = CommandCodeMemoryAreaWrite =>
           Answers(h, 0, <<>>, [mem EXCEPT ![a] = Placed(mem[a], first, len, bytes)])

\* The place of a byte that is given.
InData(j, first, last) == j - first + 1 \in 1 .. last /\ 7 + j - first = 6 + (j - first + 1)

\* A place inside the piece is that of a byte given.
LEMMA Offset ==
  ASSUME NEW first \in Nat, NEW len \in Nat, NEW last \in Nat, len <= last, NEW j \in Nat,
         j \in first .. (first + len) - 1
  PROVE  InData(j, first, last)
  BY SMT DEF InData

\* What is written is what was given.
FromData(area, first, len, all, bytes) ==
    \A j \in DOMAIN area : j \in first .. (first + len) - 1 => all[7 + j - first] = bytes[j - first + 1]

WritesPiece(area, first, len, all, bytes) ==
    Written(area, first, first + len, all) = Placed(area, first, len, bytes)

\* Writing from the data of the request places the bytes.
LEMMA WrittenIsPlaced ==
  ASSUME NEW area, NEW first, NEW len, NEW all, NEW bytes,
         FromData(area, first, len, all, bytes)
  PROVE  WritesPiece(area, first, len, all, bytes)
<1> DEFINE W(k) == IF k \in first .. (first + len) - 1 THEN all[7 + k - first] ELSE area[k]
           P(k) == IF k \in first .. (first + len) - 1 THEN bytes[k - first + 1] ELSE area[k]
<1>1. Written(area, first, first + len, all) = [k \in DOMAIN area |-> W(k)]
  BY DEF Written
<1>2. ASSUME NEW k \in DOMAIN area PROVE W(k) = P(k)
  <2>1. CASE k \in first .. (first + len) - 1
    BY <2>1, Zenon DEF FromData
  <2>2. CASE k \notin first .. (first + len) - 1
    BY <2>2, Zenon
  <2> QED
    BY <2>1, <2>2, Zenon
<1>3. Placed(area, first, len, bytes) = [k \in DOMAIN area |-> P(k)]
  BY Zenon DEF Placed
<1> HIDE DEF W, P
<1> QED
  BY <1>1, <1>2, <1>3, Zenon DEF WritesPiece

\* What the simulator makes of any request that names what it has.
LEMMA SimMemory ==
  ASSUME server = "sim", MemOK(mem), NEW a \in SimAreas, NEW m, NEW n, Counted(a, m, n),
         m.memoryArea = SimCode(a), NEW code,
         code \in {CommandCodeMemoryAreaRead, CommandCodeMemoryAreaWrite}, NEW bytes \in Seq(Nat), NEW req,
         Asks(req, code, m, n, bytes), code = CommandCodeMemoryAreaWrite => SimLen(a, n) <= Len(bytes), NEW t
  PROVE  SimMet(handler(req, t), code, a, SimFirst(a, m), SimLen(a, n), bytes)
<1> DEFINE first == SimFirst(a, m)
           len == SimLen(a, n)
           r == Range16(a, m, n)
           h == handler(req, t)
           all == req.data \o req.beyond
           range == 4356
           none == {}
<1>1. U16 \in Nat /\ AreaSize \in Nat /\ m \in Places /\ n \in Nat /\ first \in Nat /\ len \in Nat
      /\ n < U16 /\ len < U16
  <2>1. U16 \in Nat /\ AreaSize \in Nat /\ m \in Places /\ n \in Nat /\ len < U16
    BY SizesAssumption, Zenon DEF Counted
  <2> QED
    BY <2>1, SMT DEF SimFirst, SimLen, Places
<1>2. DOMAIN Codes = SimAreas /\ Area(m) = a /\ AreaOf(m) # {}
  BY SimArea
<1>3. /\ req.commandCode = code /\ decodeMemoryAddress(req.data) = m /\ Uint16(req.data, 5) = n
      /\ all \in Seq(Nat) /\ 6 + Len(bytes) <= Len(all)
      /\ \A i \in 1 .. Len(bytes) : all[6 + i] = bytes[i]
  BY Zenon DEF Asks
<1>4. n % U16 = n
  BY <1>1, SmallRemainder, Zenon
<1> HIDE DEF r, all, first, len, range, none
<1>5. h = IF code = CommandCodeMemoryAreaWrite /\ a \in none THEN Answered(513, <<>>)
          ELSE IF r.sum > AreaSize THEN Answered(range, <<>>)
          ELSE IF code = CommandCodeMemoryAreaRead THEN ReadArea(a, r) ELSE WriteArea(a, r, all)
  <2>1. IsMemory(req) /\ Known(req) /\ req.commandCode # CommandCodeClockRead
    <3>1. code # CommandCodeClockRead
      BY SMT DEF CommandCodeClockRead, CommandCodeMemoryAreaRead, CommandCodeMemoryAreaWrite
    <3>2. Known(req)
      BY <1>2, <1>3, Zenon DEF Known
    <3> QED
      BY <1>3, <3>1, <3>2, Zenon DEF IsMemory
  <2>2. h = Memory(req, range, none)
    BY <2>1, SMT DEF handler, range, none
  <2> HIDE DEF h
  <2> DEFINE m0 == decodeMemoryAddress(req.data)
             a0 == Area(m0)
             r0 == Range16(a0, m0, Uint16(req.data, 5) % U16)
  <2>3. Memory(req, range, none) =
          IF req.commandCode = CommandCodeMemoryAreaWrite /\ a0 \in none THEN Answered(513, <<>>)
          ELSE IF r0.sum > AreaSize THEN Answered(range, <<>>)
          ELSE IF req.commandCode = CommandCodeMemoryAreaRead THEN ReadArea(a0, r0) ELSE WriteArea(a0, r0, all)
    BY Zenon DEF Memory, Area, all
  <2>4. m0 = m
    BY <1>3, Zenon
  <2> HIDE DEF m0
  <2>5. a0 = a
    BY <1>2, <2>4, Zenon
  <2> HIDE DEF a0
  <2>6. r0 = r
    BY <1>3, <1>4, <2>4, <2>5, Zenon DEF r
  <2> HIDE DEF r0
  <2> QED
    BY <1>3, <2>2, <2>3, <2>5, <2>6, ZenonT(30)
<1> HIDE DEF h
<1>6. RangeMeant(r, first, len)
  BY SimRange, Zenon DEF r, first, len
<1>7. a \notin none /\ CommandCodeMemoryAreaRead # CommandCodeMemoryAreaWrite
  BY SMT DEF none, CommandCodeMemoryAreaRead, CommandCodeMemoryAreaWrite
<1> SUFFICES SimMet(h, code, a, first, len, bytes)
  BY Zenon DEF h, first, len
<1>8. ASSUME ~(first + len <= AreaSize) PROVE Refused(h)
  <2>1. r.start > r.end \/ r.end > AreaSize
    BY <1>6, <1>8, Zenon DEF RangeMeant
  <2>2. h = Answered(range, <<>>) \/ h = Panic
    BY <1>5, <1>7, <2>1, Zenon DEF ReadArea, WriteArea
  <2>3. CASE h = Answered(range, <<>>)
    <3>1. Answers(h, range, <<>>, mem)
      BY <2>3, AnsweredFields, Zenon
    <3> QED
      BY <3>1, SMT DEF Answers, Refused, range
  <2>4. CASE h = Panic
    BY <2>4, PanicFields, Zenon DEF Refused
  <2> QED
    BY <2>2, <2>3, <2>4, Zenon
<1>9. ASSUME first + len <= AreaSize, code = CommandCodeMemoryAreaRead PROVE Answers(h, 0, Piece(mem[a], first, len), mem)
  <2>1. r.start = first /\ r.end = first + len /\ ~(r.sum > AreaSize) /\ r.given = len
    BY <1>6, <1>9, Zenon DEF RangeMeant
  <2>2. h = ReadArea(a, r)
    BY <1>5, <1>7, <1>9, <2>1, Zenon
  <2>3. RangeOK(r) /\ ~(r.start > r.end \/ r.end > AreaSize)
    <3>1. RangeOK(r)
      BY <1>1, RangeNumbers, Zenon DEF r
    <3> QED
      BY <1>1, <1>9, <2>1, <3>1, SMTT(30)
  <2>4. r.end - r.start = len
    BY <1>1, <2>1, SMTT(30)
  <2>5. Answers(ReadArea(a, r), 0, [i \in 1 .. r.end - r.start |-> mem[a][r.start + i - 1]], mem)
    BY <1>2, <2>3, ReadAreaFields
  <2> QED
    BY <2>1, <2>2, <2>4, <2>5, Zenon DEF Piece
<1>10. ASSUME first + len <= AreaSize, code = CommandCodeMemoryAreaWrite
       PROVE  Answers(h, 0, <<>>, [mem EXCEPT ![a] = Placed(mem[a], first, len, bytes)])
  <2>1. r.start = first /\ r.end = first + len /\ ~(r.sum > AreaSize) /\ r.given = len
    BY <1>6, <1>10, Zenon DEF RangeMeant
  <2>2. h = WriteArea(a, r, all)
    BY <1>5, <1>7, <1>10, <2>1, Zenon
  <2>3. len <= Len(bytes)
    BY <1>10, Zenon DEF len
  <2>4. ~(r.start > r.end \/ r.end > AreaSize \/ 6 + r.given > Len(all))
    BY <1>1, <1>3, <1>10, <2>1, <2>3, SMTT(30)
  <2>5. Answers(WriteArea(a, r, all), 0, <<>>,
                [mem EXCEPT ![a] = Written(mem[a], r.start, r.end, all)])
    BY <2>4, WriteAreaFields
  <2>6. DOMAIN mem[a] = 0 .. AreaSize - 1
    BY <1>2, Zenon DEF MemOK
  <2>7. FromData(mem[a], first, len, all, bytes)
    <3> SUFFICES ASSUME NEW j \in DOMAIN mem[a], j \in first .. (first + len) - 1
                 PROVE  all[7 + j - first] = bytes[j - first + 1]
      BY Zenon DEF FromData
    <3>1. j \in Nat /\ Len(bytes) \in Nat
      BY <1>1, <2>6, SMT
    <3>2. InData(j, first, Len(bytes))
      BY <1>1, <2>3, <3>1, Offset, Zenon
    <3> DEFINE i == j - first + 1
               x == 7 + j - first
    <3>3. i \in 1 .. Len(bytes) /\ x = 6 + i
      BY <3>2, Zenon DEF InData
    <3> HIDE DEF i, x
    <3>4. all[x] = bytes[i]
      BY <1>3, <3>3, Zenon
    <3> QED
      BY <3>4, Zenon DEF i, x
  <2>8. Written(mem[a], r.start, r.end, all) = Placed(mem[a], first, len, bytes)
    <3>1. WritesPiece(mem[a], first, len, all, bytes)
      BY <2>7, WrittenIsPlaced, Zenon
    <3> QED
      BY <2>1, <3>1, Zenon DEF WritesPiece
  <2> QED
    BY <2>2, <2>5, <2>8, Zenon
<1> QED
  BY <1>8, <1>9, <1>10, Zenon DEF SimMet

-----------------------------------------------------------------------------
(* The simulator does what a call means.                                   *)

\* Where a call to the simulator lies, in its terms.
SimPlace(k) ==
    /\ AreaMeant(k) \in SimAreas /\ At(k) \in Places /\ At(k).memoryArea = SimCode(AreaMeant(k))
    /\ SimFirst(AreaMeant(k), At(k)) = FirstMeant(k) /\ FirstMeant(k) \in Nat /\ FirstMeant(k) < U16
    /\ \A n \in Nat : SimLen(AreaMeant(k), n) = Width(k) * n

\* The address of a call is where the call means.
LEMMA CallPlace ==
  ASSUME NEW k, WellFormed(k), Simulated(k), Allowed(k), k.op # "ReadClock"
  PROVE  SimPlace(k)
<1>1. At(k) \in Places /\ FirstMeant(k) \in Nat
  BY PlaceOfCall, Zenon
<1>2. FirstMeant(k) < U16 /\ k.area \in {MemoryAreaDMWord, MemoryAreaDMBit}
  BY Zenon DEF Simulated
<1>3. k.op \in WordOps \/ k.op \in BitOps
  BY Zenon DEF WellFormed
<1>4. \A op \in WordOps : op \notin BitOps
  BY SMT DEF WordOps, BitOps
<1>5. At(k).memoryArea = k.area /\ At(k).address = k.address
      /\ At(k).bitOffset = (IF k.op \in BitOps THEN k.bit ELSE 0)
  BY Zenon DEF At
<1>6. CASE k.op \in BitOps
  <2>1. k.op \notin WordOps
    BY <1>4, <1>6, Zenon
  <2>2. checkIsBitMemoryArea(k.area)
    BY <1>6, <2>1, SMT DEF Allowed
  <2>3. k.area = MemoryAreaDMBit
    BY <1>2, <2>2, SMT DEF checkIsBitMemoryArea, MemoryAreaDMWord, MemoryAreaDMBit,
       MemoryAreaHRBit, MemoryAreaARBit
  <2>4. AreaMeant(k) = "DMBit" /\ Width(k) = 1 /\ FirstMeant(k) = k.address + k.bit
    BY <1>6, Zenon DEF AreaMeant, Width, FirstMeant
  <2>5. "DMBit" \in SimAreas /\ "DMBit" # "DM"
    BY SMT DEF SimAreas
  <2>6. SimCode("DMBit") = MemoryAreaDMBit
    BY <2>5, Zenon DEF SimCode
  <2>7. \A n \in Nat : SimLen("DMBit", n) = 1 * n
    BY SMT DEF SimLen
  <2>8. SimFirst(AreaMeant(k), At(k)) = FirstMeant(k)
    BY <1>5, <1>6, <2>4, Zenon DEF SimFirst
  <2> QED
    BY <1>1, <1>2, <1>5, <2>3, <2>4, <2>5, <2>6, <2>7, <2>8, Zenon DEF SimPlace
<1>7. CASE k.op \notin BitOps
  <2>1. k.op \in WordOps
    BY <1>3, <1>7, Zenon
  <2>2. checkIsWordMemoryArea(k.area)
    BY <1>7, <2>1, SMT DEF Allowed
  <2>3. k.area = MemoryAreaDMWord
    BY <1>2, <2>2, SMT DEF checkIsWordMemoryArea, MemoryAreaDMWord, MemoryAreaDMBit, MemoryAreaARWord
  <2>4. AreaMeant(k) = "DM" /\ Width(k) = 2 /\ FirstMeant(k) = k.address
    BY <1>7, Zenon DEF AreaMeant, Width, FirstMeant
  <2>5. "DM" \in SimAreas /\ "DMBit" # "DM"
    BY SMT DEF SimAreas
  <2>6. SimCode("DM") = MemoryAreaDMWord
    BY Zenon DEF SimCode
  <2>7. \A n \in Nat : SimLen("DM", n) = 2 * n
    BY SMT DEF SimLen
  <2>8. SimFirst(AreaMeant(k), At(k)) = FirstMeant(k)
    BY <1>5, <2>4, <2>5, Zenon DEF SimFirst
  <2> QED
    BY <1>1, <1>2, <1>5, <2>3, <2>4, <2>5, <2>6, <2>7, <2>8, Zenon DEF SimPlace
<1> QED
  BY <1>6, <1>7, Zenon

\* What the simulator makes of the command of a call.
CallMet(h, k) ==
    /\ ~Fits(k) => Refused(h)
    /\ Fits(k) /\ k.op \in ReadOps =>
           Answers(h, 0, Piece(mem[AreaMeant(k)], FirstMeant(k), Asked(k)), mem)
    /\ Fits(k) /\ k.op \in WriteOps =>
           Answers(h, 0, <<>>, [mem EXCEPT ![AreaMeant(k)] =
                                   Placed(mem[AreaMeant(k)], FirstMeant(k), Len(Given(k)), Given(k))])

\* What reads and what writes.
LEMMA ReadsOrWrites ==
  ASSUME NEW op
  PROVE  /\ op \in ReadOps => op \notin WriteOps /\ op # "ReadClock"
         /\ op \in WriteOps => op \notin ReadOps /\ op # "ReadClock" /\ op # "ToggleBit"
  BY SMT DEF ReadOps, WriteOps, Reads

\* The simulator does what a read means.
LEMMA ReadCallMet ==
  ASSUME server = "sim", MemOK(mem), NEW k, WellFormed(k), Simulated(k), Allowed(k), k.op \in ReadOps,
         NEW id \in Nat, NEW b \in Seq(Nat), Len(b) = BufSize, NEW t
  PROVE  CallMet(handler(Request(id, Command(k), b), t), k)
<1> DEFINE code == CommandCodeMemoryAreaRead
           req == Request(id, Command(k), b)
           a == AreaMeant(k)
           first == FirstMeant(k)
           h == handler(req, t)
<1>1. k.op \notin WriteOps /\ k.op # "ReadClock"
  BY ReadsOrWrites, Zenon
<1>2. SimPlace(k)
  BY <1>1, CallPlace, Zenon
<1>3. PICK n : ReadsItems(k, n)
  BY ReadCall, Zenon
<1>4. n \in Nat /\ Command(k) = readCommand(At(k), n) /\ Asked(k) = Width(k) * n /\ Given(k) = <<>>
  BY <1>3, Zenon DEF ReadsItems
<1>5. code \in Nat /\ code = 257 /\ <<>> \in Seq(Nat) /\ Len(<<>>) = 0
  BY SMT DEF CommandCodeMemoryAreaRead
<1> HIDE DEF code
<1>6. CommandOf(Command(k), code, At(k), n, <<>>)
  BY <1>2, <1>4, <1>5, ReadEncoded, ZenonT(30) DEF SimPlace
<1>7. 10 + Len(Command(k)) <= BufSize
  BY Zenon DEF WellFormed
<1>8. Asks(req, code, At(k), n, <<>>)
  <2>1. code \in Nat /\ At(k) \in Places /\ n \in Nat /\ <<>> \in Seq(Nat)
    BY <1>2, <1>4, <1>5, Zenon DEF SimPlace
  <2> QED
    BY <2>1, <1>6, <1>7, MemoryRequest, Zenon
<1>9. SimLen(a, n) = Asked(k) /\ SimFirst(a, At(k)) = first /\ a \in SimAreas
      /\ At(k).memoryArea = SimCode(a) /\ first \in Nat
  BY <1>2, <1>4, Zenon DEF SimPlace
<1>10. Asked(k) \in Nat /\ Asked(k) < U16 /\ first + Len(Given(k)) + Asked(k) = first + Asked(k)
  <2>1. Asked(k) \in Nat
    BY <1>4, SMT DEF Width
  <2>2. Len(Given(k)) + Asked(k) < U16
    BY <1>1, Zenon DEF Simulated
  <2>3. Len(Given(k)) = 0
    BY <1>4, <1>5, Zenon
  <2> QED
    BY <1>9, <2>1, <2>2, <2>3, SMT
<1>11. Counted(a, At(k), n)
  BY <1>2, <1>4, <1>9, <1>10, Zenon DEF Counted, SimPlace
<1>12. code # CommandCodeMemoryAreaWrite
       /\ code \in {CommandCodeMemoryAreaRead, CommandCodeMemoryAreaWrite}
  BY SMT DEF code, CommandCodeMemoryAreaWrite, CommandCodeMemoryAreaRead
<1> HIDE DEF req, a
<1>13. SimMet(h, code, a, SimFirst(a, At(k)), SimLen(a, n), <<>>)
  BY <1>5, <1>8, <1>9, <1>11, <1>12, SimMemory, ZenonT(30)
<1>14. SimMet(h, code, a, first, Asked(k), <<>>)
  BY <1>9, <1>13, Zenon
<1> HIDE DEF h
<1>15. Fits(k) <=> first + Asked(k) <= AreaSize
  BY <1>1, <1>10, Zenon DEF Fits
<1>16. CallMet(h, k)
  BY <1>1, <1>14, <1>15, Zenon DEF CallMet, SimMet, code, a
<1> QED
  BY <1>16, Zenon DEF h, req

\* Only the bytes within len are placed.
Agree(x, y, len) == \A i \in 1 .. len : x[i] = y[i]
PlacedAlike(area, first, len, x, y) == Placed(area, first, len, x) = Placed(area, first, len, y)

\* Bytes that agree are placed alike.
LEMMA SamePlaced ==
  ASSUME NEW area, AreaSize \in Nat, DOMAIN area = 0 .. AreaSize - 1, NEW first \in Nat, NEW len \in Nat,
         NEW x, NEW y, Agree(x, y, len)
  PROVE  PlacedAlike(area, first, len, x, y)
<1> DEFINE X(j) == IF j \in first .. (first + len) - 1 THEN x[j - first + 1] ELSE area[j]
           Y(j) == IF j \in first .. (first + len) - 1 THEN y[j - first + 1] ELSE area[j]
<1>1. ASSUME NEW j \in DOMAIN area PROVE X(j) = Y(j)
  <2>1. CASE j \in first .. (first + len) - 1
    <3>1. j \in Nat /\ len <= len
      BY SMT
    <3>2. InData(j, first, len)
      BY <2>1, <3>1, Offset, Zenon
    <3>3. x[j - first + 1] = y[j - first + 1]
      BY <3>2, Zenon DEF InData, Agree
    <3> QED
      BY <2>1, <3>3, Zenon
  <2>2. CASE j \notin first .. (first + len) - 1
    BY <2>2, Zenon
  <2> QED
    BY <2>1, <2>2, Zenon
<1>2. Placed(area, first, len, x) = [j \in DOMAIN area |-> X(j)]
  BY Zenon DEF Placed
<1>3. Placed(area, first, len, y) = [j \in DOMAIN area |-> Y(j)]
  BY Zenon DEF Placed
<1> HIDE DEF X, Y
<1> QED
  BY <1>1, <1>2, <1>3, Zenon DEF PlacedAlike

\* The simulator does what a write means.
LEMMA WriteCallMet ==
  ASSUME server = "sim", MemOK(mem), NEW k, WellFormed(k), Simulated(k), Allowed(k), k.op \in WriteOps,
         NEW id \in Nat, NEW b \in Seq(Nat), Len(b) = BufSize, NEW t
  PROVE  CallMet(handler(Request(id, Command(k), b), t), k)
<1> DEFINE code == CommandCodeMemoryAreaWrite
           req == Request(id, Command(k), b)
           a == AreaMeant(k)
           first == FirstMeant(k)
           len == Len(Given(k))
           h == handler(req, t)
<1>1. k.op \notin ReadOps /\ k.op # "ReadClock"
  BY ReadsOrWrites, Zenon
<1>2. SimPlace(k)
  BY <1>1, CallPlace, Zenon
<1>3. PICK n, bytes : WritesItems(k, n, bytes)
  BY WriteCall, Zenon
<1>4. /\ n \in Nat /\ bytes \in Seq(Nat) /\ Command(k) = writeCommand(At(k), n, bytes)
      /\ Asked(k) = 0 /\ Given(k) \in Seq(Nat) /\ len <= Len(bytes) /\ len = Width(k) * n
      /\ \A i \in 1 .. len : Given(k)[i] = bytes[i]
  BY <1>3, Zenon DEF WritesItems
<1>5. code \in Nat /\ code = 258
  BY SMT DEF CommandCodeMemoryAreaWrite
<1> HIDE DEF code
<1>6. CommandOf(Command(k), code, At(k), n, bytes)
  <2>1. At(k) \in Places
    BY <1>2, Zenon DEF SimPlace
  <2>2. CommandOf(writeCommand(At(k), n, bytes), 258, At(k), n, bytes)
    BY <1>4, <2>1, WriteEncoded, ZenonT(30)
  <2> QED
    BY <1>4, <1>5, <2>2, Zenon
<1>7. 10 + Len(Command(k)) <= BufSize
  BY Zenon DEF WellFormed
<1>8. Asks(req, code, At(k), n, bytes)
  <2>1. code \in Nat /\ At(k) \in Places /\ n \in Nat /\ bytes \in Seq(Nat)
    BY <1>2, <1>4, <1>5, Zenon DEF SimPlace
  <2> QED
    BY <2>1, <1>6, <1>7, MemoryRequest, Zenon
<1>9. SimLen(a, n) = len /\ SimFirst(a, At(k)) = first /\ a \in SimAreas
      /\ At(k).memoryArea = SimCode(a) /\ first \in Nat
  BY <1>2, <1>4, ZenonT(30) DEF SimPlace
<1>10. len \in Nat /\ len < U16 /\ first + len + Asked(k) = first + len
  <2>1. len \in Nat
    BY <1>4, SMT DEF Width
  <2>2. len + Asked(k) < U16
    BY <1>1, Zenon DEF Simulated
  <2> QED
    BY <1>4, <1>9, <2>1, <2>2, SMTT(30)
<1>11. Counted(a, At(k), n)
  BY <1>2, <1>4, <1>9, <1>10, Zenon DEF Counted, SimPlace
<1>12. code # CommandCodeMemoryAreaRead
       /\ code \in {CommandCodeMemoryAreaRead, CommandCodeMemoryAreaWrite}
  BY SMT DEF code, CommandCodeMemoryAreaWrite, CommandCodeMemoryAreaRead
<1> HIDE DEF req, a, first, len
<1>13. SimMet(h, code, a, SimFirst(a, At(k)), SimLen(a, n), bytes)
  BY <1>4, <1>8, <1>9, <1>11, <1>12, SimMemory, Zenon
<1>14. SimMet(h, code, a, first, len, bytes)
  BY <1>9, <1>13, Zenon
<1> HIDE DEF h
<1>15. Fits(k) <=> first + len <= AreaSize
  BY <1>1, <1>10, Zenon DEF Fits, first, len
<1>16. Placed(mem[a], first, len, bytes) = Placed(mem[a], first, len, Given(k))
  <2>1. AreaSize \in Nat
    BY SizesAssumption, Zenon
  <2>2. DOMAIN Codes = SimAreas
    BY <1>9, SimArea
  <2>3. DOMAIN mem[a] = 0 .. AreaSize - 1
    BY <1>9, <2>2, Zenon DEF MemOK
  <2>4. Agree(bytes, Given(k), len)
    BY <1>4, Zenon DEF Agree
  <2>5. first \in Nat /\ len \in Nat
    BY <1>9, <1>10, Zenon
  <2>6. PlacedAlike(mem[a], first, len, bytes, Given(k))
    BY <2>1, <2>3, <2>4, <2>5, SamePlaced, Zenon
  <2> QED
    BY <2>6, Zenon DEF PlacedAlike
<1>17. CallMet(h, k)
  BY <1>1, <1>14, <1>15, <1>16, Zenon DEF CallMet, SimMet, code, a, first, len
<1> QED
  BY <1>17, Zenon DEF h, req

\* What the simulator makes of the write of ToggleBit.
LEMMA TwiddleMet ==
  ASSUME server = "sim", MemOK(mem), NEW k, WellFormed(k), Simulated(k), Allowed(k), Toggled(k), Fits(k),
         NEW v \in {0, 1}, NEW id \in Nat, NEW b \in Seq(Nat), Len(b) = BufSize, NEW t
  PROVE  /\ FirstMeant(k) \in 0 .. AreaSize - 1
         /\ Answers(handler(Request(id, bitTwiddle(k, v), b), t), 0, <<>>,
                    [mem EXCEPT !["DMBit"] = Placed(mem["DMBit"], FirstMeant(k), 1, <<v>>)])
<1> DEFINE code == CommandCodeMemoryAreaWrite
           req == Request(id, bitTwiddle(k, v), b)
           a == AreaMeant(k)
           first == FirstMeant(k)
           h == handler(req, t)
           one == <<v>>
<1>1. k.op = "ToggleBit" /\ k.op # "ReadClock" /\ k.op \in BitOps
  BY SMT DEF Toggled, BitOps
<1>2. SimPlace(k) /\ a = "DMBit" /\ Width(k) = 1
  BY <1>1, CallPlace, Zenon DEF AreaMeant, Width
<1>3. Asked(k) = 1 /\ Len(Given(k)) = 0
  BY <1>1, SMT DEF Asked, Given
<1>4. /\ At(k) \in Places /\ one \in Seq(Nat)
      /\ CommandOf(bitTwiddle(k, v), 258, At(k), 1, one)
      /\ 10 + Len(bitTwiddle(k, v)) <= BufSize
  BY TwiddleEncoded, ZenonT(30)
<1>5. code \in Nat /\ code = 258 /\ Len(one) = 1 /\ 1 \in Nat
  BY SMT DEF CommandCodeMemoryAreaWrite
<1> HIDE DEF code, one
<1>6. CommandOf(bitTwiddle(k, v), code, At(k), 1, one)
  BY <1>4, <1>5, Zenon
<1>7. Asks(req, code, At(k), 1, one)
  <2>1. code \in Nat /\ At(k) \in Places /\ 1 \in Nat /\ one \in Seq(Nat) /\ 10 + Len(bitTwiddle(k, v)) <= BufSize
    BY <1>4, <1>5, Zenon
  <2> QED
    BY <2>1, <1>6, MemoryRequest, Zenon
<1>8. SimFirst(a, At(k)) = first /\ a \in SimAreas
      /\ At(k).memoryArea = SimCode(a) /\ first \in Nat /\ first < U16
  BY <1>2, Zenon DEF SimPlace
<1>9. SimLen(a, 1) = 1
  BY <1>2, Zenon DEF SimLen
<1>10. first + 1 <= AreaSize /\ first \in 0 .. AreaSize - 1 /\ 1 < U16
  <2>1. first + Len(Given(k)) + Asked(k) <= AreaSize
    BY <1>1, Zenon DEF Fits
  <2> HIDE DEF first
  <2> QED
    BY <1>3, <1>8, <2>1, SizesAssumption, SMT
<1>11. Counted(a, At(k), 1)
  BY <1>4, <1>5, <1>8, <1>9, <1>10, Zenon DEF Counted
<1>12. code # CommandCodeMemoryAreaRead /\ code = CommandCodeMemoryAreaWrite
       /\ code \in {CommandCodeMemoryAreaRead, CommandCodeMemoryAreaWrite}
  BY SMT DEF code, CommandCodeMemoryAreaWrite, CommandCodeMemoryAreaRead
<1>13. SimLen(a, 1) <= Len(one)
  BY <1>5, <1>9, SMT
<1> HIDE DEF req, a, first
<1>14. SimMet(h, code, a, SimFirst(a, At(k)), SimLen(a, 1), one)
  BY <1>4, <1>7, <1>8, <1>11, <1>12, <1>13, SimMemory, Zenon
<1>15. SimMet(h, code, a, first, 1, one)
  BY <1>8, <1>9, <1>14, Zenon
<1> HIDE DEF h
<1>16. Answers(h, 0, <<>>, [mem EXCEPT ![a] = Placed(mem[a], first, 1, one)])
  BY <1>10, <1>12, <1>15, Zenon DEF SimMet
<1> QED
  BY <1>2, <1>10, <1>16, Zenon DEF h, req, first, one

-----------------------------------------------------------------------------
(* The clock's time comes back.                                            *)

\* One digit more, where nothing overflows.
LEMMA DigitAdded ==
  ASSUME NEW x \in Nat, x < 10, NEW d \in Nat, d < 10
  PROVE  WithDigit(Number(x), d) = Number(x * 10 + d)
<1> DEFINE u == 2 ^ UBits
           half == 2 ^ (UBits - 1)
<1>1. u \in Nat /\ half \in Nat /\ u > 127 /\ half > 63
  BY SizesAssumption, Zenon
<1> HIDE DEF u, half
<1>2. x * 5 \in Nat /\ x * 5 < u
  BY <1>1, SMT
<1>3. (x * 5) % u = x * 5
  BY <1>1, <1>2, SmallRemainder, Zenon
<1>4. ~(x * 5 >= half) /\ ~(x * 5 * 2 > u - 1 - d) /\ x * 5 * 2 + d = x * 10 + d
  BY <1>1, SMT
<1>5. timesTenPlusCatchingOverflow(x, d) = Number(x * 10 + d)
  BY <1>3, <1>4, Zenon DEF timesTenPlusCatchingOverflow, u, half
<1>6. Number(x).ok = TRUE /\ Number(x).x = x
  BY Zenon DEF Number
<1>7. ~(d > 9)
  BY SMT
<1> QED
  BY <1>5, <1>6, <1>7, Zenon DEF WithDigit

\* The digits of one byte.
ByteRead(b) ==
    LET high == WithDigit(Number(0), b \div 16)
    IN IF b % 16 = Pad THEN high ELSE WithDigit(high, b % 16)

\* decodeBCD of one byte is that.
LEMMA OneByteDecoded ==
  ASSUME NEW b \in Nat
  PROVE  decodeBCD(<<b>>) = ByteRead(b)
<1> DEFINE bcd == <<b>>
           Digits(f, i) == LET high == WithDigit(f[i - 1], bcd[i] \div 16)
                               low == bcd[i] % 16
                           IN IF low = Pad /\ i = Len(bcd) THEN high ELSE WithDigit(high, low)
           B(f) == [i \in 0 .. Len(bcd) |-> IF i = 0 THEN Number(0) ELSE Digits(f, i)]
           up == CHOOSE f : f = B(f)
           w == [i \in 0 .. 1 |-> IF i = 0 THEN Number(0) ELSE ByteRead(b)]
<1>1. decodeBCD(bcd) = up[Len(bcd)]
  BY DEF decodeBCD
<1>2. Len(bcd) = 1 /\ bcd[1] = b /\ 1 - 1 = 0 /\ 1 # 0 /\ 0 \in 0 .. 1 /\ 1 \in 0 .. 1
      /\ \A i \in 0 .. 1 : i = 0 \/ i = 1
  BY SMT
<1>3. ASSUME NEW f, f[0] = Number(0) PROVE Digits(f, 1) = ByteRead(b)
  BY <1>2, <1>3, Zenon DEF ByteRead
<1> HIDE DEF Digits
<1>4. w[0] = Number(0)
  BY <1>2, Zenon
<1>5. w = B(w)
  BY <1>2, <1>3, <1>4, Zenon
<1> HIDE DEF w
<1>6. up = B(up)
  BY <1>5, Zenon
<1> HIDE DEF up
<1>7. up[0] = Number(0) /\ up[1] = Digits(up, 1)
  BY <1>2, <1>6, SMT
<1> QED
  BY <1>1, <1>2, <1>3, <1>7, Zenon

\* A field of the clock is read back.
LEMMA FieldRead ==
  ASSUME NEW x \in Nat, x < 100
  PROVE  Field(Bcd2(x, Pad)) = x
<1> DEFINE b == Bcd2(x, Pad)
           hi == b \div 16
           lo == b % 16
<1>1. Pad \in Nat /\ Pad = 15 /\ 0 \in Nat /\ 0 < 10
  BY SMT DEF Pad
<1>2. b \in Nat
  BY <1>1, OneByte, Zenon
<1>3. decodeBCD(<<b>>) = ByteRead(b)
  BY <1>2, OneByteDecoded, Zenon
<1>4. ByteRead(b) = Number(x)
  <2>1. CASE x < 10
    <3>1. hi = x /\ lo = 15 /\ 0 * 10 + x = x
      <4>1. b = x * 16 + 15
        BY <1>1, <2>1, SMT DEF Bcd2
      <4> QED
        BY <2>1, <4>1, SMT
    <3> HIDE DEF b
    <3>2. WithDigit(Number(0), x) = Number(0 * 10 + x)
      BY <1>1, <2>1, DigitAdded, Zenon
    <3> QED
      BY <1>1, <3>1, <3>2, Zenon DEF ByteRead
  <2>2. CASE x >= 10
    <3> DEFINE h == x \div 10
               l == x % 10
    <3>1. h \in Nat /\ h < 10 /\ l \in Nat /\ l < 10 /\ h * 10 + l = x /\ 0 * 10 + h = h
      BY <2>2, SMT
    <3>2. b = h * 16 + l
      BY <2>2, SMT DEF Bcd2
    <3> HIDE DEF b, h, l
    <3>3. hi = h /\ lo = l /\ lo # 15
      BY <3>1, <3>2, SMT
    <3>4. WithDigit(Number(0), h) = Number(0 * 10 + h)
      BY <1>1, <3>1, DigitAdded, Zenon
    <3>5. WithDigit(Number(h), l) = Number(h * 10 + l)
      BY <3>1, DigitAdded, Zenon
    <3>6. WithDigit(Number(0), h) = Number(h) /\ WithDigit(Number(h), l) = Number(x)
      BY <3>1, <3>4, <3>5, Zenon
    <3> QED
      BY <1>1, <3>3, <3>6, Zenon DEF ByteRead
  <2> QED
    BY <2>1, <2>2, SMT
<1> HIDE DEF b
<1>5. Number(x).ok = TRUE /\ Number(x).x = x
  BY Zenon DEF Number
<1>6. Field(b) = x
  BY <1>3, <1>4, <1>5, Zenon DEF Field
<1> QED
  BY <1>6, Zenon DEF b

\* ReadClock returns the time that the simulator's clock showed.
LEMMA ClockRead ==
  ASSUME NEW t \in Times, NEW s, ClockOf(s, t, Pad)
  PROVE  ReadClock(s) = t
<1>1. t \in [1 .. 6 -> Nat] /\ 1949 < t[1] /\ t[1] < 2050 /\ \A i \in 2 .. 6 : t[i] < 100
  BY TimesAssumption, SMT
<1>2. /\ t[1] \in Nat /\ t[2] \in Nat /\ t[3] \in Nat /\ t[4] \in Nat /\ t[5] \in Nat /\ t[6] \in Nat
      /\ t[2] < 100 /\ t[3] < 100 /\ t[4] < 100 /\ t[5] < 100 /\ t[6] < 100
  BY <1>1, SMT
<1> DEFINE y == t[1] % 100
<1>3. y \in Nat /\ y < 100 /\ y + (IF y < 50 THEN 2000 ELSE 1900) = t[1]
  BY <1>1, <1>2, SMT
<1> HIDE DEF y
<1>4. /\ s[1] = Bcd2(y, Pad) /\ s[2] = Bcd2(t[2], Pad) /\ s[3] = Bcd2(t[3], Pad)
      /\ s[4] = Bcd2(t[4], Pad) /\ s[5] = Bcd2(t[5], Pad) /\ s[6] = Bcd2(t[6], Pad)
  BY Zenon DEF ClockOf, y
<1>5. Field(s[1]) = y
  <2>1. y \in Nat /\ y < 100
    BY <1>3
  <2> QED
    BY <1>4, <2>1, FieldRead, Zenon
<1>6. Field(s[2]) = t[2] /\ Field(s[3]) = t[3] /\ Field(s[4]) = t[4]
  BY <1>2, <1>4, FieldRead, Zenon
<1>7. Field(s[5]) = t[5] /\ Field(s[6]) = t[6]
  BY <1>2, <1>4, FieldRead, Zenon
<1> DEFINE F(i) == IF i > 1 THEN Field(s[i])
                   ELSE Field(s[1]) + (IF Field(s[1]) < 50 THEN 2000 ELSE 1900)
<1>8. ASSUME NEW i \in 1 .. 6 PROVE F(i) = t[i]
  <2>1. i = 1 \/ i = 2 \/ i = 3 \/ i = 4 \/ i = 5 \/ i = 6
    BY SMT
  <2>2. F(1) = t[1]
    BY <1>3, <1>5, SMTT(30)
  <2>3. F(2) = t[2] /\ F(3) = t[3] /\ F(4) = t[4] /\ F(5) = t[5] /\ F(6) = t[6]
    BY <1>6, <1>7, SMT
  <2> HIDE DEF F
  <2> QED
    BY <2>1, <2>2, <2>3, Zenon
<1>9. ReadClock(s) = [i \in 1 .. 6 |-> F(i)]
  BY DEF ReadClock
<1> HIDE DEF F
<1>10. t = [i \in 1 .. 6 |-> t[i]]
  <2>1. t \in [1 .. 6 -> Nat]
    BY <1>1
  <2> QED
    BY <2>1, Zenon
<1>11. [i \in 1 .. 6 |-> F(i)] = [i \in 1 .. 6 |-> t[i]]
  BY <1>8, Zenon
<1> QED
  BY <1>9, <1>10, <1>11, Zenon

=============================================================================

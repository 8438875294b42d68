---------------------------- MODULE ReadPathProofs ---------------------------
(***************************************************************************)
(* Proofs about the data path of Scheduler, for any callers, batches,      *)
(* frame lengths and answers: ReadPoints returns for each point the bytes  *)
(* its own address means, or a failure of the point's own request, its     *)
(* requests fit the frame, and decoding never panics.                      *)
(***************************************************************************)
EXTENDS Scheduler, FiniteSetTheorems, WellFoundedInduction, TLAPS

-----------------------------------------------------------------------------
(* Induction over the points of a batch.                                   *)

\* A set of naturals that is not empty has a least element.
LEMMA LeastNatural ==
  ASSUME NEW T \in SUBSET Nat, T # {}
  PROVE  \E x \in T : \A y \in T : x <= y
<1> DEFINE R == OpToRel(<, Nat)
<1>1. IsWellFoundedOn(R, Nat)
  BY NatLessThanWellFounded, Zenon
<1>2. \A x, y \in Nat : x < y => <<x, y>> \in R
  BY Zenon DEF OpToRel
<1> HIDE DEF R
<1>3. PICK x \in T : \A y \in T : ~(<<y, x>> \in R)
  BY <1>1, WFMin, Zenon
<1>4. \A y \in T : ~(y < x)
  BY <1>2, <1>3, Zenon
<1>5. \A y \in T : x <= y
  BY <1>4
<1> QED
  BY <1>5, Zenon

\* Induction on the naturals from k on, with the property given as a set.
LEMMA InductionFrom ==
  ASSUME NEW k \in Nat, NEW T, k \in T, \A n \in Nat : n >= k /\ n \in T => n + 1 \in T
  PROVE  \A n \in Nat : n >= k => n \in T
<1> DEFINE Missing == {n \in Nat : n >= k /\ n \notin T}
<1>1. SUFFICES ASSUME Missing # {} PROVE FALSE
  BY Zenon
<1>2. PICK x \in Missing : \A y \in Missing : x <= y
  BY <1>1, LeastNatural, Zenon
<1>3. x \in Nat /\ x > k /\ x \notin T
  BY <1>2
<1>4. x - 1 \in Nat /\ x - 1 >= k /\ (x - 1) + 1 = x /\ ~(x <= x - 1)
  BY <1>3
<1>5. x - 1 \in T
  BY <1>2, <1>4, Zenon
<1> QED
  BY <1>3, <1>4, <1>5, Zenon

-----------------------------------------------------------------------------
(* The data path of ReadPoints: the points of a batch.                     *)

PointsOf(b) == {b[i] : i \in Valid(b)}
AddressOf(p) == ParseAddress(p.addr).Address
GroupedPoint(b) == [point : PointsOf(b), offset : Nat]
Keys(b) == {GroupKey(p) : p \in PointsOf(b)}
Group(b) == [key : Keys(b), startAddr : Nat, count : Nat,
             points : Seq(GroupedPoint(b))]

\* A point of a word group lies in the words its group asks for.
Within(g, gp) ==
    /\ GroupKey(gp.point) = g.key
    /\ ~g.key.isBit =>
        /\ g.startAddr <= AddressOf(gp.point)
        /\ gp.offset = 2 * (AddressOf(gp.point) - g.startAddr)
        /\ AddressOf(gp.point) + WordCount(gp.point) <= g.startAddr + g.count
GroupOK(b, g) ==
    /\ g \in Group(b)
    /\ Len(g.points) >= 1
    /\ g.startAddr = AddressOf(g.points[1].point)
    /\ g.key.isBit => Len(g.points) = 1
    /\ \A i \in DOMAIN g.points : Within(g, g.points[i])
Holds(g, p) == \E i \in DOMAIN g.points : g.points[i].point = p

\* The result of a point is what the properties say of it.
Readable(p) == DataTypeSize(p.dataType) > 0 \/ IsBitPoint(p) \/ ParseAddress(p.addr).IsString
Settled(res, sp, p) ==
    /\ p.id \in DOMAIN res
    /\ res[p.id].quality = "Good" => Meant(p, res[p.id].bytes)
    /\ ParseAddress(p.addr).ok /\ Readable(p) => res[p.id].quality = "Good" \/ p.id \in sp

\* Every point of the batch is settled, or lies in a group still to be read.
Core(b, t, res, sp) ==
    /\ b \in Batches
    /\ t \in Seq(Group(b)) /\ \A j \in DOMAIN t : GroupOK(b, t[j])
    /\ DOMAIN res \subseteq {b[i].id : i \in DOMAIN b}
    /\ \A i \in DOMAIN b : (\E j \in DOMAIN t : Holds(t[j], b[i])) \/ Settled(res, sp, b[i])

\* A ReadPoints at label l: the group in hand has failed or was answered.
PathOK(l, b, t, res, d, sp) ==
    /\ Core(b, t, res, sp)
    /\ l = "idle" => t = <<>>
    /\ l \in {"lock", "sleep", "count", "send", "failed", "answered"} => t # <<>>
    /\ l = "failed" => Ids(Head(t)) \subseteq sp
    /\ l = "answered" => /\ d \in Answers(Head(t))
                         /\ d = FullAnswer(Head(t)) \/ Ids(Head(t)) \subseteq sp
    /\ l \notin {"load", "panicked"}
PathInv ==
    \A c \in Caller :
        op[c] = "read" => PathOK(pc[c], batch[c], todo[c], results[c], data[c], spoilt[c])
-----------------------------------------------------------------------------
(* Addresses and groups.                                                   *)

\* The parts of a valid address.
LEMMA Parsed ==
  ASSUME NEW a, a.dot \in Int, ParseAddress(a).ok
  PROVE  /\ ParseAddress(a).Address = a.num
         /\ ParseAddress(a).IsBit \in BOOLEAN /\ ParseAddress(a).IsString \in BOOLEAN
         /\ ParseAddress(a).IsBit => /\ ~ParseAddress(a).IsString /\ ParseAddress(a).Bit = a.dot
                                     /\ a.dot \in 0 .. WordBits - 1 /\ a.order = ""
         /\ ParseAddress(a).IsString =>
                ParseAddress(a).StringLen = a.dot /\ ~(a.dot \in 0 .. WordBits - 1 /\ a.order = "")
         /\ ~ParseAddress(a).IsBit /\ ~ParseAddress(a).IsString => a.dot = NoDot
<1> DEFINE info == GetAreaInfo(a.area, a.em)
           isString == a.order # "" \/ (a.area = "D" /\ a.dot >= WordBits)
           isBit == ~isString /\ a.dot \in 0 .. WordBits - 1
           accepted == /\ a.area \in RegexAreas
                       /\ info.ok
                       /\ \/ a.dot = NoDot
                          \/ isString /\ info.SupportString /\ a.dot > 0
                          \/ isBit /\ info.SupportBit
           parsed == [ok |-> TRUE, AreaCode |-> info.Code, Address |-> a.num,
                      IsBit |-> isBit, Bit |-> IF isBit THEN a.dot ELSE -1,
                      IsString |-> isString, StringLen |-> IF isString THEN a.dot ELSE 0,
                      Low |-> isString /\ a.order # "H"]
<1>1. ParseAddress(a) = IF ~accepted THEN Error ELSE parsed
  BY Zenon DEF ParseAddress
<1>2. /\ parsed.Address = a.num /\ parsed.IsBit = isBit /\ parsed.IsString = isString
      /\ parsed.Bit = (IF isBit THEN a.dot ELSE -1)
      /\ parsed.StringLen = (IF isString THEN a.dot ELSE 0)
  BY Zenon
<1>3. Error.ok = FALSE
  BY Zenon DEF Error
<1>4. isBit \in BOOLEAN /\ isString \in BOOLEAN
  BY Zenon
<1>5. isString => ~(a.dot \in 0 .. WordBits - 1 /\ a.order = "")
  <2>1. \A x \in Int : x >= WordBits => ~(x \in 0 .. WordBits - 1)
    BY ByteBitsAssumption DEF WordBits
  <2> QED
    BY <2>1, Zenon
<1>6. isBit => ~isString /\ a.dot \in 0 .. WordBits - 1 /\ a.order = ""
  BY Zenon
<1>7. accepted => a.dot = NoDot \/ isString \/ isBit
  BY Zenon
<1> HIDE DEF isString, isBit, accepted, parsed
<1>8. accepted /\ ParseAddress(a) = parsed
  BY <1>1, <1>3, Zenon
<1> QED
  BY <1>2, <1>4, <1>5, <1>6, <1>7, <1>8, Zenon

\* The size of a type is a natural number.
LEMMA SizeNat == \A t : DataTypeSize(t) \in Nat
BY Zenon DEF DataTypeSize

\* The words of a supported point.
LEMMA PointFacts ==
  ASSUME NEW b \in Batches, NEW p \in PointsOf(b)
  PROVE  /\ ParseAddress(p.addr).ok /\ Supported(p)
         /\ AddressOf(p) \in Nat /\ WordCount(p) \in Nat /\ AddressOf(p) + WordCount(p) < U16
         /\ TypeSize(p) \in Nat /\ TypeSize(p) <= 2 * WordCount(p)
<1>1. ParseAddress(p.addr).ok /\ Supported(p)
  BY BatchesAssumption DEF PointsOf, Valid
<1>2. p.addr.num \in Nat /\ p.addr.dot \in Int /\ AddressOf(p) + WordCount(p) < U16
  BY <1>1, SMTT(20) DEF Supported, AddressOf
<1>3. AddressOf(p) \in Nat
  BY <1>1, <1>2, Parsed, Zenon DEF AddressOf
<1>4. ParseAddress(p.addr).IsString => ParseAddress(p.addr).StringLen \in Nat
  <2>1. ParseAddress(p.addr).IsString =>
            ParseAddress(p.addr).StringLen = p.addr.dot /\ ~ParseAddress(p.addr).IsBit
    BY <1>1, <1>2, Parsed, Zenon
  <2>2. ParseAddress(p.addr).IsString => ParseAddress(p.addr).StringLen > 0
    BY <1>1, <2>1, Zenon DEF Supported
  <2> QED
    BY <1>2, <2>1, <2>2
<1>5. TypeSize(p) \in Nat
  BY <1>4, SizeNat, Zenon DEF TypeSize
<1>6. WordCount(p) \in Nat /\ TypeSize(p) <= 2 * WordCount(p)
  BY <1>5, SMTT(20) DEF WordCount
<1> QED
  BY <1>1, <1>2, <1>3, <1>5, <1>6, SMTT(20)

\* Records of groups.
LEMMA GroupRecord ==
  ASSUME NEW b, NEW k \in Keys(b), NEW a \in Nat, NEW n \in Nat,
         NEW s \in Seq(GroupedPoint(b))
  PROVE  [key |-> k, startAddr |-> a, count |-> n, points |-> s] \in Group(b)
<1>1. ASSUME NEW K, NEW S, k \in K, s \in S
      PROVE  [key |-> k, startAddr |-> a, count |-> n, points |-> s]
                 \in [key : K, startAddr : Nat, count : Nat, points : S]
  BY <1>1, Zenon
<1> QED
  BY <1>1, Zenon DEF Group

\* Numbers below 65536 are kept.
LEMMA SmallNumbers == U16 \in Nat /\ \A x \in Nat : x < U16 => x % U16 = x
BY WidthAssumption

\* A new group holds its point.
LEMMA NewGroupOK ==
  ASSUME NEW b \in Batches, NEW p \in PointsOf(b)
  PROVE  /\ GroupOK(b, NewGroup(p)) /\ NewGroup(p).points[1].point = p
         /\ Holds(NewGroup(p), p)
         /\ NewGroup(p).count = WordCount(p) \/ NewGroup(p).count = 1
<1> DEFINE g == NewGroup(p)
           gp == [point |-> p, offset |-> 0]
<1>1. /\ AddressOf(p) \in Nat /\ WordCount(p) \in Nat /\ U16 \in Nat
      /\ AddressOf(p) + WordCount(p) < U16
  BY PointFacts, WidthAssumption, Zenon
<1>2. AddressOf(p) % U16 = AddressOf(p) /\ WordCount(p) % U16 = WordCount(p)
  BY <1>1, SmallNumbers
<1>3. g = [key |-> GroupKey(p), startAddr |-> AddressOf(p),
           count |-> IF IsBitPoint(p) THEN 1 ELSE WordCount(p), points |-> <<gp>>]
  BY <1>2, Zenon DEF NewGroup, AddressOf
<1>4. /\ g.key = GroupKey(p) /\ g.startAddr = AddressOf(p) /\ g.points = <<gp>>
      /\ g.count = IF IsBitPoint(p) THEN 1 ELSE WordCount(p)
  BY <1>3
<1>5. GroupKey(p).isBit = IsBitPoint(p)
  BY Zenon DEF GroupKey
<1>6. gp \in GroupedPoint(b) /\ gp.point = p /\ gp.offset = 0
  BY Zenon DEF GroupedPoint
<1> HIDE DEF gp
<1>7. /\ <<gp>> \in Seq(GroupedPoint(b)) /\ Len(<<gp>>) = 1 /\ <<gp>>[1] = gp
      /\ DOMAIN <<gp>> = {1}
  BY <1>6
<1>8. g.count \in Nat
  BY <1>1, <1>4
<1>9. g \in Group(b)
  <2>1. g = [key |-> GroupKey(p), startAddr |-> AddressOf(p), count |-> g.count, points |-> <<gp>>]
    BY <1>3, <1>4, Zenon
  <2>2. GroupKey(p) \in Keys(b)
    BY Zenon DEF Keys
  <2> HIDE DEF g
  <2>3. [key |-> GroupKey(p), startAddr |-> AddressOf(p), count |-> g.count, points |-> <<gp>>]
            \in Group(b)
    BY <1>1, <1>7, <1>8, <2>2, GroupRecord, Zenon
  <2> QED
    BY <2>1, <2>3, Zenon
<1> HIDE DEF g
<1>10. Within(g, gp)
  <2>1. ~g.key.isBit => g.count = WordCount(p)
    BY <1>4, <1>5, Zenon
  <2>2. ~g.key.isBit => /\ g.startAddr <= AddressOf(p) /\ gp.offset = 2 * (AddressOf(p) - g.startAddr)
                        /\ AddressOf(p) + WordCount(p) <= g.startAddr + g.count
    BY <1>1, <1>4, <1>6, <2>1
  <2> QED
    BY <1>4, <1>6, <2>2, Zenon DEF Within
<1>11. GroupOK(b, g)
  <2>1. Len(g.points) = 1 /\ g.points[1] = gp /\ DOMAIN g.points = {1} /\ Len(g.points) >= 1
    BY <1>4, <1>7
  <2> QED
    BY <1>4, <1>6, <1>9, <1>10, <2>1, Zenon DEF GroupOK
<1> QED
  BY <1>4, <1>6, <1>7, <1>11, Zenon DEF g, Holds

\* The fields of a group that a point has joined.
LEMMA JoinFields ==
  ASSUME NEW b \in Batches, NEW p \in PointsOf(b), NEW g, GroupOK(b, g),
         g.startAddr <= AddressOf(p)
  PROVE  /\ Join(g, p) \in Group(b)
         /\ Join(g, p).key = g.key /\ Join(g, p).startAddr = g.startAddr
         /\ Join(g, p).count = IF AddressOf(p) + WordCount(p) > g.startAddr + g.count
                               THEN AddressOf(p) + WordCount(p) - g.startAddr ELSE g.count
         /\ Join(g, p).points =
                Append(g.points, [point |-> p, offset |-> (AddressOf(p) - g.startAddr) * 2])
<1> DEFINE n == (IF AddressOf(p) + WordCount(p) > g.startAddr + g.count
                 THEN AddressOf(p) + WordCount(p) - g.startAddr ELSE g.count)
           gp == [point |-> p, offset |-> (AddressOf(p) - g.startAddr) * 2]
<1>1. /\ AddressOf(p) \in Nat /\ WordCount(p) \in Nat /\ U16 \in Nat
      /\ AddressOf(p) + WordCount(p) < U16
  BY PointFacts, WidthAssumption, SMTT(20)
<1>2. /\ g \in Group(b) /\ g.startAddr \in Nat /\ g.count \in Nat
      /\ g.points \in Seq(GroupedPoint(b)) /\ g.key \in Keys(b)
  BY Zenon DEF GroupOK, Group
<1>3. (AddressOf(p) + WordCount(p) - g.startAddr) % U16 = AddressOf(p) + WordCount(p) - g.startAddr
  <2>1. /\ AddressOf(p) + WordCount(p) - g.startAddr \in Nat
        /\ AddressOf(p) + WordCount(p) - g.startAddr < U16
    BY <1>1, <1>2
  <2> QED
    BY <2>1, SmallNumbers, Zenon
<1>4. n \in Nat
  BY <1>1, <1>2
<1>5. gp \in GroupedPoint(b)
  BY <1>1, <1>2, SMTT(20) DEF GroupedPoint
<1>6. Append(g.points, gp) \in Seq(GroupedPoint(b))
  BY <1>2, <1>5, SMTT(20)
<1>7. ExtendedCount(g, p) = n
  <2>1. CASE AddressOf(p) + WordCount(p) > g.startAddr + g.count
    <3>1. ExtendedCount(g, p) = (AddressOf(p) + WordCount(p) - g.startAddr) % U16
      BY <1>1, <1>2, <2>1, SMT, SMTT(20) DEF ExtendedCount, AddressOf
    <3>2. n = AddressOf(p) + WordCount(p) - g.startAddr
      BY <2>1, Zenon
    <3> QED
      BY <1>3, <3>1, <3>2, Zenon
  <2>2. CASE ~(AddressOf(p) + WordCount(p) > g.startAddr + g.count)
    BY <2>2, Zenon DEF ExtendedCount, AddressOf
  <2> QED
    BY <2>1, <2>2, Zenon
<1>8. Join(g, p) = [key |-> g.key, startAddr |-> g.startAddr, count |-> ExtendedCount(g, p),
                    points |-> Append(g.points, gp)]
  BY Zenon DEF Join, AddressOf
<1> HIDE DEF n, gp
<1>9. /\ Join(g, p).key = g.key /\ Join(g, p).startAddr = g.startAddr
      /\ Join(g, p).count = n /\ Join(g, p).points = Append(g.points, gp)
  BY <1>7, <1>8
<1>10. Join(g, p) \in Group(b)
  <2>1. [key |-> g.key, startAddr |-> g.startAddr, count |-> n, points |-> Append(g.points, gp)]
            \in Group(b)
    BY <1>2, <1>4, <1>6, GroupRecord, Zenon
  <2> QED
    BY <1>7, <1>8, <2>1, Zenon
<1> QED
  BY <1>9, <1>10, Zenon DEF n, gp

\* A point that joins a group lies in it, and so do the ones before it.
LEMMA JoinOK ==
  ASSUME NEW b \in Batches, NEW p \in PointsOf(b), NEW g, GroupOK(b, g),
         g.startAddr <= AddressOf(p), GroupKey(p) = g.key, ~g.key.isBit
  PROVE  /\ GroupOK(b, Join(g, p)) /\ Join(g, p).points[1] = g.points[1]
         /\ Holds(Join(g, p), p) /\ \A q : Holds(g, q) => Holds(Join(g, p), q)
<1> DEFINE h == Join(g, p)
           gp == [point |-> p, offset |-> (AddressOf(p) - g.startAddr) * 2]
<1>1. /\ AddressOf(p) \in Nat /\ WordCount(p) \in Nat
  BY PointFacts, SMTT(20)
<1>2. /\ g.startAddr \in Nat /\ g.count \in Nat /\ g.points \in Seq(GroupedPoint(b))
      /\ Len(g.points) \in Nat /\ Len(g.points) >= 1
  BY DEF GroupOK, Group
<1>3. /\ h \in Group(b) /\ h.key = g.key /\ h.startAddr = g.startAddr
      /\ h.count = IF AddressOf(p) + WordCount(p) > g.startAddr + g.count
                   THEN AddressOf(p) + WordCount(p) - g.startAddr ELSE g.count
      /\ h.points = Append(g.points, gp)
  BY JoinFields, Zenon
<1>4. gp \in GroupedPoint(b) /\ gp.point = p /\ gp.offset = 2 * (AddressOf(p) - g.startAddr)
  BY <1>1, <1>2, SMTT(20) DEF GroupedPoint
<1> HIDE DEF h, gp
<1>5. /\ Len(h.points) = Len(g.points) + 1 /\ h.points[Len(g.points) + 1] = gp
      /\ \A i \in 1 .. Len(g.points) : h.points[i] = g.points[i]
  BY <1>2, <1>3, <1>4, SMTT(20)
<1>6. /\ DOMAIN g.points = 1 .. Len(g.points) /\ DOMAIN h.points = 1 .. Len(g.points) + 1
      /\ 1 \in 1 .. Len(g.points) /\ Len(g.points) + 1 \in 1 .. Len(g.points) + 1
      /\ \A i \in 1 .. Len(g.points) + 1 : i = Len(g.points) + 1 \/ i \in 1 .. Len(g.points)
      /\ \A i \in 1 .. Len(g.points) : i \in 1 .. Len(g.points) + 1
  BY <1>2, <1>3, <1>4, <1>5, SMTT(20)
<1>7. /\ h.count \in Nat /\ h.count >= g.count
      /\ AddressOf(p) + WordCount(p) <= h.startAddr + h.count
  BY <1>1, <1>2, <1>3, SMTT(20)
<1>8. Within(h, gp)
  BY <1>3, <1>4, <1>7, Zenon DEF Within
<1>9. ASSUME NEW i \in 1 .. Len(g.points) PROVE Within(h, g.points[i])
  <2> DEFINE q == g.points[i].point
  <2>0. g.points[i] \in GroupedPoint(b)
    BY <1>2, <1>9
  <2>1. q \in PointsOf(b)
    BY <2>0, SMTT(20) DEF GroupedPoint
  <2>2. AddressOf(q) \in Nat /\ WordCount(q) \in Nat
    BY <2>1, PointFacts, SMTT(20)
  <2>3. Within(g, g.points[i])
    BY <1>6, <1>9, SMTT(20) DEF GroupOK
  <2>4. AddressOf(q) + WordCount(q) <= g.startAddr + g.count
    BY <2>3, SMTT(20) DEF Within
  <2>5. AddressOf(q) + WordCount(q) <= h.startAddr + h.count
    BY <1>2, <1>3, <1>7, <2>2, <2>4
  <2> QED
    BY <1>3, <2>3, <2>5, Zenon DEF Within
<1>10. \A i \in DOMAIN h.points : Within(h, h.points[i])
  BY <1>5, <1>6, <1>8, <1>9, Zenon
<1>11. Len(h.points) >= 1 /\ h.points[1] = g.points[1]
  BY <1>2, <1>5, SMTT(20)
<1>12. GroupOK(b, h)
  BY <1>3, <1>10, <1>11, Zenon DEF GroupOK
<1>13. Holds(h, p)
  BY <1>4, <1>5, <1>6, Zenon DEF Holds
<1>14. ASSUME NEW q, Holds(g, q) PROVE Holds(h, q)
  BY <1>5, <1>6, <1>14, Zenon DEF Holds
<1> QED
  BY <1>11, <1>12, <1>13, <1>14, Zenon DEF h

\* Only a group that starts with a point longer than the frame is longer.
FitsFrame(g, m) == g.count <= m \/ g.count = WordCount(g.points[1].point)

\* A point joins a group only if the group then fits the frame or stays as
\* long as it was.
LEMMA JoinFits ==
  ASSUME NEW b \in Batches, NEW p \in PointsOf(b), NEW g, GroupOK(b, g),
         g.startAddr <= AddressOf(p), NEW m \in Nat, Joins(p, g, m), FitsFrame(g, m)
  PROVE  FitsFrame(Join(g, p), m)
<1>1. /\ AddressOf(p) \in Nat /\ WordCount(p) \in Nat
  BY PointFacts, Zenon
<1>2. g.startAddr \in Nat /\ g.count \in Nat
  BY Zenon DEF GroupOK, Group
<1>3. Join(g, p).count = IF AddressOf(p) + WordCount(p) > g.startAddr + g.count
                         THEN AddressOf(p) + WordCount(p) - g.startAddr ELSE g.count
  BY JoinFields, Zenon
<1>4. (AddressOf(p) + WordCount(p) - g.startAddr) * 2 <= m * 2
      /\ GroupKey(p) = g.key /\ ~g.key.isBit
  BY Zenon DEF Joins, AddressOf
<1>5. Join(g, p).points[1] = g.points[1]
  BY <1>4, JoinOK, Zenon
<1>6. Join(g, p).count = g.count \/ Join(g, p).count <= m
  BY <1>1, <1>2, <1>3, <1>4
<1> QED
  BY <1>5, <1>6, Zenon DEF FitsFrame

-----------------------------------------------------------------------------
(* The order in which groupPoints takes the points.                        *)

Ordered(b, o) ==
    /\ Len(o) \in Nat /\ \A k \in 1 .. Len(o) : o[k] \in Valid(b)
    /\ \A i \in Valid(b) : \E k \in 1 .. Len(o) : o[k] = i
    /\ \A i, k \in 1 .. Len(o) : i < k /\ GroupKey(b[o[i]]) = GroupKey(b[o[k]]) =>
           AddressOf(b[o[i]]) <= AddressOf(b[o[k]])

\* A sequence of all the elements of a finite set has each of them.
LEMMA AllTaken ==
  ASSUME NEW S, IsFiniteSet(S), NEW o \in Bijection(1 .. Cardinality(S), S)
  PROVE  /\ Len(o) \in Nat /\ DOMAIN o = 1 .. Len(o) /\ \A k \in 1 .. Len(o) : o[k] \in S
         /\ \A x \in S : \E k \in 1 .. Len(o) : o[k] = x
<1> DEFINE n == Cardinality(S)
<1>1. n \in Nat
  BY FS_CardinalityType, Zenon
<1>2. o \in [1 .. n -> S] /\ \A x \in S : \E k \in 1 .. n : o[k] = x
  BY Zenon DEF Bijection, Injection, Surjection
<1> HIDE DEF n
<1>3. Len(o) = n /\ DOMAIN o = 1 .. n
  <2>1. o \in Seq(S)
    BY <1>1, <1>2
  <2> QED
    BY <1>1, <1>2, <2>1
<1> QED
  BY <1>1, <1>2, <1>3, Zenon

\* What groupPoints relies on of the order it takes the points in.
LEMMA OrdersOrdered ==
  ASSUME NEW b \in Batches, NEW o \in TakingOrders(b)
  PROVE  Ordered(b, o)
<1>1. IsFiniteSet(Valid(b))
  <2>1. DOMAIN b = 1 .. Len(b) /\ Len(b) \in Nat
    BY BatchesAssumption, Zenon
  <2>2. IsFiniteSet(1 .. Len(b))
    BY <2>1, FS_Interval
  <2>3. Valid(b) \in SUBSET (1 .. Len(b))
    BY <2>1, Zenon DEF Valid
  <2> QED
    BY <2>2, <2>3, FS_Subset, Zenon
<1>2. /\ o \in Bijection(1 .. Cardinality(Valid(b)), Valid(b))
      /\ \A i, j \in DOMAIN o : i < j /\ GroupKey(b[o[i]]) = GroupKey(b[o[j]]) =>
             NotAfter(b[o[i]], b[o[j]])
  BY Zenon DEF TakingOrders
<1>3. /\ Len(o) \in Nat /\ DOMAIN o = 1 .. Len(o) /\ \A k \in 1 .. Len(o) : o[k] \in Valid(b)
      /\ \A x \in Valid(b) : \E k \in 1 .. Len(o) : o[k] = x
  BY <1>1, <1>2, AllTaken, SMTT(20)
<1>4. ASSUME NEW i \in 1 .. Len(o), NEW k \in 1 .. Len(o), NotAfter(b[o[i]], b[o[k]])
      PROVE  AddressOf(b[o[i]]) <= AddressOf(b[o[k]])
  <2>1. b[o[i]] \in PointsOf(b) /\ b[o[k]] \in PointsOf(b)
    BY <1>3, SMTT(20) DEF PointsOf
  <2>2. AddressOf(b[o[i]]) \in Nat /\ AddressOf(b[o[k]]) \in Nat
    BY <2>1, PointFacts, Zenon
  <2>3. AddressOf(b[o[i]]) < AddressOf(b[o[k]]) \/ AddressOf(b[o[i]]) = AddressOf(b[o[k]])
    BY <1>4, Zenon DEF NotAfter, AddressOf
  <2> QED
    BY <2>2, <2>3, SMTT(20)
<1> QED
  BY <1>2, <1>3, <1>4, Zenon DEF Ordered

-----------------------------------------------------------------------------
(* groupPoints.                                                            *)

\* The groups after the first n points of the order.
Grouped(b, o, m, n, gs) ==
    /\ gs \in Seq(Group(b))
    /\ \A j \in DOMAIN gs : GroupOK(b, gs[j]) /\ FitsFrame(gs[j], m)
    /\ \A k \in 1 .. n : \E j \in DOMAIN gs : Holds(gs[j], b[o[k]])
    /\ gs # <<>> => \E k \in 1 .. n : gs[Len(gs)].points[1].point = b[o[k]]

\* t is s with x in the place of its last element.
Replaced(S, s, x, t) ==
    /\ t \in Seq(S) /\ t # <<>> /\ Len(t) = Len(s) /\ DOMAIN t = DOMAIN s
    /\ t[Len(s)] = x /\ \A j \in DOMAIN s : j = Len(s) \/ t[j] = s[j]

\* A sequence whose last element is replaced.
LEMMA LastReplaced ==
  ASSUME NEW S, NEW s \in Seq(S), s # <<>>, NEW x \in S
  PROVE  Replaced(S, s, x, [s EXCEPT ![Len(s)] = x])
<1> DEFINE n == Len(s)
           t == [s EXCEPT ![n] = x]
<1>1. n \in Nat /\ n >= 1 /\ DOMAIN s = 1 .. n /\ n \in DOMAIN s /\ s \in [1 .. n -> S]
  OBVIOUS
<1> HIDE DEF n
<1>2. /\ t \in [1 .. n -> S] /\ DOMAIN t = DOMAIN s /\ t[n] = x
      /\ \A j \in DOMAIN s : j = n \/ t[j] = s[j]
  BY <1>1, Zenon
<1> HIDE DEF t
<1>3. t \in Seq(S)
  BY <1>1, <1>2
<1>4. Len(t) = n /\ t # <<>>
  BY <1>1, <1>2, <1>3
<1> QED
  BY <1>2, <1>3, <1>4, Zenon DEF Replaced, n, t

\* A new group is no longer than its point, and a bit group has one bit.
LEMMA NewGroupFits ==
  ASSUME NEW b \in Batches, NEW p \in PointsOf(b), NEW m \in Nat \ {0}
  PROVE  FitsFrame(NewGroup(p), m)
<1>1. /\ NewGroup(p).points[1].point = p
      /\ NewGroup(p).count = WordCount(p) \/ NewGroup(p).count = 1
  BY NewGroupOK, Zenon
<1>2. 1 <= m
  BY SMTT(20)
<1> QED
  BY <1>1, <1>2, Zenon DEF FitsFrame

\* A step of groupPoints.
LEMMA AddPointGrouped ==
  ASSUME NEW b \in Batches, NEW o, Ordered(b, o), NEW m \in Nat \ {0},
         NEW n \in 1 .. Len(o), NEW gs, Grouped(b, o, m, n - 1, gs)
  PROVE  Grouped(b, o, m, n, AddPoint(gs, b[o[n]], m))
<1> DEFINE p == b[o[n]]
           hs == AddPoint(gs, p, m)
<1>1. n \in Nat /\ n >= 1 /\ Len(o) \in Nat
  BY DEF Ordered
<1>2. p \in PointsOf(b)
  BY Zenon DEF Ordered, PointsOf
<1>3. /\ n \in 1 .. n /\ \A k \in 1 .. n : k = n \/ k \in 1 .. n - 1
      /\ \A k \in 1 .. n - 1 : k \in 1 .. n /\ k \in 1 .. Len(o) /\ k < n
  BY <1>1
<1>4. /\ gs \in Seq(Group(b)) /\ DOMAIN gs = 1 .. Len(gs) /\ Len(gs) \in Nat
      /\ \A j \in DOMAIN gs : GroupOK(b, gs[j]) /\ FitsFrame(gs[j], m)
      /\ \A k \in 1 .. n - 1 : \E j \in DOMAIN gs : Holds(gs[j], b[o[k]])
  BY DEF Grouped
<1> HIDE DEF p
<1>5. CASE gs # <<>> /\ Joins(p, gs[Len(gs)], m)
  <2> DEFINE g == gs[Len(gs)]
             h == Join(g, p)
  <2>1. hs = [gs EXCEPT ![Len(gs)] = h]
    BY <1>5, Zenon DEF AddPoint
  <2>2. Len(gs) \in DOMAIN gs /\ g = gs[Len(gs)]
    BY <1>4, <1>5
  <2>3. GroupOK(b, g) /\ FitsFrame(g, m)
    BY <1>4, <2>2, Zenon
  <2>4. PICK k \in 1 .. n - 1 : g.points[1].point = b[o[k]]
    BY <1>5, <2>2, Zenon DEF Grouped
  <2>5. GroupKey(p) = g.key /\ ~g.key.isBit
    BY <1>5, Zenon DEF Joins
  <2>6. g.startAddr <= AddressOf(p)
    <3>1. GroupKey(g.points[1].point) = g.key /\ g.startAddr = AddressOf(g.points[1].point)
      <4>1. 1 \in DOMAIN g.points
        BY <2>3, SMTT(30) DEF GroupOK, Group
      <4> QED
        BY <2>3, <4>1, Zenon DEF GroupOK, Within
    <3>2. k \in 1 .. Len(o) /\ k < n /\ GroupKey(b[o[k]]) = GroupKey(b[o[n]])
      BY <1>3, <2>4, <2>5, <3>1, Zenon DEF p
    <3>3. AddressOf(b[o[k]]) <= AddressOf(b[o[n]])
      BY <3>2, Zenon DEF Ordered
    <3>4. g.startAddr = AddressOf(b[o[k]])
      BY <2>4, <3>1, Zenon
    <3> QED
      BY <3>3, <3>4, Zenon DEF p
  <2> HIDE DEF h, g
  <2>7. /\ GroupOK(b, h) /\ h.points[1] = g.points[1] /\ Holds(h, p)
        /\ \A q : Holds(g, q) => Holds(h, q)
    BY <1>2, <2>3, <2>5, <2>6, JoinOK, Zenon DEF h
  <2>8. FitsFrame(h, m)
    BY <1>2, <1>5, <2>3, <2>6, JoinFits, Zenon DEF h, g
  <2>9. h \in Group(b)
    BY <2>7, Zenon DEF GroupOK
  <2> HIDE DEF hs
  <2>10. /\ hs \in Seq(Group(b)) /\ hs # <<>> /\ Len(hs) = Len(gs) /\ DOMAIN hs = DOMAIN gs
         /\ hs[Len(gs)] = h /\ \A j \in DOMAIN gs : j = Len(gs) \/ hs[j] = gs[j]
    <3>1. Replaced(Group(b), gs, h, [gs EXCEPT ![Len(gs)] = h])
      BY <1>4, <1>5, <2>9, LastReplaced, Zenon
    <3> QED
      BY <2>1, <3>1, Zenon DEF Replaced
  <2>11. \A j \in DOMAIN hs : GroupOK(b, hs[j]) /\ FitsFrame(hs[j], m)
    BY <1>4, <2>7, <2>8, <2>10, Zenon
  <2>12. ASSUME NEW i \in 1 .. n PROVE \E j \in DOMAIN hs : Holds(hs[j], b[o[i]])
    <3>1. CASE i = n
      BY <2>2, <2>7, <2>10, <3>1, Zenon DEF p
    <3>2. CASE i \in 1 .. n - 1
      <4>1. PICK j \in DOMAIN gs : Holds(gs[j], b[o[i]])
        BY <1>4, <3>2, Zenon
      <4> QED
        BY <2>2, <2>7, <2>10, <4>1, Zenon
    <3> QED
      BY <1>3, <3>1, <3>2, Zenon
  <2>13. hs[Len(hs)].points[1].point = b[o[k]] /\ k \in 1 .. n
    BY <1>3, <2>4, <2>7, <2>10, Zenon
  <2> QED
    BY <2>10, <2>11, <2>12, <2>13, Zenon DEF Grouped, hs, p
<1>6. CASE ~(gs # <<>> /\ Joins(p, gs[Len(gs)], m))
  <2> DEFINE h == NewGroup(p)
  <2>1. hs = Append(gs, h)
    BY <1>6, Zenon DEF AddPoint
  <2>2. GroupOK(b, h) /\ FitsFrame(h, m) /\ h.points[1].point = p /\ Holds(h, p)
    BY <1>2, NewGroupOK, NewGroupFits, Zenon
  <2> HIDE DEF h, hs
  <2>3. h \in Group(b)
    BY <2>2, Zenon DEF GroupOK
  <2>4. /\ hs \in Seq(Group(b)) /\ Len(hs) = Len(gs) + 1 /\ hs[Len(gs) + 1] = h
        /\ \A j \in 1 .. Len(gs) : hs[j] = gs[j]
    BY <1>4, <2>1, <2>3, SMTT(20)
  <2>5. /\ DOMAIN hs = 1 .. Len(gs) + 1 /\ Len(gs) + 1 \in 1 .. Len(gs) + 1
        /\ \A j \in 1 .. Len(gs) + 1 : j = Len(gs) + 1 \/ j \in 1 .. Len(gs)
        /\ \A j \in 1 .. Len(gs) : j \in 1 .. Len(gs) + 1
    BY <1>4, <2>4
  <2>6. \A j \in DOMAIN hs : GroupOK(b, hs[j]) /\ FitsFrame(hs[j], m)
    BY <1>4, <2>2, <2>4, <2>5, Zenon
  <2>7. ASSUME NEW i \in 1 .. n PROVE \E j \in DOMAIN hs : Holds(hs[j], b[o[i]])
    <3>1. CASE i = n
      BY <2>2, <2>4, <2>5, <3>1, Zenon DEF p
    <3>2. CASE i \in 1 .. n - 1
      <4>1. PICK j \in DOMAIN gs : Holds(gs[j], b[o[i]])
        BY <1>4, <3>2, Zenon
      <4> QED
        BY <1>4, <2>4, <2>5, <4>1, Zenon
    <3> QED
      BY <1>3, <3>1, <3>2, Zenon
  <2>8. hs[Len(hs)].points[1].point = b[o[n]]
    BY <2>2, <2>4, Zenon DEF p
  <2> QED
    BY <1>3, <2>4, <2>6, <2>7, <2>8, Zenon DEF Grouped, hs, p
<1> QED
  BY <1>5, <1>6, Zenon DEF p

\* f holds the groups after each of the first n points of the order.
Taken(f, b, o, m, n) ==
    f = [k \in 0 .. n |-> IF k = 0 THEN <<>> ELSE AddPoint(f[k - 1], b[o[k]], m)]

\* There are such groups: the loop of groupPoints is well defined.
LEMMA TakenExist ==
  ASSUME NEW b, NEW o, NEW m
  PROVE  \A n \in Nat : \E f : Taken(f, b, o, m, n)
<1> DEFINE T == {n \in Nat : \E f : Taken(f, b, o, m, n)}
<1>1. 0 \in T
  <2> DEFINE f == [k \in 0 .. 0 |-> <<>>]
  <2>1. \A k \in 0 .. 0 : k = 0
    OBVIOUS
  <2>2. f = [k \in 0 .. 0 |-> IF k = 0 THEN <<>> ELSE AddPoint(f[k - 1], b[o[k]], m)]
    <3> HIDE DEF f
    <3>1. f = [k \in 0 .. 0 |-> <<>>]
      BY Zenon DEF f
    <3> QED
      BY <2>1, <3>1, Zenon
  <2> QED
    BY <2>2, Zenon DEF Taken
<1>2. ASSUME NEW n \in Nat, n >= 0, n \in T PROVE n + 1 \in T
  <2>1. PICK f : Taken(f, b, o, m, n)
    BY <1>2, SMTT(20)
  <2> DEFINE last == AddPoint(f[n], b[o[n + 1]], m)
             g == [k \in 0 .. n + 1 |-> IF k = n + 1 THEN last ELSE f[k]]
  <2>2. ASSUME NEW k \in 0 .. n + 1
        PROVE  g[k] = IF k = 0 THEN <<>> ELSE AddPoint(g[k - 1], b[o[k]], m)
    <3>1. CASE k = n + 1
      <4>1. g[k] = last /\ k # 0 /\ k - 1 = n /\ n \in 0 .. n + 1 /\ n # n + 1
        BY <1>2, <3>1
      <4>2. g[n] = f[n]
        BY <4>1, Zenon
      <4> HIDE DEF g
      <4> QED
        BY <3>1, <4>1, <4>2, Zenon
    <3>2. CASE k # n + 1
      <4>1. k \in 0 .. n /\ g[k] = f[k]
        BY <3>2
      <4>2. f[k] = IF k = 0 THEN <<>> ELSE AddPoint(f[k - 1], b[o[k]], m)
        BY <2>1, <4>1, Zenon DEF Taken
      <4>3. k # 0 => k - 1 \in 0 .. n + 1 /\ k - 1 # n + 1
        BY <4>1
      <4>4. k # 0 => g[k - 1] = f[k - 1]
        BY <4>3, Zenon
      <4> HIDE DEF g
      <4> QED
        BY <4>1, <4>2, <4>4, Zenon
    <3> QED
      BY <3>1, <3>2, SMTT(20)
  <2>3. g = [k \in 0 .. n + 1 |-> g[k]]
    BY Zenon
  <2> HIDE DEF g
  <2>4. Taken(g, b, o, m, n + 1)
    BY <2>2, <2>3, Zenon DEF Taken
  <2> QED
    BY <2>4, n + 1 \in Nat, Zenon
<1> HIDE DEF T
<1>3. \A n \in Nat : n >= 0 => n \in T
  BY <1>1, <1>2, InductionFrom, Zenon
<1> QED
  BY <1>3 DEF T

\* groupPoints returns the last of them.
LEMMA GroupsTaken ==
  ASSUME NEW b, NEW o, NEW m, Len(o) \in Nat
  PROVE  \E f : Taken(f, b, o, m, Len(o)) /\ groupPoints(b, o, m) = f[Len(o)]
<1> DEFINE h == CHOOSE f : Taken(f, b, o, m, Len(o))
<1>1. \E f : Taken(f, b, o, m, Len(o))
  BY TakenExist, Zenon
<1>2. Taken(h, b, o, m, Len(o))
  BY <1>1, Zenon
<1>3. groupPoints(b, o, m) = h[Len(o)]
  BY Zenon DEF groupPoints, Taken
<1> QED
  BY <1>2, <1>3, Zenon

\* No points make no groups.
LEMMA NoneGrouped == ASSUME NEW b, NEW o, NEW m PROVE Grouped(b, o, m, 0, <<>>)
BY DEF Grouped

\* The groups of a batch hold all its valid points.
LEMMA GroupsOK ==
  ASSUME NEW b \in Batches, NEW o \in TakingOrders(b), NEW m \in Nat \ {0}
  PROVE  Grouped(b, o, m, Len(o), groupPoints(b, o, m)) /\ Ordered(b, o)
<1>1. Ordered(b, o)
  BY OrdersOrdered, Zenon
<1>2. Len(o) \in Nat
  BY <1>1, Zenon DEF Ordered
<1>3. PICK f : Taken(f, b, o, m, Len(o)) /\ groupPoints(b, o, m) = f[Len(o)]
  BY <1>2, GroupsTaken, Zenon
<1>4. /\ f[0] = <<>>
      /\ \A k \in 1 .. Len(o) : f[k] = AddPoint(f[k - 1], b[o[k]], m)
  <2>1. 0 \in 0 .. Len(o) /\ \A k \in 1 .. Len(o) : k \in 0 .. Len(o) /\ k # 0
    BY <1>2
  <2>2. \A k \in 0 .. Len(o) : f[k] = IF k = 0 THEN <<>> ELSE AddPoint(f[k - 1], b[o[k]], m)
    BY <1>3, Zenon DEF Taken
  <2> QED
    BY <2>1, <2>2, Zenon
<1> DEFINE T == {n \in Nat : n <= Len(o) => Grouped(b, o, m, n, f[n])}
<1>5. 0 \in T
  BY <1>4, NoneGrouped, Zenon
<1>6. ASSUME NEW n \in Nat, n >= 0, n \in T PROVE n + 1 \in T
  <2>1. SUFFICES ASSUME n + 1 <= Len(o) PROVE Grouped(b, o, m, n + 1, f[n + 1])
    BY <1>6
  <2>2. n <= Len(o) /\ n + 1 \in 1 .. Len(o) /\ (n + 1) - 1 = n
    BY <1>2, <2>1
  <2>3. Grouped(b, o, m, (n + 1) - 1, f[n])
    BY <1>6, <2>2, Zenon
  <2>4. f[n + 1] = AddPoint(f[n], b[o[n + 1]], m)
    BY <1>4, <2>2, Zenon
  <2>5. Grouped(b, o, m, n + 1, AddPoint(f[n], b[o[n + 1]], m))
    BY <1>1, <2>2, <2>3, AddPointGrouped, Zenon
  <2> QED
    BY <2>4, <2>5, Zenon
<1> HIDE DEF T
<1>7. \A n \in Nat : n >= 0 => n \in T
  BY <1>5, <1>6, InductionFrom, Zenon
<1>8. Len(o) \in T
  BY <1>2, <1>7
<1> QED
  BY <1>1, <1>2, <1>3, <1>8 DEF T

-----------------------------------------------------------------------------
(* Points and the bytes they are decoded from.                             *)

\* The data types with a size are the numbers.
LEMMA Sizes ==
  /\ \A t : DataTypeSize(t) # 0 <=> t \in Numeric
  /\ DataTypeSize("STRING") = 0 /\ "STRING" \notin Numeric /\ "BIT" \notin Numeric
<1>1. Numeric = {"UINT8", "INT8", "UINT16", "INT16", "UINT32", "INT32", "UINT64", "INT64",
                 "FLOAT", "DOUBLE"}
  BY Zenon DEF Numeric, KindOf
<1>2. \A t : DataTypeSize(t) # 0 <=>
          t \in {"UINT8", "INT8", "UINT16", "INT16", "UINT32", "INT32", "UINT64", "INT64",
                 "FLOAT", "DOUBLE"}
  BY DEF DataTypeSize
<1>3. DataTypeSize("STRING") = 0
  BY Zenon DEF DataTypeSize
<1> QED
  BY <1>1, <1>2, <1>3, Zenon

\* A point of a bit group has its bit number and is never answered short.
LEMMA BitPoint ==
  ASSUME NEW b \in Batches, NEW p \in PointsOf(b), IsBitPoint(p)
  PROVE  /\ p.addr.num = AddressOf(p) /\ ParseAddress(p.addr).Bit = p.addr.dot
         /\ p.addr.dot \in 0 .. WordBits - 1 /\ p.addr.order = ""
         /\ GroupKey(p).areaCode \notin ShortAreas
<1>1. ParseAddress(p.addr).ok /\ Supported(p) /\ p.addr.dot \in Int
  BY PointFacts, Zenon DEF Supported
<1>2. /\ ParseAddress(p.addr).IsBit \in BOOLEAN /\ p.addr.num = AddressOf(p)
      /\ ParseAddress(p.addr).IsBit =>
             /\ ~ParseAddress(p.addr).IsString /\ ParseAddress(p.addr).Bit = p.addr.dot
             /\ p.addr.dot \in 0 .. WordBits - 1 /\ p.addr.order = ""
  BY <1>1, Parsed, Zenon DEF AddressOf
<1>3. "STRING" # "BIT"
  BY Zenon
<1>4. ParseAddress(p.addr).IsBit /\ GroupKey(p).areaCode \notin ShortAreas
  BY <1>1, <1>2, <1>3, Zenon DEF Supported, IsBitPoint
<1> QED
  BY <1>2, <1>4, Zenon

StringPoint(p) ==
    /\ ParseAddress(p.addr).IsString /\ p.dataType = "STRING"
    /\ p.addr.dot \in Nat \ {0} /\ ParseAddress(p.addr).StringLen = p.addr.dot
    /\ TypeSize(p) = p.addr.dot /\ ~(p.addr.dot \in 0 .. WordBits - 1 /\ p.addr.order = "")
    /\ GroupKey(p).areaCode \notin ShortAreas
PlainPoint(p) ==
    /\ ~ParseAddress(p.addr).IsString /\ p.addr.dot = NoDot /\ p.dataType \notin {"STRING", "BIT"}
    /\ TypeSize(p) = IF DataTypeSize(p.dataType) = 0 THEN 2 ELSE DataTypeSize(p.dataType)

\* A point of a word group is a string, with its length, or a plain word.
LEMMA WordPoint ==
  ASSUME NEW b \in Batches, NEW p \in PointsOf(b), ~IsBitPoint(p)
  PROVE  /\ p.addr.num = AddressOf(p) /\ ~ParseAddress(p.addr).IsBit
         /\ StringPoint(p) \/ PlainPoint(p)
<1>1. ParseAddress(p.addr).ok /\ Supported(p) /\ p.addr.dot \in Int
  BY PointFacts, Zenon DEF Supported
<1>2. /\ ParseAddress(p.addr).IsString \in BOOLEAN /\ p.addr.num = AddressOf(p)
      /\ ParseAddress(p.addr).IsString =>
             /\ ParseAddress(p.addr).StringLen = p.addr.dot
             /\ ~(p.addr.dot \in 0 .. WordBits - 1 /\ p.addr.order = "")
      /\ ~ParseAddress(p.addr).IsBit /\ ~ParseAddress(p.addr).IsString => p.addr.dot = NoDot
  BY <1>1, Parsed, Zenon DEF AddressOf
<1>3. ~ParseAddress(p.addr).IsBit
  BY Zenon DEF IsBitPoint
<1>4. CASE ParseAddress(p.addr).IsString
  <2>1. /\ p.dataType = "STRING" /\ ParseAddress(p.addr).StringLen > 0
        /\ GroupKey(p).areaCode \notin ShortAreas
    BY <1>1, <1>3, <1>4, Zenon DEF Supported
  <2>2. p.addr.dot \in Nat \ {0}
    <3>1. p.addr.dot \in Int /\ p.addr.dot > 0
      BY <1>1, <1>2, <1>4, <2>1, Zenon
    <3>2. \A x \in Int : x > 0 => x \in Nat \ {0}
      OBVIOUS
    <3> QED
      BY <3>1, <3>2, Zenon
  <2>3. TypeSize(p) = p.addr.dot
    BY <1>2, <1>4, <2>1, Sizes, Zenon DEF TypeSize
  <2> QED
    BY <1>2, <1>3, <1>4, <2>1, <2>2, <2>3, Zenon DEF StringPoint
<1>5. CASE ~ParseAddress(p.addr).IsString
  <2>1. p.dataType \notin {"STRING", "BIT"}
    BY <1>1, <1>3, <1>5, Zenon DEF Supported
  <2>2. TypeSize(p) = IF DataTypeSize(p.dataType) = 0 THEN 2 ELSE DataTypeSize(p.dataType)
    BY <1>5, Zenon DEF TypeSize
  <2> QED
    BY <1>2, <1>3, <1>5, <2>1, <2>2, Zenon DEF PlainPoint
<1> QED
  BY <1>4, <1>5, <1>2, Zenon

\* What DecodeValue accepts of a word address.
LEMMA DecodeWords ==
  ASSUME NEW bs, NEW t, NEW a, ~a.IsBit, t # "BIT"
  PROVE  /\ t = "STRING" => DecodeValue(bs, t, a).ok = TRUE
         /\ t \in Numeric /\ ~(Len(bs) < DataTypeSize(t)) => DecodeValue(bs, t, a).ok = TRUE
         /\ t \notin Numeric /\ t # "STRING" => DecodeValue(bs, t, a).ok = FALSE
<1> DEFINE n == DataTypeSize(t)
           u == Uint(SubSeq(bs, 1, n), a.Low)
           cut == IF a.StringLen \in 1 .. Len(bs) THEN a.StringLen ELSE Len(bs)
           v == IF t \in Signed THEN ToSigned(u, n) ELSE u
           w == UpToNul(SubSeq(bs, 1, cut))
           d1 == IF Len(bs) < 1 THEN Error ELSE Decoded("bool", bs[1] % 2 = 1)
           d2 == IF Len(bs) < n THEN Error ELSE Decoded(KindOf[t], v)
           d3 == Decoded("string", w)
<1>1. DecodeValue(bs, t, a) =
          CASE a.IsBit \/ t = "BIT" -> d1
            [] ~a.IsBit /\ t \in Numeric -> d2
            [] ~a.IsBit /\ t = "STRING" -> d3
            [] OTHER -> Error
  BY Zenon DEF DecodeValue
<1>2. Error.ok = FALSE /\ \A k, x : Decoded(k, x).ok = TRUE
  BY Zenon DEF Error, Decoded
<1> HIDE DEF v, w, u, cut
<1>3. d3.ok = TRUE /\ (~(Len(bs) < n) => d2.ok = TRUE)
  BY <1>2, Zenon
<1> HIDE DEF d1, d2, d3
<1>4. "STRING" \notin Numeric
  BY Sizes, Zenon
<1>5. CASE t = "STRING"
  BY <1>1, <1>3, <1>4, <1>5, Zenon
<1>6. CASE t \in Numeric
  BY <1>1, <1>3, <1>4, <1>6, Zenon
<1>7. CASE t \notin Numeric /\ t # "STRING"
  BY <1>1, <1>2, <1>7, Zenon
<1> QED
  BY <1>5, <1>6, <1>7, <1>4, Zenon

\* n bytes from a word on, and the first n of them.
Run(start, n) == [k \in 1 .. n |-> 2 * start + k - 1]
Prefix(start, n, d) ==
    d \in Seq(Int) /\ Len(d) <= n /\ \A k \in 1 .. Len(d) : d[k] = 2 * start + k - 1

\* The length and the bytes of a full answer.
LEMMA RunFacts ==
  ASSUME NEW s \in Nat, NEW n \in Nat
  PROVE  /\ Run(s, n) \in Seq(Int) /\ Len(Run(s, n)) = n
         /\ \A k \in 1 .. n : Run(s, n)[k] = 2 * s + k - 1
<1>1. \A k \in 1 .. n : 2 * s + k - 1 \in Int
  OBVIOUS
<1> QED
  BY <1>1 DEF Run

\* The first bytes of an answer.
LEMMA RunPrefix ==
  ASSUME NEW s \in Nat, NEW n \in Nat, NEW m \in 0 .. n
  PROVE  Prefix(s, n, SubSeq(Run(s, n), 1, m)) /\ Len(SubSeq(Run(s, n), 1, m)) = m
<1> DEFINE r == Run(s, n)
<1>1. r \in Seq(Int) /\ Len(r) = n /\ \A k \in 1 .. n : r[k] = 2 * s + k - 1
  BY RunFacts, Zenon
<1> HIDE DEF r
<1>2. SubSeq(r, 1, m) \in Seq(Int) /\ Len(SubSeq(r, 1, m)) = m
  BY <1>1
<1>3. \A k \in 1 .. m : SubSeq(r, 1, m)[k] = r[k] /\ k \in 1 .. n
  BY <1>1
<1> QED
  BY <1>1, <1>2, <1>3 DEF Prefix, r

\* The n bytes of d after the first o are those of word x.
IsSlice(d, o, n, x) ==
    SubSeq(d, o + 1, o + n) = Run(x, n) /\ Len(SubSeq(d, o + 1, o + n)) = n

\* n bytes of an answer at the offset of word x.
LEMMA SliceOfAnswer ==
  ASSUME NEW s \in Nat, NEW m \in Nat, NEW d, Prefix(s, m, d), NEW x \in Nat, s <= x,
         NEW o \in Nat, o = 2 * (x - s), NEW n \in Nat, o + n <= Len(d)
  PROVE  IsSlice(d, o, n, x)
<1>1. d \in Seq(Int) /\ Len(d) \in Nat /\ \A k \in 1 .. Len(d) : d[k] = 2 * s + k - 1
  BY DEF Prefix
<1>2. SubSeq(d, o + 1, o + n) = [k \in 1 .. n |-> d[o + k]]
  BY <1>1
<1>3. \A k \in 1 .. n : o + k \in 1 .. Len(d) /\ 2 * s + (o + k) - 1 = 2 * x + k - 1
  BY <1>1
<1>4. \A k \in 1 .. n : d[o + k] = 2 * x + k - 1
  BY <1>1, <1>3, Zenon
<1>5. Len(SubSeq(d, o + 1, o + n)) = n
  BY <1>1
<1> QED
  BY <1>2, <1>4, <1>5, Zenon DEF Run, IsSlice

\* What a word group is answered with, whole unless its area is short.
LEMMA WordAnswers ==
  ASSUME NEW g, g.startAddr \in Nat, g.count \in Nat, ~g.key.isBit, NEW d \in Answers(g)
  PROVE  /\ Prefix(g.startAddr, 2 * g.count, d) /\ Len(d) \in Nat
         /\ g.key.areaCode \notin ShortAreas \/ d = FullAnswer(g) => Len(d) = 2 * g.count
<1> DEFINE s == g.startAddr
           n == 2 * g.count
           sizes == IF g.key.areaCode \in ShortAreas THEN 0 .. Len(Run(s, n)) ELSE {Len(Run(s, n))}
<1>1. FullAnswer(g) = Run(s, n)
  BY Zenon DEF FullAnswer, Run
<1>2. s \in Nat /\ n \in Nat
  OBVIOUS
<1>3. PICK m \in sizes : d = SubSeq(Run(s, n), 1, m)
  <2> HIDE DEF s, n
  <2> QED
    BY <1>1, Zenon DEF Answers
<1> HIDE DEF s, n
<1>4. Len(Run(s, n)) = n
  BY <1>2, RunFacts, Zenon
<1>5. m \in 0 .. n /\ (g.key.areaCode \notin ShortAreas => m = n)
  <2>1. n \in 0 .. n
    BY <1>2
  <2>2. CASE g.key.areaCode \in ShortAreas
    BY <1>3, <1>4, <2>2, Zenon
  <2>3. CASE g.key.areaCode \notin ShortAreas
    BY <1>3, <1>4, <2>1, <2>3, Zenon
  <2> QED
    BY <2>2, <2>3, Zenon
<1>6. Prefix(s, n, d) /\ Len(d) = m
  BY <1>2, <1>3, <1>5, RunPrefix, Zenon
<1>7. m \in Nat
  BY <1>2, <1>5, SMTT(20)
<1> QED
  BY <1>1, <1>4, <1>5, <1>6, <1>7, Zenon DEF s, n

\* decodePointValue on a point of a word group.
LEMMA WordBytes ==
  ASSUME NEW b \in Batches, NEW gp, gp.point \in PointsOf(b), NEW g, g.startAddr \in Nat,
         g.count \in Nat, ~g.key.isBit, GroupKey(gp.point) = g.key, Within(g, gp),
         NEW d \in Answers(g)
  PROVE  /\ PointBytes(d, gp, g).is # "panic"
         /\ decodePointValue(d, gp, g).ok => Meant(gp.point, PointBytes(d, gp, g).bytes)
         /\ Readable(gp.point) /\ d = FullAnswer(g) => decodePointValue(d, gp, g).ok
<1> DEFINE p == gp.point
           a == ParseAddress(p.addr)
           A == AddressOf(p)
           W == WordCount(p)
           o == gp.offset
           B == PointBytes(d, gp, g)
           T == TypeSize(p)
           S == g.startAddr
           N == 2 * g.count
           L == Len(d)
<1>1. A \in Nat /\ W \in Nat /\ T \in Nat /\ T <= 2 * W
  BY PointFacts, Zenon
<1>2. ~IsBitPoint(p)
  <2>1. GroupKey(p).isBit = IsBitPoint(p)
    BY Zenon DEF GroupKey
  <2> QED
    BY <2>1, Zenon
<1>3. p.addr.num = A /\ ~a.IsBit /\ (StringPoint(p) \/ PlainPoint(p))
  BY <1>2, WordPoint, Zenon
<1>4. S <= A /\ o = 2 * (A - S) /\ A + W <= S + g.count
  BY Zenon DEF Within
<1>5. /\ Prefix(S, N, d) /\ L \in Nat
      /\ g.key.areaCode \notin ShortAreas \/ d = FullAnswer(g) => L = N
  BY WordAnswers, Zenon
<1>6. o \in Nat /\ o + T <= N /\ o + T \in Nat /\ S \in Nat /\ N \in Nat
  <2> HIDE DEF A, W, o, T
  <2> QED
    BY <1>1, <1>4
<1> HIDE DEF p, a, A, W, o, B, T, S, N, L
<1>9. ASSUME o + T <= L PROVE SubSeq(d, o + 1, o + T) = Run(A, T) /\ Len(SubSeq(d, o + 1, o + T)) = T
  <2>1. IsSlice(d, o, T, A)
    <3>1. o + T <= Len(d) /\ S <= A /\ o = 2 * (A - S) /\ Prefix(S, N, d)
      BY <1>4, <1>5, <1>9, Zenon DEF L
    <3> QED
      BY <1>1, <1>6, <3>1, SliceOfAnswer, Zenon
  <2> QED
    BY <2>1, Zenon DEF IsSlice
<1>7. CASE StringPoint(p)
  <2>1. a.IsString /\ a.StringLen = T /\ p.dataType = "STRING" /\ L = N
        /\ p.addr.dot = T /\ ~(p.addr.dot \in 0 .. WordBits - 1 /\ p.addr.order = "") /\ T \in Nat \ {0}
    BY <1>5, <1>7, Zenon DEF StringPoint, a, T, p
  <2>2. ~(o + T > L) /\ o <= o + T /\ ~(o > o + T) /\ o + T <= L
    <3>1. L = N /\ T \in Nat
      BY <1>1, <2>1, Zenon
    <3> QED
      BY <1>6, <3>1
  <2>3. B = [is |-> "bytes", bytes |-> SubSeq(d, o + 1, o + T)]
    BY <2>1, <2>2, Zenon DEF B, PointBytes, a, o, p, L
  <2>4. B.is = "bytes" /\ B.bytes = Run(A, T)
    <3>1. SubSeq(d, o + 1, o + T) = Run(A, T)
      BY <1>9, <2>2, Zenon
    <3> QED
      BY <2>3, <3>1, Zenon
  <2>5. decodePointValue(d, gp, g).ok
    <3>1. decodePointValue(d, gp, g) = DecodeValue(B.bytes, "STRING", a)
      BY <2>1, <2>4, Zenon DEF decodePointValue, B, a, p
    <3> QED
      BY <1>3, <3>1, DecodeWords, Zenon
  <2>6. Meant(p, B.bytes)
    <3>1. p.addr.dot # NoDot
      <4>1. \A x \in Nat : x # NoDot
        BY DEF NoDot
      <4> QED
        BY <1>1, <2>1, <4>1, Zenon
    <3>2. "STRING" # "BIT"
      BY Zenon
    <3> QED
      BY <1>3, <2>1, <2>4, <3>1, Zenon DEF Meant, Run
  <2> QED
    BY <2>4, <2>5, <2>6, Zenon DEF p, B
<1>8. CASE PlainPoint(p)
  <2>1. /\ ~a.IsString /\ p.addr.dot = NoDot /\ p.dataType # "STRING" /\ p.dataType # "BIT"
        /\ T = IF DataTypeSize(p.dataType) = 0 THEN 2 ELSE DataTypeSize(p.dataType)
    BY <1>8, Zenon DEF PlainPoint, a, T
  <2>2. CASE o + T > L
    <3>1. B = [is |-> "short"]
      BY <2>1, <2>2, Zenon DEF B, PointBytes, a, o, p, L
    <3>2. B.is = "short" /\ "short" # "bytes" /\ "short" # "panic"
      BY <3>1, Zenon
    <3>3. ~decodePointValue(d, gp, g).ok
      <4>1. decodePointValue(d, gp, g) = Error
        BY <3>2, Zenon DEF decodePointValue, B
      <4> QED
        BY <4>1 DEF Error
    <3>4. d # FullAnswer(g)
      <4>1. L # N
        BY <1>5, <1>6, <2>2, SMTT(20)
      <4> QED
        BY <1>5, <4>1, Zenon
    <3> QED
      BY <3>2, <3>3, <3>4, Zenon DEF B
  <2>3. CASE ~(o + T > L)
    <3>1. B = [is |-> "bytes", bytes |-> SubSeq(d, o + 1, o + T)]
      BY <2>1, <2>3, Zenon DEF B, PointBytes, a, o, p, L
    <3>2. o + T <= L
      BY <1>5, <1>6, <2>3
    <3>3. B.is = "bytes" /\ B.bytes = Run(A, T) /\ Len(B.bytes) = T
      BY <1>9, <3>1, <3>2, Zenon
    <3>4. "bytes" # "panic"
      BY Zenon
    <3>5. decodePointValue(d, gp, g) = DecodeValue(B.bytes, p.dataType, a)
      BY <2>1, <3>3, Zenon DEF decodePointValue, B, a, p
    <3>6. CASE p.dataType \in Numeric
      <4>1. T = DataTypeSize(p.dataType) /\ ~(Len(B.bytes) < DataTypeSize(p.dataType))
        BY <1>1, <2>1, <3>3, <3>6, Sizes
      <4>2. decodePointValue(d, gp, g).ok
        BY <1>3, <2>1, <3>5, <3>6, <4>1, DecodeWords, ZenonT(30)
      <4>3. ~(p.addr.dot \in 0 .. WordBits - 1)
        BY <2>1 DEF NoDot
      <4>4. Meant(p, B.bytes)
        BY <1>3, <2>1, <3>3, <4>1, <4>3, Zenon DEF Meant, Run
      <4> QED
        BY <3>3, <3>4, <4>2, <4>4, Zenon DEF B, p
    <3>7. CASE p.dataType \notin Numeric
      <4>1. decodePointValue(d, gp, g).ok = FALSE
        <5>1. ~a.IsBit /\ p.dataType # "BIT" /\ p.dataType # "STRING"
          BY <1>3, <2>1, Zenon
        <5>2. DecodeValue(B.bytes, p.dataType, a).ok = FALSE
          BY <3>7, <5>1, DecodeWords, Zenon
        <5> QED
          BY <3>5, <5>2, Zenon
      <4>2. ~Readable(p)
        <5>1. ~(DataTypeSize(p.dataType) > 0)
          BY <3>7, Sizes, SizeNat
        <5> QED
          BY <1>2, <2>1, <5>1, Zenon DEF Readable, a, p
      <4> QED
        BY <3>3, <3>4, <4>1, <4>2, Zenon DEF B, p
    <3> QED
      BY <3>6, <3>7, Zenon
  <2> QED
    BY <2>2, <2>3, Zenon
<1> QED
  BY <1>3, <1>7, <1>8, SMTT(20)

\* A sequence of one element.
LEMMA OneElement ==
  ASSUME NEW v
  PROVE  SubSeq(<<v>>, 1, 1) = <<v>> /\ Len(<<v>>) = 1 /\ <<v>>[1] = v
<1>1. <<v>> \in Seq({v}) /\ Len(<<v>>) = 1 /\ <<v>>[1] = v
  OBVIOUS
<1>2. /\ SubSeq(<<v>>, 1, 1) \in Seq({v}) /\ Len(SubSeq(<<v>>, 1, 1)) = 1
      /\ SubSeq(<<v>>, 1, 1)[1] = v
  OBVIOUS
<1>3. ASSUME NEW s \in Seq({v}), NEW t \in Seq({v}), Len(s) = 1, Len(t) = 1, s[1] = t[1] PROVE s = t
  <2>1. s \in [1 .. 1 -> {v}] /\ t \in [1 .. 1 -> {v}]
    BY <1>3
  <2> QED
    BY <2>1
<1> QED
  BY <1>1, <1>2, <1>3, Zenon

\* decodePointValue on the point of a bit group.
LEMMA BitBytes ==
  ASSUME NEW b \in Batches, NEW gp, gp.point \in PointsOf(b), NEW g, g.startAddr \in Nat,
         g.key.isBit, GroupKey(gp.point) = g.key, g.points[1] = gp,
         g.startAddr = AddressOf(gp.point), NEW d \in Answers(g)
  PROVE  /\ PointBytes(d, gp, g).is # "panic"
         /\ Meant(gp.point, PointBytes(d, gp, g).bytes)
         /\ decodePointValue(d, gp, g).ok
<1> DEFINE p == gp.point
           v == g.startAddr * WordBits + BitOf(g)
           B == PointBytes(d, gp, g)
<1>1. /\ p.addr.num = AddressOf(p) /\ ParseAddress(p.addr).Bit = p.addr.dot
      /\ p.addr.dot \in 0 .. WordBits - 1 /\ p.addr.order = ""
      /\ GroupKey(p).areaCode \notin ShortAreas
  <2>1. GroupKey(p).isBit = IsBitPoint(p)
    BY Zenon DEF GroupKey
  <2> QED
    BY <2>1, BitPoint, Zenon
<1>2. v = p.addr.num * WordBits + p.addr.dot
  <2>1. \A x \in 0 .. WordBits - 1 : x % Byte = x
    BY ByteBitsAssumption, WidthAssumption DEF WordBits
  <2> QED
    BY <1>1, <2>1, Zenon DEF BitOf
<1> HIDE DEF v
<1>3. SubSeq(<<v>>, 1, 1) = <<v>> /\ Len(<<v>>) = 1 /\ <<v>>[1] = v
  BY OneElement, Zenon
<1>4. FullAnswer(g) = <<v>>
  BY Zenon DEF FullAnswer, v
<1>5. d = <<v>>
  <2>1. 1 # 0
    OBVIOUS
  <2>2. g.key.areaCode \notin ShortAreas
    BY <1>1, Zenon
  <2>3. PICK n \in {1} : d = IF g.key.isBit /\ n = 0 THEN <<MadeUp>> ELSE SubSeq(<<v>>, 1, n)
    BY <1>3, <1>4, <2>2, Zenon DEF Answers
  <2> QED
    BY <1>3, <2>1, <2>3, Zenon
<1>6. ~(Len(d) < 1) /\ Len(d) >= 1
  BY <1>3, <1>5
<1>7. B = [is |-> "bytes", bytes |-> <<v>>]
  <2>1. B = [is |-> "bytes", bytes |-> SubSeq(d, 1, 1)]
    BY <1>6, Zenon DEF PointBytes
  <2> QED
    BY <1>3, <1>5, <2>1, Zenon
<1> HIDE DEF B
<1>8. B.is = "bytes" /\ B.bytes = <<v>> /\ "bytes" # "panic"
  BY <1>7, SMTT(20)
<1>9. decodePointValue(d, gp, g).ok
  <2>1. decodePointValue(d, gp, g) = Decoded("bool", B.bytes[1] % 2 = 1)
    BY <1>8, Zenon DEF decodePointValue, B
  <2> QED
    BY <2>1 DEF Decoded
<1>10. Meant(p, B.bytes)
  <2>1. p.addr.dot # NoDot
    <3>1. \A x \in 0 .. WordBits - 1 : x # NoDot
      BY ByteBitsAssumption, SMTT(20) DEF WordBits, NoDot
    <3> QED
      BY <1>1, <3>1, Zenon
  <2> QED
    BY <1>1, <1>2, <1>8, <2>1, Zenon DEF Meant
<1> QED
  BY <1>8, <1>9, <1>10, Zenon DEF B

\* decodePointValue on any point of a group.
LEMMA GroupBytes ==
  ASSUME NEW b \in Batches, NEW g, GroupOK(b, g), NEW i \in DOMAIN g.points, NEW d \in Answers(g)
  PROVE  /\ PointBytes(d, g.points[i], g).is # "panic"
         /\ decodePointValue(d, g.points[i], g).ok =>
                Meant(g.points[i].point, PointBytes(d, g.points[i], g).bytes)
         /\ Readable(g.points[i].point) /\ d = FullAnswer(g) => decodePointValue(d, g.points[i], g).ok
<1> DEFINE gp == g.points[i]
<1>1. /\ g.startAddr \in Nat /\ g.count \in Nat /\ g.points \in Seq(GroupedPoint(b))
      /\ DOMAIN g.points = 1 .. Len(g.points)
  BY DEF GroupOK, Group
<1>2. gp \in GroupedPoint(b)
  BY <1>1
<1>3. gp.point \in PointsOf(b)
  BY <1>2, Zenon DEF GroupedPoint
<1>4. Within(g, gp) /\ GroupKey(gp.point) = g.key
  BY Zenon DEF GroupOK, Within
<1>5. CASE g.key.isBit
  <2>1. i = 1
    <3>1. Len(g.points) = 1
      BY <1>5, Zenon DEF GroupOK
    <3>2. i \in 1 .. 1
      BY <1>1, <3>1, Zenon
    <3> QED
      BY <3>2
  <2>2. g.points[1] = gp /\ g.startAddr = AddressOf(gp.point)
    BY <2>1, Zenon DEF GroupOK
  <2> HIDE DEF gp
  <2> QED
    BY <1>1, <1>3, <1>4, <1>5, <2>2, BitBytes, Zenon DEF gp
<1>6. CASE ~g.key.isBit
  <2> HIDE DEF gp
  <2> QED
    BY <1>1, <1>3, <1>4, <1>6, WordBytes, Zenon DEF gp
<1> QED
  BY <1>5, <1>6, Zenon

-----------------------------------------------------------------------------
(* The points of a batch, from group to group.                             *)

\* Points with the same identifier are the same.
LEMMA SamePoint ==
  ASSUME NEW b \in Batches, NEW p \in PointsOf(b)
  PROVE  /\ \E i \in DOMAIN b : p = b[i]
         /\ \A i \in DOMAIN b : b[i].id = p.id => b[i] = p
<1>1. PICK k \in Valid(b) : p = b[k]
  BY Zenon DEF PointsOf
<1>2. k \in DOMAIN b
  BY Zenon DEF Valid
<1> QED
  BY <1>1, <1>2, BatchesAssumption, Zenon

\* The points of a group are points of the batch.
LEMMA GroupPoint ==
  ASSUME NEW b \in Batches, NEW g, GroupOK(b, g), NEW k \in DOMAIN g.points
  PROVE  g.points[k].point \in PointsOf(b)
<1>1. g.points \in Seq(GroupedPoint(b)) /\ DOMAIN g.points = 1 .. Len(g.points)
  BY DEF GroupOK, Group
<1>2. g.points[k] \in GroupedPoint(b)
  BY <1>1
<1> QED
  BY <1>2, Zenon DEF GroupedPoint

\* The identifiers of a group are of the batch, and name its points.
LEMMA GroupIds ==
  ASSUME NEW b \in Batches, NEW g, GroupOK(b, g)
  PROVE  /\ Ids(g) \subseteq {b[i].id : i \in DOMAIN b}
         /\ \A i \in DOMAIN b : Holds(g, b[i]) => b[i].id \in Ids(g)
<1>1. ASSUME NEW k \in DOMAIN g.points PROVE g.points[k].point.id \in {b[i].id : i \in DOMAIN b}
  <2> DEFINE p == g.points[k].point
  <2>1. p \in PointsOf(b)
    BY GroupPoint, Zenon
  <2> HIDE DEF p
  <2>2. \E i \in DOMAIN b : p = b[i]
    BY <2>1, SamePoint
  <2> QED
    BY <2>2, Zenon DEF p
<1> QED
  BY <1>1, Zenon DEF Ids, Holds

\* The last point of a group with an identifier.
LEMMA LastWithFacts ==
  ASSUME NEW b \in Batches, NEW g, GroupOK(b, g), NEW id \in Ids(g)
  PROVE  LastWith(g, id) \in DOMAIN g.points /\ g.points[LastWith(g, id)].point.id = id
<1> DEFINE L == Len(g.points)
           At(i) == g.points[i].point.id = id
           T == {n \in Nat : n < L /\ At(L - n)}
<1>1. DOMAIN g.points = 1 .. L /\ L \in Nat
  BY DEF GroupOK, Group
<1>2. PICK k \in 1 .. L : At(k)
  BY <1>1, Zenon DEF Ids
<1> HIDE DEF L, At
<1>3. L - k \in Nat /\ L - k < L /\ L - (L - k) = k
  BY <1>1, <1>2
<1>4. L - k \in T
  BY <1>2, <1>3, Zenon
<1>5. T \in SUBSET Nat /\ T # {}
  BY <1>4, Zenon
<1>6. PICK n \in T : \A m \in T : n <= m
  BY <1>5, LeastNatural, Zenon
<1>7. n \in Nat /\ n < L /\ At(L - n)
  BY <1>6, Zenon
<1>8. L - n \in 1 .. L
  BY <1>1, <1>7
<1>9. ASSUME NEW j \in L - n + 1 .. L PROVE ~At(j)
  <2>1. L - j \in Nat /\ L - j < L /\ L - (L - j) = j /\ ~(n <= L - j)
    BY <1>1, <1>7
  <2> QED
    BY <1>6, <2>1, SMTT(20)
<1>10. \E i \in DOMAIN g.points : At(i) /\ \A j \in i + 1 .. L : ~At(j)
  BY <1>1, <1>7, <1>8, <1>9, Zenon
<1> QED
  BY <1>10, Zenon DEF LastWith, At, L

\* The groups but the first.
LEMMA TailFacts ==
  ASSUME NEW S, NEW t \in Seq(S), t # <<>>
  PROVE  /\ Head(t) = t[1] /\ 1 \in DOMAIN t /\ Tail(t) \in Seq(S)
         /\ \A j \in DOMAIN Tail(t) : \E k \in DOMAIN t : Tail(t)[j] = t[k]
         /\ \A k \in DOMAIN t : k = 1 \/ \E j \in DOMAIN Tail(t) : Tail(t)[j] = t[k]
<1>1. /\ DOMAIN t = 1 .. Len(t) /\ Len(t) \in Nat /\ Len(t) >= 1 /\ Head(t) = t[1]
      /\ Tail(t) \in Seq(S) /\ DOMAIN Tail(t) = 1 .. Len(t) - 1
      /\ \A j \in 1 .. Len(t) - 1 : Tail(t)[j] = t[j + 1]
  OBVIOUS
<1>2. /\ 1 \in 1 .. Len(t) /\ \A j \in 1 .. Len(t) - 1 : j + 1 \in 1 .. Len(t)
      /\ \A k \in 1 .. Len(t) : k = 1 \/ (k - 1 \in 1 .. Len(t) - 1 /\ (k - 1) + 1 = k)
  BY <1>1
<1> QED
  BY <1>1, <1>2, ZenonT(30)

\* A group is done when its points are settled.
LEMMA CoreNext ==
  ASSUME NEW b, NEW t, NEW res, NEW sp, Core(b, t, res, sp), t # <<>>, NEW res2,
         DOMAIN res2 = DOMAIN res \cup Ids(Head(t)),
         \A id \in DOMAIN res : id \notin Ids(Head(t)) => res2[id] = res[id],
         \A i \in DOMAIN b : b[i].id \in Ids(Head(t)) => Settled(res2, sp, b[i])
  PROVE  Core(b, Tail(t), res2, sp)
<1>1. /\ b \in Batches /\ t \in Seq(Group(b)) /\ \A j \in DOMAIN t : GroupOK(b, t[j])
      /\ DOMAIN res \subseteq {b[i].id : i \in DOMAIN b}
      /\ \A i \in DOMAIN b : (\E j \in DOMAIN t : Holds(t[j], b[i])) \/ Settled(res, sp, b[i])
  BY Zenon DEF Core
<1>2. /\ Head(t) = t[1] /\ 1 \in DOMAIN t /\ Tail(t) \in Seq(Group(b))
      /\ \A j \in DOMAIN Tail(t) : \E k \in DOMAIN t : Tail(t)[j] = t[k]
      /\ \A k \in DOMAIN t : k = 1 \/ \E j \in DOMAIN Tail(t) : Tail(t)[j] = t[k]
  <2>1. \A S : t \in Seq(S) =>
          /\ Head(t) = t[1] /\ 1 \in DOMAIN t /\ Tail(t) \in Seq(S)
          /\ \A j \in DOMAIN Tail(t) : \E k \in DOMAIN t : Tail(t)[j] = t[k]
          /\ \A k \in DOMAIN t : k = 1 \/ \E j \in DOMAIN Tail(t) : Tail(t)[j] = t[k]
    BY TailFacts, Zenon
  <2> QED
    BY <1>1, <2>1, Zenon
<1>3. GroupOK(b, Head(t))
  BY <1>1, <1>2, Zenon
<1>4. /\ Ids(Head(t)) \subseteq {b[i].id : i \in DOMAIN b}
      /\ \A i \in DOMAIN b : Holds(Head(t), b[i]) => b[i].id \in Ids(Head(t))
  BY <1>1, <1>3, GroupIds, Zenon
<1>5. \A j \in DOMAIN Tail(t) : GroupOK(b, Tail(t)[j])
  BY <1>1, <1>2, Zenon
<1>6. ASSUME NEW i \in DOMAIN b
      PROVE  (\E j \in DOMAIN Tail(t) : Holds(Tail(t)[j], b[i])) \/ Settled(res2, sp, b[i])
  <2>1. CASE b[i].id \in Ids(Head(t))
    BY <2>1, Zenon
  <2>2. CASE b[i].id \notin Ids(Head(t)) /\ Settled(res, sp, b[i])
    BY <2>2, Zenon DEF Settled
  <2>3. CASE b[i].id \notin Ids(Head(t)) /\ \E j \in DOMAIN t : Holds(t[j], b[i])
    <3>1. PICK k \in DOMAIN t : Holds(t[k], b[i])
      BY <2>3, Zenon
    <3>2. k # 1
      <4>1. ~Holds(Head(t), b[i])
        BY <1>4, <2>3, Zenon
      <4>2. Head(t) = t[1]
        BY <1>2, Zenon
      <4> QED
        BY <3>1, <4>1, <4>2, Zenon
    <3> QED
      BY <1>2, <3>1, <3>2, Zenon
  <2> QED
    BY <1>1, <2>1, <2>2, <2>3, Zenon
<1>7. DOMAIN res2 \subseteq {b[i].id : i \in DOMAIN b}
  BY <1>1, <1>4, Zenon
<1> QED
  BY <1>1, <1>2, <1>5, <1>6, <1>7, Zenon DEF Core

\* Results that are not Good.
LEMMA BadResult == Bad.quality # "Good" /\ \A x : Good(x).quality = "Good" /\ Good(x).bytes = x
BY Zenon DEF Bad, Good

\* A failed group leaves its points Bad and spoilt.
LEMMA FailCore ==
  ASSUME NEW b, NEW t, NEW res, NEW sp, Core(b, t, res, sp), t # <<>>, Ids(Head(t)) \subseteq sp
  PROVE  Core(b, Tail(t), SetAll(res, Ids(Head(t)), Bad), sp)
<1> DEFINE ids == Ids(Head(t))
           res2 == SetAll(res, ids, Bad)
<1>1. /\ DOMAIN res2 = DOMAIN res \cup ids /\ \A id \in ids : res2[id] = Bad
      /\ \A id \in DOMAIN res : id \notin ids => res2[id] = res[id]
  <2> HIDE DEF ids
  <2> QED
    BY Zenon DEF SetAll
<1> HIDE DEF ids, res2
<1>2. \A i \in DOMAIN b : b[i].id \in ids => Settled(res2, sp, b[i])
  BY <1>1, BadResult, Zenon DEF Settled, ids
<1> QED
  BY <1>1, <1>2, CoreNext, Zenon DEF ids, res2

\* An answered group is decoded without a panic, and its points are Good or
\* spoilt.
LEMMA DecodeCore ==
  ASSUME NEW b, NEW t, NEW res, NEW sp, Core(b, t, res, sp), t # <<>>, NEW d \in Answers(Head(t)),
         d = FullAnswer(Head(t)) \/ Ids(Head(t)) \subseteq sp
  PROVE  /\ Core(b, Tail(t), Decode(res, Head(t), d), sp)
         /\ \A i \in DOMAIN Head(t).points : PointBytes(d, Head(t).points[i], Head(t)).is # "panic"
<1> DEFINE g == Head(t)
           res2 == Decode(res, g, d)
<1>1. b \in Batches /\ GroupOK(b, g)
  <2>1. b \in Batches /\ t \in Seq(Group(b)) /\ \A j \in DOMAIN t : GroupOK(b, t[j])
    BY Zenon DEF Core
  <2>2. Head(t) = t[1] /\ 1 \in DOMAIN t
    <3>1. \A S : t \in Seq(S) => Head(t) = t[1] /\ 1 \in DOMAIN t
      BY TailFacts, Zenon
    <3> QED
      BY <2>1, <3>1, Zenon
  <2> QED
    BY <2>1, <2>2, Zenon
<1>2. /\ DOMAIN res2 = DOMAIN res \cup Ids(g)
      /\ \A id \in Ids(g) : res2[id] = ResultOf(g.points[LastWith(g, id)], g, d)
      /\ \A id \in DOMAIN res : id \notin Ids(g) => res2[id] = res[id]
  BY Zenon DEF Decode
<1> HIDE DEF g, res2
<1>3. ASSUME NEW i \in DOMAIN b, b[i].id \in Ids(g) PROVE Settled(res2, sp, b[i])
  <2> DEFINE k == LastWith(g, b[i].id)
             gp == g.points[k]
             ok == decodePointValue(d, gp, g).ok
  <2>1. k \in DOMAIN g.points /\ gp.point.id = b[i].id
    BY <1>1, <1>3, LastWithFacts, Zenon
  <2>2. gp.point = b[i]
    <3>1. gp.point \in PointsOf(b)
      BY <1>1, <2>1, GroupPoint, Zenon
    <3>2. \A j \in DOMAIN b : b[j].id = gp.point.id => b[j] = gp.point
      BY <1>1, <3>1, SamePoint, Zenon
    <3> HIDE DEF gp
    <3> QED
      BY <1>3, <2>1, <3>2, Zenon
  <2>3. /\ ok => Meant(gp.point, PointBytes(d, gp, g).bytes)
        /\ Readable(gp.point) /\ d = FullAnswer(g) => ok
    BY <1>1, <2>1, GroupBytes, Zenon DEF g
  <2>4. res2[b[i].id] = IF ok THEN Good(PointBytes(d, gp, g).bytes) ELSE Bad
    BY <1>2, <1>3, Zenon DEF ResultOf
  <2>5. b[i].id \in DOMAIN res2
    BY <1>2, <1>3, Zenon
  <2>6. ~(d = FullAnswer(g)) => b[i].id \in sp
    BY <1>3, Zenon DEF g
  <2> HIDE DEF gp, ok, k
  <2>7. CASE ok
    <3>1. res2[b[i].id].quality = "Good" /\ res2[b[i].id].bytes = PointBytes(d, gp, g).bytes
      BY <2>4, <2>7, BadResult, Zenon
    <3> QED
      BY <2>2, <2>3, <2>5, <2>7, <3>1, Zenon DEF Settled
  <2>8. CASE ~ok
    <3>1. res2[b[i].id].quality # "Good"
      BY <2>4, <2>8, BadResult, Zenon
    <3> QED
      BY <2>2, <2>3, <2>5, <2>6, <2>8, <3>1, ZenonT(30) DEF Settled
  <2> QED
    BY <2>7, <2>8, Zenon
<1>4. Core(b, Tail(t), res2, sp)
  BY <1>2, <1>3, CoreNext, Zenon DEF g
<1>5. \A i \in DOMAIN g.points : PointBytes(d, g.points[i], g).is # "panic"
  BY <1>1, GroupBytes, Zenon DEF g
<1> QED
  BY <1>4, <1>5, Zenon DEF g, res2

\* Points stay settled when more of them are spoilt.
LEMMA SpoilCore ==
  ASSUME NEW b, NEW t, NEW res, NEW sp, Core(b, t, res, sp), NEW ids
  PROVE  Core(b, t, res, sp \cup ids)
<1>1. ASSUME NEW p, Settled(res, sp, p) PROVE Settled(res, sp \cup ids, p)
  BY <1>1, Zenon DEF Settled
<1> QED
  BY <1>1, Zenon DEF Core

\* groupPoints leaves each valid point in a group and each other one Bad.
LEMMA StartCore ==
  ASSUME NEW b \in Batches, NEW o \in TakingOrders(b), NEW m \in Nat \ {0}
  PROVE  /\ Core(b, groupPoints(b, o, m),
                 SetAll(NoResults, {b[i].id : i \in DOMAIN b \ Valid(b)}, Bad), {})
         /\ \A j \in DOMAIN groupPoints(b, o, m) : FitsFrame(groupPoints(b, o, m)[j], m)
<1> DEFINE t == groupPoints(b, o, m)
           ids == {b[i].id : i \in DOMAIN b \ Valid(b)}
           res == SetAll(NoResults, ids, Bad)
<1>1. Grouped(b, o, m, Len(o), t) /\ Ordered(b, o)
  BY GroupsOK, Zenon
<1> HIDE DEF t
<1>2. /\ t \in Seq(Group(b)) /\ \A j \in DOMAIN t : GroupOK(b, t[j]) /\ FitsFrame(t[j], m)
      /\ \A k \in 1 .. Len(o) : \E j \in DOMAIN t : Holds(t[j], b[o[k]])
  BY <1>1, Zenon DEF Grouped
<1>3. \A i \in Valid(b) : \E k \in 1 .. Len(o) : o[k] = i
  BY <1>1, Zenon DEF Ordered
<1>4. DOMAIN NoResults = {}
  BY Zenon DEF NoResults
<1>5. DOMAIN res = ids /\ \A id \in ids : res[id] = Bad
  <2> HIDE DEF ids
  <2> QED
    BY <1>4, Zenon DEF SetAll
<1>6. ids \subseteq {b[i].id : i \in DOMAIN b}
  BY Zenon
<1> HIDE DEF res
<1>7. ASSUME NEW i \in DOMAIN b PROVE (\E j \in DOMAIN t : Holds(t[j], b[i])) \/ Settled(res, {}, b[i])
  <2>1. CASE i \in Valid(b)
    BY <1>2, <1>3, <2>1, Zenon
  <2>2. CASE i \notin Valid(b)
    <3>1. ~ParseAddress(b[i].addr).ok /\ b[i].id \in ids
      BY <2>2, Zenon DEF Valid
    <3> QED
      BY <1>5, <3>1, BadResult, Zenon DEF Settled
  <2> QED
    BY <2>1, <2>2, Zenon
<1> HIDE DEF ids
<1>8. Core(b, t, res, {})
  BY <1>2, <1>5, <1>6, <1>7, Zenon DEF Core, ids
<1> QED
  BY <1>2, <1>8, Zenon DEF t, res, ids

-----------------------------------------------------------------------------
(* ReadPoints, step by step.                                               *)

\* The operations in which a caller can be at a label.
OpFits(l, o) ==
    /\ l \in {"group", "count", "panicked"} => o = "read"
    /\ l = "check" => o = "write"
    /\ l \in {"lock", "sleep", "send", "failed", "answered"} => o \in {"read", "write"}
    /\ l \in {"reset2", "reset3"} => o = "reset"
OpsFit ==
    /\ DOMAIN pc = Caller /\ DOMAIN op = Caller
    /\ \A c \in Caller : OpFits(pc[c], op[c])

Locals ==
    /\ DOMAIN batch = Caller /\ DOMAIN todo = Caller /\ DOMAIN results = Caller
    /\ DOMAIN data = Caller /\ DOMAIN spoilt = Caller
PInv == OpsFit /\ Locals /\ maxFrameLength \in FrameLengths /\ PathInv

PathOf(c) ==
    op[c] = "read" => PathOK(pc[c], batch[c], todo[c], results[c], data[c], spoilt[c])

\* g is f but for the value of c.
AtMost(f, g, c) == DOMAIN g = Caller /\ \A e \in Caller \ {c} : g[e] = f[e]
OnlyAt(c) ==
    /\ AtMost(pc, pc', c) /\ AtMost(op, op', c) /\ AtMost(batch, batch', c)
    /\ AtMost(todo, todo', c) /\ AtMost(results, results', c) /\ AtMost(data, data', c)
    /\ AtMost(spoilt, spoilt', c)

\* A step of one caller is judged by what it does to that caller.
LEMMA OthersPath ==
  ASSUME PathInv, NEW c \in Caller, OnlyAt(c), PathOf(c)'
  PROVE  PathInv' /\ Locals'
<1>1. \A e \in Caller : PathOf(e)
  BY Zenon DEF PathInv, PathOf
<1>2. ASSUME NEW e \in Caller \ {c} PROVE PathOf(e)'
  <2>1. /\ pc'[e] = pc[e] /\ op'[e] = op[e] /\ batch'[e] = batch[e] /\ todo'[e] = todo[e]
        /\ results'[e] = results[e] /\ data'[e] = data[e] /\ spoilt'[e] = spoilt[e]
    BY Zenon DEF OnlyAt, AtMost
  <2>2. PathOf(e)
    BY <1>1, Zenon
  <2> QED
    BY <2>1, <2>2, Zenon DEF PathOf
<1>3. \A e \in Caller : PathOf(e)'
  BY <1>2, Zenon
<1>4. PathInv'
  BY <1>3, Zenon DEF PathInv, PathOf
<1>5. Locals'
  BY Zenon DEF OnlyAt, AtMost, Locals
<1> QED
  BY <1>4, <1>5, Zenon

\* A variable that changes for one caller, and one that does not change.
LEMMA ChangedAt ==
  ASSUME NEW f, DOMAIN f = Caller, NEW c \in Caller
  PROVE  /\ AtMost(f, f, c)
         /\ \A v : AtMost(f, [f EXCEPT ![c] = v], c) /\ [f EXCEPT ![c] = v][c] = v
BY Zenon DEF AtMost

\* The same of a variable after the step.
LEMMA ChangedTo ==
  ASSUME NEW f, DOMAIN f = Caller, NEW c \in Caller, NEW g, NEW v, g = [f EXCEPT ![c] = v]
  PROVE  AtMost(f, g, c) /\ g[c] = v
BY Zenon DEF AtMost

\* The domains of the variables of the callers.
LEMMA Domains ==
  ASSUME PInv
  PROVE  /\ DOMAIN pc = Caller /\ DOMAIN op = Caller /\ DOMAIN batch = Caller
         /\ DOMAIN todo = Caller /\ DOMAIN results = Caller /\ DOMAIN data = Caller
         /\ DOMAIN spoilt = Caller
<1>1. DOMAIN pc = Caller /\ DOMAIN op = Caller
  BY Zenon DEF PInv, OpsFit
<1> QED
  BY <1>1, Zenon DEF PInv, Locals

\* waitMinInterval returns to ReadPoints or to WritePoint.
LEMMA AfterWaitLabel ==
  ASSUME NEW c \in Caller, AfterWait(c)
  PROVE  /\ op[c] = "read" => pc' = [pc EXCEPT ![c] = "count"]
         /\ op[c] # "read" => pc' = [pc EXCEPT ![c] = "send"]
BY Zenon DEF AfterWait, Goto

\* A caller that moves to a label of its operation.
LEMMA MoveFits ==
  ASSUME OpsFit, NEW c \in Caller, NEW l, NEW o, OpFits(l, o),
         pc' = [pc EXCEPT ![c] = l], (op' = op /\ o = op[c]) \/ op' = [op EXCEPT ![c] = o]
  PROVE  OpsFit'
<1>1. DOMAIN pc = Caller /\ DOMAIN op = Caller
  BY Zenon DEF OpsFit
<1>2. AtMost(pc, pc', c) /\ pc'[c] = l
  BY <1>1, ChangedTo, Zenon
<1>3. AtMost(op, op', c) /\ op'[c] = o
  <2>1. CASE op' = op /\ o = op[c]
    BY <1>1, <2>1, ChangedAt, Zenon
  <2>2. CASE op' = [op EXCEPT ![c] = o]
    BY <1>1, <2>2, ChangedTo, Zenon
  <2> QED
    BY <2>1, <2>2, Zenon
<1>4. ASSUME NEW e \in Caller PROVE OpFits(pc'[e], op'[e])
  <2>1. CASE e = c
    BY <1>2, <1>3, <2>1, Zenon
  <2>2. CASE e # c
    BY <1>2, <1>3, <2>2, Zenon DEF AtMost, OpsFit
  <2> QED
    BY <2>1, <2>2, Zenon
<1> QED
  BY <1>2, <1>3, <1>4, Zenon DEF OpsFit, AtMost

\* The steps of the calls under way.
LEMMA StepFits ==
  ASSUME OpsFit, NEW c \in Caller, Lock(c) \/ Step(c)
  PROVE  OpsFit'
<1>1. OpFits(pc[c], op[c]) /\ op' = op
  BY Zenon DEF OpsFit, Lock, Step, ReadPointsReturns, WritePointRejected, NoWait, Wait, Stamp, Count,
     Send, Fail, Succeed, local
<1>2. \E l : pc' = [pc EXCEPT ![c] = l] /\ OpFits(l, op[c])
  <2>1. CASE ReadPointsReturns(c) \/ WritePointRejected(c)
    BY <1>1, <2>1, ZenonT(30) DEF ReadPointsReturns, WritePointRejected, Goto, OpFits
  <2>2. CASE NoWait(c) \/ Stamp(c)
    BY <1>1, <2>2, AfterWaitLabel, SMTT(30) DEF NoWait, AtWait, Stamp, OpFits
  <2>3. CASE Wait(c) \/ Lock(c)
    BY <1>1, <2>3, Zenon DEF Wait, AtWait, Lock, Goto, OpFits
  <2>4. CASE Count(c) \/ Send(c)
    BY <1>1, <2>4, Zenon DEF Count, Send, Goto, OpFits
  <2>5. CASE Fail(c)
    BY <1>1, <2>5, Zenon DEF Fail, Goto, OpFits
  <2>6. CASE Succeed(c)
    <3>1. /\ pc[c] = "answered"
          /\ Goto(c, "idle") \/ (op[c] # "write" /\ (Goto(c, "group") \/ Goto(c, "panicked")))
      BY <2>6, Zenon DEF Succeed
    <3> QED
      BY <1>1, <3>1, Zenon DEF Goto, OpFits
  <2> QED
    BY <2>1, <2>2, <2>3, <2>4, <2>5, <2>6, SMTT(30) DEF Step
<1> QED
  BY <1>1, <1>2, MoveFits, Zenon

\* Calls start at the first label of their operation, and the statistics go
\* on with theirs.
LEMMA CallFits ==
  ASSUME OpsFit, NEW c \in Caller, Call(c)
  PROVE  OpsFit'
<1>1. OpFits(pc[c], op[c])
  BY Zenon DEF OpsFit
<1>2. \A o : OpFits("idle", o) /\ OpFits("load", o)
  BY Zenon DEF OpFits
<1>3. OpFits("group", "read") /\ OpFits("check", "write") /\ OpFits("reset2", "reset")
  BY Zenon DEF OpFits
<1>4. CASE CallReadPoints(c) \/ CallWritePoint(c)
  BY <1>3, <1>4, MoveFits, Zenon DEF CallReadPoints, CallWritePoint, Start, Goto
<1>5. CASE GetStats(c)
  <2>1. \E l \in {"load", "idle"} : pc' = [pc EXCEPT ![c] = l]
    BY <1>5, Zenon DEF GetStats, Goto
  <2>2. op' = op \/ op' = [op EXCEPT ![c] = "stats"]
    BY <1>5, Zenon DEF GetStats, Start
  <2> QED
    BY <1>2, <2>1, <2>2, MoveFits, Zenon
<1>6. CASE ResetStats(c)
  <2>1. CASE Start(c, "reset") /\ Goto(c, "reset2")
    BY <1>3, <2>1, MoveFits, Zenon DEF Start, Goto
  <2>2. CASE pc[c] = "reset2" /\ Goto(c, "reset3") /\ op' = op
    <3>1. OpFits("reset3", op[c])
      BY <1>1, <2>2, Zenon DEF OpFits
    <3> QED
      BY <2>2, <3>1, MoveFits, Zenon DEF Goto
  <2>3. CASE pc[c] = "reset3" /\ Goto(c, "idle") /\ op' = op
    BY <1>2, <2>3, MoveFits, Zenon DEF Goto
  <2> QED
    BY <1>6, <2>1, <2>2, <2>3, Zenon DEF ResetStats
<1>7. ASSUME NEW o, Start(c, o), pc' = pc PROVE OpsFit'
  <2>1. pc[c] = "idle" /\ AtMost(op, op', c)
    BY <1>7, ChangedTo, Zenon DEF Start, OpsFit
  <2>2. ASSUME NEW e \in Caller PROVE OpFits(pc'[e], op'[e])
    <3>1. CASE e = c
      BY <1>2, <1>7, <2>1, <3>1, Zenon
    <3>2. CASE e # c
      BY <1>7, <2>1, <3>2, Zenon DEF AtMost, OpsFit
    <3> QED
      BY <3>1, <3>2, Zenon
  <2> QED
    BY <1>7, <2>1, <2>2, Zenon DEF AtMost, OpsFit
<1> QED
  BY <1>4, <1>5, <1>6, <1>7, Zenon DEF Call, SetMaxFrameLength, SetMinInterval

\* Every caller stays at the labels of its operation.
LEMMA FitsStay ==
  ASSUME PInv, [Next]_vars
  PROVE  OpsFit'
<1>1. OpsFit
  BY Zenon DEF PInv
<1>2. CASE Tick \/ UNCHANGED vars
  BY <1>1, <1>2, Zenon DEF Tick, vars, local, OpsFit
<1>3. CASE \E c \in Caller : Call(c) \/ Lock(c) \/ Step(c)
  BY <1>1, <1>3, CallFits, StepFits, Zenon
<1> QED
  BY <1>2, <1>3, Zenon DEF Next

\* A step that only moves a caller from label to label.
LEMMA OnlyLabel ==
  ASSUME PInv, NEW c \in Caller, NEW l, pc' = [pc EXCEPT ![c] = l], UNCHANGED local,
         op[c] = "read" => PathOK(l, batch[c], todo[c], results[c], data[c], spoilt[c])
  PROVE  PathInv' /\ Locals'
<1>1. /\ op' = op /\ batch' = batch /\ todo' = todo /\ results' = results /\ data' = data
      /\ spoilt' = spoilt
  BY Zenon DEF local
<1>2. /\ AtMost(pc, pc', c) /\ pc'[c] = l /\ AtMost(op, op, c) /\ AtMost(batch, batch, c)
      /\ AtMost(todo, todo, c) /\ AtMost(results, results, c) /\ AtMost(data, data, c)
      /\ AtMost(spoilt, spoilt, c)
  <2>1. AtMost(pc, [pc EXCEPT ![c] = l], c) /\ [pc EXCEPT ![c] = l][c] = l
    BY Domains, ChangedAt, Zenon
  <2>2. /\ AtMost(op, op, c) /\ AtMost(batch, batch, c) /\ AtMost(todo, todo, c)
        /\ AtMost(results, results, c) /\ AtMost(data, data, c) /\ AtMost(spoilt, spoilt, c)
    BY Domains, ChangedAt, Zenon
  <2> QED
    BY <2>1, <2>2, Zenon
<1>3. OnlyAt(c)
  BY <1>1, <1>2, Zenon DEF OnlyAt
<1>4. PathOf(c)'
  BY <1>1, <1>2, Zenon DEF PathOf
<1> QED
  BY <1>3, <1>4, OthersPath, Zenon DEF PInv

\* A step that starts another operation of a caller.
LEMMA OtherOp ==
  ASSUME PInv, NEW c \in Caller, AtMost(pc, pc', c), AtMost(op, op', c), op'[c] # "read",
         AtMost(batch, batch', c), UNCHANGED <<todo, results, data, spoilt>>
  PROVE  PathInv' /\ Locals'
<1>1. /\ AtMost(todo, todo, c) /\ AtMost(results, results, c) /\ AtMost(data, data, c)
      /\ AtMost(spoilt, spoilt, c)
  BY Domains, ChangedAt, Zenon
<1>2. OnlyAt(c)
  BY <1>1, Zenon DEF OnlyAt
<1>3. PathOf(c)'
  BY Zenon DEF PathOf
<1> QED
  BY <1>2, <1>3, OthersPath, Zenon DEF PInv

\* ReadPoints moves on with the group in hand.
LEMMA PathMoves ==
  ASSUME NEW l, NEW b, NEW t, NEW res, NEW d, NEW sp, PathOK(l, b, t, res, d, sp),
         NEW k \in {"group", "lock", "sleep", "count", "send"}, k = "group" \/ t # <<>>
  PROVE  PathOK(k, b, t, res, d, sp)
<1>1. k # "idle" /\ k # "failed" /\ k # "answered" /\ k \notin {"load", "panicked"}
      /\ "group" \notin {"lock", "sleep", "count", "send", "failed", "answered"}
  BY Zenon
<1> QED
  BY <1>1, Zenon DEF PathOK

\* The labels at which there is a group in hand.
LEMMA InHand ==
  ASSUME NEW l \in {"lock", "sleep", "count", "send", "failed", "answered"},
         NEW b, NEW t, NEW res, NEW d, NEW sp, PathOK(l, b, t, res, d, sp)
  PROVE  t # <<>> /\ Core(b, t, res, sp)
BY Zenon DEF PathOK

\* The steps of waitMinInterval and the end of the loop.
LEMMA WaitPath ==
  ASSUME PInv, NEW c \in Caller,
         ReadPointsReturns(c) \/ WritePointRejected(c) \/ NoWait(c) \/ Wait(c) \/ Lock(c) \/ Stamp(c)
             \/ Count(c)
  PROVE  PathInv' /\ Locals'
<1> DEFINE OK(l) == PathOK(l, batch[c], todo[c], results[c], data[c], spoilt[c])
<1>1. op[c] = "read" => OK(pc[c])
  BY Zenon DEF PInv, PathInv
<1>2. OpFits(pc[c], op[c])
  BY Zenon DEF PInv, OpsFit
<1>3. pc[c] = "check" => op[c] = "write"
  BY <1>2, Zenon DEF OpFits
<1>4. "write" # "read"
  BY Zenon
<1>5. op[c] = "read" /\ AtWait(c) => todo[c] # <<>>
  BY <1>3, <1>4, Zenon DEF AtWait
<1>6. op[c] = "read" /\ pc[c] \in {"lock", "sleep", "count"} => todo[c] # <<>>
  BY <1>1, InHand, Zenon
<1>7. \A l \in {"lock", "sleep", "count", "send"} :
          op[c] = "read" /\ todo[c] # <<>> => OK(l)
  BY <1>1, PathMoves, Zenon
<1>8. UNCHANGED local
  BY Zenon DEF ReadPointsReturns, WritePointRejected, NoWait, Wait, Lock, Stamp, Count
<1>9. \E l : pc' = [pc EXCEPT ![c] = l] /\ (op[c] = "read" => OK(l))
  <2> HIDE DEF OK
  <2>1. CASE ReadPointsReturns(c)
    <3>1. "group" # "idle" /\ "idle" \notin {"lock", "sleep", "count", "send", "failed", "answered"}
          /\ "idle" # "failed" /\ "idle" # "answered" /\ "idle" \notin {"load", "panicked"}
      BY Zenon
    <3>2. op[c] = "read" => OK("idle")
      BY <1>1, <2>1, <3>1, Zenon DEF ReadPointsReturns, PathOK, OK
    <3> QED
      BY <2>1, <3>2, Zenon DEF ReadPointsReturns, Goto
  <2>2. CASE WritePointRejected(c)
    BY <1>3, <1>4, <2>2, Zenon DEF WritePointRejected, Goto
  <2>3. CASE NoWait(c)
    BY <1>5, <1>7, <2>3, AfterWaitLabel, Zenon DEF NoWait
  <2>4. CASE Wait(c)
    BY <1>5, <1>7, <2>4, Zenon DEF Wait, Goto
  <2>5. CASE Lock(c)
    BY <1>6, <1>7, <2>5, Zenon DEF Lock, Goto
  <2>6. CASE Stamp(c)
    BY <1>6, <1>7, <2>6, AfterWaitLabel, Zenon DEF Stamp
  <2>7. CASE Count(c)
    BY <1>6, <1>7, <2>7, Zenon DEF Count, Goto
  <2> QED
    BY <2>1, <2>2, <2>3, <2>4, <2>5, <2>6, <2>7, SMTT(30)
<1> QED
  BY <1>8, <1>9, OnlyLabel, Zenon

\* The end of a request: the group in hand fails or is answered.
LEMMA SendPath ==
  ASSUME PInv, NEW c \in Caller, Send(c)
  PROVE  PathInv' /\ Locals'
<1> DEFINE b == batch[c]
           t == todo[c]
           res == results[c]
           sp == spoilt[c]
           ids == Ids(Head(t))
<1>1. op[c] = "read" => t # <<>> /\ Core(b, t, res, sp)
  <2>1. op[c] = "read" => PathOK(pc[c], b, t, res, data[c], sp)
    BY Zenon DEF PInv, PathInv
  <2>2. pc[c] \in {"lock", "sleep", "count", "send", "failed", "answered"}
    BY Zenon DEF Send
  <2> QED
    BY <2>1, <2>2, InHand, Zenon
<1>2. op' = op /\ batch' = batch /\ todo' = todo /\ results' = results
  BY Zenon DEF Send
<1>3. /\ AtMost(op, op', c) /\ AtMost(batch, batch', c) /\ AtMost(todo, todo', c)
      /\ AtMost(results, results', c)
  BY <1>2, Domains, ChangedAt, Zenon
<1>4. \A l : pc' = [pc EXCEPT ![c] = l] => AtMost(pc, pc', c) /\ pc'[c] = l
  BY Domains, ChangedTo, Zenon
<1>5. /\ data' = data => AtMost(data, data', c)
      /\ \A d : data' = [data EXCEPT ![c] = d] => AtMost(data, data', c) /\ data'[c] = d
  <2>1. data' = data => AtMost(data, data', c)
    BY Domains, ChangedAt, Zenon
  <2>2. \A d : data' = [data EXCEPT ![c] = d] => AtMost(data, data', c) /\ data'[c] = d
    BY Domains, ChangedTo, Zenon
  <2> QED
    BY <2>1, <2>2, Zenon
<1>6. /\ spoilt' = spoilt => AtMost(spoilt, spoilt', c) /\ spoilt'[c] = sp
      /\ Spoil(c) => AtMost(spoilt, spoilt', c) /\ spoilt'[c] = sp \cup ids
  <2>1. Spoil(c) => spoilt' = [spoilt EXCEPT ![c] = sp \cup ids]
    BY Zenon DEF Spoil
  <2> DEFINE more == sp \cup ids
  <2>2. spoilt' = spoilt => AtMost(spoilt, spoilt', c) /\ spoilt'[c] = sp
    BY Domains, ChangedAt, Zenon
  <2> HIDE DEF more
  <2>3. Spoil(c) => AtMost(spoilt, spoilt', c) /\ spoilt'[c] = more
    BY <2>1, Domains, ChangedTo, Zenon DEF more
  <2> QED
    BY <2>2, <2>3, Zenon DEF more
<1>7. ids \subseteq sp \cup ids
  BY Zenon
<1>8. /\ "failed" \notin {"load", "panicked"} /\ "failed" # "idle" /\ "failed" # "answered"
      /\ "answered" \notin {"load", "panicked"} /\ "answered" # "idle"
  BY Zenon
<1>9. op[c] = "read" => Core(b, t, res, sp \cup ids)
  BY <1>1, SpoilCore, Zenon
<1> HIDE DEF b, t, res, sp, ids
<1>10. CASE op[c] = "read" /\ Spoil(c) /\ Goto(c, "failed") /\ UNCHANGED data
  <2>1. OnlyAt(c)
    BY <1>3, <1>4, <1>5, <1>6, <1>10, ZenonT(30) DEF OnlyAt, Goto
  <2>2. PathOK("failed", b, t, res, data'[c], sp \cup ids)
    BY <1>1, <1>7, <1>8, <1>9, <1>10, ZenonT(30) DEF PathOK, ids
  <2>3. PathOf(c)'
    BY <1>2, <1>4, <1>6, <1>10, <2>2, ZenonT(30) DEF PathOf, Goto, b, t, res
  <2> QED
    BY <2>1, <2>3, OthersPath, Zenon DEF PInv
<1>11. ASSUME op[c] = "read", NEW d \in Answers(Head(t)), data' = [data EXCEPT ![c] = d],
              IF d = FullAnswer(Head(t)) THEN UNCHANGED spoilt ELSE Spoil(c), Goto(c, "answered")
       PROVE  PathInv' /\ Locals'
  <2>1. \/ d = FullAnswer(Head(t)) /\ spoilt'[c] = sp /\ AtMost(spoilt, spoilt', c)
        \/ spoilt'[c] = sp \cup ids /\ AtMost(spoilt, spoilt', c)
    BY <1>6, <1>11, Zenon
  <2>2. OnlyAt(c)
    BY <1>3, <1>4, <1>5, <1>11, <2>1, ZenonT(30) DEF OnlyAt, Goto
  <2>3. PathOK("answered", b, t, res, d, spoilt'[c])
    BY <1>1, <1>7, <1>8, <1>9, <1>11, <2>1, ZenonT(30) DEF PathOK, ids
  <2>4. PathOf(c)'
    BY <1>2, <1>4, <1>5, <1>11, <2>3, ZenonT(30) DEF PathOf, Goto, b, t, res
  <2> QED
    BY <2>2, <2>4, OthersPath, Zenon DEF PInv
<1>12. CASE op[c] = "write" /\ (Goto(c, "failed") \/ Goto(c, "answered")) /\ UNCHANGED <<data, spoilt>>
  <2>1. AtMost(pc, pc', c)
    BY <1>4, <1>12, Zenon DEF Goto
  <2>2. op'[c] # "read"
    <3>1. "write" # "read"
      BY Zenon
    <3> QED
      BY <1>2, <1>12, <3>1, Zenon
  <2> QED
    BY <1>2, <1>3, <1>12, <2>1, <2>2, OtherOp, ZenonT(30)
<1> QED
  BY <1>10, <1>11, <1>12, Zenon DEF Send, t

\* The outcome of a request: the results of the group in hand are entered.
LEMMA OutcomePath ==
  ASSUME PInv, NEW c \in Caller, Fail(c) \/ Succeed(c)
  PROVE  PathInv' /\ Locals'
<1> DEFINE b == batch[c]
           t == todo[c]
           res == results[c]
           sp == spoilt[c]
           d == data[c]
           ResFail == SetAll(res, Ids(Head(t)), Bad)
           ResGood == Decode(res, Head(t), d)
<1>1. op[c] = "read" => PathOK(pc[c], b, t, res, d, sp)
  BY Zenon DEF PInv, PathInv
<1>2. pc[c] \in {"failed", "answered"} /\ op' = op /\ batch' = batch /\ data' = data /\ spoilt' = spoilt
  BY Zenon DEF Fail, Succeed
<1>3. /\ AtMost(op, op', c) /\ AtMost(batch, batch', c) /\ AtMost(data, data', c)
      /\ AtMost(spoilt, spoilt', c)
  BY <1>2, Domains, ChangedAt, Zenon
<1>4. \A l : pc' = [pc EXCEPT ![c] = l] => AtMost(pc, pc', c) /\ pc'[c] = l
  BY Domains, ChangedTo, Zenon
<1>5. op[c] = "read" \/ op[c] = "write"
  BY <1>2, Zenon DEF OpFits, PInv, OpsFit
<1>6. "write" # "read"
  BY Zenon
<1>7. CASE op[c] # "read"
  <2>1. AtMost(pc, pc', c) /\ results' = results /\ todo' = todo
    BY <1>4, <1>5, <1>6, <1>7, Zenon DEF Fail, Succeed, Goto
  <2> QED
    BY <1>2, <1>3, <1>7, <2>1, OtherOp, Zenon
<1>8. ASSUME op[c] = "read", NEW r, Core(b, Tail(t), r, sp), results' = [results EXCEPT ![c] = r],
             todo' = [todo EXCEPT ![c] = Tail(t)], Goto(c, "group")
      PROVE  PathInv' /\ Locals'
  <2> HIDE DEF b, t, sp, d
  <2>1. AtMost(results, results', c) /\ results'[c] = r
    BY <1>8, Domains, ChangedAt, Zenon
  <2>2. AtMost(todo, todo', c) /\ todo'[c] = Tail(t)
    BY <1>8, Domains, ChangedAt, Zenon
  <2>3. "group" \notin {"idle", "lock", "sleep", "count", "send", "failed", "answered", "load",
                        "panicked"}
    BY Zenon
  <2>4. PathOK("group", b, Tail(t), r, d, sp)
    BY <1>8, <2>3, Zenon DEF PathOK
  <2>5. OnlyAt(c)
    BY <1>3, <1>4, <1>8, <2>1, <2>2, ZenonT(30) DEF OnlyAt, Goto
  <2>6. PathOf(c)'
    BY <1>2, <1>4, <1>8, <2>1, <2>2, <2>4, ZenonT(30) DEF PathOf, Goto, b, d, sp
  <2> QED
    BY <2>5, <2>6, OthersPath, Zenon DEF PInv
<1>9. CASE op[c] = "read" /\ Fail(c)
  <2>1. results' = [results EXCEPT ![c] = ResFail] /\ todo' = [todo EXCEPT ![c] = Tail(t)]
        /\ Goto(c, "group") /\ pc[c] = "failed"
    BY <1>9, Zenon DEF Fail
  <2>2. Core(b, t, res, sp) /\ t # <<>> /\ Ids(Head(t)) \subseteq sp
    <3>1. PathOK("failed", b, t, res, d, sp)
      BY <1>1, <1>9, <2>1, Zenon
    <3> QED
      BY <3>1, Zenon DEF PathOK
  <2>3. Core(b, Tail(t), ResFail, sp)
    BY <2>2, FailCore, Zenon
  <2> HIDE DEF b, t, sp, ResFail
  <2> QED
    BY <1>8, <1>9, <2>1, <2>3, ZenonT(30)
<1>10. CASE op[c] = "read" /\ Succeed(c)
  <2>1. Core(b, t, res, sp) /\ t # <<>> /\ d \in Answers(Head(t))
        /\ (d = FullAnswer(Head(t)) \/ Ids(Head(t)) \subseteq sp)
    <3>1. PathOK("answered", b, t, res, d, sp)
      BY <1>1, <1>10, Zenon DEF Succeed
    <3> QED
      BY <3>1, Zenon DEF PathOK
  <2>2. /\ Core(b, Tail(t), ResGood, sp)
        /\ \A i \in DOMAIN Head(t).points : PointBytes(d, Head(t).points[i], Head(t)).is # "panic"
    BY <2>1, DecodeCore, Zenon
  <2>3. results' = [results EXCEPT ![c] = ResGood] /\ todo' = [todo EXCEPT ![c] = Tail(t)]
        /\ Goto(c, "group")
    BY <1>6, <1>10, <2>2, Zenon DEF Succeed
  <2> HIDE DEF b, t, sp, ResGood
  <2> QED
    BY <1>8, <1>10, <2>2, <2>3, Zenon
<1> QED
  BY <1>7, <1>9, <1>10, Zenon

\* A call of ReadPoints starts with the groups of its batch.
LEMMA ReadPath ==
  ASSUME PInv, NEW c \in Caller, CallReadPoints(c)
  PROVE  /\ PathInv' /\ Locals'
         /\ \A j \in DOMAIN todo'[c] : FitsFrame(todo'[c][j], maxFrameLength)
<1>0. PICK b \in Batches :
        /\ batch' = [batch EXCEPT ![c] = b]
        /\ results' = [results EXCEPT ![c] =
                          SetAll(NoResults, {b[i].id : i \in DOMAIN b \ Valid(b)}, Bad)]
        /\ \E o \in TakingOrders(b) :
              todo' = [todo EXCEPT ![c] = groupPoints(b, o, maxFrameLength)]
  BY Zenon DEF CallReadPoints
<1>1. PICK o \in TakingOrders(b) : todo' = [todo EXCEPT ![c] = groupPoints(b, o, maxFrameLength)]
  BY <1>0, Zenon
<1> DEFINE t == groupPoints(b, o, maxFrameLength)
           res == SetAll(NoResults, {b[i].id : i \in DOMAIN b \ Valid(b)}, Bad)
<1>2. maxFrameLength \in Nat \ {0}
  BY FrameLengthsAssumption, Zenon DEF PInv
<1>3. Core(b, t, res, {}) /\ \A j \in DOMAIN t : FitsFrame(t[j], maxFrameLength)
  BY <1>2, StartCore, Zenon
<1> HIDE DEF t, res
<1>4. /\ AtMost(batch, batch', c) /\ batch'[c] = b /\ AtMost(results, results', c) /\ results'[c] = res
      /\ AtMost(todo, todo', c) /\ todo'[c] = t
  <2>1. AtMost(batch, batch', c) /\ batch'[c] = b
    BY <1>0, Domains, ChangedTo, Zenon
  <2>2. AtMost(results, results', c) /\ results'[c] = res
    BY <1>0, Domains, ChangedTo, Zenon DEF res
  <2>3. AtMost(todo, todo', c) /\ todo'[c] = t
    BY <1>1, Domains, ChangedTo, Zenon DEF t
  <2> QED
    BY <2>1, <2>2, <2>3, SMTT(30)
<1>5. /\ AtMost(pc, pc', c) /\ pc'[c] = "group" /\ AtMost(spoilt, spoilt', c) /\ spoilt'[c] = {}
      /\ AtMost(op, op', c) /\ AtMost(data, data', c)
  <2>1. AtMost(pc, pc', c) /\ pc'[c] = "group"
    BY Domains, ChangedTo, Zenon DEF CallReadPoints, Goto
  <2>2. AtMost(spoilt, spoilt', c) /\ spoilt'[c] = {}
    BY Domains, ChangedTo, Zenon DEF CallReadPoints
  <2>3. AtMost(op, op', c)
    BY Domains, ChangedTo, Zenon DEF CallReadPoints, Start
  <2>4. AtMost(data, data', c)
    BY Domains, ChangedAt, Zenon DEF CallReadPoints
  <2> QED
    BY <2>1, <2>2, <2>3, <2>4, Zenon
<1>6. "group" \notin {"idle", "lock", "sleep", "count", "send", "failed", "answered", "load",
                      "panicked"}
  BY Zenon
<1>7. PathOK("group", b, t, res, data'[c], {})
  BY <1>3, <1>6, Zenon DEF PathOK
<1>8. OnlyAt(c)
  BY <1>4, <1>5, Zenon DEF OnlyAt
<1>9. PathOf(c)'
  BY <1>4, <1>5, <1>7, Zenon DEF PathOf
<1>10. PathInv' /\ Locals'
  BY <1>8, <1>9, OthersPath, Zenon DEF PInv
<1> QED
  BY <1>3, <1>4, <1>10, Zenon

\* The other calls are not of ReadPoints.
LEMMA CallPath ==
  ASSUME PInv, NEW c \in Caller, Call(c), ~CallReadPoints(c)
  PROVE  PathInv' /\ Locals'
<1>1. \A o : Start(c, o) => pc[c] = "idle" /\ AtMost(op, op', c) /\ op'[c] = o
  BY Domains, ChangedTo, Zenon DEF Start
<1>2. \A l : Goto(c, l) => AtMost(pc, pc', c) /\ pc'[c] = l
  BY Domains, ChangedTo, Zenon DEF Goto
<1>3. pc' = pc => AtMost(pc, pc', c)
  BY Domains, ChangedAt, Zenon
<1>4. op' = op => AtMost(op, op', c) /\ op'[c] = op[c]
  BY Domains, ChangedAt, Zenon
<1>5. UNCHANGED <<todo, results, data, spoilt>>
  BY Zenon DEF Call, CallWritePoint, GetStats, ResetStats, SetMaxFrameLength, SetMinInterval
<1>6. AtMost(batch, batch', c)
  <2>1. batch' = batch \/ \E v : batch' = [batch EXCEPT ![c] = v]
    BY Zenon DEF Call, CallWritePoint, GetStats, ResetStats, SetMaxFrameLength, SetMinInterval
  <2>2. batch' = batch => AtMost(batch, batch', c)
    BY Domains, ChangedAt, Zenon
  <2>3. \A v : batch' = [batch EXCEPT ![c] = v] => AtMost(batch, batch', c)
    BY Domains, ChangedTo, Zenon
  <2> QED
    BY <2>1, <2>2, <2>3, Zenon
<1>7. AtMost(pc, pc', c)
  BY <1>2, <1>3, Zenon DEF Call, CallWritePoint, GetStats, ResetStats, SetMaxFrameLength, SetMinInterval
<1>8. AtMost(op, op', c)
  BY <1>1, <1>4, Zenon DEF Call, CallWritePoint, GetStats, ResetStats, SetMaxFrameLength, SetMinInterval
<1>9. pc[c] \in {"load", "reset2", "reset3"} => op[c] # "read"
  <2>1. op[c] = "read" => PathOK(pc[c], batch[c], todo[c], results[c], data[c], spoilt[c])
    BY Zenon DEF PInv, PathInv
  <2>2. op[c] = "read" => pc[c] # "load"
    BY <2>1, Zenon DEF PathOK
  <2>3. pc[c] \in {"reset2", "reset3"} => op[c] # "read"
    BY Zenon DEF OpFits, PInv, OpsFit
  <2> QED
    BY <2>2, <2>3, Zenon
<1>10. op'[c] # "read"
  <2>1. /\ "write" # "read" /\ "stats" # "read" /\ "reset" # "read" /\ "setFrame" # "read"
        /\ "setInterval" # "read"
    BY Zenon
  <2> QED
    BY <1>1, <1>4, <1>9, <2>1, ZenonT(30) DEF Call, CallWritePoint, GetStats, ResetStats,
       SetMaxFrameLength, SetMinInterval
<1> QED
  BY <1>5, <1>6, <1>7, <1>8, <1>10, OtherOp, ZenonT(30)

\* The frame length stays one of those SetMaxFrameLength takes.
LEMMA FrameStays ==
  ASSUME PInv, [Next]_vars
  PROVE  maxFrameLength' \in FrameLengths
<1>1. maxFrameLength \in FrameLengths
  BY Zenon DEF PInv
<1>2. ASSUME NEW c \in Caller, Call(c) PROVE maxFrameLength' \in FrameLengths
  BY <1>1, <1>2, Zenon DEF Call, CallReadPoints, CallWritePoint, GetStats, ResetStats,
     SetMaxFrameLength, SetMinInterval, config
<1>3. ASSUME NEW c \in Caller, Lock(c) \/ Step(c) PROVE maxFrameLength' \in FrameLengths
  BY <1>1, <1>3, Zenon DEF Lock, Step, ReadPointsReturns, WritePointRejected, NoWait, Wait, Stamp,
     Count, Send, Fail, Succeed, config
<1>4. CASE Tick \/ UNCHANGED vars
  BY <1>1, <1>4, Zenon DEF Tick, vars, config
<1> QED
  BY <1>2, <1>3, <1>4, Zenon DEF Next

\* Every step keeps the invariant of ReadPoints.
LEMMA PathStep ==
  ASSUME PInv, [Next]_vars
  PROVE  PInv'
<1>1. OpsFit' /\ maxFrameLength' \in FrameLengths
  BY FitsStay, FrameStays, Zenon DEF PInv
<1>2. CASE Tick \/ UNCHANGED vars
  <2>1. /\ pc' = pc /\ op' = op /\ batch' = batch /\ todo' = todo /\ results' = results
        /\ data' = data /\ spoilt' = spoilt
    BY <1>2, Zenon DEF Tick, vars, local
  <2>2. PathInv' /\ Locals'
    BY <2>1, Zenon DEF PInv, PathInv, Locals
  <2> QED
    BY <1>1, <2>2, Zenon DEF PInv
<1>3. ASSUME NEW c \in Caller, Call(c) \/ Lock(c) \/ Step(c) PROVE PathInv' /\ Locals'
  BY <1>3, ReadPath, CallPath, WaitPath, SendPath, OutcomePath, ZenonT(30) DEF Step
<1>4. CASE \E c \in Caller : Call(c) \/ Lock(c) \/ Step(c)
  BY <1>1, <1>3, <1>4, Zenon DEF PInv
<1> QED
  BY <1>2, <1>4, Zenon DEF Next

\* Initially nobody reads.
LEMMA InitPath == Init => PInv
<1> SUFFICES ASSUME Init PROVE PInv
  BY Zenon
<1>1. OpsFit
  BY Zenon DEF Init, OpsFit, OpFits
<1>2. maxFrameLength \in FrameLengths
  BY Zenon DEF Init, NewScheduler
<1>3. Locals
  BY Zenon DEF Init, Locals
<1>4. \A c \in Caller : op[c] = "none"
  BY Zenon DEF Init
<1>5. "none" # "read"
  BY Zenon
<1> QED
  BY <1>1, <1>2, <1>3, <1>4, <1>5, ZenonT(30) DEF PInv, PathInv

\* The invariant of ReadPoints: at every label, each point of the batch has
\* a result that is right or lies in a group still to be read.
THEOREM PathInvariance == Spec => []PInv
<1>1. PInv /\ [Next]_vars => PInv'
  BY PathStep, Zenon
<1> QED
  BY <1>1, InitPath, PTL DEF Spec

\* decodePointValue slices no answer beyond its end, whatever the batch, the
\* order groupPoints takes it in, the frame length and the answers.
THEOREM NoPanicTheorem == Spec => []NoPanic
<1>1. PInv => NoPanic
  <2> SUFFICES ASSUME PInv, NEW c \in Caller, pc[c] = "panicked" PROVE FALSE
    BY Zenon DEF NoPanic
  <2>1. op[c] = "read"
    BY Zenon DEF PInv, OpsFit, OpFits
  <2>2. PathOK(pc[c], batch[c], todo[c], results[c], data[c], spoilt[c])
    BY <2>1, Zenon DEF PInv, PathInv
  <2>3. pc[c] \notin {"load", "panicked"}
    BY <2>2, Zenon DEF PathOK
  <2> QED
    BY <2>3, Zenon
<1> QED
  BY <1>1, PathInvariance, PTL

\* The results of a ReadPoints that has returned.
LEMMA ReturnedSettled ==
  ASSUME PInv, NEW c \in Caller, Returned(c)
  PROVE  /\ DOMAIN results[c] = {batch[c][i].id : i \in DOMAIN batch[c]}
         /\ \A i \in DOMAIN batch[c] : Settled(results[c], spoilt[c], batch[c][i])
<1> DEFINE b == batch[c]
           t == todo[c]
           res == results[c]
           sp == spoilt[c]
<1>1. PathOK("idle", b, t, res, data[c], sp)
  BY Zenon DEF PInv, PathInv, Returned
<1>2. Core(b, t, res, sp) /\ t = <<>>
  BY <1>1, Zenon DEF PathOK
<1> HIDE DEF b, t, res, sp
<1>3. t = <<>> => DOMAIN t = {}
  OBVIOUS
<1>4. \A i \in DOMAIN b : Settled(res, sp, b[i])
  BY <1>2, <1>3, Zenon DEF Core
<1>5. DOMAIN res \subseteq {b[i].id : i \in DOMAIN b}
  BY <1>2, Zenon DEF Core
<1>6. {b[i].id : i \in DOMAIN b} \subseteq DOMAIN res
  BY <1>4, Zenon DEF Settled
<1>7. DOMAIN res = {b[i].id : i \in DOMAIN b}
  BY <1>5, <1>6, Zenon
<1> QED
  BY <1>4, <1>7, Zenon DEF b, res, sp

\* A Good value is made of the bytes its own address means: groupPoints,
\* the offsets it notes and decodePointValue agree on where a point lies in
\* the answer to a batch request.
THEOREM OwnBytesTheorem == Spec => []OwnBytes
<1>1. PInv => OwnBytes
  BY ReturnedSettled, Zenon DEF OwnBytes, Settled
<1> QED
  BY <1>1, PathInvariance, PTL

\* Every point has a result, and one that can be read is Good unless its own
\* request failed or was answered short.
THEOREM GoodUnlessFailedTheorem == Spec => []GoodUnlessFailed
<1>1. ASSUME PInv, NEW c \in Caller, Returned(c), NEW i \in Valid(batch[c]), Readable(batch[c][i])
      PROVE  results[c][batch[c][i].id].quality = "Good" \/ batch[c][i].id \in spoilt[c]
  <2>1. i \in DOMAIN batch[c] /\ ParseAddress(batch[c][i].addr).ok
    BY <1>1, Zenon DEF Valid
  <2> QED
    BY <1>1, <2>1, ReturnedSettled, Zenon DEF Settled
<1>2. PInv => GoodUnlessFailed
  BY <1>1, ReturnedSettled, Zenon DEF GoodUnlessFailed, Readable
<1> QED
  BY <1>2, PathInvariance, PTL

\* Only CallReadPoints takes a caller from idle to its groups.
LEMMA OnlyCallGroups ==
  ASSUME PInv, [Next]_vars, NEW c \in Caller, pc[c] = "idle", pc'[c] = "group"
  PROVE  CallReadPoints(c)
<1>1. ASSUME NEW l, NEW e \in Caller, pc' = [pc EXCEPT ![e] = l] PROVE e = c /\ l = "group"
  <2>1. AtMost(pc, pc', e) /\ pc'[e] = l
    BY <1>1, Domains, ChangedTo, Zenon
  <2>2. "idle" # "group"
    BY Zenon
  <2> QED
    BY <2>1, <2>2, Zenon DEF AtMost
<1>2. pc' # pc
  <2>1. "idle" # "group"
    BY Zenon
  <2> QED
    BY <2>1, Zenon
<1>3. PICK e \in Caller : Call(e) \/ Lock(e) \/ Step(e)
  BY <1>2, Zenon DEF Next, Tick, vars
<1>4. \A l : Goto(e, l) => e = c /\ l = "group"
  BY <1>1, Zenon DEF Goto
<1>5. AfterWait(e) => FALSE
  <2>1. "count" # "group" /\ "send" # "group"
    BY Zenon
  <2> QED
    BY <1>1, <2>1, AfterWaitLabel, Zenon
<1>6. /\ "check" # "group" /\ "load" # "group" /\ "idle" # "group" /\ "reset2" # "group"
      /\ "reset3" # "group" /\ "lock" # "group" /\ "sleep" # "group" /\ "send" # "group"
      /\ "failed" # "group" /\ "answered" # "group" /\ "panicked" # "group"
      /\ "failed" # "idle" /\ "answered" # "idle"
  BY Zenon
<1>7. ~(Lock(e) \/ Step(e))
  <2>1. ~Lock(e) /\ ~ReadPointsReturns(e) /\ ~WritePointRejected(e) /\ ~NoWait(e) /\ ~Wait(e)
        /\ ~Stamp(e) /\ ~Count(e)
    BY <1>4, <1>5, <1>6, Zenon DEF Lock, ReadPointsReturns, WritePointRejected, NoWait, Wait, Stamp, Count
  <2>2. ~Send(e)
    BY <1>4, <1>6, Zenon DEF Send
  <2>3. pc[e] = "failed" \/ pc[e] = "answered" => e # c
    BY <1>6, Zenon
  <2>4. ~Fail(e)
    BY <1>4, <1>6, <2>3, Zenon DEF Fail
  <2>5. ~Succeed(e)
    BY <1>4, <1>6, <2>3, Zenon DEF Succeed
  <2> QED
    BY <2>1, <2>2, <2>4, <2>5, Zenon DEF Step
<1>8. ~(\E n \in FrameLengths : SetMaxFrameLength(e, n)) /\ ~(\E n \in Intervals : SetMinInterval(e, n))
  BY <1>2, Zenon DEF SetMaxFrameLength, SetMinInterval
<1>9. ~CallWritePoint(e) /\ ~ResetStats(e)
  BY <1>4, <1>6, Zenon DEF CallWritePoint, ResetStats
<1>10. ~GetStats(e)
  <2>1. ~Goto(e, IF Len(snapshot[e]) = 1 THEN "load" ELSE "idle")
    BY <1>4, <1>6, Zenon
  <2> QED
    BY <1>4, <1>6, <2>1, Zenon DEF GetStats
<1>11. CallReadPoints(e)
  BY <1>3, <1>7, <1>8, <1>9, <1>10, Zenon DEF Call
<1> QED
  BY <1>4, <1>11, Zenon DEF CallReadPoints

\* groupPoints asks for no more than maxFrameLength words at once, or for the
\* words of one point that is longer than that.
THEOREM BatchFitsFrameTheorem == Spec => BatchFitsFrame
<1>1. ASSUME PInv, [Next]_vars, NEW c \in Caller, pc[c] = "idle", pc'[c] = "group",
             NEW j \in DOMAIN todo'[c]
      PROVE  \/ todo'[c][j].count <= maxFrameLength
             \/ todo'[c][j].count = WordCount(todo'[c][j].points[1].point)
  <2>1. FitsFrame(todo'[c][j], maxFrameLength)
    BY <1>1, OnlyCallGroups, ReadPath, Zenon
  <2> QED
    BY <2>1, Zenon DEF FitsFrame
<1>2. PInv /\ [Next]_vars =>
        [\A c \in Caller : pc[c] = "idle" /\ pc'[c] = "group" =>
             \A j \in DOMAIN todo'[c] :
                 LET g == todo'[c][j]
                     first == WordCount(g.points[1].point)
                 IN g.count <= maxFrameLength \/ g.count = first]_vars
  BY <1>1, Zenon
<1> QED
  BY <1>2, PathInvariance, PTL DEF Spec, BatchFitsFrame
=============================================================================

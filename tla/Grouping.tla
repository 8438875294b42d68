------------------------------ MODULE Grouping ------------------------------
(***************************************************************************)
(* groupPoints and decodePointValue of scheduler.go: how the points of a   *)
(* ReadPoints call become read requests, and which bytes of an answer each *)
(* point is decoded from.  A point is [id, addr, dataType], with addr as   *)
(* in Decoder, and a batch is a sequence of points.                        *)
(***************************************************************************)
EXTENDS Decoder, Functions, FiniteSets

\* The request of a point: the area code with bits told from words.
IsBitPoint(p) == ParseAddress(p.addr).IsBit \/ p.dataType = "BIT"
GroupKey(p) ==
    LET code == ParseAddress(p.addr).AreaCode
    IN [areaCode |-> IF IsBitPoint(p) THEN BitAreaOr(code) ELSE code, isBit |-> IsBitPoint(p)]

\* The orders in which groupPoints may take the points of a batch: a Go map
\* yields its keys in any order, and within a key sort.Slice, which is not
\* stable, orders the points by address and bit.
Valid(batch) == {i \in DOMAIN batch : ParseAddress(batch[i].addr).ok}
NotAfter(p, q) ==
    LET a == ParseAddress(p.addr)
        b == ParseAddress(q.addr)
    IN a.Address < b.Address \/ (a.Address = b.Address /\ a.Bit <= b.Bit)
TakingOrders(batch) ==
    {s \in Bijection(1 .. Cardinality(Valid(batch)), Valid(batch)) :
        \A i, j \in DOMAIN s :
            i < j /\ GroupKey(batch[s[i]]) = GroupKey(batch[s[j]]) =>
                /\ NotAfter(batch[s[i]], batch[s[j]])
                /\ \A k \in i .. j : GroupKey(batch[s[k]]) = GroupKey(batch[s[i]])}

\* Words a point needs in a word request.
TypeSize(p) ==
    LET a == ParseAddress(p.addr)
        size == DataTypeSize(p.dataType)
    IN IF size # 0 THEN size ELSE IF a.IsString THEN a.StringLen ELSE 2
WordCount(p) == (TypeSize(p) + 1) \div 2

\* A group that starts with a point; item counts and addresses are uint16.
NewGroup(p) ==
    [key |-> GroupKey(p), startAddr |-> ParseAddress(p.addr).Address % U16,
     count |-> IF IsBitPoint(p) THEN 1 ELSE WordCount(p) % U16,
     points |-> <<[point |-> p, offset |-> 0]>>]

\* Mutant: the length of the frame does not matter.
MutantJoins(p, g, maxFrameLength) ==
    /\ GroupKey(p) = g.key
    /\ ~g.key.isBit
    /\ ParseAddress(p.addr).Address <= g.startAddr + g.count + 10

\* A word point joins the group before it if it starts at most ten words
\* after its end and the group stays within the frame.
Joins(p, g, maxFrameLength) ==
    LET start == ParseAddress(p.addr).Address
    IN /\ GroupKey(p) = g.key
       /\ ~g.key.isBit
       /\ start <= g.startAddr + g.count + 10
       /\ (start + WordCount(p) - g.startAddr) * 2 <= maxFrameLength * 2

\* The words of a group with a point that joins it.
ExtendedCount(g, p) ==
    LET end == ParseAddress(p.addr).Address + WordCount(p)
    IN IF end > g.startAddr + g.count THEN (end - g.startAddr) % U16 ELSE g.count

\* Mutant: a joining point always moves the end, even when it ends earlier.
MutantJoin(g, p) ==
    LET start == ParseAddress(p.addr).Address
        end == start + WordCount(p)
    IN [g EXCEPT !.count = (end - g.startAddr) % U16,
                 !.points = Append(@, [point |-> p, offset |-> (start - g.startAddr) * 2])]

\* Mutant: the offset of a joining point is counted in words.
MutantJoinOffset(g, p) ==
    LET start == ParseAddress(p.addr).Address
        end == start + WordCount(p)
    IN [g EXCEPT !.count = IF end > g.startAddr + g.count THEN (end - g.startAddr) % U16 ELSE @,
                 !.points = Append(@, [point |-> p, offset |-> start - g.startAddr])]

\* Mutant: a joining point does not extend the group.
MutantJoinCount(g, p) ==
    LET start == ParseAddress(p.addr).Address
    IN [g EXCEPT !.points = Append(@, [point |-> p, offset |-> (start - g.startAddr) * 2])]

Join(g, p) ==
    [key |-> g.key, startAddr |-> g.startAddr, count |-> ExtendedCount(g, p),
     points |-> Append(g.points, [point |-> p,
                                  offset |-> (ParseAddress(p.addr).Address - g.startAddr) * 2])]

AddPoint(groups, p, maxFrameLength) ==
    LET last == Len(groups)
    IN IF groups # <<>> /\ Joins(p, groups[last], maxFrameLength)
       THEN [groups EXCEPT ![last] = Join(@, p)]
       ELSE Append(groups, NewGroup(p))

groupPoints(batch, order, maxFrameLength) ==
    LET taken[n \in 0 .. Len(order)] ==
            IF n = 0 THEN <<>> ELSE AddPoint(taken[n - 1], batch[order[n]], maxFrameLength)
    IN taken[Len(order)]

-----------------------------------------------------------------------------
(* The bytes a point is decoded from: they may be too few, and a string    *)
(* that starts beyond the answer slices out of range.                      *)

PointBytes(data, gp, group) ==
    LET a == ParseAddress(gp.point.addr)
        size == DataTypeSize(gp.point.dataType)
        typeSize == IF size = 0 THEN 2 ELSE size
        end == gp.offset + (IF a.IsString THEN a.StringLen ELSE typeSize)
        last == IF end > Len(data) THEN Len(data) ELSE end
    IN CASE group.key.isBit /\ Len(data) < 1 -> [is |-> "short"]
         [] group.key.isBit /\ Len(data) >= 1 -> [is |-> "bytes", bytes |-> SubSeq(data, 1, 1)]
         [] ~group.key.isBit /\ a.IsString /\ gp.offset > last -> [is |-> "panic"]
         [] ~group.key.isBit /\ a.IsString /\ gp.offset <= last ->
                [is |-> "bytes", bytes |-> SubSeq(data, gp.offset + 1, last)]
         [] ~group.key.isBit /\ ~a.IsString /\ end > Len(data) -> [is |-> "short"]
         [] OTHER -> [is |-> "bytes", bytes |-> SubSeq(data, gp.offset + 1, end)]

decodePointValue(data, gp, group) ==
    LET a == ParseAddress(gp.point.addr)
        b == PointBytes(data, gp, group)
    IN CASE b.is # "bytes" -> Error
         [] b.is = "bytes" /\ group.key.isBit -> Decoded("bool", b.bytes[1] % 2 = 1)
         [] OTHER -> DecodeValue(b.bytes, IF a.IsString THEN "STRING" ELSE gp.point.dataType, a)

-----------------------------------------------------------------------------
(* The request of WritePoint: EncodeValue, then WriteBits for a bit or     *)
(* WriteMemory for words.  An encoded value of odd length is sent as it is *)
(* and only a string is padded to whole words.                             *)

NewMemoryAddress(area, address) == [Area |-> area, Address |-> address, BitOffset |-> 0]
NewMemoryAddressWithBit(area, address, bit) ==
    [Area |-> area, Address |-> address, BitOffset |-> bit]

\* The data of WriteBits, a byte for each bit.
WriteBitsData(values) == [i \in DOMAIN values |-> IF values[i] THEN 1 ELSE 0]

WriteRequest(p, value) ==
    LET a == ParseAddress(p.addr)
        e == EncodeValue(value, p.dataType, a)
        isString == p.dataType = "STRING" /\ a.StringLen > 0
        size == IF isString THEN a.StringLen ELSE Len(e.data)
        wordCount == ((size + 1) \div 2) % U16
    IN CASE ~a.ok -> Error
         [] a.ok /\ ~e.ok -> Error
         [] a.ok /\ e.ok /\ IsBitPoint(p) ->
                [ok |-> TRUE, count |-> 1, data |-> WriteBitsData(<<e.data[1] # 0>>),
                 at |-> NewMemoryAddressWithBit(BitAreaOr(a.AreaCode), a.Address % U16,
                                                a.Bit % Byte)]
         [] OTHER ->
                [ok |-> TRUE, count |-> wordCount,
                 data |-> IF isString THEN Padded(e.data, wordCount * 2) ELSE e.data,
                 at |-> NewMemoryAddress(a.AreaCode, a.Address % U16)]

\* The request of a group: readWordGroup or readBitGroup.
ReadRequest(g) ==
    [count |-> g.count,
     at |-> IF g.key.isBit
            THEN NewMemoryAddressWithBit(g.key.areaCode, g.startAddr,
                                         ParseAddress(g.points[1].point.addr).Bit % Byte)
            ELSE NewMemoryAddress(g.key.areaCode, g.startAddr)]

\* ReadBits: one flag for each bit asked for, FALSE where the answer ends.
ReadBitsData(data, count) == [i \in 1 .. count |-> IF i <= Len(data) THEN data[i] % 2 ELSE 0]
=============================================================================

----------------------------- MODULE PlcMemory ------------------------------
(***************************************************************************)
(* The memory of the mock PLC of mock_plc.go: five areas of bytes, read    *)
(* and written word by word or bit by bit.  Bit n of a word is the one of  *)
(* weight 2^n, and the first byte of a word is its high byte.              *)
(***************************************************************************)
EXTENDS Decoder

CONSTANT Words   \* the size of each area in words; D has 32768 in the code

Areas == {"D", "CIO", "W", "H", "A"}

ASSUME WordsAssumption == Words \in [Areas -> Nat]

NewMockPLC == [a \in Areas |-> [k \in 0 .. 2 * Words[a] - 1 |-> 0]]

\* getArea and getBitArea: the area a code stands for, if the PLC has it.
getArea(code) ==
    IF \E a \in Areas : MemoryAreaWord[a] = code
    THEN CHOOSE a \in Areas : MemoryAreaWord[a] = code ELSE "none"
getBitArea(code) ==
    IF \E a \in Areas : MemoryAreaBit[a] = code
    THEN CHOOSE a \in Areas : MemoryAreaBit[a] = code ELSE "none"

\* Where count items at m lie: the first byte or bit, and how many, or the
\* end code that refuses them.
Refused(end) == [end |-> end, area |-> "none", isBit |-> FALSE, first |-> 0, items |-> 0]
Locate(m, count) ==
    LET isBit == ~IsWordArea(m.Area)
        area == IF isBit THEN getBitArea(m.Area) ELSE getArea(m.Area)
        first == IF isBit THEN m.Address * WordBits + m.BitOffset ELSE m.Address * 2
        items == IF isBit THEN count ELSE count * 2
        size == IF isBit THEN Words[area] * WordBits ELSE Words[area] * 2
    IN CASE ~IsWordArea(m.Area) /\ ~IsBitArea(m.Area) -> Refused("NOT_SUPPORTED")
         [] area = "none" -> Refused("NOT_SUPPORTED")
         [] area # "none" /\ first + items > size -> Refused("ADDR_RANGE_EXCEED")
         [] OTHER -> [end |-> "NORMAL", area |-> area, isBit |-> isBit,
                      first |-> first, items |-> items]

\* Mutant: the bits are counted from the other end.
MutantFromLeft(bitPos) == bitPos % WordBits

\* Bits of a word counted from its left, the byte that holds a bit, and the
\* bit's weight in that byte.
FromLeft(bitPos) == WordBits - 1 - (bitPos % WordBits)
BitByte(bitPos) == (bitPos \div WordBits) * 2 + (FromLeft(bitPos) \div ByteBits)
BitWeight(bitPos) == 2 ^ (ByteBits - 1 - (FromLeft(bitPos) % ByteBits))

\* Item i of a transfer t: what a read yields and what a write does.
Load(mem, t, i) ==
    LET pos == t.first + i - 1
    IN IF t.isBit THEN (mem[t.area][BitByte(pos)] \div BitWeight(pos)) % 2
       ELSE mem[t.area][pos]

Store(mem, t, i, v) ==
    LET pos == t.first + i - 1
        set == IF v # 0 THEN 1 ELSE 0
    IN IF t.isBit
       THEN [mem EXCEPT ![t.area][BitByte(pos)] =
                @ + (set - ((@ \div BitWeight(pos)) % 2)) * BitWeight(pos)]
       ELSE [mem EXCEPT ![t.area][pos] = v]

\* The items a write stores: what was announced, or less if data runs out.
StoredItems(t, data) == IF Len(data) < t.items THEN Len(data) ELSE t.items

\* The memory once items i + 1 and on have been stored too.
StoreFrom(mem, t, data, i) ==
    LET after[k \in i .. StoredItems(t, data)] ==
            IF k = i THEN mem ELSE Store(after[k - 1], t, k, data[k])
    IN after[StoredItems(t, data)]

readMemory(mem, m, count) ==
    LET t == Locate(m, count)
    IN [end |-> t.end, data |-> [i \in 1 .. t.items |-> Load(mem, t, i)]]

writeMemory(mem, m, count, data) ==
    LET t == Locate(m, count)
    IN [end |-> t.end, mem |-> IF t.end = "NORMAL" THEN StoreFrom(mem, t, data, 0) ELSE mem]
=============================================================================

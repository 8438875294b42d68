------------------------------ MODULE Decoder -------------------------------
(***************************************************************************)
(* decoder.go, and the memory areas of protocol.go: addresses of points,   *)
(* and the conversion of values to the bytes of a request and back.        *)
(*                                                                         *)
(* A byte has ByteBits bits and a word two bytes, 8 and 16 in the code; a  *)
(* small ByteBits keeps every width of the code (8, 16, 32 and 64 bits,    *)
(* the 16 bits of a word) in proportion and within TLC's integers.         *)
(*                                                                         *)
(* An address is kept in the parts the regular expression of ParseAddress  *)
(* tells apart: [area, em, num, dot, order], where em is the bank number   *)
(* of an EM address, which is written with its W, dot is NoDot without     *)
(* the .n suffix, and order is "H", "L" or "".  A value is [kind, v], its  *)
(* Go type and its number, boolean or string; a float is named by its bit  *)
(* pattern and a string is a sequence of bytes.                            *)
(***************************************************************************)
EXTENDS Integers, Sequences

CONSTANT ByteBits

ASSUME ByteBitsAssumption == ByteBits \in Nat \ {0}

WordBits == 2 * ByteBits
Byte == 2 ^ ByteBits
U16 == Byte ^ 2
NoDot == -1

\* A bit number fits a byte.
ASSUME WidthAssumption == Byte \in Nat /\ U16 \in Nat /\ WordBits <= Byte

Error == [ok |-> FALSE]

-----------------------------------------------------------------------------
(* Memory areas.                                                           *)

MemoryAreaWord ==
    [CIO |-> 176, W |-> 177, H |-> 178, A |-> 179, D |-> 130, P |-> 181, T |-> 137, C |-> 137]
MemoryAreaBit == [CIO |-> 48, A |-> 49, W |-> 50, H |-> 51, D |-> 2, P |-> 53]
FlagBit == 11
TaskBit == 6
EM0Word == 160
EM0Bit == 32

EMWordArea(em) == EM0Word + em

WordAreas == {MemoryAreaWord[a] : a \in DOMAIN MemoryAreaWord} \cup EM0Word .. EM0Word + 15
BitAreas == {MemoryAreaBit[a] : a \in DOMAIN MemoryAreaBit} \cup {FlagBit, TaskBit}
                \cup EM0Bit .. EM0Bit + 15
IsWordArea(code) == code \in WordAreas
IsBitArea(code) == code \in BitAreas

\* Timers and counters have no bit area: an error, which callers ignore.
GetBitAreaCode(code) ==
    CASE \E a \in DOMAIN MemoryAreaBit : code = MemoryAreaWord[a] ->
            [ok |-> TRUE,
             code |-> MemoryAreaBit[CHOOSE a \in DOMAIN MemoryAreaBit : code = MemoryAreaWord[a]]]
      [] code \in EM0Word .. EM0Word + 15 -> [ok |-> TRUE, code |-> EM0Bit + code - EM0Word]
      [] OTHER -> Error

\* The bit area of an address; scheduler.go keeps the word code on an error.
BitAreaOr(code) == IF GetBitAreaCode(code).ok THEN GetBitAreaCode(code).code ELSE code

areaMap ==
    [a \in {"CIO", "W", "H", "A", "D", "P", "F", "T", "C"} |->
        [ok |-> TRUE,
         Code |-> IF a = "F" THEN FlagBit ELSE MemoryAreaWord[a],
         ReadOnly |-> a \in {"A", "F"},
         SupportBit |-> TRUE,
         SupportString |-> a \in {"CIO", "W", "H", "A", "D"}]]

GetAreaInfo(area, em) ==
    CASE area \in DOMAIN areaMap -> areaMap[area]
      [] area = "EM" /\ em \in 0 .. 15 ->
            [ok |-> TRUE, Code |-> EMWordArea(em), ReadOnly |-> FALSE,
             SupportBit |-> TRUE, SupportString |-> TRUE]
      [] OTHER -> Error

-----------------------------------------------------------------------------
(* Addresses.                                                              *)

\* The area names of the regular expression, which has no F.
RegexAreas == {"CIO", "EM", "W", "H", "D", "A", "P", "T", "C"}

\* A .n suffix is a bit number, or the length of a string when a byte order
\* follows it or when it is too large for a bit of the D area.
ParseAddress(a) ==
    LET info == GetAreaInfo(a.area, a.em)
        isString == a.order # "" \/ (a.area = "D" /\ a.dot >= WordBits)
        isBit == ~isString /\ a.dot \in 0 .. WordBits - 1
        accepted == /\ a.area \in RegexAreas
                    /\ info.ok
                    /\ \/ a.dot = NoDot
                       \/ isString /\ info.SupportString /\ a.dot > 0
                       \/ isBit /\ info.SupportBit
    IN IF ~accepted THEN Error
       ELSE [ok |-> TRUE, AreaCode |-> info.Code, Address |-> a.num,
             IsBit |-> isBit, Bit |-> IF isBit THEN a.dot ELSE -1,
             IsString |-> isString, StringLen |-> IF isString THEN a.dot ELSE 0,
             Low |-> isString /\ a.order # "H"]

-----------------------------------------------------------------------------
(* Values.                                                                 *)

\* The Go type a data type is encoded from and decoded to, and its size.
KindOf == [UINT8 |-> "uint8", INT8 |-> "int8", UINT16 |-> "uint16", INT16 |-> "int16",
           UINT32 |-> "uint32", INT32 |-> "int32", UINT64 |-> "uint64", INT64 |-> "int64",
           FLOAT |-> "float32", DOUBLE |-> "float64"]
Numeric == DOMAIN KindOf
Signed == {"INT8", "INT16", "INT32", "INT64"}

\* DataTypeSize, whose error for BIT comes with the size 0 its callers use.
DataTypeSize(dataType) ==
    CASE dataType \in {"UINT8", "INT8"} -> 1
      [] dataType \in {"UINT16", "INT16"} -> 2
      [] dataType \in {"UINT32", "INT32", "FLOAT"} -> 4
      [] dataType \in {"UINT64", "INT64", "DOUBLE"} -> 8
      [] OTHER -> 0

\* The n bytes of v, most significant first unless low, and the way back.
PutUint(v, n, low) ==
    [i \in 1 .. n |-> (v \div Byte ^ (IF low THEN i - 1 ELSE n - i)) % Byte]
Uint(b, low) ==
    LET n == Len(b)
        sum[i \in 0 .. n] == IF i = 0 THEN 0 ELSE sum[i - 1] * Byte + b[IF low THEN n + 1 - i ELSE i]
    IN sum[n]
ToSigned(u, n) == IF u >= Byte ^ n \div 2 THEN u - Byte ^ n ELSE u

\* copy into a buffer of n zero bytes.
Padded(s, n) == [i \in 1 .. n |-> IF i <= Len(s) THEN s[i] ELSE 0]

\* string(data) up to its first NUL.
UpToNul(s) ==
    LET nuls == {i \in DOMAIN s : s[i] = 0}
    IN IF nuls = {} THEN s ELSE SubSeq(s, 1, (CHOOSE i \in nuls : \A j \in nuls : i <= j) - 1)

Bytes(b) == [ok |-> TRUE, data |-> b]
Decoded(kind, v) == [ok |-> TRUE, value |-> [kind |-> kind, v |-> v]]

\* A float64 is converted to the type asked for, as numbers from JSON are.
EncodeValue(value, dataType, addr) ==
    CASE addr.IsBit ->
            IF value.kind = "bool" THEN Bytes(<<IF value.v THEN 1 ELSE 0>>) ELSE Error
      [] ~addr.IsBit /\ dataType \in Numeric ->
            IF value.kind \in {KindOf[dataType], "float64"}
            THEN Bytes(PutUint(value.v, DataTypeSize(dataType), addr.Low)) ELSE Error
      [] ~addr.IsBit /\ dataType = "STRING" ->
            IF value.kind = "string"
            THEN Bytes(Padded(value.v, IF addr.StringLen > 0 THEN addr.StringLen ELSE Len(value.v)))
            ELSE Error
      [] OTHER -> Error

DecodeValue(data, dataType, addr) ==
    LET n == DataTypeSize(dataType)
        u == Uint(SubSeq(data, 1, n), addr.Low)
        cut == IF addr.StringLen \in 1 .. Len(data) THEN addr.StringLen ELSE Len(data)
    IN CASE addr.IsBit \/ dataType = "BIT" ->
               IF Len(data) < 1 THEN Error ELSE Decoded("bool", data[1] % 2 = 1)
         [] ~addr.IsBit /\ dataType \in Numeric ->
               IF Len(data) < n THEN Error
               ELSE Decoded(KindOf[dataType], IF dataType \in Signed THEN ToSigned(u, n) ELSE u)
         [] ~addr.IsBit /\ dataType = "STRING" ->
               Decoded("string", UpToNul(SubSeq(data, 1, cut)))
         [] OTHER -> Error
=============================================================================

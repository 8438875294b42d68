------------------------------ MODULE MCUdpPlc -------------------------------
(* A small instance of UdpPlc: 16 addresses, areas of 8 bytes, which is    *)
(* half of them as in the code, and a buffer of 40 bytes.                  *)
EXTENDS UdpPlc, Bcd

CONSTANTS c1, c2

MCTimes == {<<2026, 11, 15, 10, 30, 59>>, <<1999, 1, 2, 0, 7, 40>>}

WordRead(op, address, n) == [op |-> op, area |-> MemoryAreaDMWord, address |-> address, count |-> n]
WordWrite(op, address, d) == [op |-> op, area |-> MemoryAreaDMWord, address |-> address, data |-> d]
BitRead(address, bit, n) ==
    [op |-> "ReadBits", area |-> MemoryAreaDMBit, address |-> address, bit |-> bit, count |-> n]
BitWrite(address, bit, d) ==
    [op |-> "WriteBits", area |-> MemoryAreaDMBit, address |-> address, bit |-> bit, data |-> d]
Bit(op, address, bit) == [op |-> op, area |-> MemoryAreaDMBit, address |-> address, bit |-> bit]
ReadsClock == [op |-> "ReadClock"]

\* Writes and reads of every kind that overlap, at the end of the area and
\* beyond it, and of an area of the wrong kind.
WordCalls ==
    {WordWrite("WriteWords", 2, <<258, 772>>), WordWrite("WriteWords", 6, <<5>>),
     WordWrite("WriteWords", 7, <<6>>), WordWrite("WriteString", 3, <<65, 66, 67>>),
     WordWrite("WriteBytes", 4, <<9, 8>>), WordRead("ReadWords", 2, 3),
     WordRead("ReadBytes", 0, 4), WordRead("ReadString", 3, 2), WordRead("ReadWords", 8, 1),
     [WordRead("ReadWords", 0, 1) EXCEPT !.area = MemoryAreaDMBit]}
BitCalls ==
    {BitWrite(2, 1, <<TRUE, FALSE, TRUE>>), BitRead(1, 1, 4), BitWrite(7, 0, <<TRUE, TRUE>>),
     Bit("SetBit", 4, 0), Bit("ResetBit", 2, 1), [Bit("SetBit", 4, 0) EXCEPT !.area = MemoryAreaDMWord]}
SimCalls(c) == IF c = c1 THEN WordCalls \cup {ReadsClock}
               ELSE BitCalls \cup {Bit("ToggleBit", 3, 0), WordRead("ReadWords", 2, 3)}

\* The demonstration server takes the codes of bits for words.
CmdCalls ==
    {[k EXCEPT !.area = area] :
        k \in {BitWrite(2, 0, <<TRUE>>), BitRead(2, 0, 2), BitWrite(6, 0, <<TRUE, TRUE>>)},
        area \in {MemoryAreaDMBit, MemoryAreaHRBit, MemoryAreaARBit}}
    \cup {WordRead("ReadWords", 0, 1), ReadsClock}

MCCalls(c, s) == IF s = "sim" THEN SimCalls(c) ELSE CmdCalls

\* decodeBCD undoes encodeBCD on every number of the width, and reads digits for
\* what they mean, leading zeros and an odd number of them included, as long as
\* the number fits.  This says nothing of the state and is looked at once, before
\* the first call.
BcdMeaning ==
    made = 0 =>
        /\ \A n \in 0 .. 2 ^ UBits - 1 : RoundTrips(n)
        /\ \A digits \in DigitStrings : Meaning(digits) < 2 ^ UBits => Decodes(digits)
=============================================================================

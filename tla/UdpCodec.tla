------------------------------ MODULE UdpCodec -------------------------------
(***************************************************************************)
(* udp/driver.go and udp/header.go: the datagrams of the UDP client and    *)
(* the simulator, and binary coded decimals.  Bytes are numbers in 0..255  *)
(* as in Frames.                                                           *)
(***************************************************************************)
EXTENDS Frames

CONSTANT UBits  \* the width of uint64, kept small

ASSUME UBitsAssumption == UBits \in Nat \ {0}

-----------------------------------------------------------------------------
(* Headers.                                                                *)

defaultHeader(messageType, responseRequired, src, dst, sid) ==
    [messageType |-> messageType, responseRequired |-> responseRequired, gatewayCount |-> 2,
     src |-> src, dst |-> dst, serviceID |-> sid]
defaultCommandHeader(src, dst, sid) == defaultHeader("command", TRUE, src, dst, sid)

\* Mutant: the answer is addressed like the request.
MutantResponseHeader(h) == defaultHeader("response", FALSE, h.src, h.dst, h.serviceID)

defaultResponseHeader(h) == defaultHeader("response", FALSE, h.dst, h.src, h.serviceID)

encodeHeader(h) ==
    <<128 + (IF h.messageType = "response" THEN 64 ELSE 0) + (IF h.responseRequired THEN 0 ELSE 1),
      0, h.gatewayCount>> \o PutAddress(h.dst) \o PutAddress(h.src) \o <<h.serviceID>>

\* icf&1<<6 is (icf&1)<<6: both flags are taken from bit 0.
decodeHeader(b) ==
    [messageType |-> IF b[1] % 2 = 0 THEN "command" ELSE "response",
     responseRequired |-> b[1] % 2 = 0,
     gatewayCount |-> b[3], dst |-> AddressAt(b, 4), src |-> AddressAt(b, 7), serviceID |-> b[10]]

-----------------------------------------------------------------------------
(* Requests and responses.                                                 *)

encodeMemoryAddress(m) == <<m.memoryArea>> \o PutUint16(m.address) \o <<m.bitOffset>>
decodeMemoryAddress(b) == [memoryArea |-> b[1], address |-> Uint16(b, 2), bitOffset |-> b[4]]

CommandCodeMemoryAreaRead == 257
CommandCodeMemoryAreaWrite == 258
CommandCodeClockRead == 1793

readCommand(m, itemCount) ==
    PutUint16(CommandCodeMemoryAreaRead) \o encodeMemoryAddress(m) \o PutUint16(itemCount)
writeCommand(m, itemCount, bytes) ==
    PutUint16(CommandCodeMemoryAreaWrite) \o encodeMemoryAddress(m) \o PutUint16(itemCount) \o bytes
clockReadCommand == PutUint16(CommandCodeClockRead)

\* A request read into the first n bytes of a buffer: its data is a slice
\* that can be extended into the rest of the buffer.
decodeRequest(buf, n) ==
    [header |-> decodeHeader(buf), commandCode |-> Uint16(buf, 11),
     data |-> SubSeq(buf, 13, n), beyond |-> SubSeq(buf, n + 1, Len(buf))]

encodeResponse(r) ==
    encodeHeader(r.header) \o PutUint16(r.commandCode) \o PutUint16(r.endCode) \o r.data
decodeResponse(b) ==
    [header |-> decodeHeader(b), commandCode |-> Uint16(b, 11), endCode |-> Uint16(b, 13),
     data |-> SubSeq(b, 15, Len(b))]

-----------------------------------------------------------------------------
(* Binary coded decimals, of up to nine digits.  A number with an odd      *)
(* count of digits is padded after its last one; cmd/udp/server, which has *)
(* a copy of encodeBCD, pads with zero.                                    *)

Pad == 15
CountDigits(x) == CHOOSE n \in 1 .. 9 : 10 ^ (n - 1) <= x /\ (n = 9 \/ x < 10 ^ n)

PaddedBCD(x, pad) ==
    IF x = 0 THEN <<pad>>
    ELSE LET n == CountDigits(x)
             even == IF n % 2 = 1 THEN x \div 10 ELSE x
             m == n \div 2
             Pair(i) == LET p == (even \div 100 ^ (m - i)) % 100 IN (p \div 10) * 16 + (p % 10)
         IN [i \in 1 .. m |-> Pair(i)] \o (IF n % 2 = 1 THEN <<(x % 10) * 16 + pad>> ELSE <<>>)

encodeBCD(x) == PaddedBCD(x, Pad)

Number(x) == [ok |-> TRUE, x |-> x]

\* Mutant: the largest number counts as an overflow.
MutantTimesTen(x, digit) ==
    LET x5 == (x * 5) % 2 ^ UBits
    IN IF x5 >= 2 ^ (UBits - 1) \/ x5 * 2 >= 2 ^ UBits - 1 - digit THEN Invalid
       ELSE Number(x5 * 2 + digit)

timesTenPlusCatchingOverflow(x, digit) ==
    LET x5 == (x * 5) % 2 ^ UBits
    IN IF x5 >= 2 ^ (UBits - 1) \/ x5 * 2 > 2 ^ UBits - 1 - digit THEN Invalid
       ELSE Number(x5 * 2 + digit)

\* One digit more; only the last low digit may be the pad.
WithDigit(n, digit) ==
    IF ~n.ok \/ digit > 9 THEN Invalid ELSE timesTenPlusCatchingOverflow(n.x, digit)
decodeBCD(bcd) ==
    LET upTo[i \in 0 .. Len(bcd)] ==
            IF i = 0 THEN Number(0)
            ELSE LET high == WithDigit(upTo[i - 1], bcd[i] \div 16)
                     low == bcd[i] % 16
                 IN IF low = Pad /\ i = Len(bcd) THEN high ELSE WithDigit(high, low)
    IN upTo[Len(bcd)]
=============================================================================

--------------------------------- MODULE Bcd ---------------------------------
(***************************************************************************)
(* What the binary coded decimals of udp/driver.go should compute, over    *)
(* all strings of decimal digits up to a length.                           *)
(***************************************************************************)
EXTENDS UdpCodec

CONSTANT MaxDigits

DigitStrings == UNION {[1 .. n -> 0 .. 9] : n \in 0 .. MaxDigits}

\* What digits mean, and the bytes that carry them.
Meaning(digits) ==
    LET upTo[i \in 0 .. Len(digits)] == IF i = 0 THEN 0 ELSE upTo[i - 1] * 10 + digits[i]
    IN upTo[Len(digits)]
Carrier(digits) ==
    [i \in 1 .. (Len(digits) + 1) \div 2 |->
        digits[2 * i - 1] * 16 + (IF 2 * i <= Len(digits) THEN digits[2 * i] ELSE Pad)]

\* decodeBCD undoes encodeBCD, and reads digits for what they mean.
RoundTrips(n) == decodeBCD(encodeBCD(n)) = Number(n)
Decodes(digits) == decodeBCD(Carrier(digits)) = Number(Meaning(digits))
=============================================================================

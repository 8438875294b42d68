------------------------------- MODULE UdpPlc --------------------------------
(***************************************************************************)
(* The operations of the UDP client against a server: the simulator of     *)
(* udp/server.go, or the demonstration server of cmd/udp/server.  Here the *)
(* network delivers; what it may do otherwise is the subject of UdpClient. *)
(* A server handles one datagram after the other, each in the same buffer, *)
(* so the clients' calls interleave between their datagrams.               *)
(*                                                                         *)
(* Beside the bytes of the server the model keeps what the calls mean to   *)
(* the simulator: the bytes and bits they name.  An address in the word    *)
(* areas of the servers is the number of a byte.                           *)
(***************************************************************************)
EXTENDS UdpCodec, FiniteSets

CONSTANTS Client,
          Calls(_, _),   \* the calls a client makes to a server
          ByteOrder,     \* of the clients, "big" or "little"
          U16,           \* the range of the addresses' uint16, kept small
          AreaSize,      \* the bytes of each area of a server
          BufSize,       \* the bytes of the server's buffer
          Times,         \* the times at which the clock may be read
          MaxMade

VARIABLES server,   \* "sim" or "cmd"
          mem,      \* the server's areas
          buf,      \* its buffer
          panicked, \* it has ended with a slice out of range
          stage, current, datagram, response,
          result,   \* of the client's last call
          expected, \* what that call should return
          meant,    \* the bytes and bits that the calls named
          made

served == <<server, mem, buf, panicked, meant>>
plcVars == <<served, stage, current, datagram, response, result, expected, made>>

Zeroes(n) == [k \in 1 .. n |-> 0]
Failure == [ok |-> FALSE]
Success(v) == [ok |-> TRUE, v |-> v]

-----------------------------------------------------------------------------
(* Memory areas.                                                           *)

MemoryAreaDMWord == 130
MemoryAreaDMBit == 2
MemoryAreaARWord == 179
MemoryAreaARBit == 51
MemoryAreaHRBit == 50

checkIsWordMemoryArea(area) == area \in {MemoryAreaDMWord, 177, 178, MemoryAreaARWord}
checkIsBitMemoryArea(area) == area \in {MemoryAreaDMBit, 49, MemoryAreaHRBit, MemoryAreaARBit}

WordOps == {"ReadWords", "ReadBytes", "ReadString", "WriteWords", "WriteString", "WriteBytes"}
BitOps == {"ReadBits", "WriteBits", "SetBit", "ResetBit", "ToggleBit"}
Allowed(k) == CASE k.op \in WordOps -> checkIsWordMemoryArea(k.area)
                [] k.op \in BitOps -> checkIsBitMemoryArea(k.area)
                [] OTHER -> TRUE

-----------------------------------------------------------------------------
(* The client: the command of a call, and what it makes of the answer.     *)

PutWord(w) == IF ByteOrder = "big" THEN PutUint16(w) ELSE <<w % 256, w \div 256>>
Word(b, i) == IF ByteOrder = "big" THEN Uint16(b, i) ELSE b[i] + b[i + 1] * 256
WordBytes(words) == [i \in 1 .. 2 * Len(words) |-> PutWord(words[(i + 1) \div 2])[2 - (i % 2)]]
Words(b, n) == [i \in 1 .. n |-> Word(b, 2 * i - 1)]
UntilNul(b) ==
    IF \E i \in DOMAIN b : b[i] = 0
    THEN SubSeq(b, 1, (CHOOSE i \in DOMAIN b : b[i] = 0 /\ \A j \in 1 .. i - 1 : b[j] # 0) - 1)
    ELSE b
Flag(b) == IF b THEN 1 ELSE 0

At(k) == [memoryArea |-> k.area, address |-> k.address,
          bitOffset |-> IF k.op \in BitOps THEN k.bit ELSE 0]
bitTwiddle(k, value) == writeCommand(At(k), 1, <<value>>)

\* Mutant: the item count of WriteString is rounded down.
MutantWriteString(k) == writeCommand(At(k), Len(k.data) \div 2, k.data \o Zeroes(Len(k.data)))

WriteString(k) == writeCommand(At(k), (Len(k.data) + 1) \div 2, k.data \o Zeroes(Len(k.data)))
WriteBytes(k) == writeCommand(At(k), (Len(k.data) + 1) \div 2, k.data)
WriteWords(k) == writeCommand(At(k), Len(k.data), WordBytes(k.data))
WriteBits(k) == writeCommand(At(k), Len(k.data), [i \in DOMAIN k.data |-> Flag(k.data[i])])

Command(k) ==
    CASE k.op \in {"ReadWords", "ReadBytes", "ReadString", "ReadBits"} -> readCommand(At(k), k.count)
      [] k.op = "ToggleBit" -> readCommand(At(k), 1)
      [] k.op = "ReadClock" -> clockReadCommand
      [] k.op = "WriteWords" -> WriteWords(k)
      [] k.op = "WriteString" -> WriteString(k)
      [] k.op = "WriteBytes" -> WriteBytes(k)
      [] k.op = "WriteBits" -> WriteBits(k)
      [] k.op = "SetBit" -> bitTwiddle(k, 1)
      [] k.op = "ResetBit" -> bitTwiddle(k, 0)

\* ReadClock ignores the errors of decodeBCD, which then returns 0.  A time
\* is the tuple of its fields, which time.Date takes as they are if in range.
Field(b) == IF decodeBCD(<<b>>).ok THEN decodeBCD(<<b>>).x ELSE 0
ReadClock(b) ==
    [i \in 1 .. 6 |-> IF i > 1 THEN Field(b[i])
                      ELSE Field(b[1]) + (IF Field(b[1]) < 50 THEN 2000 ELSE 1900)]
ReadBits(b, n) == [i \in 1 .. n |-> b[i] % 2 = 1]

Result(k, b) ==
    CASE k.op = "ReadWords" -> Words(b, k.count)
      [] k.op = "ReadBytes" -> b
      [] k.op = "ReadString" -> UntilNul(b)
      [] k.op = "ReadBits" -> ReadBits(b, k.count)
      [] k.op = "ToggleBit" -> ReadBits(b, 1)
      [] k.op = "ReadClock" -> ReadClock(b)
      [] OTHER -> <<>>

checkResponse(r) == r.endCode = 0

-----------------------------------------------------------------------------
(* The servers.  Where a request lies: an area, the first byte, one past   *)
(* the last, and the sum the code compares with the size, all in uint16.   *)

Codes ==
    IF server = "sim" THEN [DM |-> MemoryAreaDMWord, DMBit |-> MemoryAreaDMBit]
    ELSE [DM |-> 2, DMBit |-> 3, CIO |-> 48, WR |-> 49, HR |-> 50, AR |-> 51]
AreaOf(m) == {a \in DOMAIN Codes : Codes[a] = m.memoryArea}

Range16(a, m, ic) ==
    IF a = "DMBit"
    THEN LET start == (m.address + m.bitOffset) % U16
         IN [start |-> start, end |-> (start + ic) % U16, sum |-> (m.address + ic) % U16,
             given |-> ic]
    ELSE [start |-> m.address, end |-> (m.address + ic * 2) % U16,
          sum |-> (m.address + ic * 2) % U16, given |-> (ic * 2) % U16]

Answered(end, data) == [panic |-> FALSE, endCode |-> end, data |-> data, mem |-> mem]
Panic == [panic |-> TRUE, mem |-> mem]
Clock(t, pad) ==
    PaddedBCD(t[1] % 100, pad) \o PaddedBCD(t[2], pad) \o PaddedBCD(t[3], pad)
        \o PaddedBCD(t[4], pad) \o PaddedBCD(t[5], pad) \o PaddedBCD(t[6], pad)

\* Slices a[start:end] of an area, for a read and for a write: the bytes
\* after the data of the request are those of its buffer.
ReadArea(a, r) ==
    IF r.start > r.end \/ r.end > AreaSize THEN Panic
    ELSE Answered(0, [i \in 1 .. r.end - r.start |-> mem[a][r.start + i - 1]])
WriteArea(a, r, data) ==
    IF r.start > r.end \/ r.end > AreaSize \/ 6 + r.given > Len(data) THEN Panic
    ELSE [Answered(0, <<>>) EXCEPT !.mem[a] =
             [k \in DOMAIN @ |-> IF k \in r.start .. r.end - 1 THEN data[7 + k - r.start] ELSE @[k]]]

Memory(req, exceeded, readOnly) ==
    LET m == decodeMemoryAddress(req.data)
        ic == Uint16(req.data, 5) % U16
        a == CHOOSE a \in AreaOf(m) : TRUE
        r == Range16(a, m, ic)
    IN IF req.commandCode = CommandCodeMemoryAreaWrite /\ a \in readOnly THEN Answered(513, <<>>)
       ELSE IF r.sum > AreaSize THEN Answered(exceeded, <<>>)
       ELSE IF req.commandCode = CommandCodeMemoryAreaRead THEN ReadArea(a, r)
       ELSE WriteArea(a, r, req.data \o req.beyond)

IsMemory(req) == req.commandCode \in {CommandCodeMemoryAreaRead, CommandCodeMemoryAreaWrite}
Known(req) == AreaOf(decodeMemoryAddress(req.data)) # {}

\* Mutant: the clock's fields are padded like numbers of two digits.
MutantHandler(req, t) ==
    CASE IsMemory(req) /\ Known(req) -> Memory(req, 4356, {})
      [] req.commandCode = CommandCodeClockRead -> Answered(0, Clock(t, 0))
      [] OTHER -> Answered(1026, <<>>)

\* handler of the simulator, and handleRequest of the demonstration server.
handler(req, t) ==
    CASE IsMemory(req) /\ Known(req) -> Memory(req, 4356, {})
      [] req.commandCode = CommandCodeClockRead -> Answered(0, Clock(t, Pad))
      [] OTHER -> Answered(1026, <<>>)

handleRequest(req, t) ==
    CASE IsMemory(req) /\ Known(req) -> Memory(req, 257, {"AR"})
      [] req.commandCode = CommandCodeClockRead -> Answered(0, Clock(t, 0))
      [] OTHER -> Answered(259, <<>>)

-----------------------------------------------------------------------------
(* What the calls mean.                                                    *)

AreaMeant(k) == IF k.op \in BitOps THEN "DMBit" ELSE "DM"
FirstMeant(k) == IF k.op \in BitOps THEN k.address + k.bit ELSE k.address
Given(k) ==
    CASE k.op = "WriteWords" -> WordBytes(k.data)
      [] k.op = "WriteString" -> k.data \o Zeroes(Len(k.data) % 2)
      [] k.op = "WriteBytes" -> k.data
      [] k.op = "WriteBits" -> [i \in DOMAIN k.data |-> Flag(k.data[i])]
      [] k.op = "SetBit" -> <<1>>
      [] k.op = "ResetBit" -> <<0>>
      [] OTHER -> <<>>
Asked(k) == CASE k.op \in {"ReadWords", "ReadBytes", "ReadString"} -> 2 * k.count
              [] k.op = "ReadBits" -> k.count
              [] k.op = "ToggleBit" -> 1
              [] OTHER -> 0
Fits(k) == k.op = "ReadClock" \/ FirstMeant(k) + Len(Given(k)) + Asked(k) <= AreaSize
Toggled(k) == k.op = "ToggleBit"

\* The memory after the call, and what the call returns, in the order in
\* which the server meets the calls.
MeantAfter(k) ==
    IF k.op = "ReadClock" \/ ~Fits(k) THEN meant
    ELSE [meant EXCEPT ![AreaMeant(k)] =
             [j \in DOMAIN @ |-> IF Toggled(k) /\ j = FirstMeant(k) THEN 1 - @[j]
                                 ELSE LET i == j - FirstMeant(k) + 1
                                      IN IF i \in DOMAIN Given(k) THEN Given(k)[i] ELSE @[j]]]
MeantResult(k, t) ==
    CASE ~Fits(k) -> Failure
      [] k.op = "ReadClock" -> Success(t)
      [] OTHER -> Success(Result(k, [i \in 1 .. Asked(k) |-> meant[AreaMeant(k)][FirstMeant(k) + i - 1]]))

-----------------------------------------------------------------------------
(* What is assumed of the constants.                                       *)

Reads == {"ReadWords", "ReadBytes", "ReadString", "ReadBits"}
Span(k) == FirstMeant(k) .. FirstMeant(k) + Len(Given(k)) + Asked(k) - 1

\* A call has the fields of its operation, and its datagram fits the buffer.
WellFormed(k) ==
    /\ k.op \in WordOps \cup BitOps \cup {"ReadClock"}
    /\ k.op # "ReadClock" => k.area \in Nat /\ k.address \in Nat
    /\ k.op \in BitOps => k.bit \in Nat
    /\ k.op \in Reads => k.count \in Nat
    /\ k.op \in {"WriteWords", "WriteString", "WriteBytes"} => k.data \in Seq(Nat)
    /\ k.op = "WriteBits" => k.data \in Seq(BOOLEAN)
    /\ 10 + Len(Command(k)) <= BufSize

\* A call to the simulator names an area that it has, and no more of it than
\* uint16 can count; the bytes of WriteBytes are whole words.
Simulated(k) ==
    k.op # "ReadClock" =>
        /\ k.area \in {MemoryAreaDMWord, MemoryAreaDMBit}
        /\ FirstMeant(k) < U16 /\ Len(Given(k)) + Asked(k) < U16
        /\ k.op = "WriteBytes" => Len(k.data) % 2 = 0

ASSUME SizesAssumption ==
    /\ U16 \in Nat /\ AreaSize \in Nat /\ BufSize \in Nat
    /\ AreaSize < U16 /\ 18 < BufSize
    /\ 2 ^ UBits \in Nat /\ 2 ^ (UBits - 1) \in Nat
    /\ 2 ^ UBits > 127 /\ 2 ^ (UBits - 1) > 63

ASSUME TimesAssumption ==
    \A t \in Times : t \in [1 .. 6 -> Nat] /\ 1949 < t[1] /\ t[1] < 2050 /\ \A i \in 2 .. 6 : t[i] < 100

ASSUME CallsAssumption ==
    \A c \in Client :
        /\ \A s \in {"sim", "cmd"} : \A k \in Calls(c, s) : WellFormed(k)
        /\ \A k \in Calls(c, "sim") : Simulated(k)

\* ToggleBit reads and then writes: no other client names the bit.
ASSUME TogglesAssumption ==
    \A c, d \in Client : c # d =>
        \A k \in Calls(c, "sim"), l \in Calls(d, "sim") :
            Toggled(k) /\ l.op \in BitOps => FirstMeant(k) \notin Span(l)

-----------------------------------------------------------------------------
Src == [Network |-> 0, Node |-> 2, Unit |-> 0]
Dst == [Network |-> 0, Node |-> 10, Unit |-> 0]

PlcInit ==
    /\ server \in {"sim", "cmd"}
    /\ mem = [a \in DOMAIN Codes |-> [k \in 0 .. AreaSize - 1 |-> 0]]
    /\ buf = Zeroes(BufSize)
    /\ panicked = FALSE
    /\ meant = mem
    /\ stage = [c \in Client |-> "idle"]
    /\ current = [c \in Client |-> Failure]
    /\ datagram = [c \in Client |-> <<>>]
    /\ response = [c \in Client |-> <<>>]
    /\ result = [c \in Client |-> Failure]
    /\ expected = [c \in Client |-> Failure]
    /\ made = 0

\* sendCommand; the service identifiers are those of UdpClient, here the
\* number of the call.
Datagram(command) == encodeHeader(defaultCommandHeader(Src, Dst, made % 256)) \o command

MakeCall(c, k) ==
    /\ stage[c] = "idle"
    /\ made < MaxMade
    /\ made' = made + 1
    /\ current' = [current EXCEPT ![c] = k]
    /\ \/ /\ Allowed(k)
          /\ datagram' = [datagram EXCEPT ![c] = Datagram(Command(k))]
          /\ stage' = [stage EXCEPT ![c] = "sent"]
          /\ UNCHANGED <<result, expected>>
       \/ /\ ~Allowed(k)
          /\ result' = [result EXCEPT ![c] = Failure]
          /\ expected' = [expected EXCEPT ![c] = Failure]
          /\ UNCHANGED <<stage, datagram>>
    /\ UNCHANGED <<served, response>>

\* The server's loop: read into the buffer, handle, answer.  A toggle takes
\* effect, for what it means, with its read.
Serve(c, t) ==
    /\ stage[c] \in {"sent", "twiddling"}
    /\ ~panicked
    /\ buf' = datagram[c] \o SubSeq(buf, Len(datagram[c]) + 1, BufSize)
    /\ LET req == decodeRequest(buf', Len(datagram[c]))
           h == IF server = "sim" THEN handler(req, t) ELSE handleRequest(req, t)
       IN /\ mem' = h.mem
          /\ panicked' = h.panic
          /\ response' = IF h.panic THEN response
                         ELSE [response EXCEPT ![c] =
                                 encodeResponse([header |-> defaultResponseHeader(req.header),
                                                 commandCode |-> req.commandCode,
                                                 endCode |-> h.endCode, data |-> h.data])]
    /\ IF stage[c] = "sent"
       THEN /\ meant' = MeantAfter(current[c])
            /\ expected' = [expected EXCEPT ![c] = MeantResult(current[c], t)]
            /\ stage' = [stage EXCEPT ![c] = "answered"]
       ELSE stage' = [stage EXCEPT ![c] = "twiddled"] /\ UNCHANGED <<meant, expected>>
    /\ UNCHANGED <<server, current, datagram, result, made>>

\* The answer is back: the call returns, or ToggleBit writes the bit.
Receive(c) ==
    /\ stage[c] \in {"answered", "twiddled"}
    /\ response[c] # <<>>
    /\ LET r == decodeResponse(response[c])
       IN IF checkResponse(r) /\ Toggled(current[c]) /\ stage[c] = "answered"
          THEN /\ datagram' = [datagram EXCEPT ![c] =
                                  Datagram(bitTwiddle(current[c], Flag(~ReadBits(r.data, 1)[1])))]
               /\ result' = [result EXCEPT ![c] = Success(ReadBits(r.data, 1))]
               /\ stage' = [stage EXCEPT ![c] = "twiddling"]
          ELSE /\ stage' = [stage EXCEPT ![c] = "idle"]
               /\ result' = [result EXCEPT ![c] =
                                IF ~checkResponse(r) THEN Failure
                                ELSE IF stage[c] = "twiddled" THEN @
                                ELSE Success(Result(current[c], r.data))]
               /\ UNCHANGED datagram
    /\ response' = [response EXCEPT ![c] = <<>>]
    /\ UNCHANGED <<served, current, expected, made>>

PlcNext == \E c \in Client :
            Receive(c) \/ (\E k \in Calls(c, server) : MakeCall(c, k)) \/ (\E t \in Times : Serve(c, t))

PlcSpec == PlcInit /\ [][PlcNext]_plcVars

-----------------------------------------------------------------------------
(* Properties.                                                             *)

\* When no toggle is half done, the simulator holds what the calls named: no
\* write reaches a byte beside those it was given, none that does not fit
\* changes anything, and none is lost between other clients' calls.  The
\* demonstration server lets nobody write its auxiliary area.
MemoryIsMeant ==
    /\ server = "sim" /\ (\A c \in Client : stage[c] \in {"answered", "twiddling"} => ~Toggled(current[c]))
           => mem = meant
    /\ server = "cmd" => \A k \in DOMAIN mem["AR"] : mem["AR"][k] = 0

\* A call returns what the memory held, and the clock showed, when the
\* simulator met it, and fails exactly if it does not fit.
ReadsMeaning ==
    server = "sim" => \A c \in Client : stage[c] = "idle" => result[c] = expected[c]

\* An answer is of its request: the service identifier is the request's, it
\* is a response, and it goes from the request's destination to its source.
AnswersOwnRequest ==
    \A c \in Client : response[c] # <<>> =>
        LET q == decodeHeader(datagram[c])
            r == decodeHeader(response[c])
        IN /\ r.serviceID = q.serviceID /\ r.messageType = "response" /\ q.messageType = "command"
           /\ r.src = q.dst /\ r.dst = q.src

=============================================================================

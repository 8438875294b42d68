----------------------------- MODULE PointStore -----------------------------
(***************************************************************************)
(* The data path from end to end: WritePoint and ReadPoints of the         *)
(* scheduler, the decoder, the memory commands of the transport, and the   *)
(* memory of a PLC, composed for one caller.  Beside the bytes of the PLC  *)
(* the model keeps what the addresses of the points mean: the bits of the  *)
(* words they name.                                                        *)
(*                                                                         *)
(* The PLC is the mock PLC of PlcMemory, or the demonstration server of    *)
(* cmd/tcp/server, which has one switch for the codes of words and bits,   *)
(* treats both as words, and refuses to write the area A.                  *)
(***************************************************************************)
EXTENDS Grouping, CmdMemory, SequencesExt

CONSTANTS Point(_),   \* the points written to and read from a server
          ValuesOf(_),\* the values written to a point
          BatchSize,  \* the points of a ReadPoints call
          MaxWrites   \* bound on WritePoint calls

VARIABLES server, \* "mock" or "cmd"
          mem,    \* the bytes of the PLC
          ref,    \* the bits the points wrote, by area, word and bit
          writes,
          batch, results  \* the last ReadPoints call

vars == <<server, mem, ref, writes, batch, results>>

-----------------------------------------------------------------------------
(* The requests of the scheduler, served.                                  *)

ReadMemory(m, r) == IF server = "mock" THEN readMemory(m, r.at, r.count)
                    ELSE cmdReadMemory(m, r.at, r.count)
WriteMemory(m, r) == IF server = "mock" THEN writeMemory(m, r.at, r.count, r.data)
                     ELSE cmdWriteMemory(m, r.at, r.count, r.data)

BadValue == [ok |-> FALSE, value |-> [kind |-> "nil", v |-> 0]]

\* The result of each point of a group.
GroupResult(m, g) ==
    LET answer == ReadMemory(m, ReadRequest(g))
        data == IF g.key.isBit THEN ReadBitsData(answer.data, g.count) ELSE answer.data
        val(gp) == decodePointValue(data, gp, g)
    IN {<<gp.point, IF answer.end = "NORMAL" /\ val(gp).ok THEN val(gp) ELSE BadValue>> :
            gp \in Range(g.points)}

ReadResults(m, b, order) ==
    UNION {GroupResult(m, g) : g \in Range(groupPoints(b, order, 64))}
        \cup {<<b[i], BadValue>> : i \in DOMAIN b \ Valid(b)}

-----------------------------------------------------------------------------
(* What the addresses mean.  Byte i of a point is the high byte of a word  *)
(* if i is odd; a number has its most significant byte first; a string is  *)
(* stored in whole words.                                                  *)

PointArea(p) == p.addr.area
IsBitAddr(p) == p.addr.dot \in 0 .. WordBits - 1 /\ p.addr.order = ""
Size(p) == IF p.dataType = "STRING" THEN p.addr.dot ELSE DataTypeSize(p.dataType)
Stored(p) == IF p.dataType = "STRING" THEN 2 * ((Size(p) + 1) \div 2) ELSE Size(p)

\* Byte i of what a value is stored as.
ByteOf(p, v, i) ==
    IF p.dataType = "STRING" THEN (IF i <= Size(p) /\ i <= Len(v) THEN v[i] ELSE 0)
    ELSE (v \div Byte ^ (Size(p) - i)) % Byte

MeantWrite(r, p, v) ==
    LET index(w, b) == 2 * (w - p.addr.num) + (IF b >= ByteBits THEN 1 ELSE 2)
        word(old, w) == [b \in 0 .. WordBits - 1 |->
            IF index(w, b) \in 1 .. Stored(p)
            THEN (ByteOf(p, v, index(w, b)) \div 2 ^ (b % ByteBits)) % 2 ELSE old[b]]
    IN IF IsBitAddr(p)
       THEN [r EXCEPT ![PointArea(p)][p.addr.num][p.addr.dot] = IF v THEN 1 ELSE 0]
       ELSE [r EXCEPT ![PointArea(p)] = [w \in DOMAIN @ |-> word(@[w], w)]]

MeantByte(r, p, i) ==
    LET bits == r[PointArea(p)][p.addr.num + ((i - 1) \div 2)]
        low == IF i % 2 = 1 THEN ByteBits ELSE 0
    IN MapThenSumSet(LAMBDA j : bits[low + j] * 2 ^ j, 0 .. ByteBits - 1)

MeantValue(r, p) ==
    LET n == Size(p)
        number == MapThenSumSet(LAMBDA i : MeantByte(r, p, i) * Byte ^ (n - i), 1 .. n)
        bytes == [i \in 1 .. n |-> MeantByte(r, p, i)]
        end == Min({n + 1} \cup {i \in 1 .. n : bytes[i] = 0}) - 1
    IN CASE IsBitAddr(p) -> [kind |-> "bool", v |-> r[PointArea(p)][p.addr.num][p.addr.dot] = 1]
         [] ~IsBitAddr(p) /\ p.dataType = "STRING" ->
                [kind |-> "string", v |-> SubSeq(bytes, 1, end)]
         [] OTHER -> [kind |-> KindOf[p.dataType],
                      v |-> IF p.dataType \in Signed /\ 2 * number >= Byte ^ n
                            THEN number - Byte ^ n ELSE number]

-----------------------------------------------------------------------------
Init ==
    /\ server \in {"mock", "cmd"}
    /\ mem = NewMockPLC
    /\ ref = [a \in Areas |-> [w \in 0 .. Words[a] - 1 |-> [b \in 0 .. WordBits - 1 |-> 0]]]
    /\ writes = 0
    /\ batch = <<>> /\ results = {}

WritePoint(p, value) ==
    /\ writes < MaxWrites
    /\ writes' = writes + 1
    /\ LET r == WriteRequest(p, value)
       IN \/ /\ r.ok /\ WriteMemory(mem, r).end = "NORMAL"
             /\ mem' = WriteMemory(mem, r).mem
             /\ ref' = MeantWrite(ref, p, value.v)
          \/ /\ ~(r.ok /\ WriteMemory(mem, r).end = "NORMAL")
             /\ UNCHANGED <<mem, ref>>
    /\ batch' = <<>> /\ results' = {}
    /\ UNCHANGED server

ReadPoints(b) ==
    /\ batch = <<>>
    /\ batch' = b
    /\ \E order \in TakingOrders(b) : results' = ReadResults(mem, b, order)
    /\ UNCHANGED <<server, mem, ref, writes>>

Next ==
    \/ \E p \in Point(server) : \E v \in ValuesOf(p) : WritePoint(p, v)
    \/ \E b \in [1 .. BatchSize -> Point(server)] : ReadPoints(b)

Spec == Init /\ [][Next]_vars

-----------------------------------------------------------------------------
(* Properties.                                                             *)

\* The bytes of the PLC are the bits that the writes meant and no others: a
\* WritePoint changes nothing beside its own bits, and bits and words agree
\* on where the bits of a word are.
MemoryIsMeant ==
    \A a \in Areas : \A w \in 0 .. Words[a] - 1 : \A b \in 0 .. WordBits - 1 :
        LET byte == mem[a][IF b >= ByteBits THEN 2 * w ELSE 2 * w + 1]
        IN (byte \div 2 ^ (b % ByteBits)) % 2 = ref[a][w][b]

\* The words of a point lie inside its area.
InArea(p) ==
    /\ PointArea(p) \in Areas
    /\ p.addr.num + (IF IsBitAddr(p) THEN 1 ELSE (Size(p) + 1) \div 2) <= Words[PointArea(p)]

\* ReadPoints returns what the memory means at each point's own address,
\* whatever other points are read with it and in whatever order, and loses no
\* point of a batch whose points all lie inside their areas.
ReadsMeaning ==
    /\ \A x \in results : x[2].ok => InArea(x[1]) /\ x[2].value = MeantValue(ref, x[1])
    /\ (\A i \in DOMAIN batch : InArea(batch[i])) => \A x \in results : x[2].ok

=============================================================================

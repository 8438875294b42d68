------------------------------ MODULE Scheduler -----------------------------
(***************************************************************************)
(* scheduler.go: ReadPoints, WritePoint, the minimum interval between      *)
(* requests, and the statistics, for callers that share one scheduler.     *)
(* The transport is external here: a request fails, or is answered with    *)
(* the bytes of the addressed words, or with fewer of them in ShortAreas.  *)
(* The byte at address k of an area is named by k, so that a result shows  *)
(* which bytes it was made of.                                             *)
(***************************************************************************)
EXTENDS Grouping, FiniteSets

CONSTANTS Caller,
          Batches,         \* the batches ReadPoints is called with
          WritePoints,     \* the points WritePoint is called with
          FrameLengths,    \* the values of maxFrameLength
          Intervals,       \* the values of minInterval
          AreaWords,       \* the size of an area in words
          ShortAreas,      \* the area codes whose answers may be shorter than asked for
          Ops,             \* the operations each caller calls
          MaxCalls         \* bound on the calls of a caller

ASSUME MaxCallsAssumption == MaxCalls \in Nat
ASSUME CallerAssumption == IsFiniteSet(Caller) /\ Caller # {} /\ "none" \notin Caller
OpNames == {"none", "read", "write", "stats", "reset", "setFrame", "setInterval"}
ASSUME OpsAssumption == \A c \in Caller : Ops[c] \subseteq OpNames
ASSUME IntervalsAssumption ==
    Intervals \subseteq Nat /\ \E n \in Intervals : \A m \in Intervals : m <= n
ASSUME FrameLengthsAssumption == FrameLengths \subseteq Nat \ {0}

\* A batch has one point to an identifier.  A point with a valid address ends
\* below 65536; it is a bit with its number, a string with its type and its
\* length, or a word; and what it needs to be read whole is never missing.
Supported(p) ==
    LET a == ParseAddress(p.addr)
    IN /\ p.addr.num \in Nat /\ p.addr.dot \in Int /\ a.Address + WordCount(p) < U16
       /\ \/ a.IsBit /\ GroupKey(p).areaCode \notin ShortAreas
          \/ /\ a.IsString /\ a.StringLen > 0 /\ p.dataType = "STRING"
             /\ GroupKey(p).areaCode \notin ShortAreas
          \/ ~a.IsBit /\ ~a.IsString /\ p.dataType \notin {"STRING", "BIT"}
ASSUME BatchesAssumption ==
    \A b \in Batches :
        /\ DOMAIN b = 1 .. Len(b) /\ Len(b) \in Nat
        /\ \A i, j \in DOMAIN b : b[i].id = b[j].id => b[i] = b[j]
        /\ \A i \in Valid(b) : Supported(b[i])

VARIABLES
    maxFrameLength, minInterval,
    totalRequests, successCount, failureCount,
    wasReset,   \* history: ResetStats has been called
    mu,         \* the holder of s.mu
    sinceStamp, \* time since lastRequestTime, up to the largest interval
    pc, op, batch, todo, results, data, sleepLeft, snapshot,
    spoilt,     \* history: the points whose request failed or was answered short
    calls

counters == <<totalRequests, successCount, failureCount, wasReset>>
config == <<maxFrameLength, minInterval>>
timing == <<mu, sinceStamp, sleepLeft>>
local == <<op, batch, todo, results, data, snapshot, spoilt>>
vars == <<config, counters, timing, local, pc, calls>>

NoCaller == "none"
Cap == CHOOSE n \in Intervals : \A m \in Intervals : m <= n
Bad == [quality |-> "Bad", bytes |-> <<>>]
Good(b) == [quality |-> "Good", bytes |-> b]
NoResults == [id \in {} |-> Bad]

NewScheduler ==
    /\ maxFrameLength \in FrameLengths
    /\ minInterval \in Intervals
    /\ totalRequests = 0 /\ successCount = 0 /\ failureCount = 0 /\ wasReset = FALSE
    /\ mu = NoCaller
    /\ sinceStamp = Cap

Init ==
    /\ NewScheduler
    /\ calls = [c \in Caller |-> 0]
    /\ pc = [c \in Caller |-> "idle"]
    /\ op = [c \in Caller |-> "none"]
    /\ batch = [c \in Caller |-> <<>>]
    /\ todo = [c \in Caller |-> <<>>]
    /\ results = [c \in Caller |-> NoResults]
    /\ data = [c \in Caller |-> <<>>]
    /\ sleepLeft = [c \in Caller |-> 0]
    /\ snapshot = [c \in Caller |-> <<>>]
    /\ spoilt = [c \in Caller |-> {}]

Goto(c, label) == pc' = [pc EXCEPT ![c] = label]

Start(c, o) ==
    /\ pc[c] = "idle"
    /\ o \in Ops[c]
    /\ calls[c] < MaxCalls
    /\ calls' = [calls EXCEPT ![c] = @ + 1]
    /\ op' = [op EXCEPT ![c] = o]

-----------------------------------------------------------------------------
(* ReadPoints, up to the loop over the groups.                             *)

\* results with every point of s set to r, the later ones overwriting.
SetAll(res, ids, r) == [id \in DOMAIN res \cup ids |-> IF id \in ids THEN r ELSE res[id]]

CallReadPoints(c) ==
    /\ Start(c, "read")
    /\ \E b \in Batches :
        /\ batch' = [batch EXCEPT ![c] = b]
        /\ results' = [results EXCEPT ![c] =
                          SetAll(NoResults, {b[i].id : i \in DOMAIN b \ Valid(b)}, Bad)]
        /\ \E order \in TakingOrders(b) :
              todo' = [todo EXCEPT ![c] = groupPoints(b, order, maxFrameLength)]
    /\ spoilt' = [spoilt EXCEPT ![c] = {}]
    /\ Goto(c, "group")
    /\ UNCHANGED <<config, counters, timing, data, snapshot>>

ReadPointsReturns(c) ==
    /\ pc[c] = "group"
    /\ todo[c] = <<>>
    /\ Goto(c, "idle")
    /\ UNCHANGED <<config, counters, timing, local, calls>>

-----------------------------------------------------------------------------
(* WritePoint counts itself first, then parses and encodes.                *)

\* Mutant: a write is not counted.
MutantCallWritePoint(c) ==
    /\ Start(c, "write")
    /\ \E p \in WritePoints : batch' = [batch EXCEPT ![c] = <<p>>]
    /\ Goto(c, "check")
    /\ UNCHANGED <<config, counters, timing, todo, results, data, snapshot, spoilt>>

CallWritePoint(c) ==
    /\ Start(c, "write")
    /\ \E p \in WritePoints : batch' = [batch EXCEPT ![c] = <<p>>]
    /\ totalRequests' = totalRequests + 1
    /\ Goto(c, "check")
    /\ UNCHANGED <<config, successCount, failureCount, wasReset, timing, todo, results, data,
                   snapshot, spoilt>>

WritePointRejected(c) ==
    /\ pc[c] = "check"
    /\ failureCount' = failureCount + 1
    /\ Goto(c, "idle")
    /\ UNCHANGED <<config, totalRequests, successCount, wasReset, timing, local, calls>>

-----------------------------------------------------------------------------
(* waitMinInterval.                                                        *)

AtWait(c) == (pc[c] = "group" /\ todo[c] # <<>>)
             \/ (pc[c] = "check" /\ ParseAddress(batch[c][1].addr).ok)
AfterWait(c) == Goto(c, IF op[c] = "read" THEN "count" ELSE "send")

NoWait(c) ==
    /\ AtWait(c)
    /\ minInterval <= 0
    /\ AfterWait(c)
    /\ UNCHANGED <<config, counters, timing, local, calls>>

Wait(c) ==
    /\ AtWait(c)
    /\ minInterval > 0
    /\ Goto(c, "lock")
    /\ UNCHANGED <<config, counters, timing, local, calls>>

\* Mutant: waitMinInterval does not take the mutex.
MutantLock(c) ==
    /\ pc[c] = "lock"
    /\ mu' = mu
    /\ sleepLeft' = [sleepLeft EXCEPT ![c] =
                        IF sinceStamp < minInterval THEN minInterval - sinceStamp ELSE 0]
    /\ Goto(c, "sleep")
    /\ UNCHANGED <<config, counters, sinceStamp, local, calls>>

Lock(c) ==
    /\ pc[c] = "lock"
    /\ mu = NoCaller
    /\ mu' = c
    /\ sleepLeft' = [sleepLeft EXCEPT ![c] =
                        IF sinceStamp < minInterval THEN minInterval - sinceStamp ELSE 0]
    /\ Goto(c, "sleep")
    /\ UNCHANGED <<config, counters, sinceStamp, local, calls>>

\* Mutant: the mutex is not released.
MutantStamp(c) ==
    /\ pc[c] = "sleep"
    /\ sleepLeft[c] = 0
    /\ sinceStamp' = 0
    /\ AfterWait(c)
    /\ UNCHANGED <<config, counters, mu, sleepLeft, local, calls>>

\* The sleep is over: lastRequestTime is stamped and the mutex released.
Stamp(c) ==
    /\ pc[c] = "sleep"
    /\ sleepLeft[c] = 0
    /\ sinceStamp' = 0
    /\ mu' = NoCaller
    /\ AfterWait(c)
    /\ UNCHANGED <<config, counters, sleepLeft, local, calls>>

-----------------------------------------------------------------------------
(* The request and its outcome.                                            *)

Count(c) ==
    /\ pc[c] = "count"
    /\ totalRequests' = totalRequests + 1
    /\ Goto(c, "send")
    /\ UNCHANGED <<config, successCount, failureCount, wasReset, timing, local, calls>>

\* The full answer to a group; readBitGroup asks for bit uint8(Bit).
BitOf(g) == ParseAddress(g.points[1].point.addr).Bit % Byte
FullAnswer(g) ==
    IF g.key.isBit THEN <<g.startAddr * WordBits + BitOf(g)>>
    ELSE [k \in 1 .. 2 * g.count |-> 2 * g.startAddr + k - 1]
InArea(g) ==
    IF g.key.isBit THEN g.startAddr * WordBits + BitOf(g) < AreaWords * WordBits
    ELSE g.startAddr + g.count <= AreaWords

\* What readWordGroup or readBitGroup may return without an error: ReadBits
\* makes up for a bit that is missing in the answer.
MadeUp == -1
Answers(g) ==
    LET full == FullAnswer(g)
        sizes == IF g.key.areaCode \in ShortAreas THEN 0 .. Len(full) ELSE {Len(full)}
    IN {IF g.key.isBit /\ n = 0 THEN <<MadeUp>> ELSE SubSeq(full, 1, n) : n \in sizes}

Ids(g) == {g.points[i].point.id : i \in DOMAIN g.points}
Spoil(c) == spoilt' = [spoilt EXCEPT ![c] = @ \cup Ids(Head(todo[c]))]

Send(c) ==
    /\ pc[c] = "send"
    /\ \/ /\ op[c] = "read"
          /\ Spoil(c)
          /\ Goto(c, "failed")
          /\ UNCHANGED data
       \/ /\ op[c] = "read"
          /\ InArea(Head(todo[c]))
          /\ \E d \in Answers(Head(todo[c])) :
                /\ data' = [data EXCEPT ![c] = d]
                /\ IF d = FullAnswer(Head(todo[c])) THEN UNCHANGED spoilt ELSE Spoil(c)
          /\ Goto(c, "answered")
       \/ /\ op[c] = "write"
          /\ Goto(c, "failed") \/ Goto(c, "answered")
          /\ UNCHANGED <<data, spoilt>>
    /\ UNCHANGED <<config, counters, timing, op, batch, todo, results, snapshot, calls>>

\* The points of a failed group are all Bad, and the loop goes on.
Fail(c) ==
    /\ pc[c] = "failed"
    /\ failureCount' = failureCount + 1
    /\ IF op[c] = "read"
       THEN /\ results' = [results EXCEPT ![c] = SetAll(@, Ids(Head(todo[c])), Bad)]
            /\ todo' = [todo EXCEPT ![c] = Tail(@)]
            /\ Goto(c, "group")
       ELSE Goto(c, "idle") /\ UNCHANGED <<results, todo>>
    /\ UNCHANGED <<config, totalRequests, successCount, wasReset, timing, op, batch, data, snapshot,
                   spoilt, calls>>

ResultOf(gp, g, d) ==
    IF decodePointValue(d, gp, g).ok THEN Good(PointBytes(d, gp, g).bytes) ELSE Bad

\* Of points with the same identifier the last one stays in the results.
LastWith(g, id) ==
    CHOOSE i \in DOMAIN g.points :
        g.points[i].point.id = id /\ \A j \in i + 1 .. Len(g.points) : g.points[j].point.id # id
Decode(res, g, d) ==
    [id \in DOMAIN res \cup Ids(g) |->
        IF id \in Ids(g) THEN ResultOf(g.points[LastWith(g, id)], g, d) ELSE res[id]]

\* The points of an answered group are decoded in turn; a panic in
\* decodePointValue takes the program down.
Succeed(c) ==
    /\ pc[c] = "answered"
    /\ successCount' = successCount + 1
    /\ IF op[c] = "write" THEN Goto(c, "idle") /\ UNCHANGED <<results, todo>>
       ELSE LET g == Head(todo[c])
            IN IF \E i \in DOMAIN g.points : PointBytes(data[c], g.points[i], g).is = "panic"
               THEN Goto(c, "panicked") /\ UNCHANGED <<results, todo>>
               ELSE /\ results' = [results EXCEPT ![c] = Decode(@, g, data[c])]
                    /\ todo' = [todo EXCEPT ![c] = Tail(@)]
                    /\ Goto(c, "group")
    /\ UNCHANGED <<config, totalRequests, failureCount, wasReset, timing, op, batch, data, snapshot,
                   spoilt, calls>>

-----------------------------------------------------------------------------
(* Statistics and settings.  GetStats loads and ResetStats stores the      *)
(* three counters one after the other.                                     *)

\* Mutant: the total is loaded last.
MutantGetStats(c) ==
    /\ \/ Start(c, "stats") /\ snapshot' = [snapshot EXCEPT ![c] = <<0, successCount>>]
          /\ Goto(c, "load")
       \/ /\ pc[c] = "load"
          /\ snapshot' = [snapshot EXCEPT ![c] =
                             IF Len(@) = 2 THEN Append(@, failureCount)
                             ELSE <<totalRequests, @[2], @[3]>>]
          /\ Goto(c, IF Len(snapshot[c]) = 2 THEN "load" ELSE "idle")
          /\ UNCHANGED <<op, calls>>
    /\ UNCHANGED <<config, counters, timing, batch, todo, results, data, spoilt>>

GetStats(c) ==
    /\ \/ Start(c, "stats") /\ snapshot' = [snapshot EXCEPT ![c] = <<totalRequests>>]
          /\ Goto(c, "load")
       \/ /\ pc[c] = "load"
          /\ snapshot' = [snapshot EXCEPT ![c] =
                             Append(@, IF Len(@) = 1 THEN successCount ELSE failureCount)]
          /\ Goto(c, IF Len(snapshot[c]) = 1 THEN "load" ELSE "idle")
          /\ UNCHANGED <<op, calls>>
    /\ UNCHANGED <<config, counters, timing, batch, todo, results, data, spoilt>>

\* Mutant: the failures are not reset.
MutantResetStats(c) ==
    /\ \/ Start(c, "reset") /\ Goto(c, "reset2")
          /\ totalRequests' = 0 /\ UNCHANGED <<successCount, failureCount>>
       \/ pc[c] = "reset2" /\ Goto(c, "idle") /\ UNCHANGED <<op, calls>>
          /\ successCount' = 0 /\ UNCHANGED <<totalRequests, failureCount>>
    /\ wasReset' = TRUE
    /\ UNCHANGED <<config, timing, batch, todo, results, data, snapshot, spoilt>>

ResetStats(c) ==
    /\ \/ Start(c, "reset") /\ Goto(c, "reset2")
          /\ totalRequests' = 0 /\ UNCHANGED <<successCount, failureCount>>
       \/ pc[c] = "reset2" /\ Goto(c, "reset3") /\ UNCHANGED <<op, calls>>
          /\ successCount' = 0 /\ UNCHANGED <<totalRequests, failureCount>>
       \/ pc[c] = "reset3" /\ Goto(c, "idle") /\ UNCHANGED <<op, calls>>
          /\ failureCount' = 0 /\ UNCHANGED <<totalRequests, successCount>>
    /\ wasReset' = TRUE
    /\ UNCHANGED <<config, timing, batch, todo, results, data, snapshot, spoilt>>

SetMaxFrameLength(c, length) ==
    /\ Start(c, "setFrame")
    /\ mu = NoCaller
    /\ length > 0
    /\ maxFrameLength' = length
    /\ UNCHANGED <<minInterval, counters, timing, pc, batch, todo, results, data, snapshot, spoilt>>

SetMinInterval(c, interval) ==
    /\ Start(c, "setInterval")
    /\ mu = NoCaller
    /\ minInterval' = interval
    /\ UNCHANGED <<maxFrameLength, counters, timing, pc, batch, todo, results, data, snapshot,
                   spoilt>>

\* Time passes.
Older(t) == IF t < Cap THEN t + 1 ELSE t
Tick ==
    /\ sinceStamp' = Older(sinceStamp)
    /\ sleepLeft' = [c \in Caller |-> IF sleepLeft[c] > 0 THEN sleepLeft[c] - 1 ELSE 0]
    /\ UNCHANGED <<config, counters, mu, local, pc, calls>>

-----------------------------------------------------------------------------
Step(c) ==
    \/ ReadPointsReturns(c) \/ WritePointRejected(c) \/ NoWait(c) \/ Wait(c) \/ Stamp(c)
    \/ Count(c) \/ Send(c) \/ Fail(c) \/ Succeed(c)

Call(c) ==
    \/ CallReadPoints(c) \/ CallWritePoint(c) \/ GetStats(c) \/ ResetStats(c)
    \/ \E n \in FrameLengths : SetMaxFrameLength(c, n)
    \/ \E n \in Intervals : SetMinInterval(c, n)

Next == Tick \/ \E c \in Caller : Call(c) \/ Lock(c) \/ Step(c)

Spec == Init /\ [][Next]_vars

\* Requests are answered or time out, sleeps end, and a Go mutex starves
\* none; what a call waits for stays there, except for the mutex.
Proceed(c) ==
    Lock(c) \/ Step(c) \/ (pc[c] # "idle" /\ (GetStats(c) \/ ResetStats(c)))
FairSpec == Spec /\ WF_vars(Tick) /\ \A c \in Caller : SF_vars(Proceed(c))

-----------------------------------------------------------------------------
(* Properties.                                                             *)

Labels == {"idle", "group", "check", "lock", "sleep", "count", "send", "failed", "answered",
           "panicked", "load", "reset2", "reset3"}

Returned(c) == pc[c] = "idle" /\ op[c] = "read"

\* Every point given to ReadPoints has an entry in its result, and every point
\* with a valid address and a readable type is Good unless its own request
\* failed or was answered short; what becomes of the other requests of the
\* batch does not matter.
GoodUnlessFailed ==
    \A c \in Caller : Returned(c) =>
        /\ DOMAIN results[c] = {batch[c][i].id : i \in DOMAIN batch[c]}
        /\ \A i \in Valid(batch[c]) :
            LET p == batch[c][i]
            IN DataTypeSize(p.dataType) > 0 \/ IsBitPoint(p) \/ ParseAddress(p.addr).IsString
                   => results[c][p.id].quality = "Good" \/ p.id \in spoilt[c]

\* The bytes an address means; a bit is named by its place in the area.
Meant(p, bytes) ==
    LET a == p.addr
        size == IF a.dot # NoDot THEN a.dot ELSE DataTypeSize(p.dataType)
    IN CASE a.dot \in 0 .. WordBits - 1 /\ a.order = "" -> bytes = <<a.num * WordBits + a.dot>>
         [] a.dot = NoDot /\ p.dataType = "BIT" ->
                bytes[1] \in a.num * WordBits .. (a.num + 1) * WordBits - 1
         [] OTHER -> bytes = [k \in 1 .. size |-> 2 * a.num + k - 1]

\* A Good value is made of the bytes its own address means, wherever
\* groupPoints put the point in a batch request.
OwnBytes ==
    \A c \in Caller : Returned(c) =>
        \A i \in DOMAIN batch[c] :
            LET r == results[c][batch[c][i].id]
            IN r.quality = "Good" => Meant(batch[c][i], r.bytes)

\* groupPoints joins points into no request of more than the maxFrameLength
\* words it finds: only a request that starts with a point longer than that
\* is longer, and then by no more than the point.
BatchFitsFrame ==
    [][\A c \in Caller : pc[c] = "idle" /\ pc'[c] = "group" =>
          \A j \in DOMAIN todo'[c] :
              LET g == todo'[c][j]
                  first == WordCount(g.points[1].point)
              IN g.count <= maxFrameLength \/ g.count = first]_vars

\* decodePointValue does not slice beyond an answer.
NoPanic == \A c \in Caller : pc[c] # "panicked"

\* A call that was counted and whose outcome was not.
Counted(c) ==
    \/ op[c] = "write" /\ pc[c] \in {"check", "lock", "sleep", "send", "failed", "answered"}
    \/ op[c] = "read" /\ pc[c] \in {"send", "failed", "answered"}
InFlight == {c \in Caller : Counted(c)}

\* Until somebody resets them, the statistics account for every request: the
\* total is the successes, the failures and the requests under way.
StatsAccount ==
    ~wasReset => totalRequests = successCount + failureCount + Cardinality(InFlight)

\* ResetStats stores three counters while requests are under way, and is off
\* by at most one outcome for every other caller.
StatsDrift ==
    (\A c \in Caller : pc[c] \notin {"reset2", "reset3"}) =>
        successCount + failureCount <= totalRequests + Cardinality(Caller) - 1

\* GetStats misses nothing that was over: the requests it shows without an
\* outcome are at most those the other callers had under way.
SnapshotComplete ==
    \A c \in Caller :
        Len(snapshot[c]) = 3 /\ ~wasReset =>
            snapshot[c][1] <= snapshot[c][2] + snapshot[c][3] + Cardinality(Caller) - 1

\* waitMinInterval lets requests through at least minInterval apart, however
\* many callers wait and whatever SetMinInterval does meanwhile.
StampsSpaced ==
    [][\A c \in Caller : pc[c] = "sleep" /\ pc'[c] # "sleep" => sinceStamp >= minInterval]_vars

\* Every call of the scheduler returns.
CallsReturn == \A c \in Caller : pc[c] # "idle" ~> pc[c] = "idle"
=============================================================================

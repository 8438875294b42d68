--------------------------- MODULE SchedulerProofs --------------------------
(***************************************************************************)
(* Proofs about Scheduler for any callers, batches and intervals: the      *)
(* requests pass waitMinInterval at least minInterval apart, the           *)
(* statistics account for every request until they are reset and are off   *)
(* by a bounded amount afterwards, and so are the snapshots of GetStats.   *)
(***************************************************************************)
EXTENDS Scheduler, FiniteSetTheorems, TLAPS

-----------------------------------------------------------------------------
(* The interval between requests.                                          *)

\* Whoever sleeps in waitMinInterval holds s.mu, so there is one of them,
\* and its sleep is long enough.
Asleep ==
    \A c \in Caller :
        pc[c] = "sleep" => mu = c /\ sleepLeft[c] + sinceStamp >= minInterval

Typed ==
    /\ minInterval \in Nat /\ minInterval <= Cap
    /\ sinceStamp \in Nat
    /\ pc \in [Caller -> Labels]
    /\ sleepLeft \in [Caller -> Nat]

SInv == Typed /\ Asleep

\* The cap of the clocks is the largest interval.
LEMMA CapBounds == Cap \in Nat /\ \A m \in Intervals : m \in Nat /\ m <= Cap
BY IntervalsAssumption, Zenon DEF Cap

\* Nobody sleeps in a new scheduler.
LEMMA InitSInv == Init => SInv
BY CapBounds DEF Init, NewScheduler, SInv, Typed, Asleep, Labels

\* A step that leaves the interval, the mutex and the clocks alone, and puts
\* nobody to sleep.
LEMMA OutsideWait ==
  ASSUME SInv, NEW c \in Caller, NEW l \in Labels \ {"sleep"},
         pc' = [pc EXCEPT ![c] = l],
         UNCHANGED <<minInterval, mu, sinceStamp, sleepLeft>>
  PROVE  SInv'
BY Zenon DEF SInv, Typed, Asleep

\* waitMinInterval returns to ReadPoints or to WritePoint.
LEMMA AfterWaitLabel ==
  ASSUME NEW c \in Caller, AfterWait(c)
  PROVE  /\ op[c] = "read" => pc' = [pc EXCEPT ![c] = "count"]
         /\ op[c] # "read" => pc' = [pc EXCEPT ![c] = "send"]
BY Zenon DEF AfterWait, Goto

\* Every step of a call but Lock and Stamp leaves the waiting alone.
LEMMA OtherSteps ==
  ASSUME SInv, NEW c \in Caller, Step(c), ~Stamp(c)
  PROVE  SInv'
<1>1. \E l \in Labels \ {"sleep"} : pc' = [pc EXCEPT ![c] = l]
  <2>1. CASE ReadPointsReturns(c) \/ WritePointRejected(c) \/ Wait(c) \/ Count(c)
    BY <2>1, Zenon DEF ReadPointsReturns, WritePointRejected, Wait, Count, Goto, Labels
  <2>2. CASE NoWait(c)
    BY <2>2, AfterWaitLabel, Zenon DEF NoWait, Labels
  <2>3. CASE Send(c)
    BY <2>3, Zenon DEF Send, Goto, Labels
  <2>4. CASE Fail(c)
    BY <2>4, Zenon DEF Fail, Goto, Labels
  <2>5. CASE Succeed(c)
    BY <2>5, ZenonT(30) DEF Succeed, Goto, Labels
  <2> QED
    BY <2>1, <2>2, <2>3, <2>4, <2>5, Zenon DEF Step
<1>2. UNCHANGED <<minInterval, mu, sinceStamp, sleepLeft>>
  BY ZenonT(30) DEF Step, ReadPointsReturns, WritePointRejected, NoWait, Wait, Count, Send, Fail,
                    Succeed, config, timing
<1> QED
  BY <1>1, <1>2, OutsideWait, ZenonT(30)

\* The calls: only SetMinInterval changes the interval, while nobody sleeps.
LEMMA Calls ==
  ASSUME SInv, NEW c \in Caller, Call(c)
  PROVE  SInv'
<1>1. CASE CallReadPoints(c)
  BY <1>1, OutsideWait, Zenon DEF CallReadPoints, Goto, config, timing, Labels
<1>2. CASE CallWritePoint(c)
  BY <1>2, OutsideWait, Zenon DEF CallWritePoint, Goto, config, timing, Labels
<1>3. CASE GetStats(c)
  <2>1. UNCHANGED <<minInterval, mu, sinceStamp, sleepLeft>>
    BY <1>3, Zenon DEF GetStats, config, timing
  <2>2. \E l \in Labels \ {"sleep"} : pc' = [pc EXCEPT ![c] = l]
    BY <1>3, Zenon DEF GetStats, Goto, Labels
  <2> QED
    BY <2>1, <2>2, OutsideWait, ZenonT(30)
<1>4. CASE ResetStats(c)
  <2>1. UNCHANGED <<minInterval, mu, sinceStamp, sleepLeft>>
    BY <1>4, Zenon DEF ResetStats, config, timing
  <2>2. \E l \in Labels \ {"sleep"} : pc' = [pc EXCEPT ![c] = l]
    BY <1>4, Zenon DEF ResetStats, Goto, Labels
  <2> QED
    BY <2>1, <2>2, OutsideWait, ZenonT(30)
<1>5. ASSUME NEW n \in FrameLengths, SetMaxFrameLength(c, n) PROVE SInv'
  BY <1>5, Zenon DEF SetMaxFrameLength, timing, SInv, Typed, Asleep
<1>6. ASSUME NEW n \in Intervals, SetMinInterval(c, n) PROVE SInv'
  <2>1. \A d \in Caller : pc[d] # "sleep"
    BY <1>6, CallerAssumption, Zenon DEF SetMinInterval, SInv, Asleep, NoCaller
  <2> QED
    BY <1>6, <2>1, CapBounds, Zenon DEF SetMinInterval, timing, SInv, Typed, Asleep
<1> QED
  BY <1>1, <1>2, <1>3, <1>4, <1>5, <1>6, Zenon DEF Call

\* Lock computes the sleep from the time since the last stamp.
LEMMA LockSInv ==
  ASSUME SInv, NEW c \in Caller, Lock(c)
  PROVE  SInv'
<1>1. \A d \in Caller : pc[d] # "sleep"
  BY CallerAssumption, Zenon DEF Lock, SInv, Asleep, NoCaller
<1> DEFINE left == IF sinceStamp < minInterval THEN minInterval - sinceStamp ELSE 0
<1>2. left \in Nat /\ left + sinceStamp >= minInterval
  BY DEF SInv, Typed
<1>3. /\ pc' = [pc EXCEPT ![c] = "sleep"] /\ sleepLeft' = [sleepLeft EXCEPT ![c] = left]
      /\ mu' = c /\ UNCHANGED <<minInterval, sinceStamp>>
  BY Zenon DEF Lock, Goto, config
<1> HIDE DEF left
<1> QED
  BY <1>1, <1>2, <1>3, Zenon DEF SInv, Typed, Asleep, Labels

\* Stamp releases the mutex, and nobody else sleeps.
LEMMA StampSInv ==
  ASSUME SInv, NEW c \in Caller, Stamp(c)
  PROVE  SInv'
<1>1. \A d \in Caller \ {c} : pc[d] # "sleep"
  BY Zenon DEF Stamp, SInv, Asleep
<1>2. \E l \in Labels \ {"sleep"} : pc' = [pc EXCEPT ![c] = l]
  BY AfterWaitLabel, Zenon DEF Stamp, Labels
<1>3. sinceStamp' = 0 /\ UNCHANGED <<minInterval, sleepLeft>>
  BY Zenon DEF Stamp, config
<1> QED
  BY <1>1, <1>2, <1>3, Zenon DEF SInv, Typed, Asleep

\* A tick of the clock takes as much from the sleep as it adds to the time
\* since the last stamp, unless that time is an interval already.
LEMMA TickSInv ==
  ASSUME SInv, Tick
  PROVE  SInv'
<1>1. UNCHANGED <<pc, mu, minInterval>>
  BY Zenon DEF Tick, config
<1>2. sinceStamp' \in Nat /\ sleepLeft' \in [Caller -> Nat]
  BY CapBounds DEF Tick, Older, SInv, Typed
<1>3. ASSUME NEW c \in Caller, pc[c] = "sleep"
      PROVE  sleepLeft'[c] + sinceStamp' >= minInterval
  <2>1. sleepLeft[c] \in Nat /\ sinceStamp \in Nat /\ minInterval \in Nat /\ minInterval <= Cap
    BY Zenon DEF SInv, Typed
  <2>2. sleepLeft[c] + sinceStamp >= minInterval
    BY <1>3, Zenon DEF SInv, Asleep
  <2>3. sleepLeft'[c] = IF sleepLeft[c] > 0 THEN sleepLeft[c] - 1 ELSE 0
    BY Zenon DEF Tick
  <2>4. sinceStamp' = IF sinceStamp < Cap THEN sinceStamp + 1 ELSE sinceStamp
    BY Zenon DEF Tick, Older
  <2> QED
    BY <2>1, <2>2, <2>3, <2>4, CapBounds
<1> QED
  BY <1>1, <1>2, <1>3, Zenon DEF SInv, Typed, Asleep

\* Whoever sleeps in waitMinInterval holds s.mu and sleeps long enough.
THEOREM SInvariance == Spec => []SInv
<1>1. SInv /\ [Next]_vars => SInv'
  <2> SUFFICES ASSUME SInv, [Next]_vars PROVE SInv'
    BY Zenon
  <2>1. CASE UNCHANGED vars
    BY <2>1, Zenon DEF vars, config, timing, SInv, Typed, Asleep
  <2> QED
    BY <2>1, TickSInv, Calls, LockSInv, StampSInv, OtherSteps, Zenon DEF Next
<1> QED
  BY <1>1, InitSInv, PTL DEF Spec

\* A step moves one caller, and only Stamp wakes one.
LEMMA OnlyStampWakes ==
  ASSUME Typed, [Next]_vars, NEW d \in Caller, pc[d] = "sleep", pc'[d] # "sleep"
  PROVE  Stamp(d)
<1>1. ~(Tick \/ UNCHANGED vars)
  BY Zenon DEF Tick, vars
<1>2. PICK c \in Caller : Call(c) \/ Lock(c) \/ Step(c)
  BY <1>1, Zenon DEF Next
<1>3. pc' = pc \/ \E l : pc' = [pc EXCEPT ![c] = l]
  <2>1. CASE Call(c)
    BY <2>1, Zenon DEF Call, CallReadPoints, CallWritePoint, GetStats, ResetStats, SetMaxFrameLength,
                SetMinInterval, Goto
  <2>2. CASE Lock(c)
    BY <2>2, Zenon DEF Lock, Goto
  <2>3. CASE Step(c)
    BY <2>3, ZenonT(30) DEF Step, ReadPointsReturns, WritePointRejected, NoWait, Wait, Stamp,
                            Count, Send, Fail, Succeed, AfterWait, Goto
  <2> QED
    BY <1>2, <2>1, <2>2, <2>3, SMTT(20)
<1>4. c = d
  BY <1>3, Zenon DEF Typed
<1>5. ~Lock(d)
  BY Zenon DEF Lock
<1>6. ~Call(d)
  <2>1. ~CallReadPoints(d) /\ ~CallWritePoint(d) /\ ~GetStats(d) /\ ~ResetStats(d)
    BY Zenon DEF CallReadPoints, CallWritePoint, GetStats, ResetStats, Start
  <2>2. \A n : ~SetMaxFrameLength(d, n) /\ ~SetMinInterval(d, n)
    BY Zenon DEF SetMaxFrameLength, SetMinInterval, Start
  <2> QED
    BY <2>1, <2>2, Zenon DEF Call
<1>7. Step(d) => Stamp(d)
  BY Zenon DEF Step, ReadPointsReturns, WritePointRejected, NoWait, Wait, AtWait, Count, Send, Fail,
         Succeed
<1> QED
  BY <1>2, <1>4, <1>5, <1>6, <1>7, Zenon

\* waitMinInterval lets requests through at least minInterval apart, for any
\* number of callers and whatever SetMinInterval does meanwhile.
THEOREM StampsSpacedTheorem == Spec => StampsSpaced
<1>1. ASSUME SInv, [Next]_vars, NEW c \in Caller, pc[c] = "sleep", pc'[c] # "sleep"
      PROVE  sinceStamp >= minInterval
  <2>1. sleepLeft[c] = 0
    BY <1>1, OnlyStampWakes, Zenon DEF SInv, Stamp
  <2>2. sleepLeft[c] + sinceStamp >= minInterval /\ sinceStamp \in Nat
    BY <1>1, Zenon DEF SInv, Asleep, Typed
  <2> QED
    BY <2>1, <2>2
<1>2. SInv /\ [Next]_vars =>
        [\A c \in Caller : pc[c] = "sleep" /\ pc'[c] # "sleep" => sinceStamp >= minInterval]_vars
  BY <1>1, Zenon
<1> QED
  BY <1>2, SInvariance, PTL DEF Spec, StampsSpaced

-----------------------------------------------------------------------------
(* The statistics.                                                         *)

\* The labels of each operation, and the ones at which it has been counted.
OpFits(l, o) ==
    /\ l \in {"group", "count", "panicked"} => o = "read"
    /\ l = "check" => o = "write"
    /\ l \in {"lock", "sleep", "send", "failed", "answered"} => o \in {"read", "write"}
    /\ l \in {"reset2", "reset3"} => o = "reset"
CountedAt(l, o) ==
    \/ o = "write" /\ l \in {"check", "lock", "sleep", "send", "failed", "answered"}
    \/ o = "read" /\ l \in {"send", "failed", "answered"}

CountsTyped == totalRequests \in Nat /\ successCount \in Nat /\ failureCount \in Nat

OpsTyped ==
    /\ CountsTyped
    /\ pc \in [Caller -> Labels]
    /\ op \in [Caller -> OpNames]
    /\ wasReset \in BOOLEAN
    /\ \A c \in Caller : OpFits(pc[c], op[c])

AInv == OpsTyped /\ StatsAccount

\* A caller that moves to label l of operation o enters the requests under
\* way, leaves them, or changes nothing.
LEMMA InFlightMoves ==
  ASSUME OpsTyped, NEW c \in Caller, NEW l, NEW o,
         pc' = [pc EXCEPT ![c] = l], op' = [op EXCEPT ![c] = o]
  PROVE  InFlight' = IF CountedAt(l, o) THEN InFlight \cup {c} ELSE InFlight \ {c}
<1>1. \A d \in Caller : Counted(d) <=> CountedAt(pc[d], op[d])
  BY Zenon DEF Counted, CountedAt
<1>2. \A d \in Caller : Counted(d)' <=> CountedAt(pc'[d], op'[d])
  BY Zenon DEF Counted, CountedAt
<1>3. pc'[c] = l /\ op'[c] = o
  BY Zenon DEF OpsTyped
<1>4. \A d \in Caller \ {c} : pc'[d] = pc[d] /\ op'[d] = op[d]
  BY Zenon DEF OpsTyped
<1>5. \A d \in Caller : d \in InFlight <=> CountedAt(pc[d], op[d])
  BY <1>1, Zenon DEF InFlight
<1>6. \A d \in Caller : d \in InFlight' <=> CountedAt(pc'[d], op'[d])
  BY <1>2, Zenon DEF InFlight
<1>7. InFlight \subseteq Caller /\ InFlight' \subseteq Caller
  BY Zenon DEF InFlight
<1> QED
  BY <1>3, <1>4, <1>5, <1>6, <1>7, Zenon

\* How the number of requests under way changes.
LEMMA CardinalityMoves ==
  ASSUME OpsTyped, NEW c \in Caller, NEW l, NEW o,
         pc' = [pc EXCEPT ![c] = l], op' = [op EXCEPT ![c] = o]
  PROVE  /\ Cardinality(InFlight) \in Nat /\ Cardinality(InFlight)' \in Nat
         /\ CountedAt(l, o) /\ CountedAt(pc[c], op[c])
                => Cardinality(InFlight)' = Cardinality(InFlight)
         /\ ~CountedAt(l, o) /\ ~CountedAt(pc[c], op[c])
                => Cardinality(InFlight)' = Cardinality(InFlight)
         /\ CountedAt(l, o) /\ ~CountedAt(pc[c], op[c])
                => Cardinality(InFlight)' = Cardinality(InFlight) + 1
         /\ ~CountedAt(l, o) /\ CountedAt(pc[c], op[c])
                => Cardinality(InFlight)' = Cardinality(InFlight) - 1
<1> DEFINE F == InFlight
           G == InFlight'
<1>1. G = IF CountedAt(l, o) THEN F \cup {c} ELSE F \ {c}
  BY InFlightMoves, ZenonT(30)
<1>2. c \in F <=> CountedAt(pc[c], op[c])
  BY Zenon DEF InFlight, Counted, CountedAt
<1>3. IsFiniteSet(F) /\ IsFiniteSet(G)
  BY CallerAssumption, FS_Subset, Zenon DEF InFlight
<1>4. Cardinality(InFlight)' = Cardinality(G)
  BY Zenon
<1>5. Cardinality(F) \in Nat /\ Cardinality(G) \in Nat
  BY <1>3, FS_CardinalityType, Zenon
<1>6. c \notin F => Cardinality(F \cup {c}) = Cardinality(F) + 1
  BY <1>3, FS_AddElement, Zenon
<1>7. c \in F => Cardinality(F \ {c}) = Cardinality(F) - 1
  BY <1>3, FS_RemoveElement, ZenonT(30)
<1>8. c \in F => F \cup {c} = F
  BY Zenon
<1>9. c \notin F => F \ {c} = F
  BY Zenon
<1> HIDE DEF F, G
<1>10. /\ CountedAt(l, o) /\ c \in F => Cardinality(G) = Cardinality(F)
       /\ ~CountedAt(l, o) /\ c \notin F => Cardinality(G) = Cardinality(F)
       /\ CountedAt(l, o) /\ c \notin F => Cardinality(G) = Cardinality(F) + 1
       /\ ~CountedAt(l, o) /\ c \in F => Cardinality(G) = Cardinality(F) - 1
  BY <1>1, <1>6, <1>7, <1>8, <1>9, Zenon
<1> QED
  BY <1>2, <1>4, <1>5, <1>10, Zenon DEF F, G

\* A move that balances the counters: the total grows when the caller
\* becomes counted, an outcome when it stops being counted.
Balanced(c, l, o) ==
    LET before == successCount + failureCount
        after == successCount' + failureCount'
    IN /\ CountedAt(l, o) /\ ~CountedAt(pc[c], op[c])
              => totalRequests' = totalRequests + 1 /\ after = before
       /\ ~CountedAt(l, o) /\ CountedAt(pc[c], op[c])
              => totalRequests' = totalRequests /\ after = before + 1
       /\ (CountedAt(l, o) <=> CountedAt(pc[c], op[c]))
              => totalRequests' = totalRequests /\ after = before

\* What every step but those of ResetStats does: it moves one caller, between
\* labels outside ResetStats, in balance and without taking anything back.
InReset == {"reset2", "reset3"}
MovesTo(c, l, o) ==
    /\ OpFits(l, o)
    /\ pc' = [pc EXCEPT ![c] = l] /\ op' = [op EXCEPT ![c] = o]
    /\ pc[c] \notin InReset
    /\ Balanced(c, l, o)
    /\ successCount' >= successCount /\ failureCount' >= failureCount
    /\ CountsTyped' /\ wasReset' = wasReset
Moves(c) == \E l \in Labels \ InReset, o \in OpNames : MovesTo(c, l, o)

\* The numbers of a move: the requests under way before and after it, and how
\* they change with the counters.
LEMMA MoveCounts ==
  ASSUME OpsTyped, NEW c \in Caller, NEW l, NEW o, MovesTo(c, l, o)
  PROVE  \E n, m \in Nat :
            /\ n = Cardinality(InFlight) /\ m = Cardinality(InFlight)'
            /\ \/ totalRequests' = totalRequests + 1 /\ m = n + 1
                  /\ successCount' = successCount /\ failureCount' = failureCount
               \/ totalRequests' = totalRequests /\ m = n - 1
                  /\ \/ successCount' = successCount + 1 /\ failureCount' = failureCount
                     \/ successCount' = successCount /\ failureCount' = failureCount + 1
               \/ totalRequests' = totalRequests /\ m = n
                  /\ successCount' = successCount /\ failureCount' = failureCount
<1>1. PICK n, m \in Nat : n = Cardinality(InFlight) /\ m = Cardinality(InFlight)'
  BY CardinalityMoves, Zenon DEF MovesTo
<1>2. /\ CountedAt(l, o) /\ CountedAt(pc[c], op[c]) => m = n
      /\ ~CountedAt(l, o) /\ ~CountedAt(pc[c], op[c]) => m = n
      /\ CountedAt(l, o) /\ ~CountedAt(pc[c], op[c]) => m = n + 1
      /\ ~CountedAt(l, o) /\ CountedAt(pc[c], op[c]) => m = n - 1
  BY <1>1, CardinalityMoves, ZenonT(30) DEF MovesTo
<1> DEFINE before == successCount + failureCount
           after == successCount' + failureCount'
<1>3. \/ totalRequests' = totalRequests + 1 /\ m = n + 1 /\ after = before
      \/ totalRequests' = totalRequests /\ m = n - 1 /\ after = before + 1
      \/ totalRequests' = totalRequests /\ m = n /\ after = before
  BY <1>2, Zenon DEF MovesTo, Balanced
<1>4. /\ successCount \in Nat /\ failureCount \in Nat
      /\ successCount' \in Nat /\ failureCount' \in Nat
      /\ successCount' >= successCount /\ failureCount' >= failureCount
  BY Zenon DEF MovesTo, OpsTyped, CountsTyped
<1>5. PICK s, f, s1, f1 \in Nat :
          s = successCount /\ f = failureCount /\ s1 = successCount' /\ f1 = failureCount'
  BY <1>4, Zenon
<1>6. s1 >= s /\ f1 >= f
  BY <1>4, <1>5, Zenon
<1>7. /\ s1 + f1 = s + f => s1 = s /\ f1 = f
      /\ s1 + f1 = s + f + 1 => (s1 = s + 1 /\ f1 = f) \/ (s1 = s /\ f1 = f + 1)
  BY <1>6
<1>8. /\ after = before => successCount' = successCount /\ failureCount' = failureCount
      /\ after = before + 1 => \/ successCount' = successCount + 1 /\ failureCount' = failureCount
                               \/ successCount' = successCount /\ failureCount' = failureCount + 1
  BY <1>5, <1>7, ZenonT(30)
<1> HIDE DEF before, after
<1> QED
  BY <1>1, <1>3, <1>8, Zenon

\* A caller that moves keeps the types.
LEMMA MoveTyped ==
  ASSUME OpsTyped, NEW c \in Caller, NEW l \in Labels, NEW o \in OpNames, OpFits(l, o),
         pc' = [pc EXCEPT ![c] = l], op' = [op EXCEPT ![c] = o],
         CountsTyped', wasReset' \in BOOLEAN
  PROVE  OpsTyped'
<1>1. pc \in [Caller -> Labels] /\ op \in [Caller -> OpNames]
  BY Zenon DEF OpsTyped
<1>2. pc' \in [Caller -> Labels] /\ op' \in [Caller -> OpNames]
  BY <1>1, Zenon
<1>3. \A d \in Caller : OpFits(pc'[d], op'[d])
  BY <1>1, Zenon DEF OpsTyped
<1> QED
  BY <1>2, <1>3, Zenon DEF OpsTyped, OpFits

\* A caller that goes on with its operation.
LEMMA GoesOn ==
  ASSUME OpsTyped, NEW c \in Caller, NEW l \in Labels \ InReset, OpFits(l, op[c]),
         pc' = [pc EXCEPT ![c] = l], UNCHANGED op, pc[c] \notin InReset,
         Balanced(c, l, op[c]),
         successCount' >= successCount, failureCount' >= failureCount,
         CountsTyped', wasReset' = wasReset
  PROVE  Moves(c)
<1>1. op' = [op EXCEPT ![c] = op[c]] /\ op[c] \in OpNames
  BY Zenon DEF OpsTyped
<1>2. MovesTo(c, l, op[c])
  BY <1>1, Zenon DEF MovesTo
<1> QED
  BY <1>1, <1>2, Zenon DEF Moves

\* What the types say of one caller.
LEMMA CallerFits ==
  ASSUME OpsTyped, NEW c \in Caller
  PROVE  OpFits(pc[c], op[c]) /\ op[c] \in OpNames /\ CountsTyped /\ wasReset \in BOOLEAN
BY Zenon DEF OpsTyped

\* Counters that stay as they are.
LEMMA CountersStay ==
  ASSUME CountsTyped, UNCHANGED counters
  PROVE  /\ CountsTyped' /\ wasReset' = wasReset
         /\ successCount' >= successCount /\ failureCount' >= failureCount
BY DEF CountsTyped, counters

\* Steps that count nothing and stay on the same side of the account.
LEMMA QuietSteps ==
  ASSUME OpsTyped, NEW c \in Caller,
         ReadPointsReturns(c) \/ NoWait(c) \/ Wait(c) \/ Lock(c) \/ Stamp(c) \/ Send(c)
  PROVE  Moves(c)
<1>1. OpFits(pc[c], op[c]) /\ CountsTyped
  BY CallerFits, Zenon
<1>2. UNCHANGED <<op, counters>>
  BY Zenon DEF ReadPointsReturns, NoWait, Wait, Lock, Stamp, Send, local
<1>3. PICK l \in Labels : /\ pc' = [pc EXCEPT ![c] = l]
                          /\ OpFits(l, op[c])
                          /\ CountedAt(l, op[c]) <=> CountedAt(pc[c], op[c])
  <2>1. CASE ReadPointsReturns(c)
    BY <1>1, <2>1, SMTT(20) DEF ReadPointsReturns, Goto, OpFits, CountedAt, Labels
  <2>2. CASE NoWait(c)
    BY <1>1, <2>2, AfterWaitLabel, SMTT(20) DEF NoWait, AtWait, OpFits, CountedAt, Labels
  <2>3. CASE Wait(c)
    BY <1>1, <2>3, Zenon DEF Wait, AtWait, Goto, OpFits, CountedAt, Labels
  <2>4. CASE Lock(c)
    BY <1>1, <2>4, Zenon DEF Lock, Goto, OpFits, CountedAt, Labels
  <2>5. CASE Stamp(c)
    BY <1>1, <2>5, AfterWaitLabel, SMTT(20) DEF Stamp, OpFits, CountedAt, Labels
  <2>6. CASE Send(c)
    BY <1>1, <2>6, SMTT(20) DEF Send, Goto, OpFits, CountedAt, Labels
  <2> QED
    BY <2>1, <2>2, <2>3, <2>4, <2>5, <2>6, Zenon
<1>4. Balanced(c, l, op[c])
  BY <1>2, <1>3, SMTT(20) DEF Balanced, counters
<1>5. pc[c] \notin InReset /\ l \notin InReset
  <2>1. pc[c] \in {"group", "check", "lock", "sleep", "send"}
    BY Zenon DEF ReadPointsReturns, NoWait, Wait, AtWait, Lock, Stamp, Send
  <2> QED
    BY <1>1, <1>3, <2>1, SMTT(20) DEF OpFits, InReset
<1> QED
  BY <1>1, <1>2, <1>3, <1>4, <1>5, CountersStay, GoesOn, ZenonT(30)

\* Count adds to the total.
LEMMA CountMoves ==
  ASSUME OpsTyped, NEW c \in Caller, Count(c)
  PROVE  Moves(c)
<1>1. op[c] = "read" /\ pc[c] = "count" /\ CountsTyped
  BY CallerFits, Zenon DEF Count, OpFits
<1>2. /\ totalRequests' = totalRequests + 1
      /\ UNCHANGED <<op, successCount, failureCount, wasReset>>
      /\ pc' = [pc EXCEPT ![c] = "send"]
  BY Zenon DEF Count, Goto, local
<1>3. /\ Balanced(c, "send", op[c]) /\ OpFits("send", op[c])
      /\ "send" \in Labels \ InReset /\ pc[c] \notin InReset
  BY <1>1, <1>2, Zenon DEF Balanced, CountedAt, OpFits, Labels, InReset
<1>4. CountsTyped' /\ successCount' >= successCount /\ failureCount' >= failureCount
  BY <1>1, <1>2 DEF CountsTyped
<1> QED
  BY <1>1, <1>2, <1>3, <1>4, GoesOn, ZenonT(30)

\* Rejected, failed and answered requests add to one of the outcomes.
LEMMA OutcomeMoves ==
  ASSUME OpsTyped, NEW c \in Caller, WritePointRejected(c) \/ Fail(c) \/ Succeed(c)
  PROVE  Moves(c)
<1>1. /\ OpFits(pc[c], op[c]) /\ CountsTyped
      /\ pc[c] \in {"check", "failed", "answered"}
  BY CallerFits, ZenonT(30) DEF WritePointRejected, Fail, Succeed
<1>2. CountedAt(pc[c], op[c]) /\ pc[c] \notin InReset
  BY <1>1, Zenon DEF OpFits, CountedAt, InReset
<1>3. UNCHANGED <<op, totalRequests, wasReset>>
  BY ZenonT(30) DEF WritePointRejected, Fail, Succeed, local
<1>4. \/ failureCount' = failureCount + 1 /\ UNCHANGED successCount
      \/ successCount' = successCount + 1 /\ UNCHANGED failureCount
  BY ZenonT(30) DEF WritePointRejected, Fail, Succeed
<1>5. PICK l \in {"idle", "group", "panicked"} : /\ pc' = [pc EXCEPT ![c] = l]
                                               /\ OpFits(l, op[c])
  <2>1. CASE WritePointRejected(c)
    BY <1>1, <2>1, SMTT(20) DEF WritePointRejected, Goto, OpFits
  <2>2. CASE Fail(c)
    BY <1>1, <2>2, Zenon DEF Fail, Goto, OpFits
  <2>3. CASE Succeed(c)
    BY <1>1, <2>3, ZenonT(30) DEF Succeed, Goto, OpFits
  <2> QED
    BY <2>1, <2>2, <2>3, Zenon
<1>6. ~CountedAt(l, op[c]) /\ l \in Labels \ InReset
  BY <1>5, Zenon DEF CountedAt, Labels, InReset
<1>7. successCount' + failureCount' = successCount + failureCount + 1
  BY <1>1, <1>4 DEF CountsTyped
<1>8. Balanced(c, l, op[c])
  BY <1>2, <1>3, <1>6, <1>7, Zenon DEF Balanced
<1>9. CountsTyped' /\ successCount' >= successCount /\ failureCount' >= failureCount
  BY <1>1, <1>3, <1>4 DEF CountsTyped
<1> QED
  BY <1>2, <1>3, <1>5, <1>6, <1>8, <1>9, GoesOn, ZenonT(30)

\* A new call starts from idle, where nothing is counted.
LEMMA StartFits ==
  ASSUME OpsTyped, NEW c \in Caller, NEW o, Start(c, o)
  PROVE  /\ op' = [op EXCEPT ![c] = o] /\ o \in OpNames /\ pc[c] = "idle"
         /\ pc = [pc EXCEPT ![c] = "idle"] /\ pc[c] \notin InReset
         /\ ~CountedAt(pc[c], op[c])
BY OpsAssumption, Zenon DEF Start, OpsTyped, CountedAt, InReset

\* A call that starts.
LEMMA Starts ==
  ASSUME OpsTyped, NEW c \in Caller, NEW l \in Labels \ InReset, NEW o, Start(c, o), OpFits(l, o),
         pc' = [pc EXCEPT ![c] = l],
         Balanced(c, l, o),
         successCount' >= successCount, failureCount' >= failureCount,
         CountsTyped', wasReset' = wasReset
  PROVE  Moves(c)
BY StartFits, ZenonT(30) DEF MovesTo, Moves

\* ReadPoints counts its requests later, WritePoint counts itself first.
LEMMA PointCallsMove ==
  ASSUME OpsTyped, NEW c \in Caller, CallReadPoints(c) \/ CallWritePoint(c)
  PROVE  Moves(c)
<1>1. CountsTyped
  BY CallerFits, Zenon
<1>2. CASE CallReadPoints(c)
  <2>1. Start(c, "read")
    BY <1>2, SMTT(20) DEF CallReadPoints
  <2>2. UNCHANGED counters /\ pc' = [pc EXCEPT ![c] = "group"]
    BY <1>2, Zenon DEF CallReadPoints, Goto
  <2>3. Balanced(c, "group", "read") /\ OpFits("group", "read") /\ "group" \in Labels \ InReset
    BY <2>1, <2>2, StartFits, Zenon DEF counters, Balanced, CountedAt, OpFits, Labels, InReset
  <2> QED
    BY <1>1, <2>1, <2>2, <2>3, CountersStay, Starts, ZenonT(30)
<1>3. CASE CallWritePoint(c)
  <2>1. Start(c, "write")
    BY <1>3, Zenon DEF CallWritePoint
  <2>2. /\ totalRequests' = totalRequests + 1 /\ UNCHANGED <<successCount, failureCount, wasReset>>
        /\ pc' = [pc EXCEPT ![c] = "check"]
    BY <1>3, Zenon DEF CallWritePoint, Goto
  <2>3. Balanced(c, "check", "write") /\ OpFits("check", "write") /\ "check" \in Labels \ InReset
    BY <2>1, <2>2, StartFits, Zenon DEF Balanced, CountedAt, OpFits, Labels, InReset
  <2>4. CountsTyped' /\ successCount' >= successCount /\ failureCount' >= failureCount
    BY <1>1, <2>2 DEF CountsTyped
  <2> QED
    BY <2>1, <2>2, <2>3, <2>4, Starts, ZenonT(30)
<1> QED
  BY <1>2, <1>3, Zenon

\* GetStats counts nothing.
LEMMA GetStatsMoves ==
  ASSUME OpsTyped, NEW c \in Caller, GetStats(c)
  PROVE  Moves(c)
<1>1. CountsTyped /\ UNCHANGED counters
  BY CallerFits, Zenon DEF GetStats
<1>2. CASE Start(c, "stats") /\ Goto(c, "load")
  <2>1. Balanced(c, "load", "stats") /\ OpFits("load", "stats") /\ "load" \in Labels \ InReset
    BY <1>1, <1>2, StartFits, Zenon DEF counters, Balanced, CountedAt, OpFits, Labels, InReset
  <2> QED
    BY <1>1, <1>2, <2>1, CountersStay, Starts, ZenonT(30) DEF Goto
<1>3. CASE ~(Start(c, "stats") /\ Goto(c, "load"))
  <2>1. UNCHANGED op /\ pc[c] = "load"
    BY <1>3, Zenon DEF GetStats
  <2>2. PICK l \in {"load", "idle"} : pc' = [pc EXCEPT ![c] = l]
    BY <1>3, Zenon DEF GetStats, Goto
  <2>3. /\ Balanced(c, l, op[c]) /\ OpFits(l, op[c])
        /\ l \in Labels \ InReset /\ pc[c] \notin InReset
    BY <1>1, <2>1, <2>2, Zenon DEF counters, Balanced, CountedAt, OpFits, Labels, InReset
  <2> QED
    BY <1>1, <2>1, <2>2, <2>3, CountersStay, GoesOn, ZenonT(30)
<1> QED
  BY <1>2, <1>3, Zenon

\* SetMaxFrameLength and SetMinInterval count nothing.
LEMMA SettersMove ==
  ASSUME OpsTyped, NEW c \in Caller, NEW n, SetMaxFrameLength(c, n) \/ SetMinInterval(c, n)
  PROVE  Moves(c)
<1>1. CountsTyped /\ UNCHANGED <<counters, pc>>
  BY CallerFits, Zenon DEF SetMaxFrameLength, SetMinInterval
<1>2. PICK o \in {"setFrame", "setInterval"} : Start(c, o)
  BY Zenon DEF SetMaxFrameLength, SetMinInterval
<1>3. Balanced(c, "idle", o) /\ OpFits("idle", o) /\ "idle" \in Labels \ InReset
  BY <1>1, <1>2, StartFits, Zenon DEF counters, Balanced, CountedAt, OpFits, Labels, InReset
<1>4. pc' = [pc EXCEPT ![c] = "idle"]
  BY <1>1, <1>2, StartFits, Zenon
<1> QED
  BY <1>1, <1>2, <1>3, <1>4, CountersStay, Starts, ZenonT(30)

\* Every step of a caller is a move, or one of ResetStats.
LEMMA CallerMoves ==
  ASSUME OpsTyped, NEW c \in Caller, Call(c) \/ Lock(c) \/ Step(c)
  PROVE  Moves(c) \/ ResetStats(c)
BY PointCallsMove, GetStatsMoves, SettersMove, QuietSteps, CountMoves, OutcomeMoves, Zenon DEF Call, Step

\* A new scheduler has counted nothing.
LEMMA InitOps == Init => OpsTyped /\ Cardinality(InFlight) = 0
<1> SUFFICES ASSUME Init PROVE OpsTyped /\ Cardinality(InFlight) = 0
  BY Zenon
<1>1. CountsTyped /\ wasReset \in BOOLEAN
  BY Zenon DEF Init, NewScheduler, CountsTyped
<1>2. /\ pc \in [Caller -> Labels] /\ op \in [Caller -> OpNames]
      /\ \A c \in Caller : OpFits(pc[c], op[c])
  BY Zenon DEF Init, OpFits, Labels, OpNames
<1>3. OpsTyped
  BY <1>1, <1>2, Zenon DEF OpsTyped
<1>4. InFlight = {}
  BY Zenon DEF Init, InFlight, Counted
<1> QED
  BY <1>3, <1>4, FS_EmptySet, Zenon

\* ResetStats moves its caller from idle to the second store, to the third and
\* back, and is never counted itself.
LEMMA ResetMoves ==
  ASSUME OpsTyped, NEW c \in Caller, ResetStats(c)
  PROVE  \E l \in {"reset2", "reset3", "idle"} :
            /\ pc' = [pc EXCEPT ![c] = l]
            /\ OpsTyped' /\ wasReset'
            /\ Cardinality(InFlight)' = Cardinality(InFlight)
            /\ c \notin InFlight
            /\ \/ l = "reset2" /\ totalRequests' = 0 /\ UNCHANGED <<successCount, failureCount>>
               \/ /\ l = "reset3" /\ pc[c] = "reset2"
                  /\ successCount' = 0 /\ UNCHANGED <<totalRequests, failureCount>>
               \/ /\ l = "idle" /\ pc[c] = "reset3"
                  /\ failureCount' = 0 /\ UNCHANGED <<totalRequests, successCount>>
<1>1. OpFits(pc[c], op[c]) /\ op[c] \in OpNames /\ CountsTyped
  BY CallerFits, Zenon
<1>2. CountsTyped' /\ wasReset' = TRUE
  BY <1>1 DEF ResetStats, CountsTyped
<1>3. PICK l \in {"reset2", "reset3", "idle"} :
          /\ pc' = [pc EXCEPT ![c] = l]
          /\ \/ /\ l = "reset2" /\ Start(c, "reset")
                /\ totalRequests' = 0 /\ UNCHANGED <<successCount, failureCount>>
             \/ /\ l = "reset3" /\ pc[c] = "reset2" /\ UNCHANGED op
                /\ successCount' = 0 /\ UNCHANGED <<totalRequests, failureCount>>
             \/ /\ l = "idle" /\ pc[c] = "reset3" /\ UNCHANGED op
                /\ failureCount' = 0 /\ UNCHANGED <<totalRequests, successCount>>
  BY Zenon DEF ResetStats, Goto
<1>4. ~CountedAt(pc[c], op[c])
  BY <1>1, <1>3, StartFits, Zenon DEF CountedAt, OpFits
<1>5. PICK o \in OpNames : op' = [op EXCEPT ![c] = o] /\ OpFits(l, o) /\ ~CountedAt(l, o)
  <2>1. CASE Start(c, "reset")
    BY <2>1, <1>3, StartFits, Zenon DEF OpFits, CountedAt, Start
  <2>2. CASE ~Start(c, "reset")
    <3>1. op[c] = "reset" /\ op' = [op EXCEPT ![c] = op[c]]
      BY <1>1, <1>3, <2>2, Zenon DEF OpFits, OpsTyped
    <3>2. OpFits(l, op[c]) /\ ~CountedAt(l, op[c])
      BY <3>1, Zenon DEF OpFits, CountedAt
    <3> QED
      BY <1>1, <3>1, <3>2, Zenon
  <2> QED
    BY <2>1, <2>2, Zenon
<1>6. OpsTyped'
  <2>1. l \in Labels /\ wasReset' \in BOOLEAN
    BY <1>2, Zenon DEF Labels
  <2> QED
    BY <1>2, <1>3, <1>5, <2>1, MoveTyped, ZenonT(30)
<1>7. Cardinality(InFlight)' = Cardinality(InFlight)
  BY <1>3, <1>4, <1>5, CardinalityMoves, ZenonT(30)
<1>8. c \notin InFlight
  BY <1>4, Zenon DEF InFlight, Counted, CountedAt
<1> QED
  BY <1>2, <1>3, <1>6, <1>7, <1>8, Zenon

\* The types alone are inductive.
LEMMA NextTyped ==
  ASSUME OpsTyped, [Next]_vars
  PROVE  OpsTyped'
<1>1. CASE Tick \/ UNCHANGED vars
  BY <1>1, Zenon DEF Tick, vars, counters, local, OpsTyped, CountsTyped
<1>2. ASSUME NEW c \in Caller, Moves(c) PROVE OpsTyped'
  BY <1>2, MoveTyped, CallerFits, Zenon DEF Moves, MovesTo
<1>3. ASSUME NEW c \in Caller, ResetStats(c) PROVE OpsTyped'
  BY <1>3, ResetMoves, Zenon
<1> QED
  BY <1>1, <1>2, <1>3, CallerMoves, Zenon DEF Next

\* A step of the clock leaves the statistics alone.
LEMMA TickCounts ==
  ASSUME Tick \/ UNCHANGED vars
  PROVE  /\ UNCHANGED <<pc, op, totalRequests, successCount, failureCount, wasReset, snapshot>>
         /\ InFlight' = InFlight
<1>1. UNCHANGED <<pc, op, totalRequests, successCount, failureCount, wasReset, snapshot>>
  BY Zenon DEF Tick, vars, counters, local
<1> QED
  BY <1>1, Zenon DEF InFlight, Counted

\* Every step keeps the account.
LEMMA AInvStep ==
  ASSUME AInv, [Next]_vars
  PROVE  AInv'
<1>1. OpsTyped /\ OpsTyped'
  BY NextTyped, Zenon DEF AInv
<1>2. CASE Tick \/ UNCHANGED vars
  BY <1>1, <1>2, TickCounts, Zenon DEF AInv, StatsAccount
<1>3. ASSUME NEW c \in Caller, Moves(c) PROVE StatsAccount'
  <2>1. PICK l, o : MovesTo(c, l, o)
    BY <1>3, Zenon DEF Moves
  <2>2. ASSUME ~wasReset'
        PROVE  totalRequests' = successCount' + failureCount' + Cardinality(InFlight)'
    <3>1. totalRequests = successCount + failureCount + Cardinality(InFlight)
      BY <2>1, <2>2, Zenon DEF AInv, StatsAccount, MovesTo
    <3>2. totalRequests \in Nat /\ successCount \in Nat /\ failureCount \in Nat
      BY <1>1, Zenon DEF OpsTyped, CountsTyped
    <3> QED
      BY <1>1, <2>1, <3>1, <3>2, MoveCounts, SMTT(20)
  <2> QED
    BY <2>2, Zenon DEF StatsAccount
<1>4. ASSUME NEW c \in Caller, ResetStats(c) PROVE StatsAccount'
  BY <1>1, <1>4, ResetMoves, Zenon DEF StatsAccount
<1> QED
  BY <1>1, <1>2, <1>3, <1>4, CallerMoves, Zenon DEF Next, AInv

\* The statistics account for every request, for any callers and batches,
\* until somebody resets them.
THEOREM StatsAccountTheorem == Spec => []StatsAccount
<1>1. Init => AInv
  BY InitOps DEF AInv, Init, NewScheduler, StatsAccount
<1>2. AInv => StatsAccount
  BY Zenon DEF AInv
<1> QED
  BY <1>1, <1>2, AInvStep, PTL DEF Spec

-----------------------------------------------------------------------------
(* Resets, and snapshots of the statistics.                                *)

\* What a caller may still add to the outcomes is bounded by the total and the
\* other callers, as soon as its counters have been stored since the last time
\* the total was: no caller then stands before the store in question.
DriftInv ==
    /\ OpsTyped
    /\ (\A c \in Caller : pc[c] # "reset2") =>
           successCount + Cardinality(InFlight) <= totalRequests + Cardinality(Caller) - 1
    /\ (\A c \in Caller : pc[c] \notin InReset) =>
           successCount + failureCount + Cardinality(InFlight)
               <= totalRequests + Cardinality(Caller) - 1

\* A snapshot s of N callers' statistics, while the outcomes are S and F: its
\* total is at most the outcomes loaded so far, those that can still be
\* loaded, and a request of every other caller.
SnapshotOK(s, S, F, N) ==
    /\ Len(s) = 1 => s[1] <= S + F + N - 1
    /\ Len(s) = 2 => s[1] <= s[2] + F + N - 1
    /\ Len(s) = 3 => s[1] <= s[2] + s[3] + N - 1

\* A caller in GetStats has loaded one or two counters.
SnapshotInv ==
    /\ AInv
    /\ \A c \in Caller :
        /\ snapshot[c] \in Seq(Nat)
        /\ pc[c] = "load" => Len(snapshot[c]) \in {1, 2}
        /\ ~wasReset => SnapshotOK(snapshot[c], successCount, failureCount, Cardinality(Caller))

\* Not all callers have a request under way if one of them has not.
LEMMA OthersInFlight ==
  /\ Cardinality(Caller) \in Nat /\ Cardinality(Caller) >= 1 /\ Cardinality(InFlight) \in Nat
  /\ \A c \in Caller : c \notin InFlight => Cardinality(InFlight) <= Cardinality(Caller) - 1
<1>1. IsFiniteSet(Caller) /\ InFlight \subseteq Caller
  BY CallerAssumption, Zenon DEF InFlight
<1>2. Cardinality(Caller) \in Nat /\ Cardinality(InFlight) \in Nat
  BY <1>1, FS_Subset, FS_CardinalityType, Zenon
<1>3. Cardinality(Caller) # 0
  BY <1>1, CallerAssumption, FS_EmptySet, Zenon
<1>4. ASSUME NEW c \in Caller, c \notin InFlight
      PROVE  Cardinality(InFlight) <= Cardinality(Caller) - 1
  <2>1. IsFiniteSet(Caller \ {c}) /\ Cardinality(Caller \ {c}) = Cardinality(Caller) - 1
    BY <1>1, FS_RemoveElement, ZenonT(30)
  <2>2. InFlight \subseteq Caller \ {c}
    BY <1>1, <1>4, Zenon
  <2>3. Cardinality(InFlight) <= Cardinality(Caller \ {c})
    BY <2>1, <2>2, FS_Subset, Zenon
  <2> QED
    BY <2>1, <2>3, Zenon
<1> QED
  BY <1>2, <1>3, <1>4

\* A move keeps both bounds: it can only lower what is on their left sides
\* against the total.
LEMMA MoveDrift ==
  ASSUME DriftInv, NEW c \in Caller, Moves(c)
  PROVE  DriftInv'
<1>1. PICK l \in Labels \ InReset, o \in OpNames : MovesTo(c, l, o)
  BY Zenon DEF Moves
<1>2. OpsTyped /\ OpsTyped'
  BY <1>1, MoveTyped, CallerFits, Zenon DEF DriftInv, MovesTo
<1>3. PICK n, m \in Nat :
            /\ n = Cardinality(InFlight) /\ m = Cardinality(InFlight)'
            /\ \/ totalRequests' = totalRequests + 1 /\ m = n + 1
                  /\ successCount' = successCount /\ failureCount' = failureCount
               \/ totalRequests' = totalRequests /\ m = n - 1
                  /\ \/ successCount' = successCount + 1 /\ failureCount' = failureCount
                     \/ successCount' = successCount /\ failureCount' = failureCount + 1
               \/ totalRequests' = totalRequests /\ m = n
                  /\ successCount' = successCount /\ failureCount' = failureCount
  BY <1>1, <1>2, MoveCounts, ZenonT(30)
<1>4. totalRequests \in Nat /\ successCount \in Nat /\ failureCount \in Nat
  BY <1>2, Zenon DEF OpsTyped, CountsTyped
<1>5. PICK N \in Nat : N = Cardinality(Caller)
  BY OthersInFlight, Zenon
<1>6. (\A d \in Caller : pc'[d] # "reset2") => \A d \in Caller : pc[d] # "reset2"
  BY <1>1, <1>2, Zenon DEF MovesTo, InReset, OpsTyped
<1>7. (\A d \in Caller : pc'[d] \notin InReset) => \A d \in Caller : pc[d] \notin InReset
  BY <1>1, <1>2, Zenon DEF MovesTo, OpsTyped
<1>8. ASSUME \A d \in Caller : pc'[d] # "reset2" PROVE successCount' + m <= totalRequests' + N - 1
  <2>1. successCount + n <= totalRequests + N - 1
    BY <1>3, <1>5, <1>6, <1>8, ZenonT(30) DEF DriftInv
  <2> QED
    BY <1>3, <1>4, <2>1, SMTT(20)
<1>9. ASSUME \A d \in Caller : pc'[d] \notin InReset
      PROVE  successCount' + failureCount' + m <= totalRequests' + N - 1
  <2>1. successCount + failureCount + n <= totalRequests + N - 1
    BY <1>3, <1>5, <1>7, <1>9, Zenon DEF DriftInv
  <2> QED
    BY <1>3, <1>4, <2>1
<1> QED
  BY <1>2, <1>3, <1>5, <1>8, <1>9, ZenonT(30) DEF DriftInv

\* A store of ResetStats puts its caller before the next store, or earns the
\* bound for the counter it stores.
LEMMA ResetDrift ==
  ASSUME DriftInv, NEW c \in Caller, ResetStats(c)
  PROVE  DriftInv'
<1>1. OpsTyped
  BY Zenon DEF DriftInv
<1>2. PICK l \in {"reset2", "reset3", "idle"} :
            /\ pc' = [pc EXCEPT ![c] = l]
            /\ OpsTyped' /\ wasReset'
            /\ Cardinality(InFlight)' = Cardinality(InFlight)
            /\ c \notin InFlight
            /\ \/ l = "reset2" /\ totalRequests' = 0 /\ UNCHANGED <<successCount, failureCount>>
               \/ /\ l = "reset3" /\ pc[c] = "reset2"
                  /\ successCount' = 0 /\ UNCHANGED <<totalRequests, failureCount>>
               \/ /\ l = "idle" /\ pc[c] = "reset3"
                  /\ failureCount' = 0 /\ UNCHANGED <<totalRequests, successCount>>
  BY <1>1, ResetMoves, ZenonT(30)
<1>3. PICK n, N \in Nat : n = Cardinality(InFlight) /\ N = Cardinality(Caller) /\ n <= N - 1
  BY <1>2, OthersInFlight, Zenon
<1>4. /\ totalRequests \in Nat /\ successCount \in Nat /\ failureCount \in Nat
      /\ pc \in [Caller -> Labels]
  BY <1>1, Zenon DEF OpsTyped, CountsTyped
<1>5. pc'[c] = l /\ \A d \in Caller \ {c} : pc'[d] = pc[d]
  BY <1>2, <1>4, Zenon
<1>6. ASSUME \A d \in Caller : pc'[d] # "reset2" PROVE successCount' + n <= totalRequests' + N - 1
  <2>1. CASE l = "reset3"
    BY <1>2, <1>3, <1>4, <2>1
  <2>2. CASE l = "idle"
    <3>1. \A d \in Caller : pc[d] # "reset2"
      BY <1>2, <1>5, <1>6, <2>2, Zenon
    <3>2. successCount + n <= totalRequests + N - 1
      BY <1>3, <3>1, Zenon DEF DriftInv
    <3> QED
      BY <1>2, <2>2, <3>2, Zenon
  <2>3. l # "reset2"
    BY <1>5, <1>6, Zenon
  <2> QED
    BY <2>1, <2>2, <2>3, ZenonT(30)
<1>7. ASSUME \A d \in Caller : pc'[d] \notin InReset
      PROVE  successCount' + failureCount' + n <= totalRequests' + N - 1
  <2>1. l = "idle"
    BY <1>5, <1>7, Zenon DEF InReset
  <2>2. \A d \in Caller : pc[d] # "reset2"
    BY <1>2, <1>5, <1>7, <2>1, ZenonT(30) DEF InReset
  <2>3. successCount + n <= totalRequests + N - 1
    BY <1>3, <2>2, Zenon DEF DriftInv
  <2> QED
    BY <1>2, <1>4, <2>1, <2>3
<1> QED
  BY <1>2, <1>3, <1>6, <1>7, Zenon DEF DriftInv

\* ResetStats is off by at most one outcome for every other caller, however
\* many callers reset the statistics while requests are under way.
THEOREM StatsDriftTheorem == Spec => []StatsDrift
<1>1. Init => DriftInv
  BY InitOps, OthersInFlight, SMTT(20) DEF DriftInv, Init, NewScheduler
<1>2. ASSUME DriftInv, [Next]_vars PROVE DriftInv'
  <2>1. CASE Tick \/ UNCHANGED vars
    BY <1>2, <2>1, TickCounts, NextTyped, Zenon DEF DriftInv
  <2> QED
    BY <1>2, <2>1, CallerMoves, MoveDrift, ResetDrift DEF Next, DriftInv
<1>3. DriftInv => StatsDrift
  <2> SUFFICES ASSUME DriftInv, \A c \in Caller : pc[c] \notin InReset
               PROVE  successCount + failureCount <= totalRequests + Cardinality(Caller) - 1
    BY Zenon DEF StatsDrift, InReset
  <2>1. PICK n, N \in Nat : n = Cardinality(InFlight) /\ N = Cardinality(Caller)
    BY OthersInFlight, Zenon
  <2>2. totalRequests \in Nat /\ successCount \in Nat /\ failureCount \in Nat
    BY Zenon DEF DriftInv, OpsTyped, CountsTyped
  <2>3. successCount + failureCount + n <= totalRequests + N - 1
    BY <2>1, Zenon DEF DriftInv
  <2>4. successCount + failureCount <= totalRequests + N - 1
    BY <2>2, <2>3
  <2> QED
    BY <2>1, <2>4, Zenon
<1> QED
  BY <1>1, <1>2, <1>3, PTL DEF Spec

\* Only GetStats takes snapshots.
LEMMA SnapshotStays ==
  ASSUME NEW c \in Caller, Call(c) \/ Lock(c) \/ Step(c), ~GetStats(c)
  PROVE  UNCHANGED snapshot
<1>1. CASE Call(c)
  BY <1>1, Zenon DEF Call, CallReadPoints, CallWritePoint, ResetStats, SetMaxFrameLength, SetMinInterval
<1>2. CASE Lock(c)
  BY <1>2, Zenon DEF Lock, local
<1>3. CASE Step(c)
  BY <1>3, ZenonT(30) DEF Step, ReadPointsReturns, WritePointRejected, NoWait, Wait, Stamp, Count,
                          Send, Fail, Succeed, local
<1> QED
  BY <1>1, <1>2, <1>3, SMTT(20)

\* Only GetStats moves a caller to "load".
LEMMA LoadsStay ==
  ASSUME OpsTyped, NEW c \in Caller, Call(c) \/ Lock(c) \/ Step(c), ~GetStats(c)
  PROVE  \A d \in Caller : pc'[d] = "load" => pc[d] = "load"
<1>1. pc' = pc \/ \E l \in Labels \ {"load"} : pc' = [pc EXCEPT ![c] = l]
  <2>1. CASE Call(c)
    BY <2>1, Zenon DEF Call, CallReadPoints, CallWritePoint, ResetStats, SetMaxFrameLength,
                SetMinInterval, Goto, Labels
  <2>2. CASE Lock(c)
    BY <2>2, Zenon DEF Lock, Goto, Labels
  <2>3. CASE ReadPointsReturns(c) \/ WritePointRejected(c) \/ Wait(c) \/ Count(c)
    BY <2>3, Zenon DEF ReadPointsReturns, WritePointRejected, Wait, Count, Goto, Labels
  <2>4. CASE NoWait(c) \/ Stamp(c)
    BY <2>4, AfterWaitLabel, Zenon DEF NoWait, Stamp, Labels
  <2>5. CASE Send(c)
    BY <2>5, Zenon DEF Send, Goto, Labels
  <2>6. CASE Fail(c)
    BY <2>6, Zenon DEF Fail, Goto, Labels
  <2>7. CASE Succeed(c)
    BY <2>7, ZenonT(30) DEF Succeed, Goto, Labels
  <2> QED
    BY <2>1, <2>2, <2>3, <2>4, <2>5, <2>6, <2>7, SMTT(20) DEF Step
<1> QED
  BY <1>1, Zenon DEF OpsTyped

\* Until a reset the outcomes only grow.
LEMMA OutcomesGrow ==
  ASSUME OpsTyped, [Next]_vars, ~wasReset'
  PROVE  ~wasReset /\ successCount' >= successCount /\ failureCount' >= failureCount
<1>1. CASE Tick \/ UNCHANGED vars
  BY <1>1, TickCounts DEF OpsTyped, CountsTyped
<1>2. ASSUME NEW c \in Caller, Moves(c) PROVE ~wasReset /\ successCount' >= successCount
                                                        /\ failureCount' >= failureCount
  BY <1>2 DEF Moves, MovesTo
<1>3. ASSUME NEW c \in Caller PROVE ~ResetStats(c)
  BY ResetMoves, Zenon
<1> QED
  BY <1>1, <1>2, <1>3, CallerMoves, ZenonT(30) DEF Next

\* A snapshot stays complete while the outcomes grow.
LEMMA SnapshotGrows ==
  ASSUME NEW s \in Seq(Nat), NEW S \in Nat, NEW F \in Nat, NEW N \in Nat,
         NEW S1 \in Nat, NEW F1 \in Nat, S1 >= S, F1 >= F, SnapshotOK(s, S, F, N)
  PROVE  SnapshotOK(s, S1, F1, N)
<1>0. s \in [1 .. Len(s) -> Nat]
  OBVIOUS
<1>1. CASE Len(s) = 1
  <2>1. s[1] \in Nat
    BY <1>1, <1>0
  <2>2. s[1] <= S + F + N - 1
    BY <1>1, Zenon DEF SnapshotOK
  <2>3. s[1] <= S1 + F1 + N - 1
    BY <2>1, <2>2
  <2> QED
    BY <1>1, <2>3 DEF SnapshotOK
<1>2. CASE Len(s) = 2
  <2>1. PICK x, y \in Nat : x = s[1] /\ y = s[2]
    BY <1>2, <1>0
  <2>2. x <= y + F + N - 1
    BY <1>2, <2>1, Zenon DEF SnapshotOK
  <2>3. x <= y + F1 + N - 1
    BY <2>2
  <2> QED
    BY <1>2, <2>1, <2>3 DEF SnapshotOK
<1> QED
  BY <1>1, <1>2, Zenon DEF SnapshotOK

\* Loading an outcome turns it from one that can be loaded into one that is.
LEMMA SnapshotLoads ==
  ASSUME NEW s \in Seq(Nat), NEW S \in Nat, NEW F \in Nat, NEW N \in Nat, Len(s) \in {1, 2},
         SnapshotOK(s, S, F, N)
  PROVE  SnapshotOK(Append(s, IF Len(s) = 1 THEN S ELSE F), S, F, N)
<1>0. \A x \in Nat : /\ Len(Append(s, x)) = Len(s) + 1 /\ Append(s, x)[Len(s) + 1] = x
                     /\ \A i \in 1 .. Len(s) : Append(s, x)[i] = s[i]
  OBVIOUS
<1>1. CASE Len(s) = 1
  <2>1. s[1] <= S + F + N - 1
    BY <1>1, Zenon DEF SnapshotOK
  <2>2. Len(Append(s, S)) = 2 /\ Append(s, S)[1] = s[1] /\ Append(s, S)[2] = S
    BY <1>0, <1>1
  <2> QED
    BY <1>1, <2>1, <2>2 DEF SnapshotOK
<1>2. CASE Len(s) = 2
  <2>1. s[1] <= s[2] + F + N - 1
    BY <1>2, Zenon DEF SnapshotOK
  <2>2. /\ Len(Append(s, F)) = 3 /\ Append(s, F)[1] = s[1] /\ Append(s, F)[2] = s[2]
        /\ Append(s, F)[3] = F
    BY <1>0, <1>2
  <2> QED
    BY <1>2, <2>1, <2>2 DEF SnapshotOK
<1> QED
  BY <1>1, <1>2, Zenon

\* GetStats takes its first counter while its caller has no request under
\* way, and then one outcome after the other.
LEMMA GetStatsSnapshot ==
  ASSUME SnapshotInv, AInv', NEW c \in Caller, GetStats(c),
         [Next]_vars, snapshot \in [Caller -> Seq(Nat)]
  PROVE  SnapshotInv' /\ snapshot' \in [Caller -> Seq(Nat)]
<1>1. OpsTyped /\ UNCHANGED <<totalRequests, successCount, failureCount, wasReset>>
  BY Zenon DEF GetStats, counters, SnapshotInv, AInv
<1>2. totalRequests \in Nat /\ successCount \in Nat /\ failureCount \in Nat
  BY <1>1, Zenon DEF OpsTyped, CountsTyped
<1>3. PICK N \in Nat : N = Cardinality(Caller)
  BY OthersInFlight, Zenon
<1>4. CASE Start(c, "stats") /\ snapshot' = [snapshot EXCEPT ![c] = <<totalRequests>>] /\ Goto(c, "load")
  <2>1. ASSUME ~wasReset PROVE totalRequests <= successCount + failureCount + N - 1
    <3>1. c \notin InFlight
      BY <1>1, <1>4, StartFits, Zenon DEF InFlight, Counted, CountedAt
    <3>2. PICK n \in Nat : n = Cardinality(InFlight) /\ n <= N - 1
      BY <1>3, <3>1, OthersInFlight, Zenon
    <3>3. totalRequests = successCount + failureCount + n
      BY <2>1, <3>2, Zenon DEF SnapshotInv, AInv, StatsAccount
    <3> QED
      BY <1>2, <3>2, <3>3
  <2>2. ~wasReset => SnapshotOK(<<totalRequests>>, successCount, failureCount, N)
    BY <2>1 DEF SnapshotOK
  <2>3. <<totalRequests>> \in Seq(Nat) /\ Len(<<totalRequests>>) = 1
    BY <1>2
  <2>4. snapshot'[c] = <<totalRequests>> /\ \A d \in Caller \ {c} : snapshot'[d] = snapshot[d]
    BY <1>4, Zenon
  <2>5. \A d \in Caller \ {c} : pc'[d] = pc[d]
    BY <1>1, <1>4, Zenon DEF Goto, OpsTyped
  <2>6. snapshot' \in [Caller -> Seq(Nat)]
    BY <1>4, <2>3, SMTT(20)
  <2> QED
    BY <1>1, <1>3, <2>2, <2>3, <2>4, <2>5, <2>6, ZenonT(30) DEF SnapshotInv
<1>5. CASE /\ pc[c] = "load" /\ Goto(c, IF Len(snapshot[c]) = 1 THEN "load" ELSE "idle")
           /\ snapshot' = [snapshot EXCEPT ![c] =
                              Append(@, IF Len(@) = 1 THEN successCount ELSE failureCount)]
  <2> DEFINE s == snapshot[c]
             x == IF Len(s) = 1 THEN successCount ELSE failureCount
  <2>1. s \in Seq(Nat) /\ Len(s) \in {1, 2} /\ x \in Nat
    BY <1>2, <1>5, Zenon DEF SnapshotInv
  <2>2. Append(s, x) \in Seq(Nat) /\ Len(Append(s, x)) = Len(s) + 1
    <3> HIDE DEF s, x
    <3> QED
      BY <2>1
  <2>3. ~wasReset => SnapshotOK(Append(s, x), successCount, failureCount, N)
    BY <1>2, <1>3, <2>1, SnapshotLoads, Zenon DEF SnapshotInv
  <2>4. snapshot'[c] = Append(s, x) /\ \A d \in Caller \ {c} : snapshot'[d] = snapshot[d]
    BY <1>5, Zenon
  <2>5. \A d \in Caller \ {c} : pc'[d] = pc[d]
    BY <1>1, <1>5, Zenon DEF Goto, OpsTyped
  <2>6. pc'[c] = "load" => Len(s) = 1
    BY <1>1, <1>5, Zenon DEF Goto, OpsTyped
  <2>7. snapshot' \in [Caller -> Seq(Nat)]
    BY <1>5, <2>2, Zenon
  <2>8. /\ snapshot'[c] \in Seq(Nat)
        /\ pc'[c] = "load" => Len(snapshot'[c]) \in {1, 2}
        /\ ~wasReset' => SnapshotOK(snapshot'[c], successCount', failureCount', N)
    <3> HIDE DEF s, x
    <3>1. snapshot'[c] \in Seq(Nat)
      BY <2>2, <2>4, Zenon
    <3>2. pc'[c] = "load" => Len(snapshot'[c]) \in {1, 2}
      <4>1. Len(snapshot'[c]) = Len(s) + 1
        BY <2>2, <2>4, Zenon
      <4>2. Len(s) = 1 => Len(s) + 1 \in {1, 2}
        BY 1 + 1 = 2, Zenon
      <4> QED
        BY <2>6, <4>1, <4>2, Zenon
    <3>3. ~wasReset' => SnapshotOK(snapshot'[c], successCount', failureCount', N)
      BY <1>1, <2>3, <2>4, Zenon
    <3> QED
      BY <3>1, <3>2, <3>3, Zenon
  <2> QED
    BY <1>1, <1>3, <2>4, <2>5, <2>7, <2>8, ZenonT(30) DEF SnapshotInv
<1> QED
  BY <1>4, <1>5, Zenon DEF GetStats

\* GetStats misses nothing that was over, for any callers: what it shows
\* without an outcome was under way in the other callers.
THEOREM SnapshotCompleteTheorem == Spec => []SnapshotComplete
<1> DEFINE Snapshots == snapshot \in [Caller -> Seq(Nat)]
<1>1. Init => SnapshotInv /\ Snapshots
  <2> SUFFICES ASSUME Init PROVE SnapshotInv /\ Snapshots
    BY Zenon
  <2>1. AInv
    BY InitOps DEF AInv, Init, NewScheduler, StatsAccount
  <2>2. \A c \in Caller : snapshot[c] = <<>> /\ pc[c] = "idle"
    BY Zenon DEF Init
  <2>3. <<>> \in Seq(Nat) /\ Len(<<>>) = 0
    OBVIOUS
  <2>4. Snapshots
    BY <2>3, Zenon DEF Init
  <2> QED
    BY <2>1, <2>2, <2>3, <2>4 DEF SnapshotInv, SnapshotOK
<1>2. ASSUME SnapshotInv, Snapshots, [Next]_vars PROVE SnapshotInv' /\ Snapshots'
  <2>1. OpsTyped /\ OpsTyped' /\ AInv'
    BY <1>2, NextTyped, AInvStep, SMTT(20) DEF SnapshotInv, AInv
  <2>2. CASE UNCHANGED snapshot /\ \A d \in Caller : pc'[d] = "load" => pc[d] = "load"
    <3>1. PICK N \in Nat : N = Cardinality(Caller)
      BY OthersInFlight, Zenon
    <3>2. /\ successCount \in Nat /\ failureCount \in Nat
          /\ successCount' \in Nat /\ failureCount' \in Nat
      BY <2>1, Zenon DEF OpsTyped, CountsTyped
    <3>3. ASSUME NEW d \in Caller, ~wasReset'
          PROVE  SnapshotOK(snapshot[d], successCount', failureCount', N)
      <4>1. ~wasReset /\ successCount' >= successCount /\ failureCount' >= failureCount
        BY <1>2, <2>1, <3>3, OutcomesGrow
      <4>2. snapshot[d] \in Seq(Nat) /\ SnapshotOK(snapshot[d], successCount, failureCount, N)
        BY <1>2, <3>1, <4>1, ZenonT(30) DEF SnapshotInv
      <4> QED
        BY <3>2, <4>1, <4>2, SnapshotGrows, ZenonT(30)
    <3> QED
      BY <1>2, <2>1, <2>2, <3>1, <3>3, SMTT(30) DEF SnapshotInv
  <2>3. CASE Tick \/ UNCHANGED vars
    BY <2>2, <2>3, TickCounts, Zenon
  <2>4. ASSUME NEW c \in Caller, Call(c) \/ Lock(c) \/ Step(c)
        PROVE  SnapshotInv' /\ Snapshots'
    <3>1. CASE GetStats(c)
      BY <1>2, <2>1, <3>1, GetStatsSnapshot
    <3>2. CASE ~GetStats(c)
      BY <2>1, <2>2, <2>4, <3>2, SnapshotStays, LoadsStay, ZenonT(30)
    <3> QED
      BY <3>1, <3>2, Zenon
  <2> QED
    BY <1>2, <2>3, <2>4, Zenon DEF Next
<1>3. SnapshotInv => SnapshotComplete
  BY Zenon DEF SnapshotInv, SnapshotOK, SnapshotComplete
<1> QED
  BY <1>1, <1>2, <1>3, PTL DEF Spec
=============================================================================

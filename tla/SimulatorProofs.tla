--------------------------- MODULE SimulatorProofs ---------------------------
(***************************************************************************)
(* Proofs about the simulator under the calls of any number of clients:    *)
(* its memory is what the calls meant, and each call returns what the      *)
(* memory held, and the clock showed, when the simulator met it.           *)
(*                                                                         *)
(* A toggle is two datagrams.  Between them what is meant is ahead of the  *)
(* memory by the one bit: the invariant says which bits those are, and     *)
(* what the client that toggles one has been told of it.                   *)
(***************************************************************************)
EXTENDS UdpPlcProofs

Cells == 0 .. AreaSize - 1
SimMems == [SimAreas -> [Cells -> Nat]]

\* A toggle that has been read and not yet written: what it means is ahead of
\* the memory by that bit.
Lags(c) == stage[c] \in {"answered", "twiddling"} /\ Toggled(current[c]) /\ Fits(current[c])
LagsAt(c, j) == Lags(c) /\ FirstMeant(current[c]) = j
Lag(j) == \E c \in Client : LagsAt(c, j)
TheBit(c) == meant["DMBit"][FirstMeant(current[c])]

CellMeant(j) ==
    /\ mem["DM"][j] = meant["DM"][j]
    /\ meant["DMBit"][j] \in {0, 1}
    /\ Lag(j) => mem["DMBit"][j] = 1 - meant["DMBit"][j]
    /\ ~Lag(j) => mem["DMBit"][j] = meant["DMBit"][j]

MemMeant == mem \in SimMems /\ meant \in SimMems /\ \A j \in Cells : CellMeant(j)

\* What the answer to a client's call says, and what the call should return.
Told(c) ==
    LET r == decodeResponse(response[c])
    IN /\ r.endCode = 0 => expected[c] = Success(Result(current[c], r.data))
       /\ r.endCode # 0 => expected[c] = Failure
       /\ Toggled(current[c]) => (r.endCode = 0 <=> Fits(current[c]))
       /\ Toggled(current[c]) /\ Fits(current[c]) => (r.data[1] % 2 = 1 <=> TheBit(c) = 0)

ClientMeant(c) ==
    /\ stage[c] = "idle" => result[c] = expected[c]
    /\ stage[c] # "idle" => Allowed(current[c])
    /\ stage[c] = "answered" /\ response[c] # <<>> => Told(c)
    /\ stage[c] \in {"twiddling", "twiddled"} => Fits(current[c]) /\ result[c] = expected[c]
    /\ stage[c] = "twiddling" => Carries(datagram[c], bitTwiddle(current[c], TheBit(c)))
    /\ stage[c] = "twiddled" /\ response[c] # <<>> => decodeResponse(response[c]).endCode = 0

SimInv == server = "sim" => MemMeant /\ \A c \in Client : ClientMeant(c)

\* The bits that lag are the same.
LEMMA LagKept ==
  ASSUME \A d \in Client : Lags(d)' <=> Lags(d),
         \A d \in Client : Lags(d) => current'[d] = current[d], NEW j
  PROVE  Lag(j)' <=> Lag(j)
  BY Zenon DEF Lag, LagsAt

\* The memory is as it was, and so is what is meant.
LEMMA MemMeantKept ==
  ASSUME MemMeant, mem' = mem, meant' = meant,
         \A d \in Client : Lags(d)' <=> Lags(d),
         \A d \in Client : Lags(d) => current'[d] = current[d]
  PROVE  MemMeant'
<1>1. \A j \in Cells : Lag(j)' <=> Lag(j)
  BY LagKept, Zenon
<1> QED
  BY <1>1, Zenon DEF MemMeant, CellMeant

\* What holds of another client is kept, if the bit it toggles is.
Still(d) ==
    /\ stage'[d] = stage[d] /\ current'[d] = current[d] /\ datagram'[d] = datagram[d]
    /\ response'[d] = response[d] /\ result'[d] = result[d] /\ expected'[d] = expected[d]

\* A client that did not move lags as it did.
LEMMA StillLags ==
  ASSUME NEW d, Still(d)
  PROVE  Lags(d)' <=> Lags(d)
  BY Zenon DEF Lags, Still

\* A client that did not move is as it is meant, if the bit it toggles is.
LEMMA ClientMeantKept ==
  ASSUME NEW d, ClientMeant(d), UnderWay(d), Still(d),
         Lags(d) => meant'["DMBit"][FirstMeant(current[d])] = meant["DMBit"][FirstMeant(current[d])]
  PROVE  ClientMeant(d)'
<1>1. /\ stage'[d] = stage[d] /\ current'[d] = current[d] /\ datagram'[d] = datagram[d]
      /\ response'[d] = response[d] /\ result'[d] = result[d] /\ expected'[d] = expected[d]
  BY Zenon DEF Still
<1>2. Lags(d) => TheBit(d)' = TheBit(d)
  BY <1>1, Zenon DEF TheBit
<1>3. stage[d] = "twiddling" => Lags(d)
  BY Zenon DEF ClientMeant, UnderWay, Lags
<1>4. stage[d] = "answered" /\ response[d] # <<>> => Told(d)'
  <2> SUFFICES ASSUME stage[d] = "answered", response[d] # <<>> PROVE Told(d)'
    OBVIOUS
  <2>1. Told(d)
    BY Zenon DEF ClientMeant
  <2>2. Toggled(current[d]) /\ Fits(current[d]) => TheBit(d)' = TheBit(d)
    BY <1>2, Zenon DEF Lags
  <2> QED
    BY <1>1, <2>1, <2>2, Zenon DEF Told
<1>5. stage[d] = "twiddling" => Carries(datagram'[d], bitTwiddle(current'[d], TheBit(d)'))
  BY <1>1, <1>2, <1>3, Zenon DEF ClientMeant
<1> QED
  BY <1>1, <1>4, <1>5, Zenon DEF ClientMeant

\* The client: a call that is made.
LEMMA MakeCallMeant ==
  ASSUME PlcInv, SimInv, server = "sim", NEW c \in Client, NEW k \in Calls(c, server), MakeCall(c, k)
  PROVE  MemMeant' /\ \A d \in Client : ClientMeant(d)'
<1>1. PlcTypes /\ MemMeant /\ (\A d \in Client : ClientMeant(d) /\ UnderWay(d))
  BY Zenon DEF PlcInv, SimInv
<1>2. /\ mem' = mem /\ meant' = meant /\ response' = response /\ stage[c] = "idle"
      /\ current' = [current EXCEPT ![c] = k]
  BY Zenon DEF MakeCall, served
<1>3. Changed(current', current, c, k)
  BY <1>1, <1>2, ChangedAt, Zenon DEF PlcTypes
<1>4. \/ /\ Allowed(k) /\ Changed(stage', stage, c, "sent")
         /\ Changed(datagram', datagram, c, Datagram(Command(k)))
         /\ result' = result /\ expected' = expected
      \/ /\ Changed(result', result, c, Failure) /\ Changed(expected', expected, c, Failure)
         /\ stage' = stage /\ datagram' = datagram
  <2>1. CASE Allowed(k) /\ datagram' = [datagram EXCEPT ![c] = Datagram(Command(k))]
           /\ stage' = [stage EXCEPT ![c] = "sent"] /\ UNCHANGED <<result, expected>>
    BY <1>1, <2>1, ChangedAt, Zenon DEF PlcTypes
  <2>2. CASE ~Allowed(k) /\ result' = [result EXCEPT ![c] = Failure]
           /\ expected' = [expected EXCEPT ![c] = Failure] /\ UNCHANGED <<stage, datagram>>
    BY <1>1, <2>2, ChangedAt, Zenon DEF PlcTypes
  <2> QED
    BY <2>1, <2>2, Zenon DEF MakeCall
<1>5. stage'[c] = "sent" \/ stage'[c] = "idle"
  BY <1>2, <1>4, Zenon DEF Changed
<1>6. ASSUME NEW d \in Client, d # c PROVE Still(d)
  BY <1>2, <1>3, <1>4, <1>6, Zenon DEF Still, Changed
<1>7. ~Lags(c) /\ ~(Lags(c)')
  <2>1. stage[c] \notin {"answered", "twiddling"} /\ stage'[c] \notin {"answered", "twiddling"}
    BY <1>2, <1>5, SMT
  <2> QED
    BY <2>1, Zenon DEF Lags
<1>8. \A d \in Client : (Lags(d)' <=> Lags(d)) /\ (Lags(d) => current'[d] = current[d])
  <2> SUFFICES ASSUME NEW d \in Client PROVE (Lags(d)' <=> Lags(d)) /\ (Lags(d) => current'[d] = current[d])
    OBVIOUS
  <2>1. CASE d = c
    BY <1>7, <2>1, Zenon
  <2>2. CASE d # c
    <3>1. Still(d)
      BY <1>6, <2>2, Zenon
    <3>2. Lags(d)' <=> Lags(d)
      BY <3>1, StillLags, Zenon
    <3>3. current'[d] = current[d]
      BY <3>1, Zenon DEF Still
    <3> QED
      BY <3>2, <3>3
  <2> QED
    BY <2>1, <2>2, Zenon
<1>9. MemMeant'
  BY <1>1, <1>2, <1>8, MemMeantKept, Zenon
<1>10. ClientMeant(c)'
  <2>1. CASE /\ Allowed(k) /\ Changed(stage', stage, c, "sent")
             /\ Changed(datagram', datagram, c, Datagram(Command(k)))
             /\ result' = result /\ expected' = expected
    <3>1. stage'[c] = "sent" /\ current'[c] = k
      BY <1>3, <2>1, Zenon DEF Changed
    <3>2. stage'[c] # "idle" /\ stage'[c] # "answered" /\ stage'[c] # "twiddling"
          /\ stage'[c] # "twiddled" /\ stage'[c] \notin {"twiddling", "twiddled"}
      BY <3>1, SMT
    <3> QED
      BY <2>1, <3>1, <3>2, Zenon DEF ClientMeant
  <2>2. CASE /\ Changed(result', result, c, Failure) /\ Changed(expected', expected, c, Failure)
             /\ stage' = stage /\ datagram' = datagram
    <3>1. stage'[c] = "idle" /\ result'[c] = expected'[c]
      BY <1>2, <2>2, Zenon DEF Changed
    <3>2. stage'[c] # "answered" /\ stage'[c] # "twiddling"
          /\ stage'[c] # "twiddled" /\ stage'[c] \notin {"twiddling", "twiddled"}
      BY <3>1, SMT
    <3> QED
      BY <3>1, <3>2, Zenon DEF ClientMeant
  <2> QED
    BY <1>4, <2>1, <2>2, Zenon
<1>11. ASSUME NEW d \in Client, d # c PROVE ClientMeant(d)'
  <2>1. meant'["DMBit"][FirstMeant(current[d])] = meant["DMBit"][FirstMeant(current[d])]
    BY <1>2, Zenon
  <2> QED
    BY <1>1, <1>6, <1>11, <2>1, ClientMeantKept, Zenon
<1> QED
  BY <1>9, <1>10, <1>11, Zenon

\* The bit that ToggleBit writes is the one that is meant.
LEMMA BitMeant ==
  ASSUME MemMeant, NEW k, WellFormed(k), Simulated(k), Allowed(k), Toggled(k), Fits(k)
  PROVE  FirstMeant(k) \in Cells /\ meant["DMBit"][FirstMeant(k)] \in {0, 1}
<1>1. k.op # "ReadClock" /\ Asked(k) = 1 /\ Len(Given(k)) = 0
  BY SMT DEF Toggled, Asked, Given
<1>2. FirstMeant(k) \in Nat
  BY <1>1, PlaceOfCall, Zenon
<1> DEFINE first == FirstMeant(k)
<1>3. first + Len(Given(k)) + Asked(k) <= AreaSize
  BY <1>1, Zenon DEF Fits
<1> HIDE DEF first
<1>4. first \in Cells
  <2>1. first \in Nat
    BY <1>2, Zenon DEF first
  <2> QED
    BY <1>1, <1>3, <2>1, SizesAssumption, SMT DEF Cells
<1> QED
  BY <1>4, Zenon DEF MemMeant, CellMeant, first

\* The client: an answer that came back.
LEMMA ReceiveMeant ==
  ASSUME PlcInv, SimInv, server = "sim", NEW c \in Client, Receive(c)
  PROVE  MemMeant' /\ \A d \in Client : ClientMeant(d)'
<1>1. PlcTypes /\ MemMeant /\ (\A d \in Client : ClientMeant(d) /\ UnderWay(d))
  BY Zenon DEF PlcInv, SimInv
<1> DEFINE r == decodeResponse(response[c])
           k == current[c]
           v == Flag(~ReadBits(r.data, 1)[1])
           new == IF ~checkResponse(r) THEN Failure
                  ELSE IF stage[c] = "twiddled" THEN result[c]
                  ELSE Success(Result(current[c], r.data))
           asked == checkResponse(r) /\ Toggled(k) /\ stage[c] = "answered"
<1>2. /\ mem' = mem /\ meant' = meant /\ current' = current /\ expected' = expected
      /\ stage[c] \in {"answered", "twiddled"} /\ response[c] # <<>>
      /\ response' = [response EXCEPT ![c] = <<>>]
  BY Zenon DEF Receive, served
<1>3. Changed(response', response, c, <<>>)
  BY <1>1, <1>2, ChangedAt, Zenon DEF PlcTypes
<1>4. asked => /\ Changed(datagram', datagram, c, Datagram(bitTwiddle(k, v)))
               /\ Changed(result', result, c, Success(ReadBits(r.data, 1)))
               /\ Changed(stage', stage, c, "twiddling")
  <2> SUFFICES ASSUME asked PROVE /\ Changed(datagram', datagram, c, Datagram(bitTwiddle(k, v)))
                                  /\ Changed(result', result, c, Success(ReadBits(r.data, 1)))
                                  /\ Changed(stage', stage, c, "twiddling")
    OBVIOUS
  <2>1. /\ datagram' = [datagram EXCEPT ![c] = Datagram(bitTwiddle(k, v))]
        /\ result' = [result EXCEPT ![c] = Success(ReadBits(r.data, 1))]
        /\ stage' = [stage EXCEPT ![c] = "twiddling"]
    BY Zenon DEF Receive
  <2> HIDE DEF r, k, v
  <2> QED
    BY <1>1, <2>1, ChangedAt, Zenon DEF PlcTypes
<1>5. ~asked => /\ datagram' = datagram /\ Changed(result', result, c, new)
                /\ Changed(stage', stage, c, "idle")
  <2> SUFFICES ASSUME ~asked PROVE /\ datagram' = datagram /\ Changed(result', result, c, new)
                                   /\ Changed(stage', stage, c, "idle")
    OBVIOUS
  <2>1. /\ stage' = [stage EXCEPT ![c] = "idle"] /\ datagram' = datagram
        /\ result' = [result EXCEPT ![c] = new]
    BY Zenon DEF Receive
  <2> HIDE DEF new
  <2> QED
    BY <1>1, <2>1, ChangedAt, Zenon DEF PlcTypes
<1>6. stage[c] = "answered" =>
        /\ r.endCode = 0 => expected[c] = Success(Result(k, r.data))
        /\ r.endCode # 0 => expected[c] = Failure
        /\ Toggled(k) => (r.endCode = 0 <=> Fits(k))
        /\ Toggled(k) /\ Fits(k) => (r.data[1] % 2 = 1 <=> TheBit(c) = 0)
  <2> SUFFICES ASSUME stage[c] = "answered"
               PROVE  /\ r.endCode = 0 => expected[c] = Success(Result(k, r.data))
                      /\ r.endCode # 0 => expected[c] = Failure
                      /\ Toggled(k) => (r.endCode = 0 <=> Fits(k))
                      /\ Toggled(k) /\ Fits(k) => (r.data[1] % 2 = 1 <=> TheBit(c) = 0)
    OBVIOUS
  <2>1. Told(c)
    BY <1>1, <1>2, Zenon DEF ClientMeant
  <2> QED
    BY <2>1, Zenon DEF Told
<1>7. v = IF r.data[1] % 2 = 1 THEN 0 ELSE 1
  <2>1. ReadBits(r.data, 1)[1] <=> r.data[1] % 2 = 1
    <3> DEFINE data == r.data
    <3> HIDE DEF data
    <3>0. 1 \in 1 .. 1
      BY SMT
    <3>1. ReadBits(data, 1)[1] <=> data[1] % 2 = 1
      BY <3>0, Zenon DEF ReadBits
    <3> QED
      BY <3>1, Zenon DEF data
  <2> QED
    BY <2>1, Zenon DEF Flag
<1> HIDE DEF r, v
<1>8. ASSUME NEW d \in Client, d # c PROVE Still(d)
  BY <1>2, <1>3, <1>4, <1>5, <1>8, Zenon DEF Still, Changed
<1>9. stage[c] # "idle" /\ WellFormed(k) /\ Simulated(k) /\ Allowed(k)
  <2>1. stage[c] # "idle"
    BY <1>2, SMT
  <2>2. k \in Calls(c, "sim") /\ Allowed(k)
    BY <1>1, <2>1, Zenon DEF UnderWay, ClientMeant
  <2>3. WellFormed(k) /\ Simulated(k)
    BY <2>2, CallsAssumption, SMT
  <2> QED
    BY <2>1, <2>2, <2>3, Zenon
<1>10. asked => Fits(k) /\ TheBit(c) \in {0, 1}
  <2> SUFFICES ASSUME asked PROVE Fits(k) /\ TheBit(c) \in {0, 1}
    OBVIOUS
  <2>1. Fits(k)
    BY <1>6, Zenon DEF checkResponse
  <2> QED
    BY <1>1, <1>9, <2>1, BitMeant, Zenon DEF TheBit
<1>11. Lags(c)' <=> Lags(c)
  <2>1. CASE asked
    <3>1. stage'[c] = "twiddling" /\ current'[c] = k
      BY <1>2, <1>4, <2>1, Zenon DEF Changed
    <3> QED
      BY <1>10, <2>1, <3>1, Zenon DEF Lags
  <2>2. CASE ~asked
    <3>1. stage'[c] = "idle"
      BY <1>5, <2>2, Zenon DEF Changed
    <3>2. stage'[c] \notin {"answered", "twiddling"}
      BY <3>1, SMT
    <3>3. ~(Lags(c)')
      BY <3>2, Zenon DEF Lags
    <3>4. stage[c] # "twiddling"
      BY <1>2, SMT
    <3>5. ~Lags(c)
      BY <1>6, <2>2, <3>4, Zenon DEF Lags, checkResponse
    <3> QED
      BY <3>3, <3>5
  <2> QED
    BY <2>1, <2>2, Zenon
<1>12. \A d \in Client : Lags(d)' <=> Lags(d)
  BY <1>8, <1>11, StillLags, Zenon
<1>13. MemMeant'
  BY <1>1, <1>2, <1>12, MemMeantKept, Zenon
<1>14. ClientMeant(c)'
  <2>1. CASE asked
    <3>1. /\ stage'[c] = "twiddling" /\ current'[c] = k /\ TheBit(c)' = TheBit(c)
          /\ datagram'[c] = Datagram(bitTwiddle(k, v)) /\ result'[c] = Success(ReadBits(r.data, 1))
      BY <1>2, <1>4, <2>1, Zenon DEF Changed, TheBit
    <3>2. stage'[c] # "idle" /\ stage'[c] # "answered" /\ stage'[c] # "twiddled"
      BY <3>1, SMT
    <3>3. v = TheBit(c)
      <4>1. r.data[1] % 2 = 1 <=> TheBit(c) = 0
        BY <1>6, <1>10, <2>1, Zenon
      <4>2. TheBit(c) # 0 => TheBit(c) = 1
        BY <1>10, <2>1, Zenon
      <4> QED
        BY <1>7, <4>1, <4>2, Zenon
    <3>4. made % 256 \in Nat
      BY <1>1, SMT DEF PlcTypes
    <3>5. Carries(datagram'[c], bitTwiddle(current'[c], TheBit(c)'))
      BY <3>1, <3>3, <3>4, Zenon DEF Carries, Datagram, Heading
    <3>6. Result(k, r.data) = ReadBits(r.data, 1)
      <4>1. k.op = "ToggleBit"
        BY <2>1, Zenon DEF Toggled
      <4> HIDE DEF k
      <4> QED
        BY <4>1, SMT DEF Result
    <3>7. result'[c] = expected'[c]
      BY <1>2, <1>6, <2>1, <3>1, <3>6, Zenon DEF checkResponse
    <3> QED
      BY <1>9, <1>10, <2>1, <3>1, <3>2, <3>5, <3>7, Zenon DEF ClientMeant
  <2>2. CASE ~asked
    <3>1. stage'[c] = "idle" /\ result'[c] = new
      BY <1>5, <2>2, Zenon DEF Changed
    <3>2. stage'[c] # "answered" /\ stage'[c] # "twiddling" /\ stage'[c] # "twiddled"
          /\ stage'[c] \notin {"twiddling", "twiddled"}
      BY <3>1, SMT
    <3>3. new = expected[c]
      <4>1. CASE stage[c] = "twiddled"
        <5>1. r.endCode = 0 /\ result[c] = expected[c]
          BY <1>1, <1>2, <4>1, Zenon DEF ClientMeant, r
        <5> QED
          BY <4>1, <5>1, Zenon DEF checkResponse
      <4>2. CASE stage[c] = "answered"
        <5>1. stage[c] # "twiddled"
          BY <4>2, SMT
        <5> QED
          BY <1>6, <4>2, <5>1, Zenon DEF checkResponse
      <4> QED
        BY <1>2, <4>1, <4>2, Zenon
    <3> QED
      BY <1>2, <3>1, <3>2, <3>3, Zenon DEF ClientMeant
  <2> QED
    BY <2>1, <2>2, Zenon
<1>15. ASSUME NEW d \in Client, d # c PROVE ClientMeant(d)'
  <2>1. meant'["DMBit"][FirstMeant(current[d])] = meant["DMBit"][FirstMeant(current[d])]
    BY <1>2, Zenon
  <2> QED
    BY <1>1, <1>8, <1>15, <2>1, ClientMeantKept, Zenon
<1> QED
  BY <1>13, <1>14, <1>15, Zenon

\* A call under way is one that the simulator can meet.
LEMMA CurrentCall ==
  ASSUME PlcInv, SimInv, server = "sim", NEW c \in Client, stage[c] # "idle"
  PROVE  /\ current[c] \in Calls(c, "sim") /\ WellFormed(current[c])
         /\ Simulated(current[c]) /\ Allowed(current[c])
<1>1. current[c] \in Calls(c, "sim") /\ Allowed(current[c])
  BY Zenon DEF PlcInv, SimInv, UnderWay, ClientMeant
<1>2. WellFormed(current[c]) /\ Simulated(current[c])
  BY <1>1, CallsAssumption, SMT
<1> QED
  BY <1>1, <1>2, Zenon

\* No call under way names a bit that another client is toggling.
LEMMA NoClash ==
  ASSUME PlcInv, SimInv, server = "sim", NEW c \in Client, stage[c] # "idle", current[c].op \in BitOps,
         NEW d \in Client, d # c, Lags(d)
  PROVE  FirstMeant(current[d]) \notin Span(current[c])
<1>1. stage[d] # "idle" /\ Toggled(current[d])
  <2>1. stage[d] \in {"answered", "twiddling"} /\ Toggled(current[d])
    BY Zenon DEF Lags
  <2> QED
    BY <2>1, SMT
<1>2. current[c] \in Calls(c, "sim") /\ current[d] \in Calls(d, "sim")
  BY <1>1, CurrentCall, Zenon
<1> QED
  BY <1>1, <1>2, TogglesAssumption, Zenon

\* What the server's answer is to the client.
Met(c, h) ==
    /\ mem' = h.mem
    /\ h.panic = TRUE => response'[c] = response[c]
    /\ h.panic = FALSE => Returns(response'[c], h.endCode, h.data)

\* So is the server's step.
LEMMA StepMet ==
  ASSUME PlcTypes, server = "sim", NEW c \in Client, NEW t \in Times, NEW id, NEW cmd, Step(c, t, id, cmd)
  PROVE  Met(c, handler(Request(id, cmd, buf), t))
<1> DEFINE req == Request(id, cmd, buf)
           h == handler(req, t)
<1>1. id \in Nat /\ buf \in Seq(Nat) /\ Len(buf) = BufSize
  BY Zenon DEF Step, PlcTypes
<1>2. Readable(req)
  BY <1>1, Zenon DEF Step, Understood
<1>3. h = Handled(req, t)
  BY Zenon DEF Handled
<1>4. /\ mem' = h.mem /\ panicked' = h.panic /\ (panicked' => response' = response)
      /\ ~panicked' => response' = [response EXCEPT ![c] = Reply(id, req.commandCode, h.endCode, h.data)]
  BY <1>3, Zenon DEF Step
<1> HIDE DEF req
<1>5. Outcome(h, {})
  BY <1>2, <1>3, HandledOutcome, Zenon
<1> HIDE DEF h
<1>6. ~h.panic => h.endCode \in Nat /\ h.data \in Seq(Nat)
  BY <1>5, Zenon DEF Outcome
<1>7. req.commandCode \in Nat
  BY <1>2, Zenon DEF Readable
<1>8. ASSUME h.panic = FALSE PROVE Returns(response'[c], h.endCode, h.data)
  <2>1. Returns(Reply(id, req.commandCode, h.endCode, h.data), h.endCode, h.data)
    BY <1>1, <1>6, <1>7, <1>8, ReplyDecoded, Zenon
  <2>2. response'[c] = Reply(id, req.commandCode, h.endCode, h.data)
    <3> DEFINE r == Reply(id, req.commandCode, h.endCode, h.data)
    <3>1. response' = [response EXCEPT ![c] = r]
      BY <1>4, <1>8, Zenon
    <3> HIDE DEF r
    <3>2. response'[c] = r
      BY <3>1, Zenon DEF PlcTypes
    <3> QED
      BY <3>2, Zenon DEF r
  <2> QED
    BY <2>1, <2>2, Zenon
<1>9. Met(c, h)
  BY <1>4, <1>8, Zenon DEF Met
<1> QED
  BY <1>9, Zenon DEF h, req

\* What the simulator makes of a call.
LEMMA CallServed ==
  ASSUME PlcInv, SimInv, server = "sim", NEW c \in Client, NEW t \in Times, Serve(c, t), stage[c] = "sent"
  PROVE  \E h : /\ Met(c, h)
                /\ current[c].op = "ReadClock" => Answers(h, 0, Clock(t, Pad), mem)
                /\ current[c].op # "ReadClock" => CallMet(h, current[c])
<1> DEFINE k == current[c]
           cmd == Command(k)
<1>1. PlcTypes /\ UnderWay(c)
  BY Zenon DEF PlcInv
<1>2. WellFormed(k) /\ Simulated(k) /\ Allowed(k)
  <2>1. stage[c] # "idle"
    BY SMT
  <2> QED
    BY <2>1, CurrentCall, Zenon
<1>3. PICK id \in Nat : datagram[c] = Heading(id) \o cmd
  BY <1>1, Zenon DEF UnderWay, Carries
<1>4. Understood(cmd)
  BY <1>2, CallUnderstood, Zenon
<1> HIDE DEF cmd
<1>5. Step(c, t, id, cmd)
  BY <1>1, <1>3, <1>4, ServeStep, Zenon
<1> DEFINE req == Request(id, cmd, buf)
           h == handler(req, t)
<1>6. Met(c, h)
  BY <1>1, <1>5, StepMet, Zenon
<1>7. buf \in Seq(Nat) /\ Len(buf) = BufSize /\ MemOK(mem)
  BY <1>1, Zenon DEF PlcTypes
<1>8. ASSUME k.op = "ReadClock" PROVE Answers(h, 0, Clock(t, Pad), mem)
  <2>1. cmd = clockReadCommand
    <3> HIDE DEF k
    <3> QED
      BY <1>8, SMT DEF Command, cmd
  <2>2. req.commandCode = CommandCodeClockRead
    BY <1>7, <2>1, ClockRequest, Zenon
  <2> HIDE DEF req
  <2>3. ~IsMemory(req)
    BY <2>2, SMT DEF IsMemory, CommandCodeClockRead, CommandCodeMemoryAreaRead, CommandCodeMemoryAreaWrite
  <2>4. h = Answered(0, Clock(t, Pad))
    BY <2>2, <2>3, SMT DEF handler
  <2> QED
    BY <2>4, SMT DEF Answers, Answered
<1>9. ASSUME k.op # "ReadClock" PROVE CallMet(h, k)
  <2>1. k.op \in ReadOps \/ k.op \in WriteOps
    <3> HIDE DEF k
    <3> QED
      BY <1>2, <1>9, SMT DEF WellFormed, WordOps, BitOps, ReadOps, WriteOps, Reads
  <2>2. CASE k.op \in ReadOps
    BY <1>2, <1>7, <2>2, ReadCallMet, Zenon DEF cmd
  <2>3. CASE k.op \in WriteOps
    BY <1>2, <1>7, <2>3, WriteCallMet, Zenon DEF cmd
  <2> QED
    BY <2>1, <2>2, <2>3, Zenon
<1> QED
  BY <1>6, <1>8, <1>9, Zenon

\* What the simulator makes of the second half of a toggle.
LEMMA TwiddleServed ==
  ASSUME PlcInv, SimInv, server = "sim", NEW c \in Client, NEW t \in Times, Serve(c, t), stage[c] = "twiddling"
  PROVE  /\ FirstMeant(current[c]) \in Cells /\ TheBit(c) \in {0, 1}
         /\ \E h : /\ Met(c, h)
                   /\ Answers(h, 0, <<>>, [mem EXCEPT !["DMBit"] =
                                 Placed(mem["DMBit"], FirstMeant(current[c]), 1, <<TheBit(c)>>)])
<1> DEFINE k == current[c]
           v == TheBit(c)
           cmd == bitTwiddle(k, v)
<1>1. PlcTypes /\ UnderWay(c) /\ ClientMeant(c) /\ MemMeant
  BY Zenon DEF PlcInv, SimInv
<1>2. stage[c] # "idle" /\ stage[c] \in {"twiddling", "twiddled"}
  BY SMT
<1>3. WellFormed(k) /\ Simulated(k) /\ Allowed(k)
  BY <1>2, CurrentCall, Zenon
<1>4. Toggled(k) /\ Fits(k)
  BY <1>1, <1>2, Zenon DEF UnderWay, ClientMeant
<1>5. FirstMeant(k) \in Cells /\ v \in {0, 1}
  BY <1>1, <1>3, <1>4, BitMeant, Zenon DEF TheBit
<1> HIDE DEF v
<1>6. PICK id \in Nat : datagram[c] = Heading(id) \o cmd
  BY <1>1, Zenon DEF ClientMeant, Carries, v
<1>7. Understood(cmd)
  BY <1>3, <1>4, <1>5, TwiddleUnderstood, Zenon
<1> HIDE DEF cmd
<1>8. Step(c, t, id, cmd)
  BY <1>1, <1>6, <1>7, ServeStep, Zenon
<1> DEFINE h == handler(Request(id, cmd, buf), t)
<1>9. Met(c, h)
  BY <1>1, <1>8, StepMet, Zenon
<1>10. buf \in Seq(Nat) /\ Len(buf) = BufSize /\ MemOK(mem)
  BY <1>1, Zenon DEF PlcTypes
<1>11. Answers(h, 0, <<>>, [mem EXCEPT !["DMBit"] = Placed(mem["DMBit"], FirstMeant(k), 1, <<v>>)])
  BY <1>3, <1>4, <1>5, <1>10, TwiddleMet, Zenon DEF cmd
<1> QED
  BY <1>5, <1>9, <1>11, Zenon DEF v

\* A memory n that is m but for a piece of one area.
Overlaid(n, m, a, first, len, g) ==
    /\ n \in SimMems
    /\ \A x \in SimAreas, j \in Cells : (x # a \/ j \notin first .. (first + len) - 1) => n[x][j] = m[x][j]
    /\ \A j \in Cells : j \in first .. (first + len) - 1 => n[a][j] = g[j - first + 1]

\* Placing bytes in an area overlays it.
LEMMA PlacedOverlays ==
  ASSUME NEW m \in SimMems, NEW a \in SimAreas, NEW first \in Nat, NEW len \in Nat, NEW g,
         \A i \in 1 .. len : g[i] \in Nat
  PROVE  Overlaid([m EXCEPT ![a] = Placed(m[a], first, len, g)], m, a, first, len, g)
<1> DEFINE p == Placed(m[a], first, len, g)
           in(j) == j \in first .. (first + len) - 1
           n == [m EXCEPT ![a] = p]
<1>1. DOMAIN m = SimAreas /\ DOMAIN (m[a]) = Cells /\ \A x \in SimAreas : m[x] \in [Cells -> Nat]
  BY Zenon DEF SimMems
<1>2. ASSUME NEW j \in Cells, in(j) PROVE p[j] = g[j - first + 1] /\ g[j - first + 1] \in Nat
  <2>1. p[j] = g[j - first + 1]
    BY <1>1, <1>2, Zenon DEF Placed
  <2>2. j - first + 1 \in 1 .. len
    BY <1>2, SizesAssumption, SMT DEF Cells
  <2> QED
    BY <2>1, <2>2, Zenon
<1>3. ASSUME NEW j \in Cells, ~in(j) PROVE p[j] = m[a][j] /\ m[a][j] \in Nat
  BY <1>1, <1>3, Zenon DEF Placed
<1>4. p \in [Cells -> Nat]
  <2>1. p = [j \in Cells |-> IF in(j) THEN g[j - first + 1] ELSE m[a][j]]
    BY <1>1, Zenon DEF Placed
  <2>2. ASSUME NEW j \in Cells PROVE p[j] \in Nat
    BY <1>2, <1>3, Zenon
  <2>3. \A j \in Cells : (IF in(j) THEN g[j - first + 1] ELSE m[a][j]) \in Nat
    <3> HIDE DEF p
    <3> QED
      BY <2>1, <2>2, Zenon
  <2> HIDE DEF p, in
  <2> QED
    BY <2>1, <2>3, Zenon
<1> HIDE DEF p
<1>5. n \in SimMems /\ n[a] = p /\ \A x \in SimAreas : x # a => n[x] = m[x]
  BY <1>1, <1>4, SMT DEF SimMems
<1> HIDE DEF n
<1>6. Overlaid(n, m, a, first, len, g)
  BY <1>2, <1>3, <1>5, Zenon DEF Overlaid
<1> QED
  BY <1>6, Zenon DEF n, p

\* What a read, and what a call that does not fit, leaves.
LEMMA ReadLeaves ==
  ASSUME MemMeant, NEW k, WellFormed(k), k.op = "ReadClock" \/ ~Fits(k) \/ k.op \in Reads
  PROVE  MeantAfter(k) = meant
<1>1. CASE k.op = "ReadClock" \/ ~Fits(k)
  BY <1>1, Zenon DEF MeantAfter
<1>2. CASE k.op # "ReadClock" /\ Fits(k) /\ k.op \in Reads
  <2>1. ~Toggled(k) /\ Given(k) = <<>>
    <3>1. k.op \in ReadOps
      BY <1>2, Zenon DEF ReadOps
    <3>2. Given(k) = <<>>
      BY <3>1, ReadCall, Zenon DEF ReadsItems
    <3>3. ~Toggled(k)
      BY <1>2, SMT DEF Toggled, Reads
    <3> QED
      BY <3>2, <3>3, Zenon
  <2> DEFINE a == AreaMeant(k)
             f == [j \in DOMAIN meant[a] |-> IF Toggled(k) /\ j = FirstMeant(k) THEN 1 - meant[a][j]
                                 ELSE LET i == j - FirstMeant(k) + 1
                                      IN IF i \in DOMAIN Given(k) THEN Given(k)[i] ELSE meant[a][j]]
  <2>2. MeantAfter(k) = [meant EXCEPT ![a] = f]
    BY <1>2, Zenon DEF MeantAfter
  <2>3. DOMAIN Given(k) = {}
    BY <2>1, SMT
  <2>4. \A x : x \notin DOMAIN Given(k)
    BY <2>3, Zenon
  <2>5. f = [j \in DOMAIN meant[a] |-> meant[a][j]]
    BY <2>1, <2>4, Zenon
  <2>6. a \in SimAreas
    BY Zenon DEF AreaMeant, SimAreas
  <2>7. meant \in SimMems
    BY Zenon DEF MemMeant
  <2> HIDE DEF a
  <2>8. meant[a] \in [Cells -> Nat]
    BY <2>6, <2>7, Zenon DEF SimMems
  <2>9. f = meant[a]
    <3> HIDE DEF f
    <3> QED
      BY <2>5, <2>8, SMT
  <2> HIDE DEF f
  <2>10. [meant EXCEPT ![a] = f] = meant
    BY <2>6, <2>7, <2>9, SMT DEF SimMems
  <2> QED
    BY <2>2, <2>10, Zenon
<1> QED
  BY <1>1, <1>2, Zenon

\* The area of a call, as MeantAfter has it.
AreaAfter(k, area) ==
    [j \in DOMAIN area |-> IF Toggled(k) /\ j = FirstMeant(k) THEN 1 - area[j]
                           ELSE LET i == j - FirstMeant(k) + 1
                                IN IF i \in DOMAIN Given(k) THEN Given(k)[i] ELSE area[j]]

\* MeantAfter changes the area of the call alone.
LEMMA AreaIsAfter ==
  ASSUME NEW k, k.op # "ReadClock", Fits(k)
  PROVE  MeantAfter(k) = [meant EXCEPT ![AreaMeant(k)] = AreaAfter(k, meant[AreaMeant(k)])]
  BY Zenon DEF MeantAfter, AreaAfter

\* What a write leaves: what it was given, in its place.
LEMMA WriteLeaves ==
  ASSUME MemMeant, NEW k, WellFormed(k), Simulated(k), Allowed(k), k.op \in WriteOps, Fits(k)
  PROVE  /\ Overlaid(MeantAfter(k), meant, AreaMeant(k), FirstMeant(k), Len(Given(k)), Given(k))
         /\ Overlaid([mem EXCEPT ![AreaMeant(k)] =
                         Placed(mem[AreaMeant(k)], FirstMeant(k), Len(Given(k)), Given(k))],
                     mem, AreaMeant(k), FirstMeant(k), Len(Given(k)), Given(k))
<1> DEFINE a == AreaMeant(k)
           first == FirstMeant(k)
           g == Given(k)
           len == Len(g)
<1>1. k.op # "ReadClock" /\ ~Toggled(k)
  BY ReadsOrWrites, Zenon DEF Toggled
<1>2. g \in Seq(Nat)
  BY WriteCall, Zenon DEF WritesItems
<1>3. first \in Nat
  BY <1>1, PlaceOfCall, Zenon
<1>4. a \in SimAreas
  BY Zenon DEF AreaMeant, SimAreas
<1>5. meant \in SimMems /\ mem \in SimMems
  BY Zenon DEF MemMeant
<1>6. MeantAfter(k) = [meant EXCEPT ![a] = AreaAfter(k, meant[a])]
  BY <1>1, AreaIsAfter, Zenon
<1>7. meant[a] \in [Cells -> Nat]
  BY <1>4, <1>5, Zenon DEF SimMems
<1> DEFINE area == meant[a]
<1>8. AreaAfter(k, area) = [j \in DOMAIN area |-> IF j - first + 1 \in DOMAIN g THEN g[j - first + 1] ELSE area[j]]
  BY <1>1, Zenon DEF AreaAfter
<1> HIDE DEF a, first, g
<1>9. len \in Nat /\ DOMAIN g = 1 .. len /\ \A i \in 1 .. len : g[i] \in Nat
  BY <1>2, SMT
<1> HIDE DEF len, area
<1>10. DOMAIN area = Cells
  BY <1>7, Zenon DEF area
<1>11. \A j \in Cells : j - first + 1 \in DOMAIN g <=> j \in first .. (first + len) - 1
  BY <1>3, <1>9, SizesAssumption, SMT DEF Cells
<1>12. AreaAfter(k, area) = Placed(area, first, len, g)
  BY <1>8, <1>10, <1>11, Zenon DEF Placed
<1>13. Overlaid([meant EXCEPT ![a] = Placed(area, first, len, g)], meant, a, first, len, g)
  BY <1>3, <1>4, <1>5, <1>9, PlacedOverlays, Zenon DEF area
<1>14. Overlaid([mem EXCEPT ![a] = Placed(mem[a], first, len, g)], mem, a, first, len, g)
  BY <1>3, <1>4, <1>5, <1>9, PlacedOverlays, Zenon
<1> QED
  BY <1>6, <1>12, <1>13, <1>14, Zenon DEF a, first, g, len, area

\* What a toggle leaves: its bit is the other one.
LEMMA ToggleLeaves ==
  ASSUME MemMeant, NEW k, WellFormed(k), Simulated(k), Allowed(k), Toggled(k), Fits(k)
  PROVE  Overlaid(MeantAfter(k), meant, "DMBit", FirstMeant(k), 1, <<1 - meant["DMBit"][FirstMeant(k)]>>)
<1> DEFINE a == "DMBit"
           first == FirstMeant(k)
           area == meant[a]
           g == <<1 - area[first]>>
<1>1. k.op # "ReadClock" /\ k.op \in BitOps
  BY SMT DEF Toggled, BitOps
<1>2. AreaMeant(k) = a
  BY <1>1, Zenon DEF AreaMeant
<1>3. first \in Cells /\ area[first] \in {0, 1}
  BY BitMeant, Zenon
<1>4. first \in Nat
  BY <1>1, PlaceOfCall, Zenon
<1>5. meant \in SimMems
  BY Zenon DEF MemMeant
<1>6. MeantAfter(k) = [meant EXCEPT ![a] = AreaAfter(k, area)]
  BY <1>1, <1>2, AreaIsAfter, Zenon
<1>7. a \in SimAreas
  BY Zenon DEF SimAreas
<1>8. DOMAIN area = Cells
  BY <1>5, <1>7, Zenon DEF SimMems
<1>9. \A x : x \notin DOMAIN Given(k)
  <2>1. Given(k) = <<>>
    <3>1. k.op \in ReadOps
      BY Zenon DEF Toggled, ReadOps
    <3> QED
      BY <3>1, ReadCall, Zenon DEF ReadsItems
  <2>2. DOMAIN Given(k) = {}
    BY <2>1, SMT
  <2> QED
    BY <2>2, Zenon
<1>10. AreaAfter(k, area) = [j \in DOMAIN area |-> IF j = first THEN 1 - area[j] ELSE area[j]]
  BY <1>9, Zenon DEF AreaAfter
<1> HIDE DEF first, area
<1>11. \A j \in Cells : j = first <=> j \in first .. (first + 1) - 1
  BY <1>4, SizesAssumption, SMT DEF Cells
<1>12. first - first + 1 = 1 /\ 1 \in 1 .. 1 /\ 1 \in Nat
  BY <1>4, SMT
<1>13. g[1] = 1 - area[first] /\ g[1] \in Nat /\ \A i \in 1 .. 1 : g[i] \in Nat
  BY <1>3, SMT
<1> HIDE DEF g
<1>14. \A j \in DOMAIN area : (IF j = first THEN 1 - area[j] ELSE area[j])
           = (IF j \in first .. (first + 1) - 1 THEN g[j - first + 1] ELSE area[j])
  BY <1>8, <1>11, <1>12, <1>13, Zenon
<1>15. AreaAfter(k, area) = Placed(area, first, 1, g)
  BY <1>10, <1>14, Zenon DEF Placed
<1>16. Overlaid([meant EXCEPT ![a] = Placed(area, first, 1, g)], meant, a, first, 1, g)
  BY <1>4, <1>5, <1>7, <1>12, <1>13, PlacedOverlays, Zenon DEF area
<1> QED
  BY <1>6, <1>15, <1>16, Zenon DEF first, area, g

\* A call reads or writes, and the lengths of what it names are numbers.
LEMMA CallLengths ==
  ASSUME NEW k, WellFormed(k), k.op # "ReadClock"
  PROVE  /\ k.op \in ReadOps \/ k.op \in WriteOps
         /\ Asked(k) \in Nat /\ Len(Given(k)) \in Nat
<1>1. k.op \in ReadOps \/ k.op \in WriteOps
  BY SMT DEF WellFormed, WordOps, BitOps, ReadOps, WriteOps, Reads
<1>2. ASSUME k.op \in ReadOps PROVE Asked(k) \in Nat /\ Len(Given(k)) \in Nat
  <2>1. PICK n : ReadsItems(k, n)
    BY <1>2, ReadCall, Zenon
  <2>2. n \in Nat /\ Asked(k) = Width(k) * n /\ Given(k) = <<>>
    BY <2>1, Zenon DEF ReadsItems
  <2> QED
    BY <2>2, SMT DEF Width
<1>3. ASSUME k.op \in WriteOps PROVE Asked(k) \in Nat /\ Len(Given(k)) \in Nat
  <2>1. Asked(k) = 0 /\ Given(k) \in Seq(Nat)
    BY <1>3, WriteCall, Zenon DEF WritesItems
  <2> QED
    BY <2>1, SMT
<1> QED
  BY <1>1, <1>2, <1>3, Zenon

\* What a call should return, case by case.
LEMMA MeantResults ==
  ASSUME NEW k, NEW t
  PROVE  /\ ~Fits(k) => MeantResult(k, t) = Failure
         /\ k.op = "ReadClock" => MeantResult(k, t) = Success(t)
         /\ Fits(k) /\ k.op # "ReadClock" =>
                MeantResult(k, t) = Success(Result(k, Piece(meant[AreaMeant(k)], FirstMeant(k), Asked(k))))
<1>1. k.op = "ReadClock" => Fits(k)
  BY Zenon DEF Fits
<1> DEFINE p == Piece(meant[AreaMeant(k)], FirstMeant(k), Asked(k))
<1>2. MeantResult(k, t) = CASE ~Fits(k) -> Failure
                            [] k.op = "ReadClock" -> Success(t)
                            [] OTHER -> Success(Result(k, p))
  BY Zenon DEF MeantResult, Piece
<1> HIDE DEF p
<1>3. /\ ~Fits(k) => MeantResult(k, t) = Failure
      /\ k.op = "ReadClock" => MeantResult(k, t) = Success(t)
      /\ Fits(k) /\ k.op # "ReadClock" => MeantResult(k, t) = Success(Result(k, p))
  BY <1>1, <1>2, SMT
<1> QED
  BY <1>3, Zenon DEF p

\* The server has met a client's call.
SentTo(c, t) ==
    /\ stage[c] = "sent" /\ stage'[c] = "answered" /\ current' = current
    /\ meant' = MeantAfter(current[c]) /\ expected'[c] = MeantResult(current[c], t)
    /\ response[c] = <<>> /\ \A d \in Client : d # c => Still(d)

\* The server's step on a call that was sent is that.
LEMMA SentServed ==
  ASSUME PlcInv, NEW c \in Client, NEW t \in Times, Serve(c, t), stage[c] = "sent"
  PROVE  SentTo(c, t)
<1>1. PlcTypes /\ UnderWay(c)
  BY Zenon DEF PlcInv
<1>2. /\ meant' = MeantAfter(current[c]) /\ current' = current /\ datagram' = datagram /\ result' = result
      /\ expected' = [expected EXCEPT ![c] = MeantResult(current[c], t)]
      /\ stage' = [stage EXCEPT ![c] = "answered"]
  BY Zenon DEF Serve
<1> DEFINE e == MeantResult(current[c], t)
<1> HIDE DEF e
<1>3. Changed(expected', expected, c, e) /\ Changed(stage', stage, c, "answered")
  BY <1>1, <1>2, ChangedAt, Zenon DEF PlcTypes, e
<1>4. PICK id \in Nat : \E cmd : Step(c, t, id, cmd)
  BY <1>1, ServeIsStep, Zenon
<1>5. PICK cmd : Step(c, t, id, cmd)
  BY <1>4, Zenon
<1>6. \A d \in Client : d # c => response'[d] = response[d]
  BY <1>1, <1>5, StepOutcome, Zenon
<1>7. \A d \in Client : d # c => Still(d)
  BY <1>2, <1>3, <1>6, Zenon DEF Changed, Still
<1>8. response[c] = <<>>
  <2>1. stage[c] \in {"idle", "sent", "twiddling"}
    BY SMT
  <2> QED
    BY <1>1, <2>1, Zenon DEF UnderWay
<1> QED
  BY <1>2, <1>3, <1>7, <1>8, Zenon DEF SentTo, Changed, e

\* Which bits lag after a call is met.
LEMMA SentLags ==
  ASSUME NEW c \in Client, NEW t, SentTo(c, t)
  PROVE  /\ ~Lags(c) /\ (Lags(c)' <=> Toggled(current[c]) /\ Fits(current[c]))
         /\ \A d \in Client : d # c => (Lags(d)' <=> Lags(d))
<1>1. stage[c] \notin {"answered", "twiddling"} /\ stage'[c] \in {"answered", "twiddling"}
  <2>1. stage[c] = "sent" /\ stage'[c] = "answered"
    BY Zenon DEF SentTo
  <2> QED
    BY <2>1, SMT
<1>2. current' = current /\ \A d \in Client : d # c => Still(d)
  BY Zenon DEF SentTo
<1> QED
  BY <1>1, <1>2, StillLags, Zenon DEF Lags

\* The call names cells, and none of its bits lags.
Named(c) ==
    \A j \in Span(current[c]) :
        /\ j \in Cells
        /\ mem[AreaMeant(current[c])][j] = meant[AreaMeant(current[c])][j]
        /\ AreaMeant(current[c]) = "DMBit" => ~Lag(j)

\* So it is with a call that was sent and fits.
LEMMA SentNamed ==
  ASSUME PlcInv, SimInv, server = "sim", NEW c \in Client, NEW t, SentTo(c, t),
         Fits(current[c]), current[c].op # "ReadClock"
  PROVE  Named(c)
<1> DEFINE k == current[c]
           first == FirstMeant(k)
<1>1. stage[c] # "idle"
  <2>1. stage[c] = "sent"
    BY Zenon DEF SentTo
  <2> QED
    BY <2>1, SMT
<1>2. WellFormed(k) /\ Simulated(k) /\ Allowed(k)
  BY <1>1, CurrentCall, Zenon
<1>3. first \in Nat
  BY <1>2, PlaceOfCall, Zenon
<1>4. MemMeant
  BY Zenon DEF SimInv
<1>5. Asked(k) \in Nat /\ Len(Given(k)) \in Nat
  BY <1>2, CallLengths, Zenon
<1>6. first + Len(Given(k)) + Asked(k) <= AreaSize
  BY Zenon DEF Fits
<1> SUFFICES ASSUME NEW j \in Span(k)
             PROVE  j \in Cells /\ mem[AreaMeant(k)][j] = meant[AreaMeant(k)][j]
                    /\ (AreaMeant(k) = "DMBit" => ~Lag(j))
  BY Zenon DEF Named
<1>7. j \in first .. first + Len(Given(k)) + Asked(k) - 1
  BY Zenon DEF Span
<1> HIDE DEF first
<1>8. j \in Cells
  <2> DEFINE l == Len(Given(k))
             n == Asked(k)
  <2> HIDE DEF l, n
  <2>1. l \in Nat /\ n \in Nat /\ first + l + n <= AreaSize /\ j \in first .. first + l + n - 1
    BY <1>5, <1>6, <1>7, Zenon DEF l, n
  <2> QED
    BY <1>3, <2>1, SizesAssumption, SMT DEF Cells
<1>9. CellMeant(j)
  BY <1>4, <1>8, Zenon DEF MemMeant
<1>10. CASE k.op \in BitOps
  <2>1. AreaMeant(k) = "DMBit"
    BY <1>10, Zenon DEF AreaMeant
  <2>2. ASSUME NEW d \in Client PROVE ~LagsAt(d, j)
    <3>1. CASE d = c
      BY <3>1, SentLags, Zenon DEF LagsAt
    <3>2. CASE d # c
      BY <1>1, <1>10, <3>2, NoClash, Zenon DEF LagsAt
    <3> QED
      BY <3>1, <3>2, Zenon
  <2> QED
    BY <1>8, <1>9, <2>1, <2>2, Zenon DEF CellMeant, Lag
<1>11. CASE k.op \notin BitOps
  <2>1. AreaMeant(k) = "DM"
    BY <1>11, Zenon DEF AreaMeant
  <2>2. AreaMeant(k) # "DMBit"
    BY <2>1, SMT
  <2> QED
    BY <1>8, <1>9, <2>1, <2>2, Zenon DEF CellMeant
<1> QED
  BY <1>10, <1>11, Zenon

\* What is left to show when a call has been met.
ServedWell(c) ==
    /\ MemMeant' /\ (response'[c] # <<>> => Told(c)')
    /\ \A d \in Client : d # c /\ Lags(d) =>
           meant'["DMBit"][FirstMeant(current[d])] = meant["DMBit"][FirstMeant(current[d])]

\* The answer was a success, or a failure.
LEMMA ToldSuccess ==
  ASSUME NEW c, NEW data, Returns(response'[c], 0, data), current' = current,
         expected'[c] = Success(Result(current[c], data)), Toggled(current[c]) => Fits(current[c]),
         Toggled(current[c]) => (data[1] % 2 = 1 <=> TheBit(c)' = 0)
  PROVE  Told(c)'
<1>1. decodeResponse(response'[c]).endCode = 0 /\ decodeResponse(response'[c]).data = data
  BY Zenon DEF Returns
<1> QED
  BY <1>1, Zenon DEF Told

\* A refusal tells the client so.
LEMMA ToldFailure ==
  ASSUME NEW c, NEW end, end # 0, NEW data, Returns(response'[c], end, data), current' = current,
         expected'[c] = Failure, ~Fits(current[c])
  PROVE  Told(c)'
<1>1. decodeResponse(response'[c]).endCode # 0
  BY Zenon DEF Returns
<1> QED
  BY <1>1, Zenon DEF Told

\* A call that changes nothing keeps the memory as it is meant.
LEMMA SentKeeps ==
  ASSUME MemMeant, NEW c \in Client, NEW t, SentTo(c, t), mem' = mem, meant' = meant,
         ~(Toggled(current[c]) /\ Fits(current[c])), response'[c] # <<>> => Told(c)'
  PROVE  ServedWell(c)
<1>1. \A d \in Client : Lags(d)' <=> Lags(d)
  BY SentLags, Zenon
<1>2. current' = current
  BY Zenon DEF SentTo
<1>3. MemMeant'
  BY <1>1, <1>2, MemMeantKept, Zenon
<1> QED
  BY <1>3, Zenon DEF ServedWell

\* The clock is read.
LEMMA ClockMeant ==
  ASSUME PlcInv, SimInv, server = "sim", NEW c \in Client, NEW t \in Times, SentTo(c, t),
         NEW h, Met(c, h), current[c].op = "ReadClock", Answers(h, 0, Clock(t, Pad), mem)
  PROVE  ServedWell(c)
<1> DEFINE k == current[c]
           data == Clock(t, Pad)
<1>1. MemMeant
  BY Zenon DEF SimInv
<1>2. ~Toggled(k)
  BY SMT DEF Toggled
<1>3. WellFormed(k)
  <2>1. stage[c] = "sent"
    BY Zenon DEF SentTo
  <2>2. stage[c] # "idle"
    BY <2>1, SMT
  <2> QED
    BY <2>2, CurrentCall, Zenon
<1>4. meant' = meant
  BY <1>1, <1>3, ReadLeaves, Zenon DEF SentTo
<1>5. mem' = mem /\ Returns(response'[c], 0, data)
  BY Zenon DEF Met, Answers
<1>6. ReadClock(data) = t
  <2>1. Pad \in Nat
    BY SMT DEF Pad
  <2>2. ClockOf(data, t, Pad)
    BY <2>1, ClockBytes, Zenon
  <2> QED
    BY <2>2, ClockRead, Zenon
<1> HIDE DEF data
<1>7. Result(k, data) = ReadClock(data)
  <2> HIDE DEF k
  <2>1. k.op = "ReadClock"
    BY Zenon DEF k
  <2> QED
    BY <2>1, SMT DEF Result
<1>8. expected'[c] = Success(Result(k, data))
  BY <1>6, <1>7, MeantResults, Zenon DEF SentTo
<1>9. Told(c)'
  BY <1>2, <1>5, <1>8, ToldSuccess, Zenon DEF SentTo
<1> QED
  BY <1>1, <1>2, <1>4, <1>5, <1>9, SentKeeps, Zenon

\* A call that does not fit is refused.
LEMMA RefusedMeant ==
  ASSUME PlcInv, SimInv, server = "sim", NEW c \in Client, NEW t \in Times, SentTo(c, t),
         NEW h, Met(c, h), ~Fits(current[c]), Refused(h)
  PROVE  ServedWell(c)
<1> DEFINE k == current[c]
<1>1. MemMeant
  BY Zenon DEF SimInv
<1>2. WellFormed(k)
  <2>1. stage[c] = "sent"
    BY Zenon DEF SentTo
  <2>2. stage[c] # "idle"
    BY <2>1, SMT
  <2> QED
    BY <2>2, CurrentCall, Zenon
<1>3. meant' = meant
  BY <1>1, <1>2, ReadLeaves, Zenon DEF SentTo
<1>4. mem' = mem
  BY Zenon DEF Met, Refused
<1>5. expected'[c] = Failure /\ response[c] = <<>> /\ current' = current
  BY MeantResults, Zenon DEF SentTo
<1>6. ASSUME response'[c] # <<>> PROVE Told(c)'
  <2>1. h.panic = FALSE /\ h.endCode # 0 /\ Returns(response'[c], h.endCode, h.data)
    BY <1>5, <1>6, Zenon DEF Met, Refused
  <2> QED
    BY <1>5, <2>1, ToldFailure, Zenon
<1> QED
  BY <1>1, <1>3, <1>4, <1>6, SentKeeps, Zenon

\* The bytes that a call reads are those that are meant.
LEMMA PieceMeant ==
  ASSUME NEW c, Named(c), NEW k, k = current[c], Given(k) = <<>>, FirstMeant(k) \in Nat, Asked(k) \in Nat
  PROVE  Piece(mem[AreaMeant(k)], FirstMeant(k), Asked(k)) = Piece(meant[AreaMeant(k)], FirstMeant(k), Asked(k))
<1> DEFINE first == FirstMeant(k)
           n == Asked(k)
           a == AreaMeant(k)
<1>1. Span(k) = first .. first + Len(Given(k)) + n - 1
  BY Zenon DEF Span
<1>2. first \in Nat /\ n \in Nat
  BY Zenon
<1>3. \A j \in Span(k) : mem[a][j] = meant[a][j]
  BY Zenon DEF Named
<1> HIDE DEF first, n, a
<1>4. \A i \in 1 .. n : first + i - 1 \in Span(k)
  <2>1. Len(Given(k)) = 0
    BY SMT
  <2> QED
    BY <1>1, <1>2, <2>1, SMT
<1>5. \A i \in 1 .. n : mem[a][first + i - 1] = meant[a][first + i - 1]
  BY <1>3, <1>4, Zenon
<1>6. Piece(mem[a], first, n) = Piece(meant[a], first, n)
  BY <1>5, Zenon DEF Piece
<1> QED
  BY <1>6, Zenon DEF first, n, a

\* A bit that lags is a cell.
LEMMA LagIsCell ==
  ASSUME PlcInv, SimInv, server = "sim", NEW d \in Client, Lags(d)
  PROVE  FirstMeant(current[d]) \in Cells
<1>1. stage[d] \in {"answered", "twiddling"} /\ Toggled(current[d]) /\ Fits(current[d])
  BY Zenon DEF Lags
<1>2. stage[d] # "idle"
  BY <1>1, SMT
<1>3. MemMeant
  BY Zenon DEF SimInv
<1> QED
  BY <1>1, <1>2, <1>3, CurrentCall, BitMeant, Zenon

\* Memory is read.
LEMMA ReadMeant ==
  ASSUME PlcInv, SimInv, server = "sim", NEW c \in Client, NEW t \in Times, SentTo(c, t),
         NEW h, Met(c, h), Fits(current[c]), current[c].op \in Reads, CallMet(h, current[c])
  PROVE  ServedWell(c)
<1> DEFINE k == current[c]
           data == Piece(mem[AreaMeant(k)], FirstMeant(k), Asked(k))
<1>1. MemMeant /\ stage[c] = "sent"
  BY Zenon DEF SimInv, SentTo
<1>2. k.op \in ReadOps /\ k.op # "ReadClock" /\ ~Toggled(k)
  <2>1. k.op \in ReadOps
    BY Zenon DEF ReadOps
  <2>2. ~Toggled(k)
    BY SMT DEF Toggled, Reads
  <2> QED
    BY <2>1, <2>2, ReadsOrWrites, Zenon
<1>3. WellFormed(k)
  <2>1. stage[c] # "idle"
    BY <1>1, SMT
  <2> QED
    BY <2>1, CurrentCall, Zenon
<1>4. meant' = meant
  BY <1>1, <1>3, ReadLeaves, Zenon DEF SentTo
<1>5. Answers(h, 0, data, mem)
  BY <1>2, Zenon DEF CallMet
<1>6. mem' = mem /\ Returns(response'[c], 0, data)
  BY <1>5, Zenon DEF Met, Answers
<1>7. data = Piece(meant[AreaMeant(k)], FirstMeant(k), Asked(k))
  <2>1. Named(c)
    BY <1>2, SentNamed, Zenon
  <2>2. Given(k) = <<>>
    BY <1>2, <1>3, ReadCall, Zenon DEF ReadsItems
  <2>3. FirstMeant(k) \in Nat /\ Asked(k) \in Nat
    BY <1>2, <1>3, PlaceOfCall, CallLengths, Zenon
  <2> QED
    BY <2>1, <2>2, <2>3, PieceMeant, Zenon
<1> HIDE DEF data
<1>8. expected'[c] = Success(Result(k, data))
  BY <1>2, <1>7, MeantResults, Zenon DEF SentTo
<1>9. Told(c)'
  BY <1>2, <1>6, <1>8, ToldSuccess, Zenon DEF SentTo
<1> QED
  BY <1>1, <1>2, <1>4, <1>6, <1>9, SentKeeps, Zenon

\* A bit is read to be toggled: what is meant is the other one.
LEMMA ToggleMeant ==
  ASSUME PlcInv, SimInv, server = "sim", NEW c \in Client, NEW t \in Times, SentTo(c, t),
         NEW h, Met(c, h), Fits(current[c]), Toggled(current[c]), CallMet(h, current[c])
  PROVE  ServedWell(c)
<1> DEFINE k == current[c]
           first == FirstMeant(k)
           old == meant["DMBit"][first]
           data == Piece(mem[AreaMeant(k)], FirstMeant(k), Asked(k))
<1>1. MemMeant /\ stage[c] = "sent" /\ current' = current
  BY Zenon DEF SimInv, SentTo
<1>2. k.op \in ReadOps /\ k.op # "ReadClock" /\ k.op \in BitOps /\ Asked(k) = 1
  BY SMT DEF Toggled, ReadOps, BitOps, Asked
<1>3. WellFormed(k) /\ Simulated(k) /\ Allowed(k) /\ stage[c] # "idle"
  <2>1. stage[c] # "idle"
    BY <1>1, SMT
  <2> QED
    BY <2>1, CurrentCall, Zenon
<1>4. first \in Cells /\ old \in {0, 1}
  BY <1>1, <1>3, BitMeant, Zenon
<1>5. Overlaid(meant', meant, "DMBit", first, 1, <<1 - old>>)
  BY <1>1, <1>3, ToggleLeaves, Zenon DEF SentTo
<1>6. Answers(h, 0, data, mem)
  BY <1>2, Zenon DEF CallMet
<1>7. mem' = mem /\ Returns(response'[c], 0, data)
  BY <1>6, Zenon DEF Met, Answers
<1>8. Named(c) /\ AreaMeant(k) = "DMBit"
  BY <1>2, SentNamed, Zenon DEF AreaMeant
<1>9. data = Piece(meant[AreaMeant(k)], FirstMeant(k), Asked(k)) /\ Given(k) = <<>>
  <2>1. Given(k) = <<>>
    BY <1>2, <1>3, ReadCall, Zenon DEF ReadsItems
  <2>2. FirstMeant(k) \in Nat /\ Asked(k) \in Nat
    BY <1>2, <1>3, PlaceOfCall, CallLengths, Zenon
  <2> QED
    BY <1>8, <2>1, <2>2, PieceMeant, Zenon
<1> DEFINE area == meant["DMBit"]
<1>10. data = Piece(area, first, 1)
  BY <1>2, <1>8, <1>9, Zenon
<1> HIDE DEF data
<1>11. data[1] = old /\ first \in first .. (first + 1) - 1 /\ Span(k) = first .. first + 0 + 1 - 1
  <2>1. first \in Nat
    BY <1>2, <1>3, PlaceOfCall, Zenon
  <2>2. Span(k) = first .. first + Len(Given(k)) + Asked(k) - 1
    BY Zenon DEF Span
  <2>3. Len(Given(k)) = 0
    BY <1>9, SMT
  <2>4. Span(k) = first .. first + 0 + 1 - 1
    BY <1>2, <2>2, <2>3, Zenon
  <2> HIDE DEF first, area
  <2>5. data[1] = area[first] /\ first \in first .. (first + 1) - 1
    BY <1>10, <2>1, SMT DEF Piece
  <2> QED
    BY <2>4, <2>5, Zenon DEF first, area
<1>12. expected'[c] = Success(Result(k, data))
  BY <1>2, <1>9, MeantResults, Zenon DEF SentTo
<1> DEFINE new == meant'["DMBit"]
<1>13. new[first] = 1 - old /\ \A j \in Cells : j # first => new[j] = area[j]
  <2>1. first - first + 1 = 1 /\ first \in Nat
    BY <1>4, SizesAssumption, SMT DEF Cells
  <2>2. <<1 - old>>[1] = 1 - old
    BY SMT
  <2>3. "DMBit" \in SimAreas
    BY Zenon DEF SimAreas
  <2>4. \A j \in Cells : j # first => j \notin first .. (first + 1) - 1
    BY <2>1, SizesAssumption, SMT DEF Cells
  <2> QED
    BY <1>4, <1>5, <1>11, <2>1, <2>2, <2>3, <2>4, Zenon DEF Overlaid
<1>14. \A j \in Cells : meant'["DM"][j] = meant["DM"][j]
  <2>1. "DM" \in SimAreas /\ "DM" # "DMBit"
    BY SMT DEF SimAreas
  <2> QED
    BY <1>5, <2>1, Zenon DEF Overlaid
<1>15. Told(c)'
  <2>1. TheBit(c)' = 1 - old
    BY <1>1, <1>13, Zenon DEF TheBit
  <2>2. data[1] % 2 = 1 <=> TheBit(c)' = 0
    <3> DEFINE b == TheBit(c)'
    <3> HIDE DEF b, old
    <3>1. b = 1 - old /\ old \in {0, 1} /\ data[1] = old
      BY <1>4, <1>11, <2>1, Zenon DEF b
    <3>2. data[1] % 2 = 1 <=> b = 0
      BY <3>1, SMT
    <3> QED
      BY <3>2, Zenon DEF b
  <2> QED
    BY <1>1, <1>7, <1>12, <2>2, ToldSuccess, Zenon
<1>16. ~Lag(first)
  <2>1. first \in Span(k)
    <3>1. first \in Nat
      BY <1>4, SizesAssumption, SMT DEF Cells
    <3> HIDE DEF first
    <3> QED
      BY <1>11, <3>1, SMT
  <2> QED
    BY <1>8, <2>1, Zenon DEF Named
<1>17. \A d \in Client : d # c /\ Lags(d) => FirstMeant(current[d]) # first
  BY <1>16, Zenon DEF Lag, LagsAt
<1>18. \A j \in Cells : (j = first => Lag(j)') /\ (j # first => (Lag(j)' <=> Lag(j)))
  <2>1. Lags(c)' /\ ~Lags(c) /\ \A d \in Client : d # c => (Lags(d)' <=> Lags(d))
    BY SentLags, Zenon
  <2>2. ASSUME NEW j \in Cells, j = first PROVE LagsAt(c, j)'
    BY <1>1, <2>1, <2>2, Zenon DEF LagsAt
  <2>3. ASSUME NEW j \in Cells, j # first, NEW d \in Client PROVE LagsAt(d, j)' <=> LagsAt(d, j)
    BY <1>1, <2>1, <2>3, Zenon DEF LagsAt
  <2> QED
    BY <2>2, <2>3, Zenon DEF Lag
<1>19. ASSUME NEW j \in Cells PROVE CellMeant(j)'
  <2>1. CellMeant(j)
    BY <1>1, Zenon DEF MemMeant
  <2>2. CASE j = first
    <3>1. mem["DMBit"][j] = old
      BY <1>16, <2>1, <2>2, Zenon DEF CellMeant
    <3>2. 1 - old \in {0, 1} /\ old = 1 - (1 - old)
      <4> HIDE DEF old
      <4> QED
        BY <1>4, SMT
    <3>3. meant'["DMBit"][j] = 1 - old /\ meant'["DM"][j] = meant["DM"][j] /\ Lag(j)'
      BY <1>13, <1>14, <1>18, <2>2, Zenon
    <3> HIDE DEF old
    <3> QED
      BY <1>7, <2>1, <3>1, <3>2, <3>3, Zenon DEF CellMeant
  <2>3. CASE j # first
    <3>1. meant'["DMBit"][j] = meant["DMBit"][j] /\ meant'["DM"][j] = meant["DM"][j] /\ (Lag(j)' <=> Lag(j))
      BY <1>13, <1>14, <1>18, <2>3, Zenon
    <3> QED
      BY <1>7, <2>1, <3>1, Zenon DEF CellMeant
  <2> QED
    BY <2>2, <2>3, Zenon
<1>20. MemMeant'
  <2>1. meant' \in SimMems /\ mem \in SimMems
    BY <1>1, <1>5, Zenon DEF Overlaid, MemMeant
  <2> QED
    BY <1>7, <1>19, <2>1, Zenon DEF MemMeant
<1>21. ASSUME NEW d \in Client, d # c, Lags(d) PROVE new[FirstMeant(current[d])] = area[FirstMeant(current[d])]
  <2>1. FirstMeant(current[d]) \in Cells
    BY <1>21, LagIsCell, Zenon
  <2> QED
    BY <1>13, <1>17, <1>21, <2>1, Zenon
<1> QED
  BY <1>15, <1>20, <1>21, Zenon DEF ServedWell

\* Memory is written.
LEMMA WriteMeant ==
  ASSUME PlcInv, SimInv, server = "sim", NEW c \in Client, NEW t \in Times, SentTo(c, t),
         NEW h, Met(c, h), Fits(current[c]), current[c].op \in WriteOps, CallMet(h, current[c])
  PROVE  ServedWell(c)
<1> DEFINE k == current[c]
           a == AreaMeant(k)
           first == FirstMeant(k)
           g == Given(k)
           len == Len(g)
           in(j) == j \in first .. (first + len) - 1
<1>1. MemMeant /\ stage[c] = "sent" /\ current' = current
  BY Zenon DEF SimInv, SentTo
<1>2. k.op # "ReadClock" /\ ~Toggled(k)
  BY ReadsOrWrites, Zenon DEF Toggled
<1>3. WellFormed(k) /\ Simulated(k) /\ Allowed(k)
  <2>1. stage[c] # "idle"
    BY <1>1, SMT
  <2> QED
    BY <2>1, CurrentCall, Zenon
<1> DEFINE after == [mem EXCEPT ![a] = Placed(mem[a], first, len, g)]
<1>4. Answers(h, 0, <<>>, after)
  BY Zenon DEF CallMet
<1>5. mem' = after /\ Returns(response'[c], 0, <<>>)
  BY <1>4, Zenon DEF Met, Answers
<1>6. Overlaid(after, mem, a, first, len, g) /\ Overlaid(MeantAfter(k), meant, a, first, len, g)
  BY <1>1, <1>3, WriteLeaves, Zenon
<1> HIDE DEF after
<1>7. Overlaid(mem', mem, a, first, len, g) /\ Overlaid(meant', meant, a, first, len, g)
  BY <1>5, <1>6, Zenon DEF SentTo
<1>8. Told(c)'
  <2>1. \A x : Result(k, x) = <<>>
    <3> HIDE DEF k
    <3>1. k.op \in WriteOps
      BY Zenon DEF k
    <3> QED
      BY <3>1, SMT DEF WriteOps, Result
  <2>2. expected'[c] = Success(<<>>)
    BY <1>2, <2>1, MeantResults, Zenon DEF SentTo
  <2>3. expected'[c] = Success(Result(k, <<>>))
    BY <2>1, <2>2, Zenon
  <2> QED
    BY <1>1, <1>2, <1>5, <2>3, ToldSuccess, Zenon
<1>9. Named(c)
  BY <1>2, SentNamed, Zenon
<1>10. /\ g \in Seq(Nat) /\ Asked(k) = 0
       /\ k.op \in BitOps => \A i \in 1 .. len : g[i] \in {0, 1}
  BY <1>3, WriteCall, Zenon DEF WritesItems
<1>11. first \in Nat
  BY <1>2, <1>3, PlaceOfCall, Zenon
<1>12. Span(k) = first .. first + len + Asked(k) - 1
  BY Zenon DEF Span
<1>13. k.op \in BitOps <=> a = "DMBit"
  <2>1. "DM" # "DMBit"
    BY SMT
  <2> QED
    BY <2>1, Zenon DEF AreaMeant
<1> HIDE DEF a, first, g
<1>14. \A j \in Cells : in(j) => j \in Span(k) /\ j - first + 1 \in 1 .. len
  <2>1. len \in Nat
    BY <1>10, SMT
  <2> HIDE DEF len
  <2> QED
    BY <1>10, <1>11, <1>12, <2>1, SizesAssumption, SMTT(30) DEF Cells
<1>15. \A d \in Client : Lags(d)' <=> Lags(d)
  BY <1>2, SentLags, Zenon
<1>16. "DM" \in SimAreas /\ "DMBit" \in SimAreas
  BY Zenon DEF SimAreas
<1> HIDE DEF len
<1>17. \A x \in SimAreas, j \in Cells :
           IF x = a /\ in(j) THEN mem'[x][j] = g[j - first + 1] /\ meant'[x][j] = g[j - first + 1]
           ELSE mem'[x][j] = mem[x][j] /\ meant'[x][j] = meant[x][j]
  BY <1>7, Zenon DEF Overlaid
<1>18. ASSUME NEW j \in Cells, a = "DMBit", in(j) PROVE g[j - first + 1] \in {0, 1} /\ ~Lag(j)
  BY <1>9, <1>10, <1>13, <1>14, <1>18, Zenon DEF Named, a
<1> HIDE DEF in
<1>19. ASSUME NEW j \in Cells PROVE CellMeant(j)'
  <2>1. CellMeant(j) /\ (Lag(j)' <=> Lag(j))
    BY <1>1, <1>15, LagKept, Zenon DEF MemMeant
  <2>2. mem'["DM"][j] = meant'["DM"][j]
    BY <1>16, <1>17, <2>1, Zenon DEF CellMeant
  <2>3. CASE a = "DMBit" /\ in(j)
    <3>1. mem'["DMBit"][j] = meant'["DMBit"][j] /\ meant'["DMBit"][j] \in {0, 1}
      BY <1>16, <1>17, <1>18, <2>3, Zenon
    <3> QED
      BY <1>18, <2>1, <2>2, <2>3, <3>1, Zenon DEF CellMeant
  <2>4. CASE ~(a = "DMBit" /\ in(j))
    <3>1. mem'["DMBit"][j] = mem["DMBit"][j] /\ meant'["DMBit"][j] = meant["DMBit"][j]
      BY <1>16, <1>17, <2>4, Zenon
    <3> QED
      BY <2>1, <2>2, <3>1, Zenon DEF CellMeant
  <2> QED
    BY <2>3, <2>4, Zenon
<1>20. MemMeant'
  BY <1>7, <1>19, Zenon DEF Overlaid, MemMeant
<1>21. ASSUME NEW d \in Client, d # c, Lags(d)
       PROVE  meant'["DMBit"][FirstMeant(current[d])] = meant["DMBit"][FirstMeant(current[d])]
  <2> DEFINE j == FirstMeant(current[d])
  <2>1. j \in Cells
    BY <1>21, LagIsCell, Zenon
  <2>2. Lag(j)
    BY <1>21, Zenon DEF Lag, LagsAt
  <2> HIDE DEF j
  <2>3. ~(a = "DMBit" /\ in(j))
    BY <1>18, <2>1, <2>2, Zenon
  <2>4. meant'["DMBit"][j] = meant["DMBit"][j]
    BY <1>16, <1>17, <2>1, <2>3, Zenon
  <2> QED
    BY <2>4, Zenon DEF j
<1> QED
  BY <1>8, <1>20, <1>21, Zenon DEF ServedWell

\* The simulator meets a call.
LEMMA ServeCallMeant ==
  ASSUME PlcInv, SimInv, server = "sim", NEW c \in Client, NEW t \in Times, Serve(c, t), stage[c] = "sent"
  PROVE  MemMeant' /\ \A d \in Client : ClientMeant(d)'
<1> DEFINE k == current[c]
<1>1. SentTo(c, t)
  BY SentServed, Zenon
<1>2. PICK h : /\ Met(c, h)
               /\ k.op = "ReadClock" => Answers(h, 0, Clock(t, Pad), mem)
               /\ k.op # "ReadClock" => CallMet(h, k)
  BY CallServed, Zenon
<1>3. stage[c] # "idle"
  BY SMT
<1>4. WellFormed(k) /\ Allowed(k)
  BY <1>3, CurrentCall, Zenon
<1>5. ServedWell(c)
  <2>1. CASE k.op = "ReadClock"
    BY <1>1, <1>2, <2>1, ClockMeant, Zenon
  <2>2. CASE k.op # "ReadClock" /\ ~Fits(k)
    <3>1. Refused(h)
      BY <1>2, <2>2, Zenon DEF CallMet
    <3> QED
      BY <1>1, <1>2, <2>2, <3>1, RefusedMeant, Zenon
  <2>3. CASE k.op # "ReadClock" /\ Fits(k)
    <3>1. k.op \in Reads \/ Toggled(k) \/ k.op \in WriteOps
      BY <1>4, <2>3, CallLengths, Zenon DEF ReadOps, Toggled
    <3> QED
      BY <1>1, <1>2, <2>3, <3>1, ReadMeant, ToggleMeant, WriteMeant, Zenon
  <2> QED
    BY <2>1, <2>2, <2>3, Zenon
<1>6. ClientMeant(c)'
  <2>1. stage'[c] = "answered" /\ current' = current
    BY <1>1, Zenon DEF SentTo
  <2>2. /\ stage'[c] # "idle" /\ stage'[c] # "twiddling" /\ stage'[c] # "twiddled"
        /\ stage'[c] \notin {"twiddling", "twiddled"}
    BY <2>1, SMT
  <2> QED
    BY <1>4, <1>5, <2>1, <2>2, Zenon DEF ClientMeant, ServedWell
<1>7. ASSUME NEW d \in Client, d # c PROVE ClientMeant(d)'
  <2>1. ClientMeant(d) /\ UnderWay(d) /\ Still(d)
    BY <1>1, <1>7, Zenon DEF PlcInv, SimInv, SentTo
  <2>2. Lags(d) => meant'["DMBit"][FirstMeant(current[d])] = meant["DMBit"][FirstMeant(current[d])]
    BY <1>5, <1>7, Zenon DEF ServedWell
  <2> QED
    BY <2>1, <2>2, ClientMeantKept, Zenon
<1> QED
  BY <1>5, <1>6, <1>7, Zenon DEF ServedWell

\* The simulator meets the second half of a toggle: the bit no longer lags.
LEMMA ServeTwiddleMeant ==
  ASSUME PlcInv, SimInv, server = "sim", NEW c \in Client, NEW t \in Times, Serve(c, t), stage[c] = "twiddling"
  PROVE  MemMeant' /\ \A d \in Client : ClientMeant(d)'
<1> DEFINE k == current[c]
           first == FirstMeant(k)
           v == TheBit(c)
           after == [mem EXCEPT !["DMBit"] = Placed(mem["DMBit"], first, 1, <<v>>)]
<1>1. PlcTypes /\ MemMeant /\ ClientMeant(c) /\ UnderWay(c)
  BY Zenon DEF PlcInv, SimInv
<1>2. stage[c] # "idle" /\ stage[c] # "sent" /\ stage[c] \in {"twiddling", "twiddled"}
      /\ stage[c] \in {"answered", "twiddling"}
  BY SMT
<1>3. Toggled(k) /\ Fits(k) /\ Allowed(k) /\ result[c] = expected[c]
  BY <1>1, <1>2, Zenon DEF UnderWay, ClientMeant
<1>4. first \in Cells /\ v \in {0, 1}
  BY TwiddleServed, Zenon
<1>5. PICK h : Met(c, h) /\ Answers(h, 0, <<>>, after)
  BY TwiddleServed, Zenon
<1>6. mem' = after /\ Returns(response'[c], 0, <<>>)
  BY <1>5, Zenon DEF Met, Answers
<1>7. /\ stage' = [stage EXCEPT ![c] = "twiddled"] /\ meant' = meant /\ expected' = expected
      /\ current' = current /\ datagram' = datagram /\ result' = result
  BY <1>2, Zenon DEF Serve
<1>8. Changed(stage', stage, c, "twiddled")
  BY <1>1, <1>7, ChangedAt, Zenon DEF PlcTypes
<1>9. \A d \in Client : d # c => response'[d] = response[d]
  <2>1. PICK id \in Nat : \E cmd : Step(c, t, id, cmd)
    BY <1>1, ServeIsStep, Zenon
  <2>2. PICK cmd : Step(c, t, id, cmd)
    BY <2>1, Zenon
  <2> QED
    BY <1>1, <2>2, StepOutcome, Zenon
<1>10. \A d \in Client : d # c => Still(d)
  BY <1>7, <1>8, <1>9, Zenon DEF Still, Changed
<1>11. /\ stage'[c] # "idle" /\ stage'[c] # "answered" /\ stage'[c] # "twiddling"
       /\ stage'[c] \notin {"answered", "twiddling"} /\ stage'[c] = "twiddled"
  <2>1. stage'[c] = "twiddled"
    BY <1>8, Zenon DEF Changed
  <2> QED
    BY <2>1, SMT
<1>12. Lags(c) /\ ~(Lags(c)') /\ \A d \in Client : d # c => (Lags(d)' <=> Lags(d))
  BY <1>2, <1>3, <1>10, <1>11, StillLags, Zenon DEF Lags
<1>13. ASSUME NEW d \in Client, d # c, Lags(d) PROVE FirstMeant(current[d]) # first
  <2>1. k.op \in BitOps /\ k.op \in ReadOps /\ k.op # "ReadClock" /\ Asked(k) = 1
    BY <1>3, SMT DEF Toggled, BitOps, ReadOps, Asked
  <2>2. FirstMeant(current[d]) \notin Span(k)
    BY <1>2, <1>13, <2>1, NoClash, Zenon
  <2>3. first \in Span(k)
    <3>1. WellFormed(k)
      BY <1>2, CurrentCall, Zenon
    <3>2. Given(k) = <<>>
      BY <2>1, <3>1, ReadCall, Zenon DEF ReadsItems
    <3>3. Span(k) = first .. first + Len(Given(k)) + Asked(k) - 1
      BY Zenon DEF Span
    <3>4. first \in Nat
      BY <2>1, <3>1, PlaceOfCall, Zenon
    <3>5. Len(Given(k)) = 0
      BY <3>2, SMT
    <3>6. Span(k) = first .. first + 0 + 1 - 1
      BY <2>1, <3>3, <3>5, Zenon
    <3> HIDE DEF first
    <3> QED
      BY <3>4, <3>6, SMT
  <2> QED
    BY <2>2, <2>3, Zenon
<1>14. \A j \in Cells : (j = first => Lag(j) /\ ~(Lag(j)')) /\ (j # first => (Lag(j)' <=> Lag(j)))
  <2>1. ASSUME NEW j \in Cells, NEW d \in Client PROVE LagsAt(d, j)' <=> (LagsAt(d, j) /\ d # c)
    BY <1>7, <1>12, Zenon DEF LagsAt
  <2>2. ASSUME NEW j \in Cells PROVE LagsAt(c, j) <=> j = first
    BY <1>12, Zenon DEF LagsAt
  <2>3. ASSUME NEW j \in Cells, NEW d \in Client, d # c, j = first PROVE ~LagsAt(d, j)
    BY <1>13, <2>3, Zenon DEF LagsAt
  <2> QED
    BY <2>1, <2>2, <2>3, Zenon DEF Lag
<1>15. Overlaid(mem', mem, "DMBit", first, 1, <<v>>)
  <2>1. first \in Nat /\ 1 \in Nat
    BY <1>4, SizesAssumption, SMTT(30) DEF Cells
  <2>2. \A i \in 1 .. 1 : <<v>>[i] \in Nat
    <3> HIDE DEF v
    <3> QED
      BY <1>4, SMT
  <2>3. mem \in SimMems /\ "DMBit" \in SimAreas
    BY <1>1, Zenon DEF MemMeant, SimAreas
  <2>4. Overlaid(after, mem, "DMBit", first, 1, <<v>>)
    BY <2>1, <2>2, <2>3, PlacedOverlays, Zenon
  <2> QED
    BY <1>6, <2>4, Zenon
<1>16. \A j \in Cells : /\ mem'["DM"][j] = mem["DM"][j]
                        /\ j = first => mem'["DMBit"][j] = v
                        /\ j # first => mem'["DMBit"][j] = mem["DMBit"][j]
  <2>1. first \in Nat
    BY <1>4, SizesAssumption, SMT DEF Cells
  <2>2. /\ first - first + 1 = 1 /\ first \in first .. (first + 1) - 1
        /\ \A j \in Cells : j # first => j \notin first .. (first + 1) - 1
    <3> HIDE DEF first
    <3> QED
      BY <2>1, SizesAssumption, SMT DEF Cells
  <2>3. <<v>>[1] = v /\ "DM" \in SimAreas /\ "DMBit" \in SimAreas /\ "DM" # "DMBit"
    <3> HIDE DEF v
    <3> QED
      BY SMT DEF SimAreas
  <2> HIDE DEF v, first
  <2> QED
    BY <1>15, <2>2, <2>3, Zenon DEF Overlaid
<1>17. ASSUME NEW j \in Cells PROVE CellMeant(j)'
  <2>1. CellMeant(j)
    BY <1>1, Zenon DEF MemMeant
  <2>2. CASE j = first
    <3>1. v = meant["DMBit"][j]
      BY <2>2, Zenon DEF TheBit
    <3> QED
      BY <1>7, <1>14, <1>16, <2>1, <2>2, <3>1, Zenon DEF CellMeant
  <2>3. CASE j # first
    BY <1>7, <1>14, <1>16, <2>1, <2>3, Zenon DEF CellMeant
  <2> QED
    BY <2>2, <2>3, Zenon
<1>18. MemMeant'
  <2>1. mem' \in SimMems /\ meant' \in SimMems
    BY <1>1, <1>7, <1>15, Zenon DEF Overlaid, MemMeant
  <2> QED
    BY <1>17, <2>1, Zenon DEF MemMeant
<1>19. ClientMeant(c)'
  <2>1. decodeResponse(response'[c]).endCode = 0
    BY <1>6, Zenon DEF Returns
  <2> QED
    BY <1>3, <1>7, <1>11, <2>1, Zenon DEF ClientMeant
<1>20. ASSUME NEW d \in Client, d # c PROVE ClientMeant(d)'
  <2>1. ClientMeant(d) /\ UnderWay(d) /\ Still(d)
    BY <1>10, <1>20, Zenon DEF PlcInv, SimInv
  <2>2. meant'["DMBit"][FirstMeant(current[d])] = meant["DMBit"][FirstMeant(current[d])]
    BY <1>7, Zenon
  <2> QED
    BY <2>1, <2>2, ClientMeantKept, Zenon
<1> QED
  BY <1>18, <1>19, <1>20, Zenon

\* A step leaves the simulator's memory, and every client, as they are meant.
LEMMA MeantKeeps ==
  ASSUME PlcInv, SimInv, PlcNext
  PROVE  SimInv'
<1>1. PICK c \in Client : \/ Receive(c) \/ (\E k \in Calls(c, server) : MakeCall(c, k))
                          \/ (\E t \in Times : Serve(c, t))
  BY Zenon DEF PlcNext
<1>2. server' = server
  BY <1>1, Zenon DEF Receive, MakeCall, Serve, served
<1> SUFFICES ASSUME server = "sim" PROVE MemMeant' /\ \A d \in Client : ClientMeant(d)'
  BY <1>2, Zenon DEF SimInv
<1>3. CASE Receive(c)
  BY <1>3, ReceiveMeant, Zenon
<1>4. CASE \E k \in Calls(c, server) : MakeCall(c, k)
  BY <1>4, MakeCallMeant, Zenon
<1>5. ASSUME NEW t \in Times, Serve(c, t) PROVE MemMeant' /\ \A d \in Client : ClientMeant(d)'
  <2>1. stage[c] = "sent" \/ stage[c] = "twiddling"
    BY <1>5, Zenon DEF Serve
  <2> QED
    BY <1>5, <2>1, ServeCallMeant, ServeTwiddleMeant, Zenon
<1> QED
  BY <1>1, <1>3, <1>4, <1>5, Zenon

\* Nothing changes.
LEMMA MeantStutters == PlcInv /\ SimInv /\ UNCHANGED plcVars => SimInv'
<1> SUFFICES ASSUME PlcInv, SimInv, UNCHANGED plcVars PROVE SimInv'
  OBVIOUS
<1>1. /\ server' = server /\ mem' = mem /\ meant' = meant /\ stage' = stage /\ current' = current
      /\ datagram' = datagram /\ response' = response /\ result' = result /\ expected' = expected
  BY Zenon DEF plcVars, served
<1>2. \A d \in Client : Still(d)
  BY <1>1, Zenon DEF Still
<1>3. \A d \in Client : Lags(d)' <=> Lags(d)
  BY <1>2, StillLags, Zenon
<1>4. MemMeant => MemMeant'
  BY <1>1, <1>3, MemMeantKept, Zenon
<1>5. ASSUME NEW d \in Client, ClientMeant(d) PROVE ClientMeant(d)'
  <2>1. UnderWay(d)
    BY Zenon DEF PlcInv
  <2>2. meant'["DMBit"][FirstMeant(current[d])] = meant["DMBit"][FirstMeant(current[d])]
    BY <1>1, Zenon
  <2> QED
    BY <1>2, <1>5, <2>1, <2>2, ClientMeantKept, Zenon
<1> QED
  BY <1>1, <1>4, <1>5, Zenon DEF SimInv

\* The beginning: nothing is meant, nothing is written.
LEMMA MeantStarts == PlcInit => SimInv
<1> SUFFICES ASSUME PlcInit, server = "sim" PROVE MemMeant /\ \A c \in Client : ClientMeant(c)
  BY Zenon DEF SimInv
<1>1. Codes = [DM |-> MemoryAreaDMWord, DMBit |-> MemoryAreaDMBit]
  BY Zenon DEF Codes
<1>2. DOMAIN Codes = SimAreas
  BY <1>1, SMT DEF SimAreas
<1>3. mem = [a \in SimAreas |-> [k \in Cells |-> 0]] /\ meant = mem
  BY <1>2, Zenon DEF PlcInit, Cells
<1>4. 0 \in Nat /\ 0 \in {0, 1} /\ "DM" \in SimAreas /\ "DMBit" \in SimAreas
  BY SMT DEF SimAreas
<1>5. mem \in SimMems /\ \A a \in SimAreas, j \in Cells : mem[a][j] = 0
  BY <1>3, <1>4, Zenon DEF SimMems
<1>6. /\ "idle" # "answered" /\ "idle" # "twiddling" /\ "idle" # "twiddled"
      /\ "idle" \notin {"answered", "twiddling"} /\ "idle" \notin {"twiddling", "twiddled"}
  BY SMT
<1>7. \A c \in Client : stage[c] = "idle" /\ result[c] = Failure /\ expected[c] = Failure
  BY Zenon DEF PlcInit
<1>8. \A j : ~Lag(j)
  BY <1>6, <1>7, Zenon DEF Lag, LagsAt, Lags
<1>9. \A j \in Cells : CellMeant(j)
  BY <1>3, <1>4, <1>5, <1>8, Zenon DEF CellMeant
<1>10. \A c \in Client : ClientMeant(c)
  BY <1>6, <1>7, Zenon DEF ClientMeant
<1> QED
  BY <1>3, <1>5, <1>9, <1>10, Zenon DEF MemMeant

\* The simulator's memory and its answers are as they are meant, throughout.
THEOREM SimInvariance == PlcSpec => [](PlcInv /\ SimInv)
<1>1. PlcInv /\ SimInv /\ PlcInv' /\ [PlcNext]_plcVars => SimInv'
  BY MeantKeeps, MeantStutters, Zenon
<1> QED
  BY MeantStarts, PlcInvariance, <1>1, PTL DEF PlcSpec

\* The memory of the simulator is what the calls meant, bit for bit, unless a
\* toggle is half done, however the calls of the clients interleave; the
\* auxiliary area of the demonstration server is never written.
THEOREM MemoryIsMeantTheorem == PlcSpec => []MemoryIsMeant
<1>1. ASSUME PlcInv, SimInv PROVE MemoryIsMeant
  <2>1. ASSUME server = "sim", \A c \in Client : stage[c] \in {"answered", "twiddling"} => ~Toggled(current[c])
        PROVE  mem = meant
    <3>1. MemMeant
      BY <2>1, <1>1, Zenon DEF SimInv
    <3>2. \A j : ~Lag(j)
      BY <2>1, Zenon DEF Lag, LagsAt, Lags
    <3>3. \A j \in Cells : mem["DM"][j] = meant["DM"][j] /\ mem["DMBit"][j] = meant["DMBit"][j]
      BY <3>1, <3>2, Zenon DEF MemMeant, CellMeant
    <3>4. \A a \in SimAreas : \A j \in Cells : mem[a][j] = meant[a][j]
      BY <3>3, Zenon DEF SimAreas
    <3>5. mem \in SimMems /\ meant \in SimMems
      BY <3>1, Zenon DEF MemMeant
    <3>6. ASSUME NEW a \in SimAreas PROVE mem[a] = meant[a]
      <4> DEFINE x == mem[a]
                 y == meant[a]
      <4>1. x \in [Cells -> Nat] /\ y \in [Cells -> Nat] /\ \A j \in Cells : x[j] = y[j]
        BY <3>4, <3>5, Zenon DEF SimMems
      <4> HIDE DEF x, y
      <4>2. x = y
        BY <4>1, SMT
      <4> QED
        BY <4>2, Zenon DEF x, y
    <3> QED
      BY <3>5, <3>6, SMT DEF SimMems
  <2>2. server = "cmd" => \A k \in DOMAIN mem["AR"] : mem["AR"][k] = 0
    BY <1>1, Zenon DEF PlcInv, ReadOnlyKept
  <2> QED
    BY <2>1, <2>2, Zenon DEF MemoryIsMeant
<1>2. PlcInv /\ SimInv => MemoryIsMeant
  BY <1>1
<1> QED
  BY SimInvariance, <1>2, PTL

\* A call of the simulator returns what the memory held, and the clock
\* showed, when it was met, and fails exactly if it does not fit: through
\* the codecs of both sides, the shared buffer and every interleaving.
THEOREM ReadsMeaningTheorem == PlcSpec => []ReadsMeaning
<1>1. SimInv => ReadsMeaning
  BY Zenon DEF SimInv, ClientMeant, ReadsMeaning
<1> QED
  BY SimInvariance, <1>1, PTL
====

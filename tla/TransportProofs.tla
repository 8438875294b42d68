---------------------------- MODULE TransportProofs ----------------------------
(***************************************************************************)
(* Proofs of the safety properties of Transport, for every number of       *)
(* callers, requests, connections, retries and service identifiers.        *)
(***************************************************************************)
EXTENDS TransportInv, SequenceTheorems, TLAPS

\* Clients and connections name processes, and none of them names the other or
\* stands for an unlocked mutex.
LEMMA ProcsFacts ==
  /\ Clients \subseteq Procs
  /\ Conns \subseteq Procs
  /\ \A p \in Procs : p \in Clients <=> p \notin Conns
  /\ Nobody \notin Clients
BY ConstantsAssumption, Zenon DEF Procs

\* Zero is in the ranges that use it for nil or none.
LEMMA ZeroFacts ==
  /\ 0 \in 0..MaxRequests /\ 0 \in 0..MaxConns
  /\ \A n \in Nat : 0 \in 0..n
BY ConstantsAssumption

\* The values of the program counters.
LEMMA PcFacts ==
  /\ Pcs = {"idle", "register", "write", "wait", "cleanup", "lockConnect", "dial",
            "lockDisconnect", "close", "sweep", "backoff", "off", "select", "exit"}
  /\ ClientPcs \subseteq Pcs
  /\ HeartbeatPcs \cup SendPcs \subseteq Pcs
BY Zenon DEF Pcs, ClientPcs, HeartbeatPcs, SendPcs, OperatorPcs

\* Sequences of issued requests stay so when another request is issued.
LEMMA SeqIssued ==
  ASSUME NEW m \in Nat, NEW n \in Nat, m <= n
  PROVE  Seq(1..m) \subseteq Seq(1..n)
<1> SUFFICES ASSUME NEW s \in Seq(1..m) PROVE s \in Seq(1..n)
  BY Zenon
<1>1. /\ Len(s) \in Nat
      /\ s = [i \in 1..Len(s) |-> s[i]]
      /\ \A i \in 1..Len(s) : s[i] \in 1..m
  OBVIOUS
<1>2. \A i \in 1..Len(s) : s[i] \in 1..n
  BY <1>1
<1> QED
  BY <1>1, <1>2, IsASeq

\* Taking the first element off a sequence, and cutting one in two.
LEMMA TailFacts ==
  ASSUME NEW S, NEW s \in Seq(S), s # <<>>
  PROVE  /\ Head(s) \in S
         /\ Tail(s) \in Seq(S)
         /\ Len(s) # 1 => Tail(s) # <<>>
<1>1. Head(s) \in S /\ Tail(s) \in Seq(S) /\ Len(Tail(s)) = Len(s) - 1 /\ Len(s) \in Nat
  BY HeadTailProperties
<1> QED
  BY <1>1

\* Cutting a sequence after its k-th element.
LEMMA CutFacts ==
  ASSUME NEW S, NEW s \in Seq(S), NEW k \in 1..Len(s)
  PROVE  /\ SubSeq(s, 1, k) \in Seq(S)
         /\ SubSeq(s, 1, k) # <<>>
         /\ SubSeq(s, k + 1, Len(s)) \in Seq(S)
<1>1. Len(s) \in Nat /\ k \in Int /\ 1 <= k /\ k <= Len(s)
  OBVIOUS
<1>2. \A i \in 1..Len(s) : s[i] \in S
  OBVIOUS
<1>3. \A i \in 1..k : s[i] \in S
  BY <1>1, <1>2
<1>4. SubSeq(s, 1, k) \in Seq(S) /\ Len(SubSeq(s, 1, k)) = k
  BY <1>1, <1>3, SubSeqProperties
<1>5. \A i \in k + 1 .. Len(s) : s[i] \in S
  BY <1>1, <1>2
<1>6. SubSeq(s, k + 1, Len(s)) \in Seq(S)
  BY <1>1, <1>5, SubSeqProperties
<1> QED
  BY <1>1, <1>4, <1>6

\* A group of variables that does not change keeps its type.
LEMMA Keeps ==
  /\ FlagType /\ UNCHANGED flagVars => FlagType'
  /\ MapType /\ UNCHANGED mapVars => MapType'
  /\ ChanType /\ UNCHANGED chanVars => ChanType'
  /\ CallType /\ UNCHANGED callVars => CallType'
  /\ ReqType /\ UNCHANGED reqVars => ReqType'
  /\ LoopType /\ UNCHANGED <<loopVars, nextReq>> => LoopType'
  /\ NetType /\ UNCHANGED <<netVars, nextReq>> => NetType'
  /\ UNCHANGED mapVars => UNCHANGED nextReq
<1>1. FlagType /\ UNCHANGED flagVars => FlagType'
  BY Zenon DEF FlagType, flagVars
<1>2. MapType /\ UNCHANGED mapVars => MapType'
  BY Zenon DEF MapType, mapVars
<1>3. ChanType /\ UNCHANGED chanVars => ChanType'
  BY Zenon DEF ChanType, chanVars
<1>4. CallType /\ UNCHANGED callVars => CallType'
  BY Zenon DEF CallType, callVars
<1>5. ReqType /\ UNCHANGED reqVars => ReqType'
  BY Zenon DEF ReqType, reqVars
<1>6. LoopType /\ UNCHANGED <<loopVars, nextReq>> => LoopType'
  BY Zenon DEF LoopType, loopVars
<1>7. NetType /\ UNCHANGED <<netVars, nextReq>> => NetType'
  BY Zenon DEF NetType, netVars
<1>8. UNCHANGED mapVars => UNCHANGED nextReq
  BY Zenon DEF mapVars
<1> QED
  BY <1>1, <1>2, <1>3, <1>4, <1>5, <1>6, <1>7, <1>8, Zenon

\* nextSID stays in range.
LEMMA NextSIDType == \A s \in 0..MaxSid : NextSID(s) \in Sids
BY ConstantsAssumption DEF NextSID, Sids

\* A new activation of SendCommand by client or heartbeat p.
LEMMA TypeNewRequest ==
  ASSUME TypeInv, NEW p \in Procs, NewRequest(p), pc[p] # "off",
         UNCHANGED <<responseChans, reply, flagVars, chanVars, hbVars, callVars,
                     loopVars, netVars>>
  PROVE  TypeInv'
<1> USE DEF TypeInv, TypeOK, Shape
<1>1. /\ nextReq \in Nat /\ nextReq' = nextReq + 1 /\ nextReq' \in Reqs
      /\ nextReq' \in 0..MaxRequests
      /\ Seq(1..nextReq) \subseteq Seq(1..nextReq')
  <2>1. nextReq \in Nat /\ nextReq' = nextReq + 1 /\ nextReq' \in Reqs
      /\ nextReq' \in 0..MaxRequests
    BY ConstantsAssumption DEF NewRequest, MapType, Reqs
  <2> QED
    BY <2>1, SeqIssued
<1>2. /\ sidCounter' \in Sids /\ sidCounter' \in 0..MaxSid
      /\ sid' = [sid EXCEPT ![nextReq'] = sidCounter']
  BY NextSIDType, ConstantsAssumption DEF NewRequest, MapType, Sids
<1>3. MapType'
  BY <1>1, <1>2 DEF MapType
<1>4. req' = [req EXCEPT ![p] = nextReq'] /\ pc' = [pc EXCEPT ![p] = "register"]
  BY Zenon DEF NewRequest
<1>5. ReqType'
  BY <1>1, <1>4, Zenon DEF ReqType
<1>6. LoopType' /\ NetType'
  BY <1>1, Zenon DEF LoopType, NetType, loopVars, netVars
<1>7. pc' \in [Procs -> Pcs]
  BY <1>4, PcFacts, Zenon
<1>8. PcShape'
  BY <1>4 DEF PcShape, ClientPcs, SendPcs
<1>9. ReqShape'
  <2>1. \A q \in Procs : pc'[q] \in SendPcs => req'[q] \in 1..nextReq'
    BY <1>1, <1>4 DEF ReqShape, ReqType
  <2>2. \A m \in 1..nextReq' : sid'[m] \in Sids
    BY <1>1, <1>2 DEF ReqShape, MapType, Reqs
  <2> QED
    BY <2>1, <2>2, Zenon DEF ReqShape
<1>10. LoopShape'
  <2>1. UNCHANGED <<conn, loopPc, loopOn, loopAcc, loopCh>>
    BY Zenon DEF flagVars, loopVars
  <2>2. \A l \in Conns : l > conn => pc'[l] = "off"
    BY <1>4 DEF LoopShape
  <2>3. \A l \in Conns : loopPc[l] = "send" => loopCh[l] \in 1..nextReq'
    BY <1>1 DEF LoopShape
  <2> QED
    BY <2>1, <2>2, <2>3, Zenon DEF LoopShape
<1> QED
  BY <1>3, <1>5, <1>6, <1>7, <1>8, <1>9, <1>10, Keeps, Zenon DEF hbVars

\* SendCommand begins, or returns ErrNotConnected.
LEMMA TypeSendCommand ==
  ASSUME TypeInv, NEW p \in Clients, SendCommand(p) PROVE TypeInv'
<1>1. CASE ~connected
  <2> USE DEF TypeInv, TypeOK, Shape
  <2>1. UNCHANGED vars
    BY <1>1, Zenon DEF SendCommand, vars, reqVars
  <2> QED
    BY <2>1, Keeps, Zenon DEF vars, hbVars, mapVars, PcShape, ReqShape, LoopShape,
       flagVars, reqVars, loopVars
<1>2. CASE connected
  <2>1. NewRequest(p) /\ UNCHANGED responseChans
    BY <1>2, Zenon DEF SendCommand
  <2> QED
    BY <2>1, TypeNewRequest, ProcsFacts, Zenon DEF SendCommand
<1> QED
  BY <1>1, <1>2, Zenon

\* A client goes to a place outside SendCommand, the data stays as it is.
LEMMA ShapeClientMoves ==
  ASSUME TypeInv, NEW p \in Clients, NEW x \in {"idle"} \cup OperatorPcs,
         pc' = [pc EXCEPT ![p] = x],
         UNCHANGED <<nextReq, sid, req, conn, loopVars>>
  PROVE  pc' \in [Procs -> Pcs] /\ Shape'
<1> USE DEF TypeInv, TypeOK, Shape
<1>1. x \in Pcs /\ x \in ClientPcs /\ x \notin SendPcs /\ p \in Procs /\ p \notin Conns
  BY ProcsFacts, Zenon DEF Pcs, ClientPcs, OperatorPcs, SendPcs
<1>2. pc' \in [Procs -> Pcs]
  BY <1>1, Zenon
<1>3. PcShape'
  BY <1>1 DEF PcShape
<1>4. ReqShape'
  BY <1>1, Zenon DEF ReqShape
<1>5. LoopShape'
  BY <1>1, ProcsFacts, Zenon DEF LoopShape, loopVars
<1> QED
  BY <1>2, <1>3, <1>4, <1>5, Zenon

\* An operator calls Connect, Disconnect or Reconnect.
LEMMA TypeCall ==
  ASSUME TypeInv, NEW p \in Clients, NEW c \in Calls, Call(p, c) PROVE TypeInv'
<1> USE DEF TypeInv, TypeOK
<1>1. CallType'
  BY ConstantsAssumption, Zenon DEF Call, CallType, CallNames, Outcomes
<1>2. \E x \in {"idle"} \cup OperatorPcs : pc' = [pc EXCEPT ![p] = x]
  BY Zenon DEF Call, OperatorPcs
<1>3. UNCHANGED <<nextReq, sid, req, conn, loopVars>>
  BY Zenon DEF Call, mapVars, reqVars, flagVars
<1>4. pc' \in [Procs -> Pcs] /\ Shape'
  BY <1>2, <1>3, ShapeClientMoves, Zenon
<1> QED
  BY <1>1, <1>4, Keeps, Zenon DEF Call, hbVars

\* The variables a call of an operator has of its own.
LEMMA TypeResult ==
  ASSUME CallType, NEW p \in Clients, NEW o \in {"ok", "error"}, Result(p, o)
  PROVE  /\ call' \in [Clients -> CallNames]
         /\ attempt' \in [Clients -> Nat]
         /\ outcome' \in [Clients -> Outcomes]
BY Zenon DEF CallType, Result, CallNames, Outcomes

\* The count of reconnections.
LEMMA TypeCountReconnect ==
  ASSUME CallType, NEW p \in Clients, CountReconnect(p) PROVE reconnectCount' \in Nat
BY DEF CallType, CountReconnect

\* Connect up to the dial.
LEMMA TypeConnectLock ==
  ASSUME TypeInv, NEW p \in Clients, ConnectLock(p) PROVE TypeInv'
<1> USE DEF TypeInv, TypeOK
<1>1. FlagType'
  BY Zenon DEF ConnectLock, FlagType, flagVars
<1>2. CallType'
  <2>1. CASE Return(p, "ok") /\ CountReconnect(p)
    BY <2>1, TypeResult, TypeCountReconnect, Zenon DEF Return, CallType
  <2>2. CASE Goto(p, "dial") /\ UNCHANGED reconnectCount
    BY <2>2, Zenon DEF Goto, CallType
  <2> QED
    BY <2>1, <2>2, Zenon DEF ConnectLock
<1>3. \E x \in {"idle"} \cup OperatorPcs : pc' = [pc EXCEPT ![p] = x]
  BY Zenon DEF ConnectLock, Return, Goto, OperatorPcs
<1>4. UNCHANGED <<nextReq, sid, req, conn, loopVars>>
  BY Zenon DEF ConnectLock, mapVars, reqVars, flagVars
<1>5. pc' \in [Procs -> Pcs] /\ Shape'
  BY <1>3, <1>4, ShapeClientMoves, Zenon
<1> QED
  BY <1>1, <1>2, <1>5, Keeps, Zenon DEF ConnectLock, hbVars

\* Connect with a dial that fails.
LEMMA TypeConnectFail ==
  ASSUME TypeInv, NEW p \in Clients, ConnectFail(p) PROVE TypeInv'
<1> USE DEF TypeInv, TypeOK
<1>1. FlagType'
  BY Zenon DEF ConnectFail, FlagType
<1>2. CallType'
  <2>1. CASE Return(p, "error")
    BY <2>1, TypeResult, Zenon DEF Return, CallType, ConnectFail
  <2>2. CASE Goto(p, "backoff")
    BY <2>2, Zenon DEF Goto, CallType, ConnectFail
  <2> QED
    BY <2>1, <2>2, Zenon DEF ConnectFail
<1>3. \E x \in {"idle"} \cup OperatorPcs : pc' = [pc EXCEPT ![p] = x]
  BY Zenon DEF ConnectFail, Return, Goto, OperatorPcs
<1>4. UNCHANGED <<nextReq, sid, req, conn, loopVars>>
  BY Zenon DEF ConnectFail, mapVars, reqVars
<1>5. pc' \in [Procs -> Pcs] /\ Shape'
  BY <1>3, <1>4, ShapeClientMoves, Zenon
<1> QED
  BY <1>1, <1>2, <1>5, Keeps, Zenon DEF ConnectFail, hbVars

\* Reconnect between two attempts.
LEMMA TypeBackoff ==
  ASSUME TypeInv, NEW p \in Clients, Backoff(p) PROVE TypeInv'
<1> USE DEF TypeInv, TypeOK
<1>1. CallType'
  <2>1. CASE Return(p, "error")
    BY <2>1, TypeResult, Zenon DEF Return, CallType, Backoff
  <2>2. CASE attempt' = [attempt EXCEPT ![p] = @ + 1] /\ UNCHANGED <<call, outcome>>
    BY <2>2 DEF CallType, Backoff
  <2> QED
    BY <2>1, <2>2, Zenon DEF Backoff
<1>2. \E x \in {"idle"} \cup OperatorPcs : pc' = [pc EXCEPT ![p] = x]
  BY Zenon DEF Backoff, Return, OperatorPcs
<1>3. UNCHANGED <<nextReq, sid, req, conn, loopVars>>
  BY Zenon DEF Backoff, mapVars, reqVars, flagVars
<1>4. pc' \in [Procs -> Pcs] /\ Shape'
  BY <1>2, <1>3, ShapeClientMoves, Zenon
<1> QED
  BY <1>1, <1>4, Keeps, Zenon DEF Backoff, hbVars

\* Disconnect's return, into Reconnect or to the caller.
LEMMA TypeDisconnectReturns ==
  ASSUME CallType, NEW p \in Clients, DisconnectReturns(p), UNCHANGED reconnectCount
  PROVE  /\ CallType'
         /\ \E x \in {"idle", "lockConnect"} : pc' = [pc EXCEPT ![p] = x]
<1>1. CASE Return(p, "ok") \/ Return(p, "error")
  BY <1>1, TypeResult, Zenon DEF Return, CallType
<1>2. CASE Goto(p, "lockConnect")
  BY <1>2, Zenon DEF Goto, CallType
<1> QED
  BY <1>1, <1>2, Zenon DEF DisconnectReturns

\* Disconnect up to the close of the socket.
LEMMA TypeDisconnectLock ==
  ASSUME TypeInv, NEW p \in Clients, DisconnectLock(p) PROVE TypeInv'
<1> USE DEF TypeInv, TypeOK
<1>1. FlagType'
  BY Zenon DEF DisconnectLock, FlagType
<1>2. CallType' /\ \E x \in {"idle"} \cup OperatorPcs : pc' = [pc EXCEPT ![p] = x]
  <2>1. CASE DisconnectReturns(p)
    BY <2>1, TypeDisconnectReturns, Zenon DEF DisconnectLock, OperatorPcs
  <2>2. CASE Goto(p, "close")
    BY <2>2, Zenon DEF Goto, CallType, DisconnectLock, OperatorPcs
  <2> QED
    BY <2>1, <2>2, Zenon DEF DisconnectLock
<1>3. UNCHANGED <<nextReq, sid, req, conn, loopVars>>
  BY Zenon DEF DisconnectLock, mapVars, reqVars
<1>4. pc' \in [Procs -> Pcs] /\ Shape'
  BY <1>2, <1>3, ShapeClientMoves, Zenon
<1>5. heartbeatRunning' \in BOOLEAN /\ stopHeartbeat' \in BOOLEAN
  BY Zenon DEF DisconnectLock
<1> QED
  BY <1>1, <1>2, <1>4, <1>5, Keeps, Zenon DEF DisconnectLock

\* Disconnect closes the socket.
LEMMA TypeDisconnectClose ==
  ASSUME TypeInv, NEW p \in Clients, DisconnectClose(p) PROVE TypeInv'
<1> USE DEF TypeInv, TypeOK
<1>1. FlagType' /\ CallType'
  <2>1. FlagType'
    BY Zenon DEF DisconnectClose, FlagType
  <2>2. CallType'
    BY Zenon DEF DisconnectClose, Goto, CallType
  <2> QED
    BY <2>1, <2>2, Zenon
<1>2. UNCHANGED nextReq
  BY Zenon DEF DisconnectClose, mapVars
<1>3. NetType'
  <2>1. <<>> \in Seq(1..nextReq)
    OBVIOUS
  <2>2. wire' \in [Conns -> Seq(1..nextReq')]
    BY <1>2, <2>1, Zenon DEF DisconnectClose, NetType
  <2>3. link' \in [Conns -> Links]
    BY Zenon DEF DisconnectClose, NetType, Links
  <2> QED
    BY <2>2, <2>3, Zenon DEF NetType
<1>4. \E x \in {"idle"} \cup OperatorPcs : pc' = [pc EXCEPT ![p] = x]
  BY Zenon DEF DisconnectClose, Goto, OperatorPcs
<1>5. UNCHANGED <<nextReq, sid, req, conn, loopVars>>
  BY Zenon DEF DisconnectClose, mapVars, reqVars
<1>6. pc' \in [Procs -> Pcs] /\ Shape'
  BY <1>4, <1>5, ShapeClientMoves, Zenon
<1> QED
  BY <1>1, <1>2, <1>3, <1>6, Keeps, Zenon DEF DisconnectClose, hbVars

\* Disconnect closes the registered channels.
LEMMA TypeDisconnectSweep ==
  ASSUME TypeInv, NEW p \in Clients, DisconnectSweep(p) PROVE TypeInv'
<1> USE DEF TypeInv, TypeOK
<1>1. FlagType'
  BY Zenon DEF DisconnectSweep, FlagType
<1>2. CallType' /\ \E x \in {"idle"} \cup OperatorPcs : pc' = [pc EXCEPT ![p] = x]
  BY TypeDisconnectReturns, Zenon DEF DisconnectSweep, OperatorPcs
<1>3. MapType'
  BY ConstantsAssumption DEF DisconnectSweep, MapType
<1>4. ChanType'
  <2>1. {responseChans[s] : s \in Sids} \ {0} \subseteq Reqs
    BY ConstantsAssumption, SMTT(20) DEF MapType, Reqs
  <2> QED
    BY <2>1, Zenon DEF DisconnectSweep, ChanType
<1>5. UNCHANGED <<nextReq, sid, req, conn, loopVars>>
  BY Zenon DEF DisconnectSweep, reqVars
<1>6. pc' \in [Procs -> Pcs] /\ Shape'
  BY <1>2, <1>5, ShapeClientMoves, Zenon
<1> QED
  BY <1>1, <1>2, <1>3, <1>4, <1>5, <1>6, Keeps, SMTT(20) DEF DisconnectSweep, hbVars

\* The new connection c is the first one whose goroutines have not started.
LEMMA TypeConnectDial ==
  ASSUME TypeInv, NEW p \in Clients, ConnectDial(p) PROVE TypeInv'
<1> USE DEF TypeInv, TypeOK, Shape
<1> DEFINE c == conn + 1
<1>1. /\ conn \in Nat /\ c \in Conns /\ c \in Procs /\ c # p /\ c \notin Clients
      /\ p \in Procs /\ p \notin Conns /\ conn' = c
      /\ c \in 0..MaxConns /\ loopPc[c] = "none" /\ pc[c] = "off"
  <2>1. conn \in 0..MaxConns /\ conn < MaxConns /\ conn' = c
    BY Zenon DEF ConnectDial, FlagType
  <2>2. conn \in Nat /\ c \in Conns /\ c \in 0..MaxConns /\ c > conn
    BY <2>1, ConstantsAssumption DEF Conns
  <2>3. loopPc[c] = "none" /\ pc[c] = "off"
    BY <2>2, Zenon DEF LoopShape
  <2> QED
    BY <2>1, <2>2, <2>3, ProcsFacts, Zenon
<1>2. FlagType'
  BY <1>1, Zenon DEF ConnectDial, FlagType
<1>3. CallType'
  BY TypeResult, TypeCountReconnect, Zenon DEF ConnectDial, CallType
<1>4. UNCHANGED <<nextReq, sid, req>>
  BY Zenon DEF ConnectDial, mapVars, reqVars
<1>5. LoopType'
  BY <1>4, Zenon DEF ConnectDial, LoopType, LoopPcs
<1>6. NetType'
  BY <1>4, Zenon DEF ConnectDial, NetType, Links
<1>7. heartbeatRunning' \in BOOLEAN /\ stopHeartbeat' \in BOOLEAN
  BY Zenon DEF ConnectDial
<1>8. PICK x \in {"off", "select"} : pc' = [pc EXCEPT ![p] = "idle", ![c] = x]
  <2>1. pc' = [pc EXCEPT ![p] = "idle",
                 ![c] = IF Heartbeat /\ ~heartbeatRunning THEN "select" ELSE pc[c]]
    BY <1>1, Zenon DEF ConnectDial
  <2> QED
    BY <2>1, <1>1, Zenon
<1>9. /\ pc'[p] = "idle" /\ pc'[c] = x
      /\ \A q \in Procs : q # p /\ q # c => pc'[q] = pc[q]
  BY <1>1, <1>8, Zenon
<1>10. pc' \in [Procs -> Pcs]
  BY <1>8, PcFacts, Zenon
<1>11. PcShape'
  BY <1>1, <1>9, ProcsFacts, Zenon DEF PcShape, ClientPcs, HeartbeatPcs
<1>12. ReqShape'
  BY <1>4, <1>9, PcFacts, Zenon DEF ReqShape, SendPcs
<1>13. LoopShape'
  <2>1. /\ loopPc' = [loopPc EXCEPT ![c] = "top"]
        /\ UNCHANGED <<loopOn, loopAcc, loopCh>>
    BY Zenon DEF ConnectDial
  <2>2. \A l \in Conns : l > conn' => loopPc'[l] = "none" /\ pc'[l] = "off"
    BY <2>1, <1>1, <1>9, ProcsFacts, SMTT(20) DEF LoopShape, LoopType, Conns
  <2>3. \A l \in Conns : l <= conn' => loopPc'[l] # "none"
    BY <2>1, <1>1 DEF LoopShape, LoopType, Conns
  <2>4. \A l \in Conns : loopPc'[l] = "read" => loopOn'[l] \in l..conn'
    BY <2>1, <1>1 DEF LoopShape, LoopType, Conns
  <2>5. \A l \in Conns : loopPc'[l] \in {"dispatch", "send"} => loopAcc'[l] # <<>>
    BY <2>1, <1>1, Zenon DEF LoopShape, LoopType
  <2>6. \A l \in Conns : loopPc'[l] = "send" => loopCh'[l] \in 1..nextReq'
    BY <2>1, <1>1, <1>4, Zenon DEF LoopShape, LoopType
  <2> QED
    BY <2>2, <2>3, <2>4, <2>5, <2>6, Zenon DEF LoopShape
<1> QED
  BY <1>2, <1>3, <1>4, <1>5, <1>6, <1>7, <1>10, <1>11, <1>12, <1>13, Keeps, Zenon
  DEF ConnectDial

\* SendCommand goes on to its next place.
LEMMA ShapeSendMoves ==
  ASSUME TypeInv, NEW p \in Procs, pc[p] \in SendPcs, NEW x \in SendPcs,
         pc' = [pc EXCEPT ![p] = x],
         UNCHANGED <<nextReq, sid, req, conn, loopVars>>
  PROVE  pc' \in [Procs -> Pcs] /\ Shape'
<1> USE DEF TypeInv, TypeOK, Shape
<1>1. x \in Pcs /\ x \in ClientPcs /\ x # "off" /\ pc[p] # "off"
  BY Zenon DEF Pcs, ClientPcs, SendPcs
<1>2. pc' \in [Procs -> Pcs]
  BY <1>1, Zenon
<1>3. PcShape'
  BY <1>1 DEF PcShape
<1>4. ReqShape'
  BY <1>1, Zenon DEF ReqShape
<1>5. LoopShape'
  BY <1>1, ProcsFacts, Zenon DEF LoopShape, loopVars
<1> QED
  BY <1>2, <1>3, <1>4, <1>5, Zenon

\* SendCommand registers its channel.
LEMMA TypeSendRegister ==
  ASSUME TypeInv, NEW p \in Procs, SendRegister(p) PROVE TypeInv'
<1> USE DEF TypeInv, TypeOK
<1>0. req[p] \in 1..nextReq /\ nextReq \in Nat
  BY DEF SendRegister, SendPcs, Shape, ReqShape, MapType
<1>1. MapType'
  <2>1. req[p] \in 0..nextReq
    BY <1>0
  <2>2. responseChans' \in [Sids -> 0..nextReq]
    BY <2>1, Zenon DEF SendRegister, MapType
  <2> QED
    BY <2>2, Zenon DEF SendRegister, MapType
<1>2. pc' = [pc EXCEPT ![p] = "write"] /\ pc[p] \in SendPcs /\ "write" \in SendPcs
  BY Zenon DEF SendRegister, SendPcs
<1>3. UNCHANGED <<nextReq, sid, req, conn, loopVars>>
  BY Zenon DEF SendRegister, reqVars, flagVars
<1>4. pc' \in [Procs -> Pcs] /\ Shape'
  BY <1>2, <1>3, ShapeSendMoves, Zenon
<1> QED
  BY <1>1, <1>3, <1>4, Keeps, Zenon DEF SendRegister, hbVars

\* SendCommand writes its frame.
LEMMA TypeSendWrite ==
  ASSUME TypeInv, NEW p \in Procs, SendWrite(p) PROVE TypeInv'
<1> USE DEF TypeInv, TypeOK
<1>1. /\ pc[p] \in SendPcs
      /\ \E x \in SendPcs : pc' = [pc EXCEPT ![p] = x]
  BY Zenon DEF SendWrite, SendPcs
<1>2. UNCHANGED <<nextReq, sid, req, conn, loopVars>>
  BY Zenon DEF SendWrite, reqVars, flagVars, mapVars
<1>3. pc' \in [Procs -> Pcs] /\ Shape'
  BY <1>1, <1>2, ShapeSendMoves, Zenon
<1>4. NetType'
  <2>1. req[p] \in 1..nextReq
    BY <1>1, Zenon DEF Shape, ReqShape
  <2>2. \/ wire' = [wire EXCEPT ![conn] = Append(@, req[p])] /\ conn # 0
        \/ wire' = wire
    BY Zenon DEF SendWrite
  <2>3. conn # 0 => conn \in Conns
    BY ConstantsAssumption DEF FlagType, Conns
  <2>4. conn \in Conns => Append(wire[conn], req[p]) \in Seq(1..nextReq)
    BY <2>1 DEF NetType
  <2>5. wire' \in [Conns -> Seq(1..nextReq)]
    BY <2>2, <2>3, <2>4, Zenon DEF NetType
  <2> QED
    BY <2>5, <1>2, Zenon DEF NetType, SendWrite
<1> QED
  BY <1>2, <1>3, <1>4, Keeps, Zenon DEF SendWrite, hbVars

\* SendCommand receives a frame.
LEMMA TypeSendReceive ==
  ASSUME TypeInv, NEW p \in Procs, SendReceive(p) PROVE TypeInv'
<1> USE DEF TypeInv, TypeOK
<1>1. pc[p] \in SendPcs /\ pc' = [pc EXCEPT ![p] = "cleanup"] /\ "cleanup" \in SendPcs
  BY Zenon DEF SendReceive, SendPcs
<1>2. UNCHANGED <<nextReq, sid, req, conn, loopVars>>
  BY Zenon DEF SendReceive, flagVars, mapVars
<1>3. pc' \in [Procs -> Pcs] /\ Shape'
  BY <1>1, <1>2, ShapeSendMoves, Zenon
<1>4. req[p] \in Reqs
  BY <1>1, ConstantsAssumption DEF Shape, ReqShape, MapType, Reqs
<1>5. ReqType'
  <2>1. chanBuf[req[p]] \in 0..MaxRequests
    BY <1>4, Zenon DEF ChanType
  <2> QED
    BY <2>1, Zenon DEF ReqType, SendReceive
<1>6. ChanType'
  BY ZeroFacts, Zenon DEF ChanType, SendReceive
<1> QED
  BY <1>2, <1>3, <1>5, <1>6, Keeps, Zenon DEF SendReceive, hbVars

\* SendCommand stops waiting.
LEMMA TypeSendGiveUp ==
  ASSUME TypeInv, NEW p \in Procs, SendGiveUp(p) PROVE TypeInv'
<1> USE DEF TypeInv, TypeOK
<1>1. pc[p] \in SendPcs /\ pc' = [pc EXCEPT ![p] = "cleanup"] /\ "cleanup" \in SendPcs
  BY Zenon DEF SendGiveUp, SendPcs
<1>2. UNCHANGED <<nextReq, sid, req, conn, loopVars>>
  BY Zenon DEF SendGiveUp, flagVars, mapVars, reqVars
<1>3. pc' \in [Procs -> Pcs] /\ Shape'
  BY <1>1, <1>2, ShapeSendMoves, Zenon
<1> QED
  BY <1>2, <1>3, Keeps, Zenon DEF SendGiveUp, hbVars

\* The deferred delete of SendCommand.
LEMMA TypeSendCleanup ==
  ASSUME TypeInv, NEW p \in Procs, SendCleanup(p) PROVE TypeInv'
<1> USE DEF TypeInv, TypeOK
<1>1. MapType'
  <2>1. 0 \in 0..nextReq
    BY ZeroFacts DEF MapType
  <2>2. responseChans' \in [Sids -> 0..nextReq]
    BY <2>1, Zenon DEF SendCleanup, MapType
  <2> QED
    BY <2>2, Zenon DEF SendCleanup, MapType
<1>2. ReqType'
  BY ZeroFacts, Zenon DEF SendCleanup, ReqType
<1>3. UNCHANGED <<nextReq, sid, conn, loopVars>>
  BY Zenon DEF SendCleanup, flagVars
<1>4. PICK x \in {"idle", "select"} :
        pc' = [pc EXCEPT ![p] = x] /\ (x = "idle" <=> p \in Clients)
  BY Zenon DEF SendCleanup, Resume
<1>5. pc[p] # "off" /\ x \notin SendPcs
  BY Zenon DEF SendCleanup, SendPcs
<1>6. pc' \in [Procs -> Pcs]
  BY <1>4, PcFacts, Zenon
<1>7. PcShape'
  BY <1>4, ProcsFacts, SMTT(20) DEF Shape, PcShape, ClientPcs, HeartbeatPcs
<1>8. ReqShape'
  BY <1>3, <1>4, <1>5, Zenon DEF SendCleanup, Shape, ReqShape, ReqType
<1>9. LoopShape'
  BY <1>3, <1>4, <1>5, ProcsFacts, Zenon DEF Shape, LoopShape, loopVars
<1> QED
  BY <1>1, <1>2, <1>3, <1>6, <1>7, <1>8, <1>9, Keeps, Zenon DEF SendCleanup, hbVars, Shape

\* The steps of readLoop leave the processes alone.
LEMMA ShapeLoopMoves ==
  ASSUME TypeInv, UNCHANGED <<pc, nextReq, sid, req>>
  PROVE  PcShape' /\ ReqShape' /\ pc' \in [Procs -> Pcs]
BY Zenon DEF TypeInv, TypeOK, Shape, PcShape, ReqShape

\* The head of readLoop.
LEMMA TypeLoopTop ==
  ASSUME TypeInv, NEW l \in Conns, LoopTop(l) PROVE TypeInv'
<1> USE DEF TypeInv, TypeOK
<1>1. UNCHANGED <<pc, nextReq, sid, req, conn, loopAcc, loopCh>>
  BY Zenon DEF LoopTop, flagVars, mapVars, reqVars
<1>2. LoopType'
  BY <1>1, ZenonT(30) DEF LoopTop, LoopType, LoopPcs, FlagType
<1>3. LoopShape'
  <2>1. l <= conn /\ conn \in l..conn
    <3>1. conn \in Int /\ l \in Int
      BY ConstantsAssumption, SMTT(20) DEF FlagType, Conns
    <3>2. ~(l > conn)
      BY Zenon DEF LoopTop, Shape, LoopShape
    <3> QED
      BY <3>1, <3>2
  <2>2. \A k \in Conns : k # l => loopPc'[k] = loopPc[k] /\ loopOn'[k] = loopOn[k]
    BY Zenon DEF LoopTop, LoopType
  <2>3. loopPc'[l] \in {"check", "read"} /\ (loopPc'[l] = "read" => loopOn'[l] = conn)
    BY Zenon DEF LoopTop, LoopType
  <2> QED
    BY <1>1, <2>1, <2>2, <2>3, Zenon DEF Shape, LoopShape
<1> QED
  BY <1>1, <1>2, <1>3, ShapeLoopMoves, Keeps, Zenon DEF LoopTop, hbVars, Shape

\* readLoop gets data.
LEMMA TypeLoopRead ==
  ASSUME TypeInv, NEW l \in Conns, LoopRead(l) PROVE TypeInv'
<1> USE DEF TypeInv, TypeOK
<1> DEFINE w == wire[loopOn[l]]
<1>1. UNCHANGED <<pc, nextReq, sid, req, conn, loopCh, link>>
  BY Zenon DEF LoopRead, flagVars, mapVars, reqVars
<1>2. loopOn[l] \in Conns /\ w \in Seq(1..nextReq)
  <2>1. loopOn[l] \in l..conn
    BY Zenon DEF LoopRead, Shape, LoopShape
  <2>2. conn \in 0..MaxConns
    BY Zenon DEF FlagType
  <2>3. loopOn[l] \in Conns
    BY <2>1, <2>2, ConstantsAssumption DEF Conns
  <2> QED
    BY <2>3, Zenon DEF NetType
<1>3. PICK k \in 1..Len(w) :
        /\ loopAcc' = [loopAcc EXCEPT ![l] = SubSeq(w, 1, k)]
        /\ \/ wire' = [wire EXCEPT ![loopOn[l]] = SubSeq(w, k + 1, Len(w))]
           \/ wire' = wire
  BY Zenon DEF LoopRead
<1>4. /\ SubSeq(w, 1, k) \in Seq(1..nextReq) /\ SubSeq(w, 1, k) # <<>>
      /\ SubSeq(w, k + 1, Len(w)) \in Seq(1..nextReq)
  BY <1>2, <1>3, CutFacts, Zenon
<1>5. loopPc' = [loopPc EXCEPT ![l] = "dispatch"] /\ loopOn' = [loopOn EXCEPT ![l] = 0]
  BY Zenon DEF LoopRead
<1>6. LoopType'
  <2>1. loopAcc' \in [Conns -> Seq(1..nextReq')]
    BY <1>1, <1>3, <1>4, Zenon DEF LoopType
  <2>2. loopPc' \in [Conns -> LoopPcs]
    BY <1>5, Zenon DEF LoopType, LoopPcs
  <2>3. loopOn' \in [Conns -> 0..MaxConns]
    BY <1>5, ConstantsAssumption DEF LoopType
  <2> QED
    BY <1>1, <2>1, <2>2, <2>3, Zenon DEF LoopType
<1>7. NetType'
  BY <1>1, <1>2, <1>3, <1>4, Zenon DEF NetType
<1>8. LoopShape'
  <2>1. \A j \in Conns : j # l => /\ loopPc'[j] = loopPc[j] /\ loopOn'[j] = loopOn[j]
                                  /\ loopAcc'[j] = loopAcc[j]
    BY <1>3, <1>5, Zenon DEF LoopType
  <2>2. loopPc'[l] = "dispatch" /\ loopAcc'[l] = SubSeq(w, 1, k) /\ loopPc[l] = "read"
    BY <1>3, <1>5, Zenon DEF LoopType, LoopRead
  <2> QED
    BY <1>1, <1>4, <2>1, <2>2, Zenon DEF Shape, LoopShape
<1> QED
  BY <1>1, <1>6, <1>7, <1>8, ShapeLoopMoves, Keeps, Zenon DEF LoopRead, hbVars, Shape

\* readLoop gets an error.
LEMMA TypeLoopReadError ==
  ASSUME TypeInv, NEW l \in Conns, LoopReadError(l) PROVE TypeInv'
<1> USE DEF TypeInv, TypeOK
<1>1. UNCHANGED <<pc, nextReq, sid, req, conn, loopAcc, loopCh>>
  BY Zenon DEF LoopReadError, flagVars, mapVars, reqVars
<1>2. LoopType'
  BY <1>1, ZeroFacts, Zenon DEF LoopReadError, LoopType, LoopPcs
<1>3. LoopShape'
  <2>1. \A k \in Conns : k # l => loopPc'[k] = loopPc[k] /\ loopOn'[k] = loopOn[k]
    BY Zenon DEF LoopReadError, LoopType
  <2>2. loopPc'[l] \in {"check", "top"} /\ loopPc[l] = "read"
    BY Zenon DEF LoopReadError, LoopType
  <2> QED
    BY <1>1, <2>1, <2>2, Zenon DEF Shape, LoopShape
<1> QED
  BY <1>1, <1>2, <1>3, ShapeLoopMoves, Keeps, Zenon DEF LoopReadError, hbVars, Shape

\* The first frame of the accumulator is done with.
LEMMA TypeFrameDone ==
  ASSUME TypeInv, NEW l \in Conns, loopPc[l] \in {"dispatch", "send"}, FrameDone(l)
  PROVE  /\ loopAcc' \in [Conns -> Seq(1..nextReq)]
         /\ loopPc' \in [Conns -> LoopPcs]
         /\ loopPc'[l] \in {"top", "dispatch"}
         /\ loopPc'[l] = "dispatch" => loopAcc'[l] # <<>>
         /\ \A k \in Conns : k # l => loopPc'[k] = loopPc[k] /\ loopAcc'[k] = loopAcc[k]
<1> DEFINE a == loopAcc[l]
<1>1. a \in Seq(1..nextReq) /\ a # <<>>
  BY Zenon DEF TypeInv, TypeOK, LoopType, Shape, LoopShape
<1>2. Tail(a) \in Seq(1..nextReq) /\ (Len(a) # 1 => Tail(a) # <<>>)
  BY <1>1, TailFacts, Zenon
<1>4. loopPc \in [Conns -> LoopPcs] /\ loopAcc \in [Conns -> Seq(1..nextReq)]
  BY Zenon DEF TypeInv, TypeOK, LoopType
<1>5. "top" \in LoopPcs /\ "dispatch" \in LoopPcs
  BY Zenon DEF LoopPcs
<1> QED
  BY <1>2, <1>4, <1>5, Zenon DEF FrameDone

\* dispatchResponse under respMu.
LEMMA TypeDispatchTake ==
  ASSUME TypeInv, NEW l \in Conns, DispatchTake(l) PROVE TypeInv'
<1> USE DEF TypeInv, TypeOK
<1> DEFINE f == Head(loopAcc[l])
           s == sid[f]
<1>1. /\ UNCHANGED <<pc, nextReq, sid, req, conn, loopOn, sidCounter>>
      /\ loopPc[l] = "dispatch"
  BY Zenon DEF DispatchTake, flagVars, reqVars
<1>2. f \in 1..nextReq /\ s \in Sids
  <2>1. loopAcc[l] \in Seq(1..nextReq) /\ loopAcc[l] # <<>>
    BY <1>1, Zenon DEF LoopType, Shape, LoopShape
  <2>2. f \in 1..nextReq
    BY <2>1, TailFacts, Zenon
  <2> QED
    BY <2>2, Zenon DEF Shape, ReqShape
<1>3. CASE responseChans[s] = 0
  <2>1. FrameDone(l) /\ UNCHANGED <<responseChans, loopCh>>
    BY <1>3, Zenon DEF DispatchTake
  <2>2. LoopType'
    BY <1>1, <2>1, TypeFrameDone, SMTT(20) DEF LoopType
  <2>3. LoopShape'
    BY <1>1, <2>1, TypeFrameDone, Zenon DEF Shape, LoopShape
  <2>4. MapType'
    BY <1>1, <2>1, Zenon DEF MapType
  <2> QED
    BY <1>1, <2>2, <2>3, <2>4, ShapeLoopMoves, Keeps, Zenon DEF DispatchTake, hbVars, Shape
<1>4. CASE responseChans[s] # 0
  <2>1. /\ loopCh' = [loopCh EXCEPT ![l] = responseChans[s]]
        /\ responseChans' = [responseChans EXCEPT ![s] = 0]
        /\ loopPc' = [loopPc EXCEPT ![l] = "send"]
        /\ UNCHANGED loopAcc
    BY <1>4, Zenon DEF DispatchTake
  <2>2. nextReq \in Nat /\ responseChans \in [Sids -> 0..nextReq]
    BY DEF MapType
  <2>3. MapType'
    BY <1>1, <2>1, <2>2, ZeroFacts, Zenon DEF MapType
  <2>4. responseChans[s] \in 1..nextReq /\ responseChans[s] \in 0..MaxRequests
    BY <1>2, <1>4, <2>2, ConstantsAssumption DEF MapType
  <2>5. LoopType'
    BY <1>1, <2>1, <2>4, Zenon DEF LoopType, LoopPcs
  <2>6. LoopShape'
    <3>1. \A k \in Conns : k # l => loopPc'[k] = loopPc[k] /\ loopCh'[k] = loopCh[k]
      BY <2>1, Zenon DEF LoopType
    <3>2. loopPc'[l] = "send" /\ loopCh'[l] = responseChans[s]
      BY <2>1, Zenon DEF LoopType
    <3> QED
      BY <1>1, <2>1, <2>4, <3>1, <3>2, Zenon DEF Shape, LoopShape
  <2> QED
    BY <1>1, <2>3, <2>5, <2>6, ShapeLoopMoves, Keeps, Zenon DEF DispatchTake, hbVars, Shape
<1> QED
  BY <1>3, <1>4, Zenon

\* dispatchResponse sends.
LEMMA TypeDispatchSend ==
  ASSUME TypeInv, NEW l \in Conns, DispatchSend(l) PROVE TypeInv'
<1> USE DEF TypeInv, TypeOK
<1>1. /\ UNCHANGED <<pc, nextReq, sid, req, conn, loopOn>>
      /\ loopPc[l] = "send" /\ FrameDone(l)
      /\ loopCh' = [loopCh EXCEPT ![l] = 0]
  BY Zenon DEF DispatchSend, flagVars, mapVars, reqVars
<1>2. Head(loopAcc[l]) \in 0..MaxRequests
  <2>1. loopAcc[l] \in Seq(1..nextReq) /\ loopAcc[l] # <<>>
    BY <1>1, Zenon DEF LoopType, Shape, LoopShape
  <2>2. Head(loopAcc[l]) \in 1..nextReq
    BY <2>1, TailFacts, Zenon
  <2> QED
    BY <2>2, ConstantsAssumption DEF MapType
<1>3. ChanType'
  <2>1. chanBuf' \in [Reqs -> 0..MaxRequests]
    BY <1>2, Zenon DEF DispatchSend, ChanType
  <2> QED
    BY <2>1, Zenon DEF DispatchSend, ChanType
<1>4. LoopType'
  BY <1>1, TypeFrameDone, ZeroFacts, Zenon DEF LoopType
<1>5. LoopShape'
  <2>1. \A k \in Conns : k # l => loopCh'[k] = loopCh[k]
    BY <1>1, Zenon DEF LoopType
  <2> QED
    BY <1>1, <2>1, TypeFrameDone, ZenonT(30) DEF Shape, LoopShape
<1> QED
  BY <1>1, <1>3, <1>4, <1>5, ShapeLoopMoves, Keeps, Zenon DEF DispatchSend, hbVars, Shape

\* The deferred function of readLoop.
LEMMA TypeLoopCheckStore ==
  ASSUME TypeInv, NEW l \in Conns, LoopCheck(l) \/ LoopStore(l) PROVE TypeInv'
<1> USE DEF TypeInv, TypeOK
<1>1. UNCHANGED <<pc, nextReq, sid, req, conn, loopOn, loopAcc, loopCh>>
  BY Zenon DEF LoopCheck, LoopStore, flagVars, mapVars, reqVars
<1>2. PICK x \in {"store", "dead"} : loopPc' = [loopPc EXCEPT ![l] = x]
  BY Zenon DEF LoopCheck, LoopStore
<1>3. LoopType'
  BY <1>1, <1>2, Zenon DEF LoopType, LoopPcs
<1>4. LoopShape'
  <2>1. loopPc[l] \in {"check", "store"}
    BY Zenon DEF LoopCheck, LoopStore
  <2>2. loopPc'[l] = x /\ \A k \in Conns : k # l => loopPc'[k] = loopPc[k]
    BY <1>2, Zenon DEF LoopType
  <2> QED
    BY <1>1, <2>1, <2>2, Zenon DEF Shape, LoopShape
<1>5. FlagType'
  <2>1. CASE LoopCheck(l)
    BY <2>1, Keeps, Zenon DEF LoopCheck
  <2>2. CASE LoopStore(l)
    BY <2>2, Zenon DEF LoopStore, FlagType
  <2> QED
    BY <2>1, <2>2, Zenon
<1>6. UNCHANGED <<mapVars, chanVars, hbVars, callVars, reqVars, netVars>>
  BY Zenon DEF LoopCheck, LoopStore
<1> QED
  BY <1>1, <1>3, <1>4, <1>5, <1>6, ShapeLoopMoves, Keeps, Zenon DEF hbVars, Shape

\* A heartbeat goroutine that runs goes to another place of its loop.
LEMMA ShapeHeartbeatMoves ==
  ASSUME TypeInv, NEW h \in Conns, pc[h] # "off", NEW x \in HeartbeatPcs,
         pc' = [pc EXCEPT ![h] = x],
         UNCHANGED <<nextReq, sid, req, conn, loopVars>>
  PROVE  pc' \in [Procs -> Pcs] /\ Shape'
<1> USE DEF TypeInv, TypeOK, Shape
<1>1. x \in Pcs /\ x \notin SendPcs /\ h \in Procs /\ h \notin Clients
  BY ProcsFacts, Zenon DEF Pcs, HeartbeatPcs, SendPcs
<1>2. pc' \in [Procs -> Pcs]
  BY <1>1, Zenon
<1>3. PcShape'
  BY <1>1 DEF PcShape
<1>4. ReqShape'
  BY <1>1, SMTT(20) DEF ReqShape
<1>5. LoopShape'
  BY <1>1, ProcsFacts, Zenon DEF LoopShape, loopVars
<1> QED
  BY <1>2, <1>3, <1>4, <1>5, Zenon

\* A tick of the heartbeat.
LEMMA TypeHeartbeatTick ==
  ASSUME TypeInv, NEW h \in Conns, HeartbeatTick(h) PROVE TypeInv'
<1>1. CASE NewRequest(h) /\ UNCHANGED responseChans
  BY <1>1, TypeNewRequest, ProcsFacts, Zenon DEF HeartbeatTick
<1>2. CASE pc' = [pc EXCEPT ![h] = "exit"] /\ UNCHANGED <<mapVars, req>>
  <2>1. pc[h] # "off" /\ "exit" \in HeartbeatPcs
    BY Zenon DEF HeartbeatTick, HeartbeatPcs
  <2>2. UNCHANGED <<nextReq, sid, req, conn, loopVars>>
    BY <1>2, Zenon DEF HeartbeatTick, mapVars, flagVars
  <2>3. pc' \in [Procs -> Pcs] /\ Shape'
    BY <1>2, <2>1, <2>2, ShapeHeartbeatMoves, Zenon
  <2>4. UNCHANGED reqVars
    BY <1>2, Zenon DEF HeartbeatTick, reqVars
  <2> QED
    BY <1>2, <2>2, <2>3, <2>4, Keeps, Zenon DEF HeartbeatTick, hbVars, TypeInv, TypeOK
<1> QED
  BY <1>1, <1>2, Zenon DEF HeartbeatTick

\* The heartbeat takes the stop token, or has ended.
LEMMA TypeHeartbeatLeaves ==
  ASSUME TypeInv, NEW h \in Conns, HeartbeatStop(h) \/ HeartbeatExit(h) PROVE TypeInv'
<1>1. /\ pc[h] # "off"
      /\ \E x \in HeartbeatPcs : pc' = [pc EXCEPT ![h] = x]
  BY Zenon DEF HeartbeatStop, HeartbeatExit, HeartbeatPcs
<1>2. UNCHANGED <<nextReq, sid, req, conn, loopVars>>
  BY Zenon DEF HeartbeatStop, HeartbeatExit, mapVars, flagVars, reqVars
<1>3. pc' \in [Procs -> Pcs] /\ Shape'
  BY <1>1, <1>2, ShapeHeartbeatMoves, Zenon
<1>4. UNCHANGED <<flagVars, mapVars, chanVars, callVars, reqVars, netVars>>
  BY Zenon DEF HeartbeatStop, HeartbeatExit
<1>5. heartbeatRunning' \in BOOLEAN /\ stopHeartbeat' \in BOOLEAN
  BY Zenon DEF HeartbeatStop, HeartbeatExit, TypeInv, TypeOK
<1> QED
  BY <1>2, <1>3, <1>4, <1>5, Keeps, Zenon DEF TypeInv, TypeOK

\* The network loses an answer or a connection.
LEMMA TypeNetwork ==
  ASSUME TypeInv, NEW c \in Conns, NoAnswer(c) \/ PeerClose(c) PROVE TypeInv'
<1> USE DEF TypeInv, TypeOK
<1>1. UNCHANGED <<flagVars, mapVars, chanVars, hbVars, callVars, reqVars, loopVars, pc>>
  BY Zenon DEF NoAnswer, PeerClose
<1>2. UNCHANGED <<nextReq, sid, req, conn, loopPc, loopOn, loopAcc, loopCh>>
  BY <1>1, Zenon DEF flagVars, mapVars, reqVars, loopVars
<1>3. NetType'
  <2>1. CASE NoAnswer(c)
    <3>1. wire[c] \in Seq(1..nextReq) /\ wire[c] # <<>>
      BY <2>1, Zenon DEF NoAnswer, NetType
    <3>2. Tail(wire[c]) \in Seq(1..nextReq)
      BY <3>1, TailFacts, Zenon
    <3> QED
      BY <2>1, <3>2, <1>2, Zenon DEF NoAnswer, NetType
  <2>2. CASE PeerClose(c)
    BY <2>2, <1>2, SMTT(20) DEF PeerClose, NetType, Links
  <2> QED
    BY <2>1, <2>2, Zenon
<1>4. Shape'
  BY <1>1, <1>2, ShapeLoopMoves DEF Shape, LoopShape
<1> QED
  BY <1>1, <1>2, <1>3, <1>4, Keeps, Zenon DEF hbVars

\* Every step keeps the types, and the shape that goes with them.
LEMMA TypeStep == TypeInv /\ [Next]_vars => TypeInv'
<1> SUFFICES ASSUME TypeInv, [Next]_vars PROVE TypeInv'
  BY Zenon
<1>1. CASE UNCHANGED vars
  <2>1. UNCHANGED <<flagVars, mapVars, chanVars, hbVars, callVars, reqVars, loopVars,
                    netVars, pc>>
    BY <1>1, Zenon DEF vars
  <2>2. UNCHANGED <<nextReq, sid, req, conn, loopPc, loopOn, loopAcc, loopCh>>
    BY <2>1, SMTT(20) DEF flagVars, mapVars, reqVars, loopVars
  <2>3. Shape'
    BY <2>1, <2>2, ShapeLoopMoves, Zenon DEF Shape, LoopShape, TypeInv
  <2> QED
    BY <2>1, <2>2, <2>3, Keeps, Zenon DEF hbVars, TypeInv, TypeOK
<1>2. CASE Next
  BY <1>2, TypeSendCommand, TypeCall, TypeConnectLock, TypeConnectDial,
     TypeConnectFail, TypeBackoff, TypeDisconnectLock, TypeDisconnectClose,
     TypeDisconnectSweep, TypeSendRegister, TypeSendWrite, TypeSendReceive,
     TypeSendGiveUp, TypeSendCleanup, TypeLoopTop, TypeLoopRead,
     TypeLoopReadError, TypeDispatchTake, TypeDispatchSend, TypeLoopCheckStore,
     TypeHeartbeatTick, TypeHeartbeatLeaves, TypeNetwork, ZenonT(30)
  DEF Next, SendStep, OperatorStep, LoopStep, HeartbeatStep
<1> QED
  BY <1>1, <1>2, Zenon

\* NewTransport.
LEMMA TypeInit == Init => TypeInv
<1> SUFFICES ASSUME Init PROVE TypeInv
  BY Zenon
<1> USE DEF Init
<1>1. FlagType /\ CallType /\ ReqType
  BY ZeroFacts, Zenon DEF FlagType, CallType, ReqType, CallNames, Outcomes
<1>2. MapType
  <2>1. 0 \in 0..MaxSid /\ 0 \in 0..0
    BY ConstantsAssumption
  <2>2. responseChans \in [Sids -> 0..0]
    BY <2>1, Zenon
  <2>3. sid \in [Reqs -> 0..MaxSid]
    BY <2>1, Zenon
  <2> QED
    BY <2>1, <2>2, <2>3, ZeroFacts, Zenon DEF MapType
<1>6. ChanType
  BY ZeroFacts, Zenon DEF ChanType
<1>3. LoopType /\ NetType
  BY ZeroFacts DEF LoopType, NetType, LoopPcs, Links
<1>4. pc \in [Procs -> Pcs]
  BY PcFacts, Zenon
<1>5. Shape
  <2>1. PcShape
    BY ProcsFacts, Zenon DEF PcShape, ClientPcs, HeartbeatPcs
  <2>2. ReqShape
    BY DEF ReqShape, SendPcs
  <2>3. LoopShape
    <3>1. \A l \in Conns : loopPc[l] = "none" /\ pc[l] = "off"
      BY ProcsFacts, Zenon
    <3>2. \A l \in Conns : ~(l <= conn)
      BY ConstantsAssumption DEF Conns
    <3> QED
      BY <3>1, <3>2, Zenon DEF LoopShape
  <2> QED
    BY <2>1, <2>2, <2>3, Zenon DEF Shape
<1> QED
  BY <1>6, <1>1, <1>2, <1>3, <1>4, <1>5, Zenon DEF TypeInv, TypeOK

\* The variables of the transport keep their types; a request on the wire, in a
\* channel or in the hands of a goroutine has been issued.
THEOREM TypeCorrect == Spec => []TypeInv
BY TypeInit, TypeStep, PTL DEF Spec

-----------------------------------------------------------------------------
(* The life cycle: Connect, Disconnect, Reconnect, the read loops and the  *)
(* heartbeat keep the flags of the transport truthful.                     *)


Critical == {"dial", "close", "sweep"}

\* The lock: who holds t.mu when nobody, or somebody, is in a critical section.
LEMMA LockFacts ==
  ASSUME TypeInv, MuInv
  PROVE  /\ mu = Nobody => \A p \in Clients : pc[p] \notin Critical
         /\ \A p, q \in Clients : pc[p] \in Critical /\ pc[q] \in Critical => p = q
BY ProcsFacts, Zenon DEF MuInv, Critical, Nobody

\* A step that leaves flags, links and loops alone, and enters or leaves no
\* critical section, keeps the lifecycle invariant.
LEMMA LifecycleKept ==
  ASSUME LifecycleInv, UNCHANGED <<flagVars, link, loopPc, loopOn>>,
         \A p \in Clients : pc'[p] = pc[p] \/ {pc[p], pc'[p]} \cap Critical = {}
  PROVE  LifecycleInv'
<1>1. UNCHANGED <<connected, closed, conn, mu>>
  BY Zenon DEF flagVars
<1>2. \A p \in Clients : \A x \in Critical : pc'[p] = x <=> pc[p] = x
  BY Zenon
<1>3. MuInv'
  BY <1>1, <1>2, Zenon DEF LifecycleInv, MuInv, Critical
<1>4. FlagInv'
  BY <1>1, <1>2, Zenon DEF LifecycleInv, FlagInv, Critical
<1> QED
  BY <1>1, <1>3, <1>4, Zenon DEF LifecycleInv, ReaderAlive, OwnLoopLeavesBroken

\* A goroutine that moves between uncritical places keeps the lifecycle
\* invariant.
LEMMA LifecycleClientMove ==
  ASSUME TypeInv, LifecycleInv, UNCHANGED <<flagVars, link, loopPc, loopOn>>,
         NEW p \in Procs, NEW x \in Pcs \ Critical, pc[p] \notin Critical,
         pc' = [pc EXCEPT ![p] = x]
  PROVE  LifecycleInv'
<1>1. \A q \in Clients : pc'[q] = pc[q] \/ {pc[q], pc'[q]} \cap Critical = {}
  BY ProcsFacts, Zenon DEF TypeInv, TypeOK
<1> QED
  BY <1>1, LifecycleKept, Zenon

\* The steps of SendCommand.
LEMMA LifecycleSend ==
  ASSUME TypeInv, LifecycleInv, NEW p \in Procs, SendStep(p)
  PROVE  LifecycleInv'
<1>1. UNCHANGED <<flagVars, link, loopPc, loopOn>>
  BY Zenon DEF SendStep, SendRegister, SendWrite, SendReceive, SendGiveUp, SendCleanup,
         loopVars, netVars
<1>2. pc[p] \notin Critical
  BY Zenon DEF SendStep, SendRegister, SendWrite, SendReceive, SendGiveUp, SendCleanup, Critical
<1>3. \E x \in Pcs \ Critical : pc' = [pc EXCEPT ![p] = x]
  BY PcFacts, Zenon DEF SendStep, SendRegister, SendWrite, SendReceive, SendGiveUp, SendCleanup,
         Critical, Resume
<1> QED
  BY <1>1, <1>2, <1>3, LifecycleClientMove, Zenon

\* SendCommand only reads the flags.
LEMMA LifecycleSendCommand ==
  ASSUME TypeInv, LifecycleInv, NEW p \in Clients, SendCommand(p)
  PROVE  LifecycleInv'
<1>1. UNCHANGED <<flagVars, link, loopPc, loopOn>> /\ pc[p] \notin Critical
  BY Zenon DEF SendCommand, loopVars, netVars, Critical
<1>2. CASE UNCHANGED pc
  BY <1>1, <1>2, LifecycleKept, Zenon
<1>3. CASE pc' = [pc EXCEPT ![p] = "register"]
  <2>1. "register" \in Pcs \ Critical /\ p \in Procs
    BY PcFacts, ProcsFacts, Zenon DEF Critical
  <2> QED
    BY <1>1, <1>3, <2>1, LifecycleClientMove, Zenon
<1> QED
  BY <1>2, <1>3, Zenon DEF SendCommand, NewRequest

\* The steps of a heartbeat goroutine.
LEMMA LifecycleHeartbeat ==
  ASSUME TypeInv, LifecycleInv, NEW h \in Conns, HeartbeatStep(h)
  PROVE  LifecycleInv'
<1>1. UNCHANGED <<flagVars, link, loopPc, loopOn>> /\ pc[h] \notin Critical /\ h \in Procs
  BY ProcsFacts, Zenon DEF HeartbeatStep, HeartbeatTick, HeartbeatStop, HeartbeatExit,
         loopVars, netVars, Critical
<1>2. \E x \in Pcs \ Critical : pc' = [pc EXCEPT ![h] = x]
  BY PcFacts, Zenon DEF HeartbeatStep, HeartbeatTick, HeartbeatStop, HeartbeatExit,
         NewRequest, Critical
<1> QED
  BY <1>1, <1>2, LifecycleClientMove, Zenon

\* An operator calls Connect, Disconnect or Reconnect.
LEMMA LifecycleCall ==
  ASSUME TypeInv, LifecycleInv, NEW p \in Clients, NEW c \in Calls, Call(p, c)
  PROVE  LifecycleInv'
<1>1. UNCHANGED <<flagVars, link, loopPc, loopOn>> /\ pc[p] \notin Critical /\ p \in Procs
  BY ProcsFacts, Zenon DEF Call, loopVars, netVars, Critical
<1>2. \E x \in Pcs \ Critical : pc' = [pc EXCEPT ![p] = x]
  BY PcFacts, Zenon DEF Call, Critical
<1> QED
  BY <1>1, <1>2, LifecycleClientMove, Zenon

\* Reconnect sleeps without t.mu.
LEMMA LifecycleBackoff ==
  ASSUME TypeInv, LifecycleInv, NEW p \in Clients, Backoff(p)
  PROVE  LifecycleInv'
<1>1. UNCHANGED <<flagVars, link, loopPc, loopOn>> /\ pc[p] \notin Critical /\ p \in Procs
  BY ProcsFacts, Zenon DEF Backoff, loopVars, netVars, Critical
<1>2. \E x \in Pcs \ Critical : pc' = [pc EXCEPT ![p] = x]
  BY PcFacts, Zenon DEF Backoff, Return, Critical
<1> QED
  BY <1>1, <1>2, LifecycleClientMove, Zenon

\* What moving one client does to the program counters of the clients.
LEMMA ClientMoves ==
  ASSUME TypeInv, NEW p \in Clients, NEW x, pc' = [pc EXCEPT ![p] = x]
  PROVE  pc'[p] = x /\ \A q \in Clients : q # p => pc'[q] = pc[q]
BY ProcsFacts, Zenon DEF TypeInv, TypeOK

\* Connect clears closed under t.mu: by then the old socket is closed.
LEMMA LifecycleConnectLock ==
  ASSUME TypeInv, LifecycleInv, NEW p \in Clients, ConnectLock(p)
  PROVE  LifecycleInv'
<1>1. /\ UNCHANGED <<link, loopPc, loopOn>> /\ pc[p] = "lockConnect" /\ mu = Nobody
      /\ p \in Procs
  BY ProcsFacts, Zenon DEF ConnectLock, loopVars, netVars
<1>2. CASE UNCHANGED flagVars /\ pc' = [pc EXCEPT ![p] = "idle"]
  <2>1. "idle" \in Pcs \ Critical /\ pc[p] \notin Critical
    BY <1>1, PcFacts, Zenon DEF Critical
  <2> QED
    BY <1>1, <1>2, <2>1, LifecycleClientMove, Zenon
<1>3. CASE /\ ~connected /\ closed' = FALSE /\ mu' = p
           /\ UNCHANGED <<connected, conn>>
           /\ pc' = [pc EXCEPT ![p] = "dial"]
  <2>1. \A q \in Clients : pc[q] \notin Critical
    BY <1>1, LockFacts, Zenon DEF LifecycleInv
  <2>2. pc'[p] = "dial" /\ \A q \in Clients : q # p => pc'[q] = pc[q]
    BY <1>3, ClientMoves, Zenon
  <2>3. MuInv'
    BY <1>3, <2>1, <2>2, Zenon DEF MuInv, Critical
  <2>4. FlagInv'
    BY <1>3, <2>1, <2>2, Zenon DEF LifecycleInv, FlagInv, Critical
  <2>5. OwnLoopLeavesBroken'
    <3>1. closed => link[conn] = "closed"
      BY <2>1, Zenon DEF LifecycleInv, FlagInv, Critical
    <3>2. ~closed => OwnLoopLeavesBroken'
      BY <1>1, <1>3, Zenon DEF LifecycleInv, OwnLoopLeavesBroken
    <3>3. closed \/ ~closed
      BY Zenon
    <3> QED
      BY <1>1, <1>3, <3>1, <3>2, <3>3, Zenon DEF OwnLoopLeavesBroken
  <2> QED
    BY <1>3, <2>3, <2>4, <2>5, Zenon DEF LifecycleInv, ReaderAlive
<1> QED
  BY <1>2, <1>3, Zenon DEF ConnectLock, Return, Goto

\* A successful dial publishes a connection with a reader of its own.
LEMMA LifecycleConnectDial ==
  ASSUME TypeInv, LifecycleInv, NEW p \in Clients, ConnectDial(p)
  PROVE  LifecycleInv'
<1> DEFINE c == conn + 1
<1>1. /\ pc[p] = "dial" /\ conn < MaxConns /\ conn' = c /\ connected' = TRUE
      /\ mu' = Nobody /\ closed' = closed
      /\ loopPc' = [loopPc EXCEPT ![c] = "top"]
  BY Zenon DEF ConnectDial
<1>2. c \in Conns /\ c # 0
  BY <1>1, ConstantsAssumption DEF Conns, TypeInv, TypeOK, FlagType
<1>3. ~connected /\ ~closed
  BY <1>1, Zenon DEF LifecycleInv, FlagInv
<1>4. pc'[p] = "idle" /\ \A q \in Clients : q # p => pc'[q] = pc[q]
  BY <1>2, ProcsFacts, Zenon DEF ConnectDial, TypeInv, TypeOK
<1>5. \A q \in Clients : pc'[q] \notin Critical
  BY <1>1, <1>4, LockFacts, Zenon DEF LifecycleInv, Critical
<1>6. MuInv'
  BY <1>1, <1>5, ProcsFacts, Zenon DEF MuInv, Critical
<1>7. FlagInv'
  BY <1>1, <1>2, <1>3, <1>5, Zenon DEF FlagInv, Critical
<1>8. loopPc'[c] = "top"
  BY <1>1, <1>2, Zenon DEF TypeInv, TypeOK, LoopType
<1>9. ReaderAlive' /\ OwnLoopLeavesBroken'
  BY <1>1, <1>2, <1>8, Zenon DEF ReaderAlive, OwnLoopLeavesBroken
<1> QED
  BY <1>6, <1>7, <1>9, Zenon DEF LifecycleInv

\* The end of a critical section that leaves the flags as they are.
LEMMA LifecycleUnlock ==
  ASSUME TypeInv, LifecycleInv, NEW p \in Clients, pc[p] \in {"dial", "sweep"},
         UNCHANGED <<connected, closed, conn, link, loopPc, loopOn>>, mu' = Nobody,
         NEW x, x \notin Critical, pc' = [pc EXCEPT ![p] = x]
  PROVE  LifecycleInv'
<1>1. pc'[p] = x /\ \A q \in Clients : q # p => pc'[q] = pc[q]
  BY ClientMoves, Zenon
<1>2. \A q \in Clients : pc'[q] \notin Critical
  BY <1>1, LockFacts, Zenon DEF LifecycleInv, Critical
<1>3. \A q \in Clients : pc[q] # "close"
  BY LockFacts, Zenon DEF LifecycleInv, Critical
<1>4. MuInv'
  BY <1>2, ProcsFacts, Zenon DEF MuInv, Critical
<1>5. FlagInv'
  BY <1>2, <1>3, Zenon DEF LifecycleInv, FlagInv, Critical
<1> QED
  BY <1>4, <1>5, Zenon DEF LifecycleInv, ReaderAlive, OwnLoopLeavesBroken

\* A failed dial unlocks t.mu and leaves the flags as they are.
LEMMA LifecycleConnectFail ==
  ASSUME TypeInv, LifecycleInv, NEW p \in Clients, ConnectFail(p)
  PROVE  LifecycleInv'
<1>1. /\ pc[p] \in {"dial", "sweep"} /\ mu' = Nobody
      /\ UNCHANGED <<connected, closed, conn, link, loopPc, loopOn>>
  BY Zenon DEF ConnectFail, loopVars, netVars
<1>2. \E x : x \notin Critical /\ pc' = [pc EXCEPT ![p] = x]
  BY Zenon DEF ConnectFail, Goto, Return, Critical
<1> QED
  BY <1>1, <1>2, LifecycleUnlock, Zenon

\* The sweep unlocks t.mu and leaves the flags as they are.
LEMMA LifecycleDisconnectSweep ==
  ASSUME TypeInv, LifecycleInv, NEW p \in Clients, DisconnectSweep(p)
  PROVE  LifecycleInv'
<1>1. /\ pc[p] \in {"dial", "sweep"} /\ mu' = Nobody
      /\ UNCHANGED <<connected, closed, conn, link, loopPc, loopOn>>
  BY Zenon DEF DisconnectSweep, loopVars, netVars
<1>2. \E x : x \notin Critical /\ pc' = [pc EXCEPT ![p] = x]
  BY Zenon DEF DisconnectSweep, DisconnectReturns, Goto, Return, Critical
<1> QED
  BY <1>1, <1>2, LifecycleUnlock, Zenon

\* Disconnect sets closed before it closes the socket.
LEMMA LifecycleDisconnectLock ==
  ASSUME TypeInv, LifecycleInv, NEW p \in Clients, DisconnectLock(p)
  PROVE  LifecycleInv'
<1>1. /\ UNCHANGED <<connected, conn, link, loopPc, loopOn>>
      /\ pc[p] = "lockDisconnect" /\ mu = Nobody /\ p \in Procs
  BY ProcsFacts, Zenon DEF DisconnectLock, loopVars, netVars
<1>2. CASE UNCHANGED <<closed, mu>> /\ DisconnectReturns(p)
  <2>1. pc[p] \notin Critical /\ \E x \in Pcs \ Critical : pc' = [pc EXCEPT ![p] = x]
    BY <1>1, <1>2, PcFacts, Zenon DEF Critical, DisconnectReturns, Goto, Return
  <2> QED
    BY <1>1, <1>2, <2>1, LifecycleClientMove, Zenon DEF flagVars
<1>3. CASE connected /\ closed' = TRUE /\ mu' = p /\ pc' = [pc EXCEPT ![p] = "close"]
  <2>1. \A q \in Clients : pc[q] \notin Critical
    BY <1>1, LockFacts, Zenon DEF LifecycleInv
  <2>2. pc'[p] = "close" /\ \A q \in Clients : q # p => pc'[q] = pc[q]
    BY <1>3, ClientMoves, Zenon
  <2>3. MuInv'
    BY <1>3, <2>1, <2>2, Zenon DEF MuInv, Critical
  <2>4. FlagInv'
    BY <1>1, <1>3, <2>1, <2>2, Zenon DEF LifecycleInv, FlagInv, Critical
  <2> QED
    BY <1>3, <2>3, <2>4, Zenon DEF LifecycleInv, ReaderAlive, OwnLoopLeavesBroken
<1> QED
  BY <1>2, <1>3, Zenon DEF DisconnectLock, Goto

\* Disconnect closes the socket and clears connected.
LEMMA LifecycleDisconnectClose ==
  ASSUME TypeInv, LifecycleInv, NEW p \in Clients, DisconnectClose(p)
  PROVE  LifecycleInv'
<1>1. /\ UNCHANGED <<closed, conn, mu>> /\ pc[p] = "close" /\ connected' = FALSE
      /\ link' = [link EXCEPT ![conn] = "closed"]
      /\ pc' = [pc EXCEPT ![p] = "sweep"]
  BY Zenon DEF DisconnectClose, Goto
<1>2. closed /\ conn # 0
  BY <1>1, Zenon DEF LifecycleInv, FlagInv
<1>3. link'[conn] = "closed"
  BY <1>1, <1>2 DEF TypeInv, TypeOK, NetType, FlagType, Conns
<1>4. pc'[p] = "sweep" /\ \A q \in Clients : q # p => pc'[q] = pc[q]
  BY <1>1, ClientMoves, Zenon
<1>5. \A q \in Clients : q # p => pc'[q] \notin Critical
  BY <1>1, <1>4, LockFacts, Zenon DEF LifecycleInv, Critical
<1>6. MuInv'
  BY <1>1, <1>4, <1>5, Zenon DEF LifecycleInv, MuInv, Critical
<1>7. FlagInv'
  BY <1>1, <1>2, <1>3, <1>4, <1>5, Zenon DEF FlagInv, Critical
<1> QED
  BY <1>1, <1>2, <1>6, <1>7, Zenon DEF LifecycleInv, ReaderAlive, OwnLoopLeavesBroken

\* The steps of a read loop that leave the flags and the links alone.
LEMMA LifecycleLoopMove ==
  ASSUME TypeInv, LifecycleInv, UNCHANGED <<flagVars, link, pc>>,
         NEW l \in Conns, NEW x, loopPc' = [loopPc EXCEPT ![l] = x],
         \A k \in Conns : k # l => loopOn'[k] = loopOn[k],
         x = "read" => loopOn'[l] = conn,
         x \in {"none", "dead"} => closed \/ ~connected,
         x \in {"check", "store", "dead"} /\ l = conn /\ ~closed => link[conn] # "open"
  PROVE  LifecycleInv'
<1>1. UNCHANGED <<connected, closed, conn, mu>>
  BY Zenon DEF flagVars
<1>2. MuInv' /\ FlagInv'
  BY <1>1, Zenon DEF LifecycleInv, MuInv, FlagInv
<1>3. loopPc'[l] = x /\ \A k \in Conns : k # l => loopPc'[k] = loopPc[k]
  BY Zenon DEF TypeInv, TypeOK, LoopType
<1>4. conn # 0 => conn \in Conns
  BY DEF TypeInv, TypeOK, FlagType, Conns
<1>5. ReaderAlive'
  <2>1. CASE conn = l
    BY <1>1, <1>3, <2>1, Zenon DEF LifecycleInv, ReaderAlive
  <2>2. CASE conn # l
    BY <1>1, <1>3, <1>4, <2>2, Zenon DEF LifecycleInv, ReaderAlive
  <2> QED
    BY <2>1, <2>2, Zenon
<1>6. OwnLoopLeavesBroken'
  <2>1. CASE conn = l
    BY <1>1, <1>3, <2>1, Zenon DEF OwnLoopLeavesBroken
  <2>2. CASE conn # l
    BY <1>1, <1>3, <1>4, <2>2, Zenon DEF LifecycleInv, OwnLoopLeavesBroken
  <2> QED
    BY <2>1, <2>2, Zenon
<1> QED
  BY <1>2, <1>5, <1>6, Zenon DEF LifecycleInv

\* The head of readLoop leaves only when closed is set.
LEMMA LifecycleLoopTop ==
  ASSUME TypeInv, LifecycleInv, NEW l \in Conns, LoopTop(l)
  PROVE  LifecycleInv'
<1>1. UNCHANGED <<flagVars, link, pc>>
  BY Zenon DEF LoopTop, netVars
<1>2. CASE closed /\ loopPc' = [loopPc EXCEPT ![l] = "check"] /\ UNCHANGED loopOn
  BY <1>1, <1>2, LifecycleLoopMove, Zenon
<1>3. CASE loopPc' = [loopPc EXCEPT ![l] = "read"] /\ loopOn' = [loopOn EXCEPT ![l] = conn]
  <2>1. loopOn'[l] = conn /\ \A k \in Conns : k # l => loopOn'[k] = loopOn[k]
    BY <1>3, Zenon DEF TypeInv, TypeOK, LoopType
  <2> QED
    BY <1>1, <1>3, <2>1, LifecycleLoopMove, Zenon
<1> QED
  BY <1>2, <1>3, Zenon DEF LoopTop

\* readLoop gets data.
LEMMA LifecycleLoopRead ==
  ASSUME TypeInv, LifecycleInv, NEW l \in Conns, LoopRead(l)
  PROVE  LifecycleInv'
<1>1. UNCHANGED <<flagVars, link, pc>> /\ loopPc' = [loopPc EXCEPT ![l] = "dispatch"]
  BY Zenon DEF LoopRead
<1>2. \A k \in Conns : k # l => loopOn'[k] = loopOn[k]
  BY Zenon DEF LoopRead, TypeInv, TypeOK, LoopType
<1> QED
  BY <1>1, <1>2, LifecycleLoopMove, Zenon

\* readLoop gives up on its own connection only when the link is broken.
LEMMA LifecycleLoopReadError ==
  ASSUME TypeInv, LifecycleInv, NEW l \in Conns, LoopReadError(l)
  PROVE  LifecycleInv'
<1>1. UNCHANGED <<flagVars, link, pc>> /\ loopPc[l] = "read"
  BY Zenon DEF LoopReadError, netVars
<1>2. \A k \in Conns : k # l => loopOn'[k] = loopOn[k]
  BY SMTT(20) DEF LoopReadError, TypeInv, TypeOK, LoopType
<1>3. CASE loopPc' = [loopPc EXCEPT ![l] = "top"]
  BY <1>1, <1>2, <1>3, LifecycleLoopMove, Zenon
<1>4. CASE link[loopOn[l]] # "open" /\ loopPc' = [loopPc EXCEPT ![l] = "check"]
  <2>1. l = conn => loopOn[l] = conn
    BY <1>1 DEF TypeInv, Shape, LoopShape, Conns
  <2> QED
    BY <1>1, <1>2, <1>4, <2>1, LifecycleLoopMove, ZenonT(30)
<1> QED
  BY <1>3, <1>4, Zenon DEF LoopReadError

\* dispatchResponse looks at no flag.
LEMMA LifecycleDispatch ==
  ASSUME TypeInv, LifecycleInv, NEW l \in Conns, DispatchTake(l) \/ DispatchSend(l)
  PROVE  LifecycleInv'
<1>1. UNCHANGED <<flagVars, link, pc, loopOn>>
  BY SMTT(20) DEF DispatchTake, DispatchSend, netVars
<1>2. \E x \in {"top", "dispatch", "send"} : loopPc' = [loopPc EXCEPT ![l] = x]
  BY Zenon DEF DispatchTake, DispatchSend, FrameDone
<1> QED
  BY <1>1, <1>2, LifecycleLoopMove, Zenon

\* The deferred function looks at the flags; the loop ends at once only when
\* there is nothing to clear.
LEMMA LifecycleLoopCheck ==
  ASSUME TypeInv, LifecycleInv, NEW l \in Conns, LoopCheck(l)
  PROVE  LifecycleInv'
<1>1. UNCHANGED <<flagVars, link, pc, loopOn>> /\ loopPc[l] = "check"
  BY Zenon DEF LoopCheck, netVars
<1>2. l = conn /\ ~closed => link[conn] # "open"
  BY <1>1, ConstantsAssumption DEF LifecycleInv, OwnLoopLeavesBroken, Conns
<1>3. CASE connected /\ ~closed
  <2>1. loopPc' = [loopPc EXCEPT ![l] = "store"]
    BY <1>3, Zenon DEF LoopCheck
  <2> QED
    BY <1>1, <1>2, <2>1, LifecycleLoopMove, Zenon
<1>4. CASE ~(connected /\ ~closed)
  <2>1. loopPc' = [loopPc EXCEPT ![l] = "dead"]
    BY <1>4, Zenon DEF LoopCheck
  <2> QED
    BY <1>1, <1>2, <1>4, <2>1, LifecycleLoopMove, Zenon
<1> QED
  BY <1>3, <1>4, Zenon

\* The deferred function clears connected, whoever's it is.
LEMMA LifecycleLoopStore ==
  ASSUME TypeInv, LifecycleInv, NEW l \in Conns, LoopStore(l)
  PROVE  LifecycleInv'
<1>1. /\ UNCHANGED <<closed, conn, mu, link, pc, loopOn>> /\ connected' = FALSE
      /\ loopPc[l] = "store" /\ loopPc' = [loopPc EXCEPT ![l] = "dead"]
  BY Zenon DEF LoopStore, netVars
<1>2. MuInv' /\ FlagInv'
  BY <1>1, Zenon DEF LifecycleInv, MuInv, FlagInv
<1>3. loopPc'[l] = "dead" /\ \A k \in Conns : k # l => loopPc'[k] = loopPc[k]
  BY <1>1, Zenon DEF TypeInv, TypeOK, LoopType
<1>4. OwnLoopLeavesBroken'
  <2>1. CASE conn = l
    BY <1>1, <1>3, <2>1, Zenon DEF LifecycleInv, OwnLoopLeavesBroken
  <2>2. CASE conn # l
    <3>1. conn # 0 => conn \in Conns
      BY DEF TypeInv, TypeOK, FlagType, Conns
    <3> QED
      BY <1>1, <1>3, <2>2, <3>1, Zenon DEF LifecycleInv, OwnLoopLeavesBroken
  <2> QED
    BY <2>1, <2>2, Zenon
<1> QED
  BY <1>1, <1>2, <1>4, Zenon DEF LifecycleInv, ReaderAlive

\* The network.
LEMMA LifecycleNetwork ==
  ASSUME TypeInv, LifecycleInv, NEW c \in Conns, NoAnswer(c) \/ PeerClose(c)
  PROVE  LifecycleInv'
<1>1. UNCHANGED <<flagVars, pc, loopPc, loopOn>>
  BY Zenon DEF NoAnswer, PeerClose, loopVars
<1>2. CASE UNCHANGED link
  BY <1>1, <1>2, LifecycleKept, Zenon
<1>3. CASE link[c] = "open" /\ link' = [link EXCEPT ![c] = "peerClosed"]
  <2>1. \A d \in Conns : link'[d] = link[d] \/ (link[d] = "open" /\ link'[d] = "peerClosed")
    BY <1>3, Zenon DEF TypeInv, TypeOK, NetType
  <2>2. conn # 0 => conn \in Conns
    BY DEF TypeInv, TypeOK, FlagType, Conns
  <2>3. MuInv' /\ ReaderAlive'
    BY <1>1, Zenon DEF flagVars, LifecycleInv, MuInv, ReaderAlive
  <2>4. FlagInv'
    BY <1>1, <2>1, <2>2, Zenon DEF flagVars, LifecycleInv, FlagInv
  <2>5. OwnLoopLeavesBroken'
    BY <1>1, <2>1, <2>2, Zenon DEF flagVars, LifecycleInv, OwnLoopLeavesBroken
  <2> QED
    BY <2>3, <2>4, <2>5, Zenon DEF LifecycleInv
<1> QED
  BY <1>2, <1>3, Zenon DEF NoAnswer, PeerClose

\* Every step keeps the lifecycle invariant.
LEMMA LifecycleStep == TypeInv /\ LifecycleInv /\ [Next]_vars => LifecycleInv'
<1> SUFFICES ASSUME TypeInv, LifecycleInv, [Next]_vars PROVE LifecycleInv'
  BY Zenon
<1>1. CASE UNCHANGED vars
  BY <1>1, LifecycleKept, SMTT(20) DEF vars, loopVars, netVars
<1>2. CASE Next
  BY <1>2, LifecycleSend, LifecycleSendCommand, LifecycleHeartbeat, LifecycleCall,
     LifecycleBackoff, LifecycleConnectLock, LifecycleConnectDial, LifecycleConnectFail,
     LifecycleDisconnectLock, LifecycleDisconnectClose, LifecycleDisconnectSweep,
     LifecycleLoopTop, LifecycleLoopRead, LifecycleLoopReadError, LifecycleDispatch,
     LifecycleLoopCheck, LifecycleLoopStore, LifecycleNetwork, SMTT(30)
  DEF Next, OperatorStep, LoopStep
<1> QED
  BY <1>1, <1>2, Zenon

\* A new transport is neither connected nor closed.
LEMMA LifecycleInit == Init => LifecycleInv
<1> SUFFICES ASSUME Init PROVE LifecycleInv
  BY Zenon
<1>1. \A p \in Clients : pc[p] = "idle" /\ p # Nobody
  BY ProcsFacts, Zenon DEF Init
<1> QED
  BY <1>1, Zenon DEF Init, LifecycleInv, MuInv, FlagInv, ReaderAlive, OwnLoopLeavesBroken

\* The flags tell the truth: t.mu is held exactly in the critical sections of
\* Connect and Disconnect, and closed, once Disconnect has let go of t.mu, means
\* a closed socket.
THEOREM LifecycleCorrect == Spec => []LifecycleInv
<1>1. Init => TypeInv /\ LifecycleInv
  BY TypeInit, LifecycleInit, Zenon
<1>2. TypeInv /\ LifecycleInv /\ [Next]_vars => (TypeInv /\ LifecycleInv)'
  BY TypeStep, LifecycleStep, Zenon
<1> QED
  BY <1>1, <1>2, PTL DEF Spec

\* A transport that reports connected has a live reader on its connection,
\* for any number of connections, callers and retries.
THEOREM ReaderStaysAlive == Spec => []ReaderAlive
<1>1. LifecycleInv => ReaderAlive
  BY Zenon DEF LifecycleInv
<1> QED
  BY <1>1, LifecycleCorrect, PTL

\* The read loop of the current connection gives up on a broken link only.
THEOREM LoopLeavesBrokenLink == Spec => []OwnLoopLeavesBroken
<1>1. LifecycleInv => OwnLoopLeavesBroken
  BY Zenon DEF LifecycleInv
<1> QED
  BY <1>1, LifecycleCorrect, PTL

-----------------------------------------------------------------------------
(***************************************************************************)
(* At most one heartbeat                                                   *)
(***************************************************************************)

\* Steps that neither start nor end a heartbeat goroutine.
LEMMA HeartbeatsKept ==
  ASSUME OneHeartbeat, UNCHANGED heartbeatRunning,
         \A h \in Conns : pc'[h] = "off" <=> pc[h] = "off"
  PROVE  OneHeartbeat'
<1>1. Heartbeats' = Heartbeats
  BY Zenon DEF Heartbeats
<1> QED
  BY <1>1, Zenon DEF OneHeartbeat

\* A goroutine that moves without starting or ending keeps the count.
LEMMA HeartbeatsMove ==
  ASSUME TypeInv, OneHeartbeat, UNCHANGED heartbeatRunning,
         NEW p \in Procs, NEW x, pc' = [pc EXCEPT ![p] = x],
         p \in Conns => x # "off" /\ pc[p] # "off"
  PROVE  OneHeartbeat'
<1>1. \A h \in Conns : pc'[h] = "off" <=> pc[h] = "off"
  BY ProcsFacts, Zenon DEF TypeInv, TypeOK
<1> QED
  BY <1>1, HeartbeatsKept, Zenon

\* SendCommand does not end the heartbeat that runs it.
LEMMA HeartbeatSend ==
  ASSUME TypeInv, OneHeartbeat, NEW p \in Procs, SendStep(p)
  PROVE  OneHeartbeat'
<1>1. heartbeatRunning' = heartbeatRunning /\ pc[p] # "off"
  BY Zenon DEF SendStep, SendRegister, SendWrite, SendReceive, SendGiveUp, SendCleanup, hbVars
<1>2. \E x : x # "off" /\ pc' = [pc EXCEPT ![p] = x]
  BY Zenon DEF SendStep, SendRegister, SendWrite, SendReceive, SendGiveUp, SendCleanup, Resume
<1> QED
  BY <1>1, <1>2, HeartbeatsMove, Zenon

\* The clients' own calls, all but a successful dial.
LEMMA HeartbeatCalls ==
  ASSUME TypeInv, OneHeartbeat, NEW p \in Clients,
         \/ SendCommand(p) \/ ConnectLock(p) \/ ConnectFail(p) \/ Backoff(p)
         \/ DisconnectLock(p) \/ DisconnectClose(p) \/ DisconnectSweep(p)
         \/ \E c \in Calls : Call(p, c)
  PROVE  OneHeartbeat'
<1>1. heartbeatRunning' = heartbeatRunning
  BY Zenon DEF SendCommand, ConnectLock, ConnectFail, Backoff, DisconnectLock,
         DisconnectClose, DisconnectSweep, Call, hbVars
<1>2. UNCHANGED pc \/ \E x : pc' = [pc EXCEPT ![p] = x]
  BY Zenon DEF SendCommand, NewRequest, ConnectLock, ConnectFail, Backoff, DisconnectLock,
         DisconnectClose, DisconnectSweep, Call, DisconnectReturns, Goto, Return
<1>3. p \in Procs /\ p \notin Conns
  BY ProcsFacts, Zenon
<1> QED
  BY <1>1, <1>2, <1>3, HeartbeatsMove, HeartbeatsKept, Zenon

\* startHeartbeat starts a goroutine only when its flag was clear.
LEMMA HeartbeatDial ==
  ASSUME TypeInv, OneHeartbeat, NEW p \in Clients, ConnectDial(p)
  PROVE  OneHeartbeat'
<1> DEFINE c == conn + 1
<1>1. c \in Conns /\ c > conn
  BY ConstantsAssumption DEF ConnectDial, Conns, TypeInv, TypeOK, FlagType
<1>2. pc[c] = "off"
  BY <1>1, Zenon DEF TypeInv, Shape, LoopShape
<1>3. \A h \in Conns : h # c => pc'[h] = pc[h]
  BY <1>1, ProcsFacts, Zenon DEF ConnectDial, TypeInv, TypeOK
<1>4. CASE Heartbeat /\ ~heartbeatRunning
  <2>1. pc'[c] = "select" /\ heartbeatRunning' = TRUE
    BY <1>1, <1>4, ProcsFacts, Zenon DEF ConnectDial, TypeInv, TypeOK
  <2>2. Heartbeats = {}
    BY <1>4, Zenon DEF OneHeartbeat
  <2>3. Heartbeats' = {c}
    BY <1>1, <1>3, <2>1, <2>2, Zenon DEF Heartbeats
  <2> QED
    BY <2>1, <2>3, Zenon DEF OneHeartbeat
<1>5. CASE ~(Heartbeat /\ ~heartbeatRunning)
  <2>1. pc'[c] = pc[c]
    BY <1>1, <1>5, ProcsFacts, Zenon DEF ConnectDial, TypeInv, TypeOK
  <2>2. heartbeatRunning' = heartbeatRunning
    BY <1>5, Zenon DEF ConnectDial, TypeInv, TypeOK
  <2>3. \A h \in Conns : pc'[h] = "off" <=> pc[h] = "off"
    BY <1>3, <2>1, Zenon
  <2> QED
    BY <2>2, <2>3, HeartbeatsKept, Zenon
<1> QED
  BY <1>4, <1>5, Zenon

\* The deferred function of the heartbeat clears the flag as it ends.
LEMMA HeartbeatOwn ==
  ASSUME TypeInv, OneHeartbeat, NEW h \in Conns, HeartbeatStep(h)
  PROVE  OneHeartbeat'
<1>1. CASE HeartbeatTick(h) \/ HeartbeatStop(h)
  <2>1. heartbeatRunning' = heartbeatRunning /\ pc[h] # "off" /\ h \in Procs
    BY <1>1, ProcsFacts, Zenon DEF HeartbeatTick, HeartbeatStop, hbVars
  <2>2. \E x : x # "off" /\ pc' = [pc EXCEPT ![h] = x]
    BY <1>1, Zenon DEF HeartbeatTick, HeartbeatStop, NewRequest
  <2> QED
    BY <2>1, <2>2, HeartbeatsMove, Zenon
<1>2. CASE HeartbeatExit(h)
  <2>1. pc'[h] = "off" /\ \A g \in Conns : g # h => pc'[g] = pc[g]
    BY <1>2, ProcsFacts, Zenon DEF HeartbeatExit, TypeInv, TypeOK
  <2>2. h \in Heartbeats
    BY <1>2, SMTT(20) DEF HeartbeatExit, Heartbeats
  <2>3. Heartbeats' = {}
    BY <2>1, <2>2, ZenonT(30) DEF Heartbeats, OneHeartbeat
  <2> QED
    BY <1>2, <2>3, Zenon DEF HeartbeatExit, OneHeartbeat
<1> QED
  BY <1>1, <1>2, Zenon DEF HeartbeatStep

\* The read loops and the network know no heartbeat.
LEMMA HeartbeatElsewhere ==
  ASSUME OneHeartbeat,
         \/ \E l \in Conns : LoopStep(l) \/ NoAnswer(l) \/ PeerClose(l)
         \/ UNCHANGED vars
  PROVE  OneHeartbeat'
<1>1. UNCHANGED <<heartbeatRunning, pc>>
  BY Zenon DEF LoopStep, LoopTop, LoopRead, LoopReadError, DispatchTake, DispatchSend,
         LoopCheck, LoopStore, NoAnswer, PeerClose, vars, hbVars
<1> QED
  BY <1>1, HeartbeatsKept, SMTT(20)

\* heartbeatRunning is true exactly while a heartbeat goroutine exists, and
\* startHeartbeat never leaves two of them, however often the transport is
\* connected and disconnected.
THEOREM AtMostOneHeartbeat == Spec => []OneHeartbeat
<1>1. Init => OneHeartbeat
  BY ProcsFacts DEF Init, OneHeartbeat, Heartbeats
<1>2. TypeInv /\ OneHeartbeat /\ [Next]_vars => OneHeartbeat'
  BY HeartbeatSend, HeartbeatCalls, HeartbeatDial, HeartbeatOwn, HeartbeatElsewhere, Zenon
  DEF Next, OperatorStep
<1> QED
  BY <1>1, <1>2, TypeCorrect, PTL DEF Spec

-----------------------------------------------------------------------------
(* SendCommand, dispatchResponse and the sweep of Disconnect: who may      *)
(* still touch which response channel, and whose answer it gets.           *)

\* The part of the correlation invariant that is about channels.
ChannelInv ==
  /\ ~panicked
  /\ ActivationInv /\ IssuedInv /\ MapInv /\ RegisterInv /\ ClaimInv /\ ReachInv

-----------------------------------------------------------------------------
\* Steps that touch no channel, no activation and no claim keep the invariant.
LEMMA ChannelKept ==
  ASSUME ChannelInv, UNCHANGED <<mapVars, chanVars, reqVars>>,
         \A p \in Procs : pc'[p] = pc[p] \/ (pc[p] \notin SendPcs /\ pc'[p] \notin SendPcs),
         \A l \in Conns :
           \/ loopPc[l] # "send" /\ loopPc'[l] # "send"
           \/ /\ loopPc[l] = "send" /\ loopPc'[l] = "send"
              /\ loopCh'[l] = loopCh[l] /\ loopAcc'[l] = loopAcc[l]
  PROVE  ChannelInv'
<1>1. UNCHANGED <<responseChans, nextReq, sid, chanBuf, chanClosed, panicked, req, reply>>
  BY Zenon DEF mapVars, chanVars, reqVars
<1>2. \A p \in Procs : \A x \in SendPcs : pc'[p] = x <=> pc[p] = x
  BY Zenon
<1>3. \A n : Claimed(n)' <=> Claimed(n)
  BY Zenon DEF Claimed
<1>4. \A n : (Registered(n)' <=> Registered(n)) /\ (Untouched(n)' <=> Untouched(n))
  BY <1>1, Zenon DEF Registered, Untouched
<1>5. ActivationInv'
  BY <1>1, <1>2, Zenon DEF ChannelInv, ActivationInv
<1>6. IssuedInv'
  BY <1>1, ZenonT(30) DEF ChannelInv, IssuedInv
<1>7. MapInv'
  BY <1>1, <1>2, <1>3, <1>4 DEF ChannelInv, MapInv, SendPcs
<1>8. RegisterInv'
  BY <1>1, <1>2, <1>3, <1>4, ZenonT(30) DEF ChannelInv, RegisterInv, SendPcs
<1>9. ClaimInv'
  BY <1>1, <1>4, ZenonT(30) DEF ChannelInv, ClaimInv
<1>10. ReachInv'
  BY <1>1, <1>2, <1>3, <1>4, Zenon DEF ChannelInv, ReachInv, SendPcs
<1> QED
  BY <1>1, <1>5, <1>6, <1>7, <1>8, <1>9, <1>10, Zenon DEF ChannelInv

\* What moving one goroutine does to the program counters.
LEMMA ProcMoves ==
  ASSUME TypeInv, NEW p \in Procs, NEW x, pc' = [pc EXCEPT ![p] = x]
  PROVE  pc'[p] = x /\ \A q \in Procs : q # p => pc'[q] = pc[q]
BY Zenon DEF TypeInv, TypeOK

\* The write, and a wait that ends without an answer.
LEMMA ChannelSendMove ==
  ASSUME TypeInv, ChannelInv, NEW p \in Procs, SendWrite(p) \/ SendGiveUp(p)
  PROVE  ChannelInv'
<1>1. /\ UNCHANGED <<responseChans, nextReq, sid, chanBuf, chanClosed, panicked, req, reply>>
      /\ UNCHANGED <<loopPc, loopCh, loopAcc>>
  BY Zenon DEF SendWrite, SendGiveUp, mapVars, chanVars, reqVars, loopVars
<1>2. /\ pc[p] \in {"write", "wait"}
      /\ \E x \in {"wait", "cleanup"} : pc' = [pc EXCEPT ![p] = x]
  BY Zenon DEF SendWrite, SendGiveUp
<1>3. pc'[p] \in {"wait", "cleanup"} /\ \A q \in Procs : q # p => pc'[q] = pc[q]
  BY <1>2, ProcMoves, Zenon
<1>4. \A n : (Claimed(n)' <=> Claimed(n)) /\ (Registered(n)' <=> Registered(n))
          /\ (Untouched(n)' <=> Untouched(n))
  BY <1>1, Zenon DEF Claimed, Registered, Untouched
<1>5. ActivationInv'
  BY <1>1, <1>2, <1>3 DEF ChannelInv, ActivationInv, SendPcs
<1>6. IssuedInv' /\ ClaimInv'
  BY <1>1, <1>4, ZenonT(30) DEF ChannelInv, IssuedInv, ClaimInv
<1>7. MapInv'
  <2>1. ASSUME NEW q \in Procs, pc[q] \in {"write", "wait", "cleanup"}
        PROVE  pc'[q] \in {"write", "wait", "cleanup"}
    BY <1>3, <2>1, Zenon
  <2>2. \A q \in Procs : pc[q] \in {"write", "wait", "cleanup"} => pc'[q] \in {"write", "wait", "cleanup"}
    BY <2>1, Zenon
  <2> QED
    BY <1>1, <1>4, <2>2, Zenon DEF ChannelInv, MapInv
<1>8. RegisterInv'
  BY <1>1, <1>2, <1>3, <1>4, Zenon DEF ChannelInv, RegisterInv
<1>9. ReachInv'
  BY <1>1, <1>2, <1>3, <1>4, Zenon DEF ChannelInv, ReachInv
<1> QED
  BY <1>1, <1>5, <1>6, <1>7, <1>8, <1>9, Zenon DEF ChannelInv

\* A new activation: its channel is unknown to everybody.
LEMMA ChannelNewRequest ==
  ASSUME TypeInv, ChannelInv, NEW p \in Procs, pc[p] \notin SendPcs, NewRequest(p),
         UNCHANGED <<responseChans, chanBuf, chanClosed, panicked, reply>>,
         UNCHANGED <<loopPc, loopCh, loopAcc>>
  PROVE  ChannelInv'
<1> DEFINE m == nextReq + 1
<1>1. /\ m \in Reqs /\ nextReq \in Nat /\ nextReq' = m
      /\ \A n \in 1..nextReq : n \in Reqs /\ n # m /\ n \in 1..m
  BY ConstantsAssumption DEF NewRequest, Reqs, TypeInv, TypeOK, MapType
<1>2. \A n \in 1..nextReq : sid'[n] = sid[n]
  BY <1>1, Zenon DEF NewRequest, TypeInv, TypeOK, MapType
<1>3. pc'[p] = "register" /\ \A q \in Procs : q # p => pc'[q] = pc[q]
  BY ProcMoves, Zenon DEF NewRequest
<1>4. req'[p] = m /\ \A q \in Procs : q # p => req'[q] = req[q]
  BY Zenon DEF NewRequest, TypeInv, TypeOK, ReqType
<1>5. \A q \in Procs : pc[q] \in SendPcs => req[q] \in 1..nextReq
  BY Zenon DEF TypeInv, Shape, ReqShape
<1>6. \A l \in Conns : loopPc[l] = "send" =>
        /\ loopCh[l] \in 1..nextReq
        /\ Head(loopAcc[l]) \in 1..nextReq
  BY TailFacts, Zenon DEF TypeInv, TypeOK, LoopType, Shape, LoopShape
<1>7. \A n : (Claimed(n)' <=> Claimed(n)) /\ (Registered(n)' <=> Registered(n))
          /\ (Untouched(n)' <=> Untouched(n))
  BY ZenonT(30) DEF Claimed, Registered, Untouched
<1>8. ActivationInv'
  BY <1>1, <1>3, <1>4, <1>5 DEF ChannelInv, ActivationInv
<1>9. IssuedInv'
  <2>1. chanClosed \subseteq 1..m
    BY <1>1, Zenon DEF ChannelInv, IssuedInv
  <2>2. \A n \in Reqs : n > m => n > nextReq
    BY <1>1 DEF Reqs
  <2> QED
    BY <1>1, <2>1, <2>2, Zenon DEF ChannelInv, IssuedInv
<1>10. MapInv'
  <2> SUFFICES ASSUME NEW s \in Sids, NEW n, n = responseChans[s], n # 0
               PROVE  /\ n \in 1..m /\ sid'[n] = s
                      /\ Untouched(n)' /\ ~Claimed(n)'
                      /\ \E q \in Procs : pc'[q] \in {"write", "wait", "cleanup"} /\ req'[q] = n
    BY <1>1 DEF MapInv
  <2>1. n \in 1..nextReq /\ sid[n] = s /\ Untouched(n) /\ ~Claimed(n)
    BY Zenon DEF ChannelInv, MapInv
  <2>2. PICK q \in Procs : pc[q] \in {"write", "wait", "cleanup"} /\ req[q] = n
    BY Zenon DEF ChannelInv, MapInv
  <2>3. q # p
    BY <2>2, Zenon DEF SendPcs
  <2> QED
    BY <1>1, <1>2, <1>3, <1>4, <1>7, <2>1, <2>2, <2>3, ZenonT(30)
<1>11. RegisterInv'
  <2>1. Untouched(m)
    BY <1>1 DEF ChannelInv, IssuedInv, Untouched
  <2>2. ~Claimed(m)
    BY <1>1, <1>6, Zenon DEF Claimed
  <2>3. ~Registered(m)
    BY <1>1 DEF Registered, TypeInv, TypeOK, MapType
  <2> QED
    BY <1>3, <1>4, <1>7, <2>1, <2>2, <2>3, Zenon DEF ChannelInv, RegisterInv
<1>12. ClaimInv'
  BY <1>2, <1>6, <1>7, Zenon DEF ChannelInv, ClaimInv
<1>13. ReachInv'
  <2> SUFFICES ASSUME NEW q \in Procs, pc'[q] \in {"write", "wait"}, NEW r, r = req'[q]
               PROVE  \/ responseChans[sid'[r]] = r
                      \/ ~Untouched(r)'
                      \/ Claimed(r)'
                      \/ \E n \in 1..m : n # r /\ sid'[n] = sid'[r]
    BY <1>1, Zenon DEF ReachInv
  <2>1. q # p /\ pc[q] \in {"write", "wait"} /\ r = req[q] /\ req[q] \in 1..nextReq
    BY <1>3, <1>4, <1>5, Zenon DEF SendPcs
  <2>2. sid'[req[q]] = sid[req[q]]
    BY <1>2, <2>1, Zenon
  <2>3. \/ responseChans[sid[req[q]]] = req[q]
        \/ ~Untouched(req[q])
        \/ Claimed(req[q])
        \/ \E n \in 1..nextReq : n # req[q] /\ sid[n] = sid[req[q]]
    BY <2>1, Zenon DEF ChannelInv, ReachInv
  <2>4. ASSUME NEW n \in 1..nextReq, n # req[q], sid[n] = sid[req[q]]
        PROVE  \E k \in 1..m : k # req[q] /\ sid'[k] = sid'[req[q]]
    BY <1>1, <1>2, <2>2, <2>4, Zenon
  <2> QED
    BY <1>7, <2>1, <2>2, <2>3, <2>4, Zenon
<1> QED
  BY <1>8, <1>9, <1>10, <1>11, <1>12, <1>13, Zenon DEF ChannelInv

\* SendCommand enters its channel in responseChans, perhaps over that of another
\* command with the same identifier.
LEMMA ChannelSendRegister ==
  ASSUME TypeInv, ChannelInv, NEW p \in Procs, SendRegister(p)
  PROVE  ChannelInv'
<1> DEFINE n == req[p]
           s == sid[n]
<1>1. /\ UNCHANGED <<nextReq, sid, chanBuf, chanClosed, panicked, req, reply>>
      /\ UNCHANGED <<loopPc, loopCh, loopAcc>>
      /\ pc[p] = "register" /\ pc' = [pc EXCEPT ![p] = "write"]
      /\ responseChans' = [responseChans EXCEPT ![s] = n]
  BY Zenon DEF SendRegister, chanVars, reqVars, loopVars
<1>2. pc'[p] = "write" /\ \A q \in Procs : q # p => pc'[q] = pc[q]
  BY <1>1, ProcMoves, Zenon
<1>3. n \in 1..nextReq /\ s \in Sids
  BY <1>1, Zenon DEF TypeInv, Shape, ReqShape, SendPcs
<1>4. responseChans'[s] = n /\ \A t \in Sids : t # s => responseChans'[t] = responseChans[t]
  BY <1>1, <1>3 DEF TypeInv, TypeOK, MapType
<1>5. \A k : (Claimed(k)' <=> Claimed(k)) /\ (Untouched(k)' <=> Untouched(k))
  BY <1>1, Zenon DEF Claimed, Untouched
<1>6. Untouched(n) /\ ~Claimed(n)
  BY <1>1, Zenon DEF ChannelInv, RegisterInv
<1>7. ActivationInv'
  BY <1>1, <1>2 DEF ChannelInv, ActivationInv, SendPcs
<1>8. IssuedInv' /\ ClaimInv'
  BY <1>1, <1>5, Zenon DEF ChannelInv, IssuedInv, ClaimInv
<1>9. MapInv'
  <2> SUFFICES ASSUME NEW t \in Sids, NEW k, k = responseChans'[t], k # 0
               PROVE  /\ k \in 1..nextReq /\ sid[k] = t
                      /\ Untouched(k)' /\ ~Claimed(k)'
                      /\ \E q \in Procs : pc'[q] \in {"write", "wait", "cleanup"} /\ req[q] = k
    BY <1>1 DEF MapInv
  <2>1. CASE t = s
    BY <1>2, <1>3, <1>4, <1>5, <1>6, <2>1, Zenon
  <2>2. CASE t # s
    <3>1. responseChans[t] = k
      BY <1>4, <2>2, Zenon
    <3>2. k \in 1..nextReq /\ sid[k] = t /\ Untouched(k) /\ ~Claimed(k)
      BY <3>1, Zenon DEF ChannelInv, MapInv
    <3>3. PICK q \in Procs : pc[q] \in {"write", "wait", "cleanup"} /\ req[q] = k
      BY <3>1 DEF ChannelInv, MapInv
    <3>4. pc'[q] = pc[q]
      BY <1>1, <1>2, <3>3, Zenon
    <3> QED
      BY <1>5, <3>1, <3>2, <3>3, <3>4, Zenon
  <2> QED
    BY <2>1, <2>2, Zenon
<1>10. RegisterInv'
  <2> SUFFICES ASSUME NEW q \in Procs, pc'[q] = "register"
               PROVE  Untouched(req[q])' /\ ~Claimed(req[q])' /\ ~Registered(req[q])'
    BY <1>1, Zenon DEF RegisterInv
  <2>1. q # p /\ pc[q] = "register"
    BY <1>2, Zenon
  <2>2. req[q] # n
    BY <1>1, <2>1, Zenon DEF ChannelInv, ActivationInv, SendPcs
  <2>3. Untouched(req[q]) /\ ~Claimed(req[q]) /\ ~Registered(req[q])
    BY <2>1, Zenon DEF ChannelInv, RegisterInv
  <2>4. ~Registered(req[q])'
    BY <1>1, <1>4, <2>2, <2>3, Zenon DEF Registered
  <2> QED
    BY <1>1, <1>5, <2>3, <2>4, Zenon
<1>11. ReachInv'
  <2> SUFFICES ASSUME NEW q \in Procs, pc'[q] \in {"write", "wait"}
               PROVE  \/ responseChans'[sid[req[q]]] = req[q]
                      \/ ~Untouched(req[q])'
                      \/ Claimed(req[q])'
                      \/ \E k \in 1..nextReq : k # req[q] /\ sid[k] = sid[req[q]]
    BY <1>1, Zenon DEF ReachInv
  <2>1. CASE q = p
    BY <1>4, <2>1, Zenon
  <2>2. CASE q # p /\ sid[req[q]] = s
    <3>1. req[q] # n
      BY <1>1, <1>2, <2>2 DEF ChannelInv, ActivationInv, SendPcs
    <3> QED
      BY <1>3, <2>2, <3>1, ZenonT(30)
  <2>3. CASE q # p /\ sid[req[q]] # s
    <3>1. pc[q] \in {"write", "wait"} /\ req[q] \in 1..nextReq
      BY <1>2, <2>3, Zenon DEF TypeInv, Shape, ReqShape, SendPcs
    <3>2. sid[req[q]] \in Sids
      BY <3>1, Zenon DEF TypeInv, Shape, ReqShape
    <3>3. responseChans'[sid[req[q]]] = responseChans[sid[req[q]]]
      BY <1>4, <2>3, <3>2, Zenon
    <3> QED
      BY <1>1, <1>5, <3>1, <3>3, Zenon DEF ChannelInv, ReachInv
  <2> QED
    BY <2>1, <2>2, <2>3, Zenon
<1> QED
  BY <1>1, <1>7, <1>8, <1>9, <1>10, <1>11, Zenon DEF ChannelInv

\* The answer is taken out of the channel.
LEMMA ChannelSendReceive ==
  ASSUME TypeInv, ChannelInv, NEW p \in Procs, SendReceive(p)
  PROVE  ChannelInv'
<1> DEFINE n == req[p]
<1>1. /\ UNCHANGED <<responseChans, nextReq, sid, chanClosed, panicked, req>>
      /\ UNCHANGED <<loopPc, loopCh, loopAcc>>
      /\ pc[p] = "wait" /\ pc' = [pc EXCEPT ![p] = "cleanup"]
      /\ chanBuf' = [chanBuf EXCEPT ![n] = 0]
      /\ reply' = [reply EXCEPT ![n] = chanBuf[n]]
  BY Zenon DEF SendReceive, mapVars, loopVars
<1>2. pc'[p] = "cleanup" /\ \A q \in Procs : q # p => pc'[q] = pc[q]
  BY <1>1, ProcMoves, ZenonT(30)
<1>3. n \in 1..nextReq /\ n \in Reqs
  BY <1>1, ConstantsAssumption, SMTT(30) DEF TypeInv, TypeOK, MapType, Shape, ReqShape, SendPcs, Reqs
<1>4. /\ chanBuf'[n] = 0 /\ \A k \in Reqs : k # n => chanBuf'[k] = chanBuf[k]
      /\ \A k \in Reqs : k # n => reply'[k] = reply[k]
  BY <1>1, <1>3 DEF TypeInv, TypeOK, ChanType, ReqType
<1>5. \A k : (Claimed(k)' <=> Claimed(k)) /\ (Registered(k)' <=> Registered(k))
  BY <1>1, Zenon DEF Claimed, Registered
<1>6. \A k \in Reqs : (Untouched(k) => Untouched(k)') /\ (k # n /\ Untouched(k)' => Untouched(k))
  BY <1>1, <1>4, Zenon DEF Untouched
<1>7. \A k \in 1..nextReq : k \in Reqs
  BY ConstantsAssumption DEF TypeInv, TypeOK, MapType, Reqs
<1>8. \A q \in Procs : pc[q] \in SendPcs => req[q] \in Reqs
  BY <1>7, ZenonT(30) DEF TypeInv, Shape, ReqShape
<1>9. ActivationInv'
  BY <1>1, <1>2 DEF ChannelInv, ActivationInv, SendPcs
<1>10. IssuedInv'
  <2>1. \A k \in Reqs : k > nextReq => k # n
    BY <1>3 DEF TypeInv, TypeOK, MapType
  <2> QED
    BY <1>1, <1>4, <2>1, Zenon DEF ChannelInv, IssuedInv
<1>11. MapInv'
  <2>1. UNCHANGED <<responseChans, nextReq, sid, req>>
    BY <1>1, ZenonT(30)
  <2> SUFFICES ASSUME NEW t \in Sids, NEW k, k = responseChans[t], k # 0
               PROVE  /\ k \in 1..nextReq /\ sid[k] = t
                      /\ Untouched(k)' /\ ~Claimed(k)'
                      /\ \E q \in Procs : pc'[q] \in {"write", "wait", "cleanup"} /\ req[q] = k
    BY <2>1 DEF MapInv
  <2>2. /\ k \in 1..nextReq /\ sid[k] = t /\ Untouched(k) /\ ~Claimed(k)
        /\ \E q \in Procs : pc[q] \in {"write", "wait", "cleanup"} /\ req[q] = k
    BY Zenon DEF ChannelInv, MapInv
  <2> QED
    BY <1>2, <1>5, <1>6, <1>7, <2>2, Zenon
<1>12. RegisterInv'
  BY <1>1, <1>2, <1>5, <1>6, <1>8, Zenon DEF ChannelInv, RegisterInv, SendPcs
<1>13. ClaimInv'
  <2>1. \A l \in Conns : loopPc[l] = "send" => loopCh[l] \in Reqs
    BY <1>7, Zenon DEF TypeInv, Shape, LoopShape
  <2> QED
    BY <1>1, <1>6, <2>1, Zenon DEF ChannelInv, ClaimInv
<1>14. ReachInv'
  <2> SUFFICES ASSUME NEW q \in Procs, pc'[q] \in {"write", "wait"}, NEW r, r = req[q]
               PROVE  \/ responseChans[sid[r]] = r
                      \/ ~Untouched(r)'
                      \/ Claimed(r)'
                      \/ \E k \in 1..nextReq : k # r /\ sid[k] = sid[r]
    BY <1>1, Zenon DEF ReachInv
  <2>1. q # p /\ pc[q] \in {"write", "wait"}
    BY <1>2, Zenon
  <2>2. r # n /\ r \in Reqs
    BY <1>1, <1>8, <2>1, Zenon DEF ChannelInv, ActivationInv, SendPcs
  <2>3. \/ responseChans[sid[r]] = r
        \/ ~Untouched(r)
        \/ Claimed(r)
        \/ \E k \in 1..nextReq : k # r /\ sid[k] = sid[r]
    BY <2>1, Zenon DEF ChannelInv, ReachInv
  <2> QED
    BY <1>5, <1>6, <2>2, <2>3, Zenon
<1> QED
  BY <1>1, <1>9, <1>10, <1>11, <1>12, <1>13, <1>14, SMTT(30) DEF ChannelInv

\* The deferred delete may hit the registration of another activation that
\* has the same identifier; that one then counts as displaced.
LEMMA ChannelSendCleanup ==
  ASSUME TypeInv, ChannelInv, NEW p \in Procs, SendCleanup(p)
  PROVE  ChannelInv'
<1> DEFINE n == req[p]
           s == sid[n]
<1>1. /\ UNCHANGED <<nextReq, sid, chanBuf, chanClosed, panicked, reply>>
      /\ UNCHANGED <<loopPc, loopCh, loopAcc>>
      /\ pc[p] = "cleanup"
      /\ req' = [req EXCEPT ![p] = 0]
      /\ responseChans' = [responseChans EXCEPT ![s] = 0]
  BY Zenon DEF SendCleanup, chanVars, loopVars
<1>2. pc'[p] \notin SendPcs /\ \A q \in Procs : q # p => pc'[q] = pc[q]
  <2>1. pc' = [pc EXCEPT ![p] = Resume(p)]
    BY Zenon DEF SendCleanup
  <2>2. Resume(p) \notin SendPcs
    BY Zenon DEF Resume, SendPcs
  <2> QED
    BY <2>1, <2>2, ProcMoves, Zenon
<1>3. n \in 1..nextReq /\ s \in Sids
  BY <1>1, Zenon DEF TypeInv, Shape, ReqShape, SendPcs
<1>4. responseChans'[s] = 0 /\ \A t \in Sids : t # s => responseChans'[t] = responseChans[t]
  BY <1>1, <1>3, SMTT(30) DEF TypeInv, TypeOK, MapType
<1>5. \A q \in Procs : q # p => req'[q] = req[q]
  BY <1>1, Zenon DEF TypeInv, TypeOK, ReqType
<1>6. \A k : (Claimed(k)' <=> Claimed(k)) /\ (Untouched(k)' <=> Untouched(k))
  BY <1>1, Zenon DEF Claimed, Untouched
<1>7. \A q \in Procs : pc'[q] \in SendPcs => q # p
  BY <1>2, Zenon
<1>8. ActivationInv'
  BY <1>2, <1>5, <1>7, Zenon DEF ChannelInv, ActivationInv
<1>9. IssuedInv' /\ ClaimInv'
  BY <1>1, <1>6, Zenon DEF ChannelInv, IssuedInv, ClaimInv
<1>10. MapInv'
  <2> SUFFICES ASSUME NEW t \in Sids, NEW k, k = responseChans'[t], k # 0
               PROVE  /\ k \in 1..nextReq /\ sid[k] = t
                      /\ Untouched(k)' /\ ~Claimed(k)'
                      /\ \E q \in Procs : pc'[q] \in {"write", "wait", "cleanup"} /\ req'[q] = k
    BY <1>1 DEF MapInv
  <2>1. t # s /\ responseChans[t] = k
    BY <1>4, Zenon
  <2>2. k \in 1..nextReq /\ sid[k] = t /\ Untouched(k) /\ ~Claimed(k)
    BY <2>1, Zenon DEF ChannelInv, MapInv
  <2>3. PICK q \in Procs : pc[q] \in {"write", "wait", "cleanup"} /\ req[q] = k
    BY <2>1 DEF ChannelInv, MapInv
  <2>4. q # p
    BY <2>1, <2>2, <2>3, Zenon
  <2> QED
    BY <1>2, <1>5, <1>6, <2>2, <2>3, <2>4, ZenonT(30)
<1>11. RegisterInv'
  <2> SUFFICES ASSUME NEW q \in Procs, pc'[q] = "register", NEW r, r = req'[q]
               PROVE  Untouched(r)' /\ ~Claimed(r)' /\ ~Registered(r)'
    BY Zenon DEF RegisterInv
  <2>1. q # p /\ pc[q] = "register" /\ r = req[q]
    BY <1>2, <1>5, <1>7, Zenon DEF SendPcs
  <2>2. Untouched(r) /\ ~Claimed(r) /\ ~Registered(r)
    BY <2>1, Zenon DEF ChannelInv, RegisterInv
  <2>3. r # 0
    BY <2>1 DEF TypeInv, Shape, ReqShape, SendPcs
  <2>4. ~Registered(r)'
    BY <1>4, <2>2, <2>3, Zenon DEF Registered
  <2> QED
    BY <1>6, <2>2, <2>4, Zenon
<1>12. ReachInv'
  <2> SUFFICES ASSUME NEW q \in Procs, pc'[q] \in {"write", "wait"}, NEW r, r = req'[q]
               PROVE  \/ responseChans'[sid[r]] = r
                      \/ ~Untouched(r)'
                      \/ Claimed(r)'
                      \/ \E k \in 1..nextReq : k # r /\ sid[k] = sid[r]
    <3>1. UNCHANGED <<nextReq, sid>>
      BY <1>1, Zenon
    <3> QED
      BY <3>1, Zenon DEF ReachInv
  <2>1. q # p /\ pc[q] \in {"write", "wait"} /\ r = req[q]
    BY <1>2, <1>5, <1>7, Zenon DEF SendPcs
  <2>2. r # n
    BY <1>1, <2>1, Zenon DEF ChannelInv, ActivationInv, SendPcs
  <2>3. sid[r] \in Sids
    BY <2>1, Zenon DEF TypeInv, Shape, ReqShape, SendPcs
  <2>4. CASE sid[r] = s
    BY <1>3, <2>2, <2>4, Zenon
  <2>5. CASE sid[r] # s
    <3>1. responseChans'[sid[r]] = responseChans[sid[r]]
      BY <1>4, <2>3, <2>5, Zenon
    <3>2. \/ responseChans[sid[r]] = r
          \/ ~Untouched(r)
          \/ Claimed(r)
          \/ \E k \in 1..nextReq : k # r /\ sid[k] = sid[r]
      BY <2>1 DEF ChannelInv, ReachInv
    <3> QED
      BY <1>6, <3>1, <3>2, Zenon
  <2> QED
    BY <2>4, <2>5, Zenon
<1> QED
  BY <1>1, <1>8, <1>9, <1>10, <1>11, <1>12, Zenon DEF ChannelInv

\* Disconnect closes what is registered: nobody else can use it any more, and
\* whoever waits on it is woken.
LEMMA ChannelSweep ==
  ASSUME TypeInv, ChannelInv, NEW p \in Clients, DisconnectSweep(p)
  PROVE  ChannelInv'
<1> DEFINE swept == {responseChans[s] : s \in Sids} \ {0}
<1>1. /\ UNCHANGED <<nextReq, sid, chanBuf, req, reply>>
      /\ UNCHANGED <<loopPc, loopCh, loopAcc>>
      /\ pc[p] = "sweep"
      /\ panicked' = (panicked \/ swept \cap chanClosed # {})
      /\ chanClosed' = chanClosed \cup swept
      /\ responseChans' = [s \in Sids |-> 0]
  BY Zenon DEF DisconnectSweep, reqVars, loopVars
<1>2. p \in Procs /\ \E x : x \notin SendPcs /\ pc' = [pc EXCEPT ![p] = x]
  BY ProcsFacts, Zenon DEF DisconnectSweep, DisconnectReturns, Return, Goto, SendPcs
<1>3. pc'[p] \notin SendPcs /\ \A q \in Procs : q # p => pc'[q] = pc[q]
  BY <1>2, ProcMoves, Zenon
<1>4. \A q \in Procs : \A x \in SendPcs : pc'[q] = x <=> pc[q] = x
  BY <1>1, <1>3, Zenon DEF SendPcs
<1>5. \A k \in swept : k \in 1..nextReq /\ Untouched(k) /\ ~Claimed(k) /\ Registered(k)
  BY DEF ChannelInv, MapInv, Registered
<1>6. panicked' = FALSE
  BY <1>1, <1>5, Zenon DEF ChannelInv, Untouched
<1>7. \A k : Claimed(k)' <=> Claimed(k)
  BY <1>1, Zenon DEF Claimed
<1>8. \A k : k \notin swept => (Untouched(k)' <=> Untouched(k))
  BY <1>1, Zenon DEF Untouched
<1>9. ActivationInv'
  BY <1>1, <1>4, Zenon DEF ChannelInv, ActivationInv
<1>10. IssuedInv'
  BY <1>1, <1>5, Zenon DEF ChannelInv, IssuedInv
<1>11. MapInv'
  BY <1>1, ZenonT(30) DEF MapInv
<1>12. RegisterInv'
  <2> SUFFICES ASSUME NEW q \in Procs, pc'[q] = "register", NEW r, r = req[q]
               PROVE  Untouched(r)' /\ ~Claimed(r)' /\ ~Registered(r)'
    BY <1>1, Zenon DEF RegisterInv
  <2>1. pc[q] = "register"
    BY <1>4, Zenon DEF SendPcs
  <2>2. Untouched(r) /\ ~Claimed(r) /\ ~Registered(r)
    BY <2>1, Zenon DEF ChannelInv, RegisterInv
  <2>3. r \notin swept
    BY <1>5, <2>2, Zenon
  <2>4. r # 0
    BY <2>1 DEF TypeInv, Shape, ReqShape, SendPcs
  <2>5. ~Registered(r)'
    BY <1>1, <2>4, Zenon DEF Registered
  <2> QED
    BY <1>7, <1>8, <2>2, <2>3, <2>5
<1>13. ClaimInv'
  <2>1. \A l \in Conns : loopPc[l] = "send" => loopCh[l] \notin swept
    BY <1>5, Zenon DEF Claimed
  <2> QED
    BY <1>1, <1>8, <2>1, Zenon DEF ChannelInv, ClaimInv
<1>14. ReachInv'
  <2> SUFFICES ASSUME NEW q \in Procs, pc'[q] \in {"write", "wait"}, NEW r, r = req[q]
               PROVE  \/ ~Untouched(r)'
                      \/ Claimed(r)'
                      \/ \E k \in 1..nextReq : k # r /\ sid[k] = sid[r]
    BY <1>1 DEF ReachInv
  <2>1. pc[q] \in {"write", "wait"}
    BY <1>4, Zenon DEF SendPcs
  <2>2. sid[r] \in Sids /\ r # 0
    BY <2>1 DEF TypeInv, Shape, ReqShape, SendPcs
  <2>3. \/ responseChans[sid[r]] = r
        \/ ~Untouched(r)
        \/ Claimed(r)
        \/ \E k \in 1..nextReq : k # r /\ sid[k] = sid[r]
    BY <2>1, Zenon DEF ChannelInv, ReachInv
  <2>4. r \in swept => ~Untouched(r)'
    BY <1>1, Zenon DEF Untouched
  <2>5. responseChans[sid[r]] = r => r \in swept
    BY <2>2, Zenon
  <2> QED
    BY <1>7, <1>8, <2>3, <2>4, <2>5, ZenonT(30)
<1> QED
  BY <1>6, <1>9, <1>10, <1>11, <1>12, <1>13, <1>14, Zenon DEF ChannelInv

\* dispatchResponse claims a channel: it leaves the map in the same step.
LEMMA ChannelTake ==
  ASSUME TypeInv, ChannelInv, NEW l \in Conns, DispatchTake(l)
  PROVE  ChannelInv'
<1> DEFINE f == Head(loopAcc[l])
           s == sid[f]
           n == responseChans[s]
<1>1. /\ UNCHANGED <<nextReq, sid, chanBuf, chanClosed, panicked, req, reply, pc>>
      /\ loopPc[l] = "dispatch"
  BY Zenon DEF DispatchTake, chanVars, reqVars
<1>2. CASE /\ UNCHANGED <<responseChans, loopCh>> /\ FrameDone(l)
  <2>1. UNCHANGED <<mapVars, chanVars, reqVars>>
    BY <1>2, Zenon DEF DispatchTake, mapVars
  <2>2. \A k \in Conns : k # l => /\ loopPc'[k] = loopPc[k] /\ loopAcc'[k] = loopAcc[k]
                                  /\ loopCh'[k] = loopCh[k]
    BY <1>2, Zenon DEF FrameDone, TypeInv, TypeOK, LoopType
  <2>3. loopPc'[l] # "send"
    BY <1>2, Zenon DEF FrameDone, TypeInv, TypeOK, LoopType
  <2> QED
    BY <1>1, <2>1, <2>2, <2>3, ChannelKept, Zenon
<1>3. CASE /\ n # 0
           /\ loopCh' = [loopCh EXCEPT ![l] = n]
           /\ responseChans' = [responseChans EXCEPT ![s] = 0]
           /\ loopPc' = [loopPc EXCEPT ![l] = "send"]
           /\ UNCHANGED loopAcc
  <2>1. s \in Sids
    <3>1. f \in 1..nextReq
      BY <1>1, TailFacts, ZenonT(30) DEF TypeInv, TypeOK, LoopType, Shape, LoopShape
    <3> QED
      BY <3>1 DEF TypeInv, Shape, ReqShape
  <2>2. n \in 1..nextReq /\ sid[n] = s /\ Untouched(n) /\ ~Claimed(n) /\ Registered(n)
    BY <1>3, <2>1, Zenon DEF ChannelInv, MapInv, Registered
  <2>3. responseChans'[s] = 0 /\ \A t \in Sids : t # s => responseChans'[t] = responseChans[t]
    BY <1>3, <2>1, SMTT(30) DEF TypeInv, TypeOK, MapType
  <2>4. /\ loopPc'[l] = "send" /\ loopCh'[l] = n
        /\ \A k \in Conns : k # l => loopPc'[k] = loopPc[k] /\ loopCh'[k] = loopCh[k]
    BY <1>3, Zenon DEF TypeInv, TypeOK, LoopType
  <2>5. \A k : Untouched(k)' <=> Untouched(k)
    BY <1>1, Zenon DEF Untouched
  <2>6. \A k : Claimed(k)' <=> Claimed(k) \/ k = n
    BY <1>1, <2>4, Zenon DEF Claimed
  <2>7. ActivationInv' /\ IssuedInv'
    BY <1>1, Zenon DEF ChannelInv, ActivationInv, IssuedInv
  <2>8. MapInv'
    <3> SUFFICES ASSUME NEW t \in Sids, NEW k, k = responseChans'[t], k # 0
                 PROVE  /\ k \in 1..nextReq /\ sid[k] = t
                        /\ Untouched(k)' /\ ~Claimed(k)'
                        /\ \E q \in Procs : pc[q] \in {"write", "wait", "cleanup"} /\ req[q] = k
      BY <1>1 DEF MapInv
    <3>1. t # s /\ responseChans[t] = k
      BY <2>3, ZenonT(30)
    <3>2. /\ k \in 1..nextReq /\ sid[k] = t /\ Untouched(k) /\ ~Claimed(k)
          /\ \E q \in Procs : pc[q] \in {"write", "wait", "cleanup"} /\ req[q] = k
      BY <3>1 DEF ChannelInv, MapInv
    <3>3. k # n
      BY <2>2, <3>1, <3>2, Zenon
    <3> QED
      BY <2>5, <2>6, <3>2, <3>3, ZenonT(30)
  <2>9. RegisterInv'
    <3> SUFFICES ASSUME NEW q \in Procs, pc[q] = "register", NEW r, r = req[q]
                 PROVE  Untouched(r)' /\ ~Claimed(r)' /\ ~Registered(r)'
      BY <1>1, Zenon DEF RegisterInv
    <3>1. Untouched(r) /\ ~Claimed(r) /\ ~Registered(r)
      BY Zenon DEF ChannelInv, RegisterInv
    <3>2. r # n
      BY <2>2, <3>1, Zenon
    <3>3. r # 0
      <4>1. r \in 1..nextReq
        BY Zenon DEF TypeInv, Shape, ReqShape, SendPcs
      <4> QED
        BY <4>1
    <3>4. ~Registered(r)'
      BY <2>3, <3>1, <3>3, Zenon DEF Registered
    <3> QED
      BY <2>5, <2>6, <3>1, <3>2, <3>4, Zenon
  <2>10. ClaimInv'
    <3>1. \A k \in Conns : k # l /\ loopPc[k] = "send" => loopCh[k] # n
      BY <2>2, Zenon DEF Claimed
    <3>2. \A k \in Conns : k # l /\ loopPc[k] = "send" =>
            /\ Untouched(loopCh[k])
            /\ sid[loopCh[k]] = sid[Head(loopAcc[k])]
            /\ \A j \in Conns : loopPc[j] = "send" /\ loopCh[j] = loopCh[k] => j = k
      BY Zenon DEF ChannelInv, ClaimInv
    <3> SUFFICES ASSUME NEW k \in Conns, loopPc'[k] = "send", NEW c, c = loopCh'[k]
                 PROVE  /\ Untouched(c)'
                        /\ sid[c] = sid[Head(loopAcc[k])]
                        /\ \A j \in Conns : loopPc'[j] = "send" /\ loopCh'[j] = c => j = k
      <4>1. UNCHANGED <<sid, loopAcc>>
        BY <1>1, <1>3, Zenon
      <4> QED
        BY <4>1, Zenon DEF ClaimInv
    <3>3. CASE k = l
      BY <2>2, <2>4, <2>5, <3>1, <3>3, Zenon
    <3>4. CASE k # l
      <4>1. loopPc[k] = "send" /\ c = loopCh[k] /\ c # n
        BY <2>4, <3>1, <3>4, Zenon
      <4>2. Untouched(c) /\ sid[c] = sid[Head(loopAcc[k])]
        BY <3>2, <3>4, <4>1, Zenon
      <4>3. ASSUME NEW j \in Conns, loopPc'[j] = "send", loopCh'[j] = c PROVE j = k
        <5>1. j # l
          BY <2>4, <4>1, <4>3, Zenon
        <5>2. loopPc[j] = "send" /\ loopCh[j] = loopCh[k]
          BY <2>4, <4>1, <4>3, <5>1, Zenon
        <5> QED
          BY <3>2, <3>4, <4>1, <5>2, Zenon
      <4> QED
        BY <2>5, <4>2, <4>3, Zenon
    <3> QED
      BY <3>3, <3>4, Zenon
  <2>11. ReachInv'
    <3> SUFFICES ASSUME NEW q \in Procs, pc[q] \in {"write", "wait"}, NEW r, r = req[q]
                 PROVE  \/ responseChans'[sid[r]] = r
                        \/ ~Untouched(r)'
                        \/ Claimed(r)'
                        \/ \E k \in 1..nextReq : k # r /\ sid[k] = sid[r]
      BY <1>1 DEF ReachInv
    <3>1. \/ responseChans[sid[r]] = r
          \/ ~Untouched(r)
          \/ Claimed(r)
          \/ \E k \in 1..nextReq : k # r /\ sid[k] = sid[r]
      BY Zenon DEF ChannelInv, ReachInv
    <3>2. sid[r] \in Sids
      BY Zenon DEF TypeInv, Shape, ReqShape, SendPcs
    <3>3. responseChans[sid[r]] = r => responseChans'[sid[r]] = r \/ r = n
      BY <2>3, <3>2, Zenon
    <3> QED
      BY <2>5, <2>6, <3>1, <3>3, Zenon
  <2> QED
    BY <1>1, <2>7, <2>8, <2>9, <2>10, <2>11, ZenonT(30) DEF ChannelInv
<1> QED
  BY <1>2, <1>3, Zenon DEF DispatchTake

\* dispatchResponse sends on the channel it has claimed.
LEMMA ChannelDispatchSend ==
  ASSUME TypeInv, ChannelInv, NEW l \in Conns, DispatchSend(l)
  PROVE  ChannelInv'
<1> DEFINE n == loopCh[l]
           f == Head(loopAcc[l])
<1>1. /\ UNCHANGED <<responseChans, nextReq, sid, chanClosed, req, reply, pc>>
      /\ loopPc[l] = "send"
      /\ panicked' = (panicked \/ n \in chanClosed)
      /\ chanBuf' = [chanBuf EXCEPT ![n] = IF @ = 0 THEN f ELSE @]
      /\ FrameDone(l)
      /\ loopCh' = [loopCh EXCEPT ![l] = 0]
  BY Zenon DEF DispatchSend, mapVars, reqVars
<1>2. f \in 1..nextReq /\ n \in 1..nextReq /\ n \in Reqs /\ f # 0
  <2>1. f \in 1..nextReq /\ n \in 1..nextReq
    BY <1>1, TailFacts, ZenonT(30) DEF TypeInv, TypeOK, LoopType, Shape, LoopShape
  <2> QED
    BY <2>1, ConstantsAssumption, SMTT(30) DEF TypeInv, TypeOK, MapType, Reqs
<1>3. Untouched(n) /\ Claimed(n)
  BY <1>1, SMTT(30) DEF ChannelInv, ClaimInv, Claimed
<1>4. /\ \A k \in Conns : k # l => /\ loopPc'[k] = loopPc[k] /\ loopAcc'[k] = loopAcc[k]
                                   /\ loopCh'[k] = loopCh[k]
      /\ loopPc'[l] # "send"
  BY <1>1, SMTT(30) DEF FrameDone, TypeInv, TypeOK, LoopType
<1>5. chanBuf'[n] = f /\ \A k \in Reqs : k # n => chanBuf'[k] = chanBuf[k]
  BY <1>1, <1>2, <1>3 DEF Untouched, TypeInv, TypeOK, ChanType
<1>6. panicked' = FALSE
  BY <1>1, <1>3, Zenon DEF ChannelInv, Untouched
<1>7. \A k \in Reqs : k # n => (Untouched(k)' <=> Untouched(k))
  BY <1>1, <1>5, Zenon DEF Untouched
<1>8. \A k : k = n => ~Untouched(k)'
  BY <1>2, <1>5, Zenon DEF Untouched
<1>9. \A k : (Claimed(k)' => Claimed(k)) /\ (k # n /\ Claimed(k) => Claimed(k)')
  BY <1>1, <1>4, Zenon DEF Claimed
<1>10. \A k : Registered(k)' <=> Registered(k)
  BY <1>1 DEF Registered
<1>11. \A k \in 1..nextReq : k \in Reqs
  BY ConstantsAssumption, SMTT(20) DEF TypeInv, TypeOK, MapType, Reqs
<1>12. ActivationInv'
  BY <1>1, Zenon DEF ChannelInv, ActivationInv
<1>13. IssuedInv'
  <2>1. \A k \in Reqs : k > nextReq => k # n
    BY <1>2, SMTT(20) DEF TypeInv, TypeOK, MapType
  <2> QED
    BY <1>1, <1>5, <2>1, Zenon DEF ChannelInv, IssuedInv
<1>14. MapInv'
  <2>0. UNCHANGED <<responseChans, nextReq, sid, req, pc>>
    BY <1>1, Zenon
  <2> HIDE DEF n, f
  <2> SUFFICES ASSUME NEW t \in Sids, NEW k, k = responseChans[t], k # 0
               PROVE  /\ k \in 1..nextReq /\ sid[k] = t
                      /\ Untouched(k)' /\ ~Claimed(k)'
                      /\ \E q \in Procs : pc[q] \in {"write", "wait", "cleanup"} /\ req[q] = k
    BY <2>0 DEF MapInv
  <2>1. /\ k \in 1..nextReq /\ sid[k] = t /\ Untouched(k) /\ ~Claimed(k)
        /\ \E q \in Procs : pc[q] \in {"write", "wait", "cleanup"} /\ req[q] = k
    BY Zenon DEF ChannelInv, MapInv
  <2>2. k # n
    BY <1>3, <2>1, Zenon
  <2> QED
    BY <1>7, <1>9, <1>11, <2>1, <2>2
<1>15. RegisterInv'
  <2> SUFFICES ASSUME NEW q \in Procs, pc[q] = "register", NEW r, r = req[q]
               PROVE  Untouched(r)' /\ ~Claimed(r)' /\ ~Registered(r)'
    BY <1>1, Zenon DEF RegisterInv
  <2>1. Untouched(r) /\ ~Claimed(r) /\ ~Registered(r)
    BY Zenon DEF ChannelInv, RegisterInv
  <2>2. r # n /\ r \in Reqs
    BY <1>3, <1>11, <2>1, Zenon DEF TypeInv, Shape, ReqShape, SendPcs
  <2> QED
    BY <1>7, <1>9, <1>10, <2>1, <2>2, Zenon
<1>16. ClaimInv'
  <2> SUFFICES ASSUME NEW k \in Conns, loopPc'[k] = "send", NEW c, c = loopCh'[k]
               PROVE  /\ Untouched(c)'
                      /\ sid[c] = sid[Head(loopAcc'[k])]
                      /\ \A j \in Conns : loopPc'[j] = "send" /\ loopCh'[j] = c => j = k
    BY <1>1, Zenon DEF ClaimInv
  <2>1. k # l /\ loopPc[k] = "send" /\ c = loopCh[k] /\ loopAcc'[k] = loopAcc[k]
    BY <1>4, Zenon
  <2>2. /\ Untouched(c)
        /\ sid[c] = sid[Head(loopAcc[k])]
        /\ \A j \in Conns : loopPc[j] = "send" /\ loopCh[j] = c => j = k
    BY <2>1, Zenon DEF ChannelInv, ClaimInv
  <2>3. c # n /\ c \in Reqs
    BY <1>1, <1>11, <2>1, <2>2, ZenonT(30) DEF TypeInv, Shape, LoopShape
  <2> QED
    BY <1>4, <1>7, <2>1, <2>2, <2>3, SMTT(20)
<1>17. ReachInv'
  <2> SUFFICES ASSUME NEW q \in Procs, pc[q] \in {"write", "wait"}, NEW r, r = req[q]
               PROVE  \/ responseChans[sid[r]] = r
                      \/ ~Untouched(r)'
                      \/ Claimed(r)'
                      \/ \E k \in 1..nextReq : k # r /\ sid[k] = sid[r]
    BY <1>1, ZenonT(30) DEF ReachInv
  <2>1. \/ responseChans[sid[r]] = r
        \/ ~Untouched(r)
        \/ Claimed(r)
        \/ \E k \in 1..nextReq : k # r /\ sid[k] = sid[r]
    BY Zenon DEF ChannelInv, ReachInv
  <2>2. r \in Reqs
    BY <1>11, Zenon DEF TypeInv, Shape, ReqShape, SendPcs
  <2> QED
    BY <1>7, <1>8, <1>9, <2>1, <2>2, SMTT(20)
<1> QED
  BY <1>6, <1>12, <1>13, <1>14, <1>15, <1>16, <1>17, Zenon DEF ChannelInv

\* Everything else keeps away from channels: the operators' calls up to the
\* sweep, the network, and the read loops before and after dispatchResponse.
LEMMA ChannelOperator ==
  ASSUME TypeInv, ChannelInv, NEW p \in Clients,
         \/ ConnectLock(p) \/ ConnectFail(p) \/ Backoff(p)
         \/ DisconnectLock(p) \/ DisconnectClose(p) \/ \E c \in Calls : Call(p, c)
  PROVE  ChannelInv'
<1>1. UNCHANGED <<mapVars, chanVars, reqVars, loopVars>>
  BY Zenon DEF ConnectLock, ConnectFail, Backoff, DisconnectLock, DisconnectClose, Call
<1>2. pc[p] \notin SendPcs /\ p \in Procs
  BY ProcsFacts, Zenon DEF ConnectLock, ConnectFail, Backoff, DisconnectLock, DisconnectClose,
         Call, SendPcs
<1>3. \E x : x \notin SendPcs /\ pc' = [pc EXCEPT ![p] = x]
  BY Zenon DEF ConnectLock, ConnectFail, Backoff, DisconnectLock, DisconnectClose, Call,
         DisconnectReturns, Return, Goto, SendPcs
<1>4. pc'[p] \notin SendPcs /\ \A q \in Procs : q # p => pc'[q] = pc[q]
  BY <1>2, <1>3, ProcMoves, SMTT(20)
<1> QED
  BY <1>1, <1>2, <1>4, ChannelKept, SMTT(20) DEF loopVars

\* A successful dial starts goroutines that have claimed nothing.
LEMMA ChannelDial ==
  ASSUME TypeInv, ChannelInv, NEW p \in Clients, ConnectDial(p)
  PROVE  ChannelInv'
<1> DEFINE c == conn + 1
<1>1. c \in Conns /\ c > conn
  BY ConstantsAssumption, SMTT(30) DEF ConnectDial, Conns, TypeInv, TypeOK, FlagType
<1>2. pc[c] = "off" /\ loopPc[c] = "none" /\ pc[p] = "dial" /\ p \in Procs /\ c \in Procs /\ p # c
  BY <1>1, ProcsFacts, SMTT(30) DEF ConnectDial, TypeInv, Shape, LoopShape
<1>3. UNCHANGED <<mapVars, chanVars, reqVars, loopAcc, loopCh>>
  BY Zenon DEF ConnectDial
<1>4. \A q \in Procs : q # p /\ q # c => pc'[q] = pc[q]
  BY <1>2, Zenon DEF ConnectDial, TypeInv, TypeOK
<1>5. pc'[p] = "idle" /\ pc'[c] \in {"select", "off"}
  BY <1>2, Zenon DEF ConnectDial, TypeInv, TypeOK
<1>6. loopPc'[c] = "top" /\ \A l \in Conns : l # c => loopPc'[l] = loopPc[l]
  BY <1>1 DEF ConnectDial, TypeInv, TypeOK, LoopType
<1>7. \A q \in Procs : pc'[q] = pc[q] \/ (pc[q] \notin SendPcs /\ pc'[q] \notin SendPcs)
  BY <1>2, <1>4, <1>5, Zenon DEF SendPcs
<1>8. \A l \in Conns : \/ loopPc[l] # "send" /\ loopPc'[l] # "send"
                       \/ loopPc[l] = "send" /\ loopPc'[l] = "send"
  BY <1>2, <1>6, Zenon
<1> QED
  BY <1>3, <1>7, <1>8, ChannelKept, ZenonT(30)

\* readLoop outside dispatchResponse holds no channel.
LEMMA ChannelLoop ==
  ASSUME TypeInv, ChannelInv, NEW l \in Conns,
         LoopTop(l) \/ LoopRead(l) \/ LoopReadError(l) \/ LoopCheck(l) \/ LoopStore(l)
  PROVE  ChannelInv'
<1>1. UNCHANGED <<mapVars, chanVars, reqVars, pc, loopCh>>
  BY Zenon DEF LoopTop, LoopRead, LoopReadError, LoopCheck, LoopStore
<1>2. loopPc[l] # "send" /\ \E x : x # "send" /\ loopPc' = [loopPc EXCEPT ![l] = x]
  BY Zenon DEF LoopTop, LoopRead, LoopReadError, LoopCheck, LoopStore
<1>3. loopPc'[l] # "send" /\ \A k \in Conns : k # l => loopPc'[k] = loopPc[k]
  BY <1>2 DEF TypeInv, TypeOK, LoopType
<1>4. UNCHANGED loopAcc \/ \E a : loopAcc' = [loopAcc EXCEPT ![l] = a]
  BY Zenon DEF LoopTop, LoopRead, LoopReadError, LoopCheck, LoopStore
<1>5. \A k \in Conns : k # l => loopAcc'[k] = loopAcc[k]
  BY <1>4, Zenon DEF TypeInv, TypeOK, LoopType
<1> QED
  BY <1>1, <1>2, <1>3, <1>5, ChannelKept, Zenon

\* The network and stuttering steps touch no channel.
LEMMA ChannelElsewhere ==
  ASSUME ChannelInv, (\E c \in Conns : NoAnswer(c) \/ PeerClose(c)) \/ UNCHANGED vars
  PROVE  ChannelInv'
<1>1. UNCHANGED <<mapVars, chanVars, reqVars, pc, loopVars>>
  BY Zenon DEF NoAnswer, PeerClose, vars
<1> QED
  BY <1>1, ChannelKept, Zenon DEF loopVars

\* SendCommand begins, or returns ErrNotConnected.
LEMMA ChannelSendCommand ==
  ASSUME TypeInv, ChannelInv, NEW p \in Clients, SendCommand(p)
  PROVE  ChannelInv'
<1>1. /\ UNCHANGED <<chanVars, reply, loopVars>> /\ p \in Procs /\ pc[p] \notin SendPcs
  BY ProcsFacts, Zenon DEF SendCommand, SendPcs
<1>2. CASE UNCHANGED <<mapVars, req, pc>>
  BY <1>1, <1>2, ChannelKept, Zenon DEF reqVars, loopVars
<1>3. CASE NewRequest(p) /\ UNCHANGED responseChans
  BY <1>1, <1>3, ChannelNewRequest, Zenon DEF chanVars, loopVars
<1> QED
  BY <1>2, <1>3, Zenon DEF SendCommand

\* The heartbeat sends a command or ends.
LEMMA ChannelHeartbeat ==
  ASSUME TypeInv, ChannelInv, NEW h \in Conns, HeartbeatStep(h)
  PROVE  ChannelInv'
<1>1. /\ UNCHANGED <<chanVars, reply, loopVars>> /\ h \in Procs /\ pc[h] \notin SendPcs
  BY ProcsFacts, SMTT(20) DEF HeartbeatStep, HeartbeatTick, HeartbeatStop, HeartbeatExit, SendPcs, reqVars
<1>2. CASE UNCHANGED <<mapVars, req>> /\ \E x : x \notin SendPcs /\ pc' = [pc EXCEPT ![h] = x]
  <2>1. pc'[h] \notin SendPcs /\ \A q \in Procs : q # h => pc'[q] = pc[q]
    BY <1>1, <1>2, ProcMoves, ZenonT(30)
  <2> QED
    BY <1>1, <1>2, <2>1, ChannelKept, Zenon DEF reqVars, loopVars
<1>3. CASE NewRequest(h) /\ UNCHANGED responseChans
  BY <1>1, <1>3, ChannelNewRequest, Zenon DEF chanVars, loopVars
<1> QED
  BY <1>2, <1>3, SMTT(30) DEF HeartbeatStep, HeartbeatTick, HeartbeatStop, HeartbeatExit, SendPcs, reqVars

\* Every step keeps the discipline of the response channels.
LEMMA ChannelStep == TypeInv /\ ChannelInv /\ [Next]_vars => ChannelInv'
BY ChannelSendCommand, ChannelSendRegister, ChannelSendMove, ChannelSendReceive,
   ChannelSendCleanup, ChannelOperator, ChannelDial, ChannelSweep, ChannelLoop,
   ChannelTake, ChannelDispatchSend, ChannelHeartbeat, ChannelElsewhere, SMTT(30)
DEF Next, SendStep, OperatorStep, LoopStep

\* A new transport has no channels at all.
LEMMA ChannelInit == Init => ChannelInv
<1> SUFFICES ASSUME Init PROVE ChannelInv
  BY Zenon
<1>1. \A p \in Procs : pc[p] \notin SendPcs
  BY Zenon DEF Init, SendPcs
<1>2. ActivationInv /\ RegisterInv /\ ReachInv
  BY <1>1, Zenon DEF ActivationInv, RegisterInv, ReachInv, SendPcs
<1>3. MapInv /\ ClaimInv /\ IssuedInv
  BY Zenon DEF Init, MapInv, ClaimInv, IssuedInv
<1> QED
  BY <1>2, <1>3 DEF Init, ChannelInv

\* The discipline of the response channels holds throughout.
THEOREM ChannelCorrect == Spec => []ChannelInv
<1>1. Init => TypeInv /\ ChannelInv
  BY TypeInit, ChannelInit, Zenon
<1>2. TypeInv /\ ChannelInv /\ [Next]_vars => (TypeInv /\ ChannelInv)'
  BY TypeStep, ChannelStep
<1> QED
  BY <1>1, <1>2, PTL DEF Spec

\* No send on a closed channel and no double close, with any number of
\* goroutines in SendCommand, Disconnect and dispatchResponse at once.
THEOREM NeverPanics == Spec => []NoPanic
<1>1. ChannelInv => NoPanic
  BY Zenon DEF ChannelInv, NoPanic
<1> QED
  BY <1>1, ChannelCorrect, PTL

\* The non-blocking send of dispatchResponse always finds room.
THEOREM AnswersAreNotDropped == Spec => []ClaimedHasRoom
<1>1. ChannelInv => ClaimedHasRoom
  BY Zenon DEF ChannelInv, ClaimInv, Untouched, ClaimedHasRoom
<1> QED
  BY <1>1, ChannelCorrect, PTL

\* The map holds channels of running activations only.
THEOREM NothingLeaks == Spec => []NoLeakedChannel
<1>1. ChannelInv => NoLeakedChannel
  BY Zenon DEF ChannelInv, MapInv, NoLeakedChannel, Executes, SendPcs
<1> QED
  BY <1>1, ChannelCorrect, PTL

\* A waiting SendCommand can be woken, or its identifier has been used again.
THEOREM WaitersAreReachable == Spec => []WaiterReachable
<1>1. ChannelInv => WaiterReachable
  BY Zenon DEF ChannelInv, ReachInv, Untouched, Claimed, WaiterReachable
<1> QED
  BY <1>1, ChannelCorrect, PTL

-----------------------------------------------------------------------------
(***************************************************************************)
(* Service identifiers                                                     *)
(***************************************************************************)

\* Fewer than M steps back, a cyclic counter has another value.
LEMMA CountBackDiffers ==
  ASSUME NEW M \in Nat \ {0}, NEW c \in 1..M, NEW d \in Nat \ {0}, d < M
  PROVE  (IF c - d >= 1 THEN c - d ELSE c - d + M) # c
BY SMTT(30)

\* nextSID gives the new command an identifier unlike those of the last
\* MaxSid - 1 commands.
LEMMA SidNewRequest ==
  ASSUME TypeInv, SidInv, NEW p \in Procs, NewRequest(p)
  PROVE  SidInv'
<1> DEFINE m == nextReq + 1
           c == sidCounter'
<1>1. nextReq \in Nat /\ m \in Reqs /\ nextReq' = m /\ sidCounter \in 0..MaxSid
  BY ConstantsAssumption DEF NewRequest, Reqs, TypeInv, TypeOK, MapType
<1>2. c \in Sids /\ c = IF sidCounter = MaxSid THEN 1 ELSE sidCounter + 1
  BY <1>1, ConstantsAssumption DEF NewRequest, NextSID, Sids
<1>3. sid'[m] = c /\ \A k \in 1..nextReq : sid'[k] = sid[k]
  <2>1. sid \in [Reqs -> 0..MaxSid] /\ sid' = [sid EXCEPT ![m] = c]
    BY Zenon DEF NewRequest, TypeInv, TypeOK, MapType
  <2>2. \A k \in 1..nextReq : k \in Reqs /\ k # m
    BY <1>1, ConstantsAssumption DEF Reqs, TypeInv, TypeOK, MapType
  <2> QED
    BY <1>1, <2>1, <2>2, Zenon
<1>4. ASSUME NEW k \in 1..m, m - k < MaxSid
      PROVE  sid'[k] = IF c - (m - k) >= 1 THEN c - (m - k) ELSE c - (m - k) + MaxSid
  <2>1. CASE k = m
    BY <1>1, <1>2, <1>3, <2>1, ConstantsAssumption DEF Sids
  <2>2. CASE k # m
    <3> DEFINE d == nextReq - k
    <3>1. k \in 1..nextReq /\ d \in Nat /\ d + 1 < MaxSid /\ m - k = d + 1 /\ nextReq > 0
      BY <1>1, <1>4, <2>2, ConstantsAssumption
    <3>2. sidCounter \in 1..MaxSid
      BY <3>1, Zenon DEF SidInv, Sids
    <3>3. d < MaxSid
      BY <3>1, ConstantsAssumption
    <3>4. sid[k] = IF sidCounter - d >= 1 THEN sidCounter - d ELSE sidCounter - d + MaxSid
      BY <3>1, <3>3 DEF SidInv, BackFrom
    <3>5. (IF sidCounter - d >= 1 THEN sidCounter - d ELSE sidCounter - d + MaxSid)
            = (IF c - (d + 1) >= 1 THEN c - (d + 1) ELSE c - (d + 1) + MaxSid)
      <4>1. /\ MaxSid \in Nat \ {0} /\ d \in Nat /\ d + 1 < MaxSid
            /\ c = IF sidCounter = MaxSid THEN 1 ELSE sidCounter + 1
        BY <1>2, <3>1, ConstantsAssumption, Zenon
      <4> HIDE DEF c, d
      <4> QED
        BY <3>2, <4>1
    <3>6. sid'[k] = sid[k]
      BY <1>3, <3>1, Zenon
    <3> QED
      BY <3>1, <3>4, <3>5, <3>6, Zenon
  <2> QED
    BY <2>1, <2>2, Zenon
<1>5. ASSUME NEW a \in 1..m, NEW b \in 1..m, a < b, sid'[a] = sid'[b]
      PROVE  b - a >= MaxSid
  <2>1. CASE b = m
    <3> SUFFICES ASSUME m - a < MaxSid PROVE FALSE
      BY <1>1, <2>1, ConstantsAssumption
    <3>1. m - a \in Nat \ {0}
      BY <1>1, <1>5, <2>1
    <3>2. sid'[a] = IF c - (m - a) >= 1 THEN c - (m - a) ELSE c - (m - a) + MaxSid
      BY <1>4, Zenon
    <3>3. (IF c - (m - a) >= 1 THEN c - (m - a) ELSE c - (m - a) + MaxSid) # c
      BY <1>2, <3>1, CountBackDiffers, ConstantsAssumption, Zenon DEF Sids
    <3> QED
      BY <1>3, <1>5, <2>1, <3>2, <3>3, SMTT(30)
  <2>2. CASE b # m
    <3>1. a \in 1..nextReq /\ b \in 1..nextReq
      BY <1>1, <1>5, <2>2
    <3>2. sid[a] = sid[b]
      BY <1>3, <1>5, <3>1, Zenon
    <3> QED
      BY <1>5, <3>1, <3>2, Zenon DEF SidInv
  <2> QED
    BY <2>1, <2>2, Zenon
<1> QED
  BY <1>1, <1>2, <1>4, <1>5, SMTT(30) DEF SidInv, BackFrom

\* Only NewRequest hands out identifiers.
LEMMA IssueOnly ==
  ASSUME [Next]_vars
  PROVE  \/ UNCHANGED <<sidCounter, nextReq, sid>>
         \/ \E p \in Procs : /\ NewRequest(p) /\ pc[p] \notin SendPcs
                             /\ UNCHANGED <<chanBuf, reply>>
<1>1. CASE \E p \in Clients : SendCommand(p)
  BY <1>1, ProcsFacts, SMTT(20) DEF SendCommand, mapVars, chanVars, SendPcs
<1>2. CASE \E p \in Clients : OperatorStep(p) \/ \E c \in Calls : Call(p, c)
  BY <1>2, ZenonT(30) DEF OperatorStep, ConnectLock, ConnectDial, ConnectFail, Backoff,
         DisconnectLock, DisconnectClose, DisconnectSweep, Call, mapVars
<1>3. CASE \E p \in Procs : SendStep(p)
  BY <1>3, SMTT(20) DEF SendStep, SendRegister, SendWrite, SendReceive, SendGiveUp, SendCleanup, mapVars
<1>4. CASE \E l \in Conns : LoopStep(l)
  BY <1>4, Zenon DEF LoopStep, LoopTop, LoopRead, LoopReadError, DispatchTake, DispatchSend,
         LoopCheck, LoopStore, mapVars
<1>5. CASE \E h \in Conns : HeartbeatStep(h)
  BY <1>5, ProcsFacts, Zenon DEF HeartbeatStep, HeartbeatTick, HeartbeatStop, HeartbeatExit,
         mapVars, chanVars, SendPcs
<1>6. CASE (\E c \in Conns : NoAnswer(c) \/ PeerClose(c)) \/ UNCHANGED vars
  BY <1>6, Zenon DEF NoAnswer, PeerClose, vars, mapVars
<1> QED
  BY <1>1, <1>2, <1>3, <1>4, <1>5, <1>6, SMTT(30) DEF Next

\* Every step keeps what is known of the identifiers.
LEMMA SidStep == TypeInv /\ SidInv /\ [Next]_vars => SidInv'
<1> SUFFICES ASSUME TypeInv, SidInv, [Next]_vars PROVE SidInv'
  BY Zenon
<1>1. CASE UNCHANGED <<sidCounter, nextReq, sid>>
  BY <1>1, Zenon DEF SidInv, BackFrom
<1>2. CASE \E p \in Procs : NewRequest(p)
  BY <1>2, SidNewRequest, Zenon
<1> QED
  BY <1>1, <1>2, IssueOnly, Zenon

-----------------------------------------------------------------------------
(***************************************************************************)
(* Whose answer a channel gets                                             *)
(***************************************************************************)

\* Only dispatchResponse fills a channel, and only the select empties it.
LEMMA FillOnly ==
  ASSUME [Next]_vars
  PROVE  \/ UNCHANGED <<chanBuf, reply>>
         \/ \E p \in Procs : SendReceive(p)
         \/ \E l \in Conns : DispatchSend(l)
<1>1. CASE \E p \in Clients : SendCommand(p)
  BY <1>1, SMTT(20) DEF SendCommand, chanVars
<1>2. CASE \E p \in Clients : OperatorStep(p) \/ \E c \in Calls : Call(p, c)
  BY <1>2, Zenon DEF OperatorStep, ConnectLock, ConnectDial, ConnectFail, Backoff,
         DisconnectLock, DisconnectClose, DisconnectSweep, Call, chanVars, reqVars
<1>3. CASE \E p \in Procs : SendStep(p)
  BY <1>3, Zenon DEF SendStep, SendRegister, SendWrite, SendGiveUp, SendCleanup, chanVars, reqVars
<1>4. CASE \E l \in Conns : LoopStep(l)
  BY <1>4, Zenon DEF LoopStep, LoopTop, LoopRead, LoopReadError, DispatchTake,
         LoopCheck, LoopStore, chanVars, reqVars
<1>5. CASE \E h \in Conns : HeartbeatStep(h)
  BY <1>5, Zenon DEF HeartbeatStep, HeartbeatTick, HeartbeatStop, HeartbeatExit, chanVars, reqVars
<1>6. CASE (\E c \in Conns : NoAnswer(c) \/ PeerClose(c)) \/ UNCHANGED vars
  BY <1>6, Zenon DEF NoAnswer, PeerClose, vars, chanVars, reqVars
<1> QED
  BY <1>1, <1>2, <1>3, <1>4, <1>5, <1>6, SMTT(30) DEF Next

\* Every step keeps frames with channels and callers of their own identifier.
LEMMA FrameStep ==
  TypeInv /\ ChannelInv /\ FrameInv /\ [Next]_vars => FrameInv'
<1> SUFFICES ASSUME TypeInv, ChannelInv, FrameInv, [Next]_vars PROVE FrameInv'
  BY Zenon
<1>1. \A k \in 1..nextReq : k \in Reqs
  BY ConstantsAssumption, SMTT(30) DEF TypeInv, TypeOK, MapType, Reqs
<1>2. CASE \E p \in Procs : SendReceive(p)
  <2>1. PICK p \in Procs : SendReceive(p)
    BY <1>2, Zenon
  <2> DEFINE n == req[p]
  <2>2. n \in Reqs /\ UNCHANGED <<nextReq, sid>>
    BY <1>1, <2>1, SMTT(30) DEF SendReceive, mapVars, TypeInv, Shape, ReqShape, SendPcs
  <2>3. /\ chanBuf'[n] = 0 /\ reply'[n] = chanBuf[n]
        /\ \A k \in Reqs : k # n => chanBuf'[k] = chanBuf[k] /\ reply'[k] = reply[k]
    BY <2>1, <2>2, SMTT(20) DEF SendReceive, TypeInv, TypeOK, ChanType, ReqType
  <2> QED
    BY <2>2, <2>3 DEF FrameInv
<1>3. CASE \E l \in Conns : DispatchSend(l)
  <2>1. PICK l \in Conns : DispatchSend(l)
    BY <1>3, Zenon
  <2> DEFINE n == loopCh[l]
             f == Head(loopAcc[l])
  <2>2. UNCHANGED <<nextReq, sid, reply>> /\ loopPc[l] = "send"
    BY <2>1, SMTT(30) DEF DispatchSend, mapVars, reqVars
  <2>3. f \in 1..nextReq /\ n \in Reqs
    BY <1>1, <2>2, TailFacts, ZenonT(30) DEF TypeInv, TypeOK, LoopType, Shape, LoopShape
  <2>4. sid[f] = sid[n] /\ chanBuf[n] = 0
    BY <2>2, Zenon DEF ChannelInv, ClaimInv, Untouched
  <2>5. chanBuf'[n] = f /\ \A k \in Reqs : k # n => chanBuf'[k] = chanBuf[k]
    BY <2>1, <2>3, <2>4, SMTT(30) DEF DispatchSend, TypeInv, TypeOK, ChanType
  <2> QED
    BY <2>2, <2>3, <2>4, <2>5, ZenonT(30) DEF FrameInv
<1>4. CASE UNCHANGED <<chanBuf, reply>> /\ UNCHANGED <<sidCounter, nextReq, sid>>
  BY <1>4, Zenon DEF FrameInv
<1>5. CASE \E p \in Procs : NewRequest(p) /\ UNCHANGED <<chanBuf, reply>>
  <2>1. nextReq \in Nat /\ nextReq' = nextReq + 1
    BY <1>5 DEF NewRequest, TypeInv, TypeOK, MapType
  <2>2. \A k \in 1..nextReq : k \in 1..nextReq' /\ k # nextReq'
    BY <2>1
  <2>3. \A k \in 1..nextReq : sid'[k] = sid[k]
    BY <1>1, <1>5, <2>2, ZenonT(30) DEF NewRequest, TypeInv, TypeOK, MapType
  <2>4. \A n \in Reqs : n \notin 1..nextReq => chanBuf[n] = 0 /\ reply[n] = 0
    BY <2>1 DEF ChannelInv, IssuedInv, Reqs
  <2>5. UNCHANGED <<chanBuf, reply>>
    BY <1>5, Zenon
  <2> SUFFICES ASSUME NEW n \in Reqs
               PROVE  /\ chanBuf[n] # 0 =>
                           chanBuf[n] \in 1..nextReq' /\ sid'[chanBuf[n]] = sid'[n]
                      /\ reply[n] # 0 =>
                           reply[n] \in 1..nextReq' /\ sid'[reply[n]] = sid'[n]
    BY <2>5, Zenon DEF FrameInv
  <2>6. CASE n \in 1..nextReq
    BY <2>2, <2>3, <2>6, Zenon DEF FrameInv
  <2>7. CASE n \notin 1..nextReq
    BY <2>4, <2>7, Zenon
  <2> QED
    BY <2>6, <2>7, SMTT(30)
<1> QED
  BY <1>2, <1>3, <1>4, <1>5, FillOnly, IssueOnly

\* The whole correlation invariant, as the runs check it.
THEOREM CorrelationCorrect == Spec => []CorrelationInv
<1> DEFINE I == TypeInv /\ ChannelInv /\ SidInv /\ FrameInv
<1>1. Init => I
  <2>1. Init => nextReq = 0 /\ \A n \in Reqs : chanBuf[n] = 0 /\ reply[n] = 0
    BY DEF Init
  <2>2. nextReq = 0 => SidInv
    BY DEF SidInv
  <2>3. (\A n \in Reqs : chanBuf[n] = 0 /\ reply[n] = 0) => FrameInv
    BY Zenon DEF FrameInv
  <2> QED
    BY <2>1, <2>2, <2>3, TypeInit, ChannelInit, Zenon
<1>2. I /\ [Next]_vars => I'
  BY TypeStep, ChannelStep, SidStep, FrameStep, Zenon
<1>3. I => CorrelationInv
  BY Zenon DEF ChannelInv, CorrelationInv
<1> QED
  BY <1>1, <1>2, <1>3, PTL DEF Spec

\* SendCommand returns the answer to its own command unless at least MaxSid
\* commands lie between: with the 255 identifiers of the code, a caller is never
\* handed the answer to any of the 254 commands before or after its own.
THEOREM OwnResponseOnly == Spec => []OwnResponse
<1>1. TypeInv /\ CorrelationInv => OwnResponse
  <2> SUFFICES ASSUME TypeInv, CorrelationInv, NEW n \in Reqs, reply[n] # 0, reply[n] # n
               PROVE  reply[n] - n >= MaxSid \/ n - reply[n] >= MaxSid
    BY Zenon DEF OwnResponse
  <2>1. n \in 1..nextReq
    BY DEF CorrelationInv, IssuedInv, Reqs, TypeInv, TypeOK, MapType
  <2>2. reply[n] \in 1..nextReq /\ sid[reply[n]] = sid[n]
    BY Zenon DEF CorrelationInv, FrameInv
  <2>3. \A j, k \in 1..nextReq : j < k /\ sid[j] = sid[k] => k - j >= MaxSid
    BY Zenon DEF CorrelationInv, SidInv
  <2>4. reply[n] < n \/ n < reply[n]
    BY <2>1, <2>2
  <2> QED
    BY <2>1, <2>2, <2>3, <2>4, Zenon
<1> QED
  BY <1>1, TypeCorrect, CorrelationCorrect, PTL
=============================================================================

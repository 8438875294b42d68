------------------------------ MODULE TransportInv ------------------------------
(***************************************************************************)
(* The inductive invariants behind the safety properties of Transport.     *)
(***************************************************************************)
EXTENDS Transport

(***************************************************************************)
(* Which values go with which program counters.                            *)
(***************************************************************************)
ClientPcs == {"idle"} \cup SendPcs \cup OperatorPcs

\* Clients run SendCommand and the operators' calls, heartbeat goroutines run
\* their loop and SendCommand.
PcShape ==
  /\ \A p \in Clients : pc[p] \in ClientPcs
  /\ \A h \in Conns : pc[h] \in HeartbeatPcs \cup SendPcs

\* An activation of SendCommand has been issued, with a service identifier.
ReqShape ==
  /\ \A p \in Procs : pc[p] \in SendPcs => req[p] \in 1..nextReq
  /\ \A n \in 1..nextReq : sid[n] \in Sids

\* The goroutines of connections that do not exist yet have not been started;
\* a loop that reads does so on a connection not older than its own.
LoopShape ==
  /\ \A l \in Conns : l > conn => loopPc[l] = "none" /\ pc[l] = "off"
  /\ \A l \in Conns : l <= conn => loopPc[l] # "none"
  /\ \A l \in Conns : loopPc[l] = "read" => loopOn[l] \in l..conn
  /\ \A l \in Conns : loopPc[l] \in {"dispatch", "send"} => loopAcc[l] # <<>>
  /\ \A l \in Conns : loopPc[l] = "send" => loopCh[l] \in 1..nextReq

Shape == PcShape /\ ReqShape /\ LoopShape
TypeInv == TypeOK /\ Shape

(***************************************************************************)
(* Connect and Disconnect: what the flags mean, and for whom.              *)
(***************************************************************************)

\* t.mu is held exactly by the client that dials, closes or sweeps.
MuInv ==
  \A p \in Clients : pc[p] \in {"dial", "close", "sweep"} <=> mu = p

\* The holder's place tells what the flags can be; when nobody is about to
\* close the socket, closed says that the socket of t.conn is closed.
FlagInv ==
  /\ connected => conn # 0
  /\ \A p \in Clients : pc[p] \in {"dial", "sweep"} => ~connected
  /\ \A p \in Clients : pc[p] = "dial" => ~closed
  /\ \A p \in Clients : pc[p] \in {"close", "sweep"} => closed /\ conn # 0
  /\ closed => \/ \E p \in Clients : pc[p] = "close"
               \/ conn # 0 /\ ~connected /\ link[conn] = "closed"

LifecycleInv == MuInv /\ FlagInv /\ ReaderAlive /\ OwnLoopLeavesBroken

(***************************************************************************)
(* SendCommand, dispatchResponse and the sweep of Disconnect: who may      *)
(* still touch which channel.                                              *)
(***************************************************************************)

Registered(n) == \E s \in Sids : responseChans[s] = n
Claimed(n) == \E l \in Conns : loopPc[l] = "send" /\ loopCh[l] = n
Untouched(n) == chanBuf[n] = 0 /\ n \notin chanClosed

\* One goroutine per activation.
ActivationInv ==
  \A p, q \in Procs : pc[p] \in SendPcs /\ pc[q] \in SendPcs /\ req[p] = req[q] => p = q

\* Only activations that have been issued have a used channel.
IssuedInv ==
  /\ chanClosed \subseteq 1..nextReq
  /\ \A n \in Reqs : n > nextReq => chanBuf[n] = 0 /\ reply[n] = 0

\* A channel in the map is registered under its own identifier only, nobody has
\* claimed, filled or closed it, and its SendCommand is still running.
MapInv ==
  \A s \in Sids : responseChans[s] # 0 =>
    LET n == responseChans[s] IN
    /\ n \in 1..nextReq /\ sid[n] = s
    /\ Untouched(n) /\ ~Claimed(n)
    /\ \E p \in Procs : pc[p] \in {"write", "wait", "cleanup"} /\ req[p] = n

\* Before its registration nobody knows the channel.
RegisterInv ==
  \A p \in Procs : pc[p] = "register" =>
    Untouched(req[p]) /\ ~Claimed(req[p]) /\ ~Registered(req[p])

\* A claimed channel is out of the map, belongs to one dispatcher, has room and
\* is open; it was found under the identifier of the frame.
ClaimInv ==
  \A l \in Conns : loopPc[l] = "send" =>
    /\ Untouched(loopCh[l])
    /\ sid[loopCh[l]] = sid[Head(loopAcc[l])]
    /\ \A k \in Conns : loopPc[k] = "send" /\ loopCh[k] = loopCh[l] => k = l

\* Frames reach channels and callers of their own identifier only.
FrameInv ==
  \A n \in Reqs :
    /\ chanBuf[n] # 0 => chanBuf[n] \in 1..nextReq /\ sid[chanBuf[n]] = sid[n]
    /\ reply[n] # 0 => reply[n] \in 1..nextReq /\ sid[reply[n]] = sid[n]

\* The last MaxSid identifiers, counted back from sidCounter.
BackFrom(k) ==
  IF sidCounter - k >= 1 THEN sidCounter - k ELSE sidCounter - k + MaxSid

SidInv ==
  /\ nextReq > 0 => sidCounter \in Sids
  /\ \A m \in 1..nextReq : nextReq - m < MaxSid => sid[m] = BackFrom(nextReq - m)
  /\ \A m, n \in 1..nextReq : m < n /\ sid[m] = sid[n] => n - m >= MaxSid

\* WaiterReachable, from the registration on.
ReachInv ==
  \A p \in Procs : pc[p] \in {"write", "wait"} =>
    \/ responseChans[sid[req[p]]] = req[p]
    \/ ~Untouched(req[p])
    \/ Claimed(req[p])
    \/ \E n \in 1..nextReq : n # req[p] /\ sid[n] = sid[req[p]]

CorrelationInv ==
  /\ ~panicked
  /\ ActivationInv /\ IssuedInv /\ MapInv /\ RegisterInv /\ ClaimInv
  /\ FrameInv /\ SidInv /\ ReachInv
=============================================================================

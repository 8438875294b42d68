------------------------------- MODULE Transport -------------------------------
(***************************************************************************)
(* The FINS/TCP transport of src/transport.go: the goroutines that share   *)
(* one Transport value.                                                    *)
(*                                                                         *)
(*   - callers run SendCommand, Connect, Disconnect and Reconnect;         *)
(*   - every successful Connect starts a readLoop goroutine;               *)
(*   - Connect may start a heartbeat goroutine, which runs SendCommand on  *)
(*     every tick.                                                         *)
(*                                                                         *)
(* A step is what one goroutine does between two points where another one  *)
(* can observe it.  The critical sections of respMu and sidMu contain no   *)
(* blocking operation, so each is one step.  t.mu is held across a dial    *)
(* and is therefore a variable.                                            *)
(*                                                                         *)
(* Each activation of SendCommand has a number, its request; the local     *)
(* variables sid and respCh of the activation are indexed by it.  A frame  *)
(* on the wire is represented by the request it belongs to: its SID field  *)
(* is sid[request].                                                        *)
(***************************************************************************)
EXTENDS Integers, Sequences, FiniteSets

CONSTANTS
  Senders,      \* goroutines that call SendCommand
  Operators,    \* goroutines that call Connect, Disconnect or Reconnect
  Calls,        \* which of those three calls the operators make
  MaxSid,       \* the largest service identifier (255 for the uint8 of the code)
  MaxRequests,  \* bound: activations of SendCommand
  MaxConns,     \* bound: successful dials
  MaxRetries,   \* t.maxRetries
  Heartbeat,    \* t.heartbeatInterval > 0
  PeerCloses    \* whether the PLC or the network may drop a connection

Reqs == 1..MaxRequests
Conns == 1..MaxConns
Sids == 1..MaxSid
Clients == Senders \cup Operators
\* A heartbeat goroutine is named by the connection whose Connect started it.
Procs == Clients \cup Conns
\* The value of mu when t.mu is unlocked.
Nobody == 0

ASSUME ConstantsAssumption ==
  /\ MaxSid \in Nat \ {0}
  /\ MaxRequests \in Nat
  /\ MaxConns \in Nat
  /\ MaxRetries \in Nat
  /\ Heartbeat \in BOOLEAN
  /\ PeerCloses \in BOOLEAN
  /\ Calls \subseteq {"connect", "disconnect", "reconnect"}
  /\ Clients \cap (Conns \cup {Nobody}) = {}

VARIABLES
  connected, closed,   \* the atomic flags
  conn,                \* t.conn and t.reader: 0 is nil, n the n-th successful dial
  mu,                  \* holder of t.mu
  sidCounter, responseChans,
  heartbeatRunning,
  stopHeartbeat,       \* whether the buffered channel holds its one token
  reconnectCount,
  pc,                  \* where each goroutine is
  call,                \* the public function a client is executing
  attempt,             \* loop variable of Reconnect
  req,                 \* the current activation of SendCommand, 0 for none
  outcome,             \* what the operator's last call returned
  nextReq,             \* activations of SendCommand so far
  sid,                 \* local variable sid of each activation
  chanBuf,             \* content of respCh of each activation, 0 when empty
  chanClosed,          \* the activations whose respCh has been closed
  reply,               \* the frame an activation returns, 0 for none or an error
  loopPc, loopOn, loopAcc, loopCh,  \* the readLoop goroutines
  link, wire,          \* the TCP connections
  panicked             \* a send on or a close of a closed channel has happened

flagVars == <<connected, closed, conn, mu>>
mapVars == <<sidCounter, responseChans, nextReq, sid>>
chanVars == <<chanBuf, chanClosed, panicked>>
hbVars == <<heartbeatRunning, stopHeartbeat>>
callVars == <<call, attempt, reconnectCount, outcome>>
reqVars == <<req, reply>>
loopVars == <<loopPc, loopOn, loopAcc, loopCh>>
netVars == <<link, wire>>
vars == <<flagVars, mapVars, chanVars, hbVars, callVars, reqVars, loopVars,
          netVars, pc>>

SendPcs == {"register", "write", "wait", "cleanup"}
OperatorPcs == {"lockConnect", "dial", "lockDisconnect", "close", "sweep", "backoff"}
HeartbeatPcs == {"off", "select", "exit"}
Pcs == {"idle"} \cup SendPcs \cup OperatorPcs \cup HeartbeatPcs
LoopPcs == {"none", "top", "read", "dispatch", "send", "check", "store", "dead"}
CallNames == {"none", "connect", "disconnect", "reconnect"}
Outcomes == {"none", "ok", "error"}
Links == {"unused", "open", "peerClosed", "closed"}

FlagType ==
  /\ connected \in BOOLEAN /\ closed \in BOOLEAN
  /\ conn \in 0..MaxConns
  /\ mu \in Clients \cup {Nobody}

MapType ==
  /\ nextReq \in 0..MaxRequests
  /\ sidCounter \in 0..MaxSid
  /\ sid \in [Reqs -> 0..MaxSid]
  /\ responseChans \in [Sids -> 0..nextReq]

ChanType ==
  /\ chanBuf \in [Reqs -> 0..MaxRequests]
  /\ chanClosed \subseteq Reqs
  /\ panicked \in BOOLEAN

CallType ==
  /\ call \in [Clients -> CallNames]
  /\ attempt \in [Clients -> Nat]
  /\ outcome \in [Clients -> Outcomes]
  /\ reconnectCount \in Nat

ReqType ==
  /\ req \in [Procs -> 0..MaxRequests]
  /\ reply \in [Reqs -> 0..MaxRequests]

LoopType ==
  /\ loopPc \in [Conns -> LoopPcs]
  /\ loopOn \in [Conns -> 0..MaxConns]
  /\ loopAcc \in [Conns -> Seq(1..nextReq)]
  /\ loopCh \in [Conns -> 0..MaxRequests]

NetType ==
  /\ link \in [Conns -> Links]
  /\ wire \in [Conns -> Seq(1..nextReq)]

\* The types of all variables.
TypeOK ==
  /\ FlagType /\ MapType /\ ChanType /\ CallType /\ ReqType /\ LoopType /\ NetType
  /\ heartbeatRunning \in BOOLEAN /\ stopHeartbeat \in BOOLEAN
  /\ pc \in [Procs -> Pcs]

\* NewTransport: nothing is connected, no goroutine runs.
Init ==
  /\ connected = FALSE /\ closed = FALSE /\ conn = 0 /\ mu = Nobody
  /\ sidCounter = 0 /\ responseChans = [s \in Sids |-> 0]
  /\ heartbeatRunning = FALSE /\ stopHeartbeat = FALSE
  /\ reconnectCount = 0
  /\ pc = [p \in Procs |-> IF p \in Clients THEN "idle" ELSE "off"]
  /\ call = [p \in Clients |-> "none"]
  /\ attempt = [p \in Clients |-> 0]
  /\ req = [p \in Procs |-> 0]
  /\ outcome = [p \in Clients |-> "none"]
  /\ nextReq = 0
  /\ sid = [n \in Reqs |-> 0]
  /\ chanBuf = [n \in Reqs |-> 0]
  /\ chanClosed = {}
  /\ reply = [n \in Reqs |-> 0]
  /\ loopPc = [l \in Conns |-> "none"]
  /\ loopOn = [l \in Conns |-> 0]
  /\ loopAcc = [l \in Conns |-> <<>>]
  /\ loopCh = [l \in Conns |-> 0]
  /\ link = [c \in Conns |-> "unused"]
  /\ wire = [c \in Conns |-> <<>>]
  /\ panicked = FALSE

-----------------------------------------------------------------------------
(***************************************************************************)
(* SendCommand, run by a client or by a heartbeat goroutine                *)
(***************************************************************************)

\* Where a goroutine goes on after SendCommand: the heartbeat ignores the result.
Resume(p) == IF p \in Clients THEN "idle" ELSE "select"

\* Mutant of NextSID: a wrap-around one identifier early.
NextSIDEarly(s) == IF s + 1 >= MaxSid THEN 1 ELSE s + 1

\* uint8 increment, skipping 0.
NextSID(s) == IF s = MaxSid THEN 1 ELSE s + 1

\* nextSID and make(chan): a new activation of SendCommand.  sidCounter is
\* looked at by nextSID only, so the step includes the check of the caller.
NewRequest(p) ==
  /\ nextReq < MaxRequests
  /\ nextReq' = nextReq + 1
  /\ sidCounter' = NextSID(sidCounter)
  /\ sid' = [sid EXCEPT ![nextReq'] = sidCounter']
  /\ req' = [req EXCEPT ![p] = nextReq']
  /\ pc' = [pc EXCEPT ![p] = "register"]

SendCommand(p) ==
  /\ p \in Senders /\ pc[p] = "idle"
  /\ \/ /\ ~connected
        /\ UNCHANGED <<mapVars, req, pc>>
     \/ /\ connected
        /\ NewRequest(p)
        /\ UNCHANGED responseChans
  /\ UNCHANGED <<flagVars, chanVars, hbVars, callVars, reply, loopVars, netVars>>

\* t.responseChans[sid] = respCh
SendRegister(p) ==
  /\ pc[p] = "register"
  /\ responseChans' = [responseChans EXCEPT ![sid[req[p]]] = req[p]]
  /\ pc' = [pc EXCEPT ![p] = "write"]
  /\ UNCHANGED <<flagVars, sidCounter, nextReq, sid, chanVars, hbVars, callVars,
                 reqVars, loopVars, netVars>>

\* Lock t.mu, write the frame to the current connection, unlock.  The write
\* can fail on any link (write deadline, reset, closed socket); on one the
\* peer has dropped it can also succeed without reaching anybody.
SendWrite(p) ==
  /\ pc[p] = "write" /\ mu = Nobody
  /\ \/ /\ conn # 0 /\ link[conn] # "closed"
        /\ wire' = IF link[conn] = "open"
                   THEN [wire EXCEPT ![conn] = Append(@, req[p])] ELSE wire
        /\ pc' = [pc EXCEPT ![p] = "wait"]
     \/ /\ pc' = [pc EXCEPT ![p] = "cleanup"]
        /\ UNCHANGED wire
  /\ UNCHANGED <<flagVars, mapVars, chanVars, hbVars, callVars, reqVars,
                 loopVars, link>>

\* The select: a frame, a closed channel, or the timer or the context.
SendReceive(p) ==
  /\ pc[p] = "wait" /\ chanBuf[req[p]] # 0
  /\ reply' = [reply EXCEPT ![req[p]] = chanBuf[req[p]]]
  /\ chanBuf' = [chanBuf EXCEPT ![req[p]] = 0]
  /\ pc' = [pc EXCEPT ![p] = "cleanup"]
  /\ UNCHANGED <<flagVars, mapVars, chanClosed, panicked, hbVars, callVars, req,
                 loopVars, netVars>>

SendGiveUp(p) ==
  /\ pc[p] = "wait"
  /\ pc' = [pc EXCEPT ![p] = "cleanup"]
  /\ UNCHANGED <<flagVars, mapVars, chanVars, hbVars, callVars, reqVars,
                 loopVars, netVars>>

\* Mutant of SendCleanup: without the delete.
SendCleanupForgets(p) ==
  /\ pc[p] = "cleanup"
  /\ req' = [req EXCEPT ![p] = 0]
  /\ pc' = [pc EXCEPT ![p] = Resume(p)]
  /\ UNCHANGED <<flagVars, mapVars, chanVars, hbVars, callVars, reply, loopVars, netVars>>

\* The deferred delete(t.responseChans, sid), then return.
SendCleanup(p) ==
  /\ pc[p] = "cleanup"
  /\ responseChans' = [responseChans EXCEPT ![sid[req[p]]] = 0]
  /\ req' = [req EXCEPT ![p] = 0]
  /\ pc' = [pc EXCEPT ![p] = Resume(p)]
  /\ UNCHANGED <<flagVars, sidCounter, nextReq, sid, chanVars, hbVars, callVars,
                 reply, loopVars, netVars>>

-----------------------------------------------------------------------------
(***************************************************************************)
(* Connect, Disconnect and Reconnect                                       *)
(***************************************************************************)

Result(p, o) ==
  /\ call' = [call EXCEPT ![p] = "none"]
  /\ attempt' = [attempt EXCEPT ![p] = 0]
  /\ outcome' = [outcome EXCEPT ![p] = o]

Return(p, o) ==
  /\ pc' = [pc EXCEPT ![p] = "idle"]
  /\ Result(p, o)

Goto(p, where) ==
  /\ pc' = [pc EXCEPT ![p] = where]
  /\ UNCHANGED <<call, attempt, outcome>>

Call(p, c) ==
  /\ p \in Operators /\ c \in Calls /\ pc[p] = "idle"
  /\ call' = [call EXCEPT ![p] = c]
  /\ outcome' = [outcome EXCEPT ![p] = "none"]
  /\ pc' = [pc EXCEPT ![p] = IF c = "connect" THEN "lockConnect" ELSE "lockDisconnect"]
  /\ UNCHANGED <<flagVars, mapVars, chanVars, hbVars, attempt, reconnectCount,
                 reqVars, loopVars, netVars>>

\* Reconnect counts every Connect that returns nil, also one that found the
\* transport connected already.
CountReconnect(p) ==
  reconnectCount' = IF call[p] = "reconnect" THEN reconnectCount + 1 ELSE reconnectCount

\* Lock t.mu; return at once when connected, else closed.Store(false).
ConnectLock(p) ==
  /\ pc[p] = "lockConnect" /\ mu = Nobody
  /\ \/ /\ connected
        /\ Return(p, "ok")
        /\ CountReconnect(p)
        /\ UNCHANGED flagVars
     \/ /\ ~connected
        /\ closed' = FALSE
        /\ mu' = p
        /\ Goto(p, "dial")
        /\ UNCHANGED <<connected, conn, reconnectCount>>
  /\ UNCHANGED <<mapVars, chanVars, hbVars, reqVars, loopVars, netVars>>

\* Mutant of ConnectDial: startHeartbeat does not look at heartbeatRunning.
ConnectDialAlwaysBeats(p) ==
  LET c == conn + 1 IN
  /\ pc[p] = "dial" /\ conn < MaxConns
  /\ conn' = c
  /\ link' = [link EXCEPT ![c] = "open"]
  /\ connected' = TRUE
  /\ loopPc' = [loopPc EXCEPT ![c] = "top"]
  /\ heartbeatRunning' = (heartbeatRunning \/ Heartbeat)
  /\ pc' = [pc EXCEPT ![p] = "idle", ![c] = IF Heartbeat THEN "select" ELSE @]
  /\ mu' = Nobody
  /\ Result(p, "ok")
  /\ CountReconnect(p)
  /\ UNCHANGED <<closed, mapVars, chanVars, stopHeartbeat, reqVars, loopOn,
                 loopAcc, loopCh, wire>>

\* The dial succeeds: publish the connection, start its readLoop, start a
\* heartbeat unless one is running, unlock.
ConnectDial(p) ==
  LET c == conn + 1 IN
  /\ pc[p] = "dial" /\ conn < MaxConns
  /\ conn' = c
  /\ link' = [link EXCEPT ![c] = "open"]
  /\ connected' = TRUE
  /\ loopPc' = [loopPc EXCEPT ![c] = "top"]
  /\ heartbeatRunning' = (heartbeatRunning \/ Heartbeat)
  /\ pc' = [pc EXCEPT ![p] = "idle",
                      ![c] = IF Heartbeat /\ ~heartbeatRunning THEN "select" ELSE @]
  /\ mu' = Nobody
  /\ Result(p, "ok")
  /\ CountReconnect(p)
  /\ UNCHANGED <<closed, mapVars, chanVars, stopHeartbeat, reqVars, loopOn,
                 loopAcc, loopCh, wire>>

\* Mutant of ConnectFail: the error path returns without unlocking t.mu.
ConnectFailKeepsLock(p) ==
  /\ pc[p] = "dial"
  /\ IF call[p] = "reconnect" /\ attempt[p] < MaxRetries - 1
     THEN Goto(p, "backoff") ELSE Return(p, "error")
  /\ UNCHANGED <<flagVars, mapVars, chanVars, hbVars, reconnectCount, reqVars,
                 loopVars, netVars>>

\* The dial fails: unlock.  Reconnect sleeps unless this was its last attempt.
ConnectFail(p) ==
  /\ pc[p] = "dial"
  /\ mu' = Nobody
  /\ IF call[p] = "reconnect" /\ attempt[p] < MaxRetries - 1
     THEN Goto(p, "backoff") ELSE Return(p, "error")
  /\ UNCHANGED <<connected, closed, conn, mapVars, chanVars, hbVars,
                 reconnectCount, reqVars, loopVars, netVars>>

\* Between two attempts Reconnect waits for the interval or for its context.
Backoff(p) ==
  /\ pc[p] = "backoff"
  /\ \/ /\ attempt' = [attempt EXCEPT ![p] = @ + 1]
        /\ pc' = [pc EXCEPT ![p] = "lockConnect"]
        /\ UNCHANGED <<call, outcome>>
     \/ Return(p, "error")
  /\ UNCHANGED <<flagVars, mapVars, chanVars, hbVars, reconnectCount, reqVars,
                 loopVars, netVars>>

\* Where Disconnect returns to: the caller, or the attempts of Reconnect.
DisconnectReturns(p) ==
  IF call[p] # "reconnect" THEN Return(p, "ok")
  ELSE IF MaxRetries > 0 THEN Goto(p, "lockConnect")
  ELSE Return(p, "error")

\* Lock t.mu; return at once when not connected, else set closed and leave a
\* stop token for the heartbeat unless one is waiting already.
DisconnectLock(p) ==
  /\ pc[p] = "lockDisconnect" /\ mu = Nobody
  /\ \/ /\ ~connected
        /\ DisconnectReturns(p)
        /\ UNCHANGED <<closed, mu, stopHeartbeat>>
     \/ /\ connected
        /\ closed' = TRUE
        /\ stopHeartbeat' = TRUE
        /\ mu' = p
        /\ Goto(p, "close")
  /\ UNCHANGED <<connected, conn, mapVars, chanVars, heartbeatRunning,
                 reconnectCount, reqVars, loopVars, netVars>>

\* Close the socket (what it still held is gone), connected.Store(false).
DisconnectClose(p) ==
  /\ pc[p] = "close"
  /\ link' = [link EXCEPT ![conn] = "closed"]
  /\ wire' = [wire EXCEPT ![conn] = <<>>]
  /\ connected' = FALSE
  /\ Goto(p, "sweep")
  /\ UNCHANGED <<closed, conn, mu, mapVars, chanVars, hbVars, reconnectCount,
                 reqVars, loopVars>>

\* Mutants of DisconnectSweep: the channels are deleted but not closed; closed
\* but not deleted; t.mu stays locked.
DisconnectSweepNoClose(p) ==
  /\ pc[p] = "sweep"
  /\ responseChans' = [s \in Sids |-> 0]
  /\ mu' = Nobody
  /\ DisconnectReturns(p)
  /\ UNCHANGED <<connected, closed, conn, sidCounter, nextReq, sid, chanVars,
                 hbVars, reconnectCount, reqVars, loopVars, netVars>>

DisconnectSweepNoDelete(p) ==
  LET swept == {responseChans[s] : s \in Sids} \ {0} IN
  /\ pc[p] = "sweep"
  /\ panicked' = (panicked \/ swept \cap chanClosed # {})
  /\ chanClosed' = chanClosed \cup swept
  /\ mu' = Nobody
  /\ DisconnectReturns(p)
  /\ UNCHANGED <<connected, closed, conn, mapVars, chanBuf, hbVars,
                 reconnectCount, reqVars, loopVars, netVars>>

DisconnectSweepKeepsLock(p) ==
  LET swept == {responseChans[s] : s \in Sids} \ {0} IN
  /\ pc[p] = "sweep"
  /\ panicked' = (panicked \/ swept \cap chanClosed # {})
  /\ chanClosed' = chanClosed \cup swept
  /\ responseChans' = [s \in Sids |-> 0]
  /\ DisconnectReturns(p)
  /\ UNCHANGED <<flagVars, sidCounter, nextReq, sid, chanBuf, hbVars,
                 reconnectCount, reqVars, loopVars, netVars>>

\* Close and delete every registered channel under respMu, then unlock t.mu.
DisconnectSweep(p) ==
  LET swept == {responseChans[s] : s \in Sids} \ {0} IN
  /\ pc[p] = "sweep"
  /\ panicked' = (panicked \/ swept \cap chanClosed # {})
  /\ chanClosed' = chanClosed \cup swept
  /\ responseChans' = [s \in Sids |-> 0]
  /\ mu' = Nobody
  /\ DisconnectReturns(p)
  /\ UNCHANGED <<connected, closed, conn, sidCounter, nextReq, sid, chanBuf,
                 hbVars, reconnectCount, reqVars, loopVars, netVars>>

-----------------------------------------------------------------------------
(***************************************************************************)
(* readLoop: one goroutine l per successful dial                           *)
(***************************************************************************)

\* Head of the loop: leave when closed is set; else read from whatever
\* connection t.conn and t.reader name now.
LoopTop(l) ==
  /\ loopPc[l] = "top"
  /\ \/ /\ closed
        /\ loopPc' = [loopPc EXCEPT ![l] = "check"]
        /\ UNCHANGED loopOn
     \/ /\ ~closed
        /\ loopPc' = [loopPc EXCEPT ![l] = "read"]
        /\ loopOn' = [loopOn EXCEPT ![l] = conn]
  /\ UNCHANGED <<flagVars, mapVars, chanVars, hbVars, callVars, reqVars,
                 loopAcc, loopCh, netVars, pc>>

\* Another goroutine is inside Read of the same bufio.Reader: a data race.
Racing(l) ==
  \E k \in Conns \ {l} : loopPc[k] = "read" /\ loopOn[k] = loopOn[l]

\* Read returns data holding the answers to the first k requests on the wire.
\* In a data race both goroutines may be handed the same bytes.
LoopRead(l) ==
  LET w == wire[loopOn[l]] IN
  /\ loopPc[l] = "read"
  /\ \E k \in 1..Len(w) :
       /\ loopAcc' = [loopAcc EXCEPT ![l] = SubSeq(w, 1, k)]
       /\ \/ wire' = [wire EXCEPT ![loopOn[l]] = SubSeq(w, k + 1, Len(w))]
          \/ Racing(l) /\ wire' = wire
  /\ loopPc' = [loopPc EXCEPT ![l] = "dispatch"]
  /\ loopOn' = [loopOn EXCEPT ![l] = 0]
  /\ UNCHANGED <<flagVars, mapVars, chanVars, hbVars, callVars, reqVars,
                 loopCh, link, pc>>

\* Mutants of LoopReadError: an expired deadline ends the loop too; the read is
\* tried again after any error, past the check of closed.
LoopReadErrorImpatient(l) ==
  /\ loopPc[l] = "read"
  /\ loopPc' = [loopPc EXCEPT ![l] = "check"]
  /\ loopOn' = [loopOn EXCEPT ![l] = 0]
  /\ UNCHANGED <<flagVars, mapVars, chanVars, hbVars, callVars, reqVars,
                 loopAcc, loopCh, netVars, pc>>

LoopReadErrorRetries(l) == loopPc[l] = "read" /\ UNCHANGED vars

\* Read fails: a deadline sends the loop round again, any other error ends it.
LoopReadError(l) ==
  /\ loopPc[l] = "read"
  /\ \/ /\ link[loopOn[l]] = "open"
        /\ loopPc' = [loopPc EXCEPT ![l] = "top"]
     \/ /\ link[loopOn[l]] # "open"
        /\ loopPc' = [loopPc EXCEPT ![l] = "check"]
  /\ loopOn' = [loopOn EXCEPT ![l] = 0]
  /\ UNCHANGED <<flagVars, mapVars, chanVars, hbVars, callVars, reqVars,
                 loopAcc, loopCh, netVars, pc>>

\* Where the loop goes once the first frame of its accumulator is done with.
FrameDone(l) ==
  /\ loopAcc' = [loopAcc EXCEPT ![l] = Tail(@)]
  /\ loopPc' = [loopPc EXCEPT ![l] = IF Len(loopAcc[l]) = 1 THEN "top" ELSE "dispatch"]

\* Mutant of DispatchTake: the channel stays in the map.
DispatchTakeNoDelete(l) ==
  LET s == sid[Head(loopAcc[l])] IN
  /\ loopPc[l] = "dispatch"
  /\ \/ /\ responseChans[s] = 0
        /\ FrameDone(l)
        /\ UNCHANGED loopCh
     \/ /\ responseChans[s] # 0
        /\ loopCh' = [loopCh EXCEPT ![l] = responseChans[s]]
        /\ loopPc' = [loopPc EXCEPT ![l] = "send"]
        /\ UNCHANGED loopAcc
  /\ UNCHANGED <<flagVars, mapVars, chanVars, hbVars, callVars, reqVars, loopOn,
                 netVars, pc>>

\* dispatchResponse under respMu: look the frame's SID up and delete it.
DispatchTake(l) ==
  LET s == sid[Head(loopAcc[l])] IN
  /\ loopPc[l] = "dispatch"
  /\ \/ /\ responseChans[s] = 0
        /\ FrameDone(l)
        /\ UNCHANGED <<responseChans, loopCh>>
     \/ /\ responseChans[s] # 0
        /\ loopCh' = [loopCh EXCEPT ![l] = responseChans[s]]
        /\ responseChans' = [responseChans EXCEPT ![s] = 0]
        /\ loopPc' = [loopPc EXCEPT ![l] = "send"]
        /\ UNCHANGED loopAcc
  /\ UNCHANGED <<flagVars, sidCounter, nextReq, sid, chanVars, hbVars, callVars,
                 reqVars, loopOn, netVars, pc>>

\* dispatchResponse after the unlock: a send that does not block.
DispatchSend(l) ==
  LET n == loopCh[l] IN
  /\ loopPc[l] = "send"
  /\ panicked' = (panicked \/ n \in chanClosed)
  /\ chanBuf' = [chanBuf EXCEPT ![n] = IF @ = 0 THEN Head(loopAcc[l]) ELSE @]
  /\ loopCh' = [loopCh EXCEPT ![l] = 0]
  /\ FrameDone(l)
  /\ UNCHANGED <<flagVars, mapVars, chanClosed, hbVars, callVars, reqVars,
                 loopOn, netVars, pc>>

\* Mutant of LoopCheck: the loop ends without its deferred function.
LoopCheckForgets(l) ==
  /\ loopPc[l] = "check"
  /\ loopPc' = [loopPc EXCEPT ![l] = "dead"]
  /\ UNCHANGED <<flagVars, mapVars, chanVars, hbVars, callVars, reqVars,
                 loopOn, loopAcc, loopCh, netVars, pc>>

\* The deferred function reads the two flags ...
LoopCheck(l) ==
  /\ loopPc[l] = "check"
  /\ loopPc' = [loopPc EXCEPT ![l] = IF connected /\ ~closed THEN "store" ELSE "dead"]
  /\ UNCHANGED <<flagVars, mapVars, chanVars, hbVars, callVars, reqVars,
                 loopOn, loopAcc, loopCh, netVars, pc>>

\* ... and then stores.
LoopStore(l) ==
  /\ loopPc[l] = "store"
  /\ connected' = FALSE
  /\ loopPc' = [loopPc EXCEPT ![l] = "dead"]
  /\ UNCHANGED <<closed, conn, mu, mapVars, chanVars, hbVars, callVars, reqVars,
                 loopOn, loopAcc, loopCh, netVars, pc>>

-----------------------------------------------------------------------------
(***************************************************************************)
(* The heartbeat goroutine h                                               *)
(***************************************************************************)

\* A tick: leave when the flags say so, else SendCommand([]byte{0x06, 0x01}).
HeartbeatTick(h) ==
  /\ pc[h] = "select"
  /\ \/ /\ ~connected \/ closed
        /\ pc' = [pc EXCEPT ![h] = "exit"]
        /\ UNCHANGED <<mapVars, req>>
     \/ /\ connected /\ ~closed
        /\ NewRequest(h)
        /\ UNCHANGED responseChans
  /\ UNCHANGED <<flagVars, chanVars, hbVars, callVars, reply, loopVars, netVars>>

\* <-t.stopHeartbeat
HeartbeatStop(h) ==
  /\ pc[h] = "select" /\ stopHeartbeat
  /\ stopHeartbeat' = FALSE
  /\ pc' = [pc EXCEPT ![h] = "exit"]
  /\ UNCHANGED <<flagVars, mapVars, chanVars, heartbeatRunning, callVars,
                 reqVars, loopVars, netVars>>

\* The deferred heartbeatRunning.Store(false).
HeartbeatExit(h) ==
  /\ pc[h] = "exit"
  /\ heartbeatRunning' = FALSE
  /\ pc' = [pc EXCEPT ![h] = "off"]
  /\ UNCHANGED <<flagVars, mapVars, chanVars, stopHeartbeat, callVars, reqVars,
                 loopVars, netVars>>

-----------------------------------------------------------------------------
(***************************************************************************)
(* The network and the PLC, as the transport meets them                    *)
(***************************************************************************)

\* The PLC does not answer the oldest request of a connection, or answers it
\* with something DecodeFINSFrame refuses.
NoAnswer(c) ==
  /\ wire[c] # <<>>
  /\ wire' = [wire EXCEPT ![c] = Tail(@)]
  /\ UNCHANGED <<flagVars, mapVars, chanVars, hbVars, callVars, reqVars,
                 loopVars, link, pc>>

\* The peer closes or resets the connection; answers under way may be read.
PeerClose(c) ==
  /\ PeerCloses /\ link[c] = "open"
  /\ link' = [link EXCEPT ![c] = "peerClosed"]
  /\ UNCHANGED <<flagVars, mapVars, chanVars, hbVars, callVars, reqVars,
                 loopVars, wire, pc>>

-----------------------------------------------------------------------------

SendStep(p) ==
  \/ SendRegister(p)
  \/ SendWrite(p)
  \/ SendReceive(p)
  \/ SendGiveUp(p)
  \/ SendCleanup(p)

OperatorStep(p) ==
  \/ ConnectLock(p)
  \/ ConnectDial(p)
  \/ ConnectFail(p)
  \/ Backoff(p)
  \/ DisconnectLock(p)
  \/ DisconnectClose(p)
  \/ DisconnectSweep(p)

LoopStep(l) ==
  \/ LoopTop(l)
  \/ LoopRead(l)
  \/ LoopReadError(l)
  \/ DispatchTake(l)
  \/ DispatchSend(l)
  \/ LoopCheck(l)
  \/ LoopStore(l)

HeartbeatStep(h) ==
  \/ HeartbeatTick(h)
  \/ HeartbeatStop(h)
  \/ HeartbeatExit(h)

Next ==
  \/ \E p \in Clients : SendCommand(p) \/ OperatorStep(p)
  \/ \E p \in Clients, c \in Calls : Call(p, c)
  \/ \E p \in Procs : SendStep(p)
  \/ \E l \in Conns : LoopStep(l)
  \/ \E h \in Conns : HeartbeatStep(h)
  \/ \E c \in Conns : NoAnswer(c) \/ PeerClose(c)

Spec == Init /\ [][Next]_vars

-----------------------------------------------------------------------------
(***************************************************************************)
(* Safety                                                                  *)
(***************************************************************************)

\* The goroutines of SendCommand activation n.
Executes(p, n) == pc[p] \in SendPcs /\ req[p] = n

\* Neither dispatchResponse nor Disconnect ever panics: no frame is sent on a
\* closed channel and no channel is closed twice, although dispatchResponse
\* sends after it has released respMu.
NoPanic == ~panicked

\* When dispatchResponse has claimed a channel there is room in it: its
\* non-blocking send never takes the default branch and drops an answer.
ClaimedHasRoom ==
  \A l \in Conns : loopPc[l] = "send" => chanBuf[loopCh[l]] = 0

\* A channel stays in responseChans only while the SendCommand that made it is
\* still running: timeouts, write errors and disconnects leave nothing behind.
NoLeakedChannel ==
  \A s \in Sids : responseChans[s] # 0 =>
    \E p \in Procs : Executes(p, responseChans[s])

\* SendCommand returns the answer to its own command, unless at least MaxSid
\* commands lie between the two and the service identifier was used again.
OwnResponse ==
  \A n \in Reqs : reply[n] # 0 =>
    \/ reply[n] = n
    \/ reply[n] - n >= MaxSid
    \/ n - reply[n] >= MaxSid

\* A SendCommand that waits can still be woken by more than its timer: its
\* channel is registered, is claimed by a dispatcher, holds a frame or is
\* closed; or another command with the same service identifier has displaced it.
WaiterReachable ==
  \A p \in Procs : pc[p] = "wait" =>
    \/ responseChans[sid[req[p]]] = req[p]
    \/ chanBuf[req[p]] # 0
    \/ req[p] \in chanClosed
    \/ \E l \in Conns : loopPc[l] = "send" /\ loopCh[l] = req[p]
    \/ \E n \in 1..nextReq : n # req[p] /\ sid[n] = sid[req[p]]

\* While the transport reports connected and is not being closed, the readLoop
\* of its connection is alive and reads from that connection: there is no deaf
\* connection on which every command times out.
ReaderAlive ==
  connected /\ ~closed =>
    /\ conn # 0
    /\ loopPc[conn] \notin {"none", "dead"}
    /\ loopPc[conn] = "read" => loopOn[conn] = conn

\* The readLoop of the current connection gives up, and so may clear connected,
\* only when the link is gone or Disconnect is at work.
OwnLoopLeavesBroken ==
  conn # 0 /\ ~closed /\ loopPc[conn] \in {"check", "store", "dead"} =>
    link[conn] # "open"

\* The heartbeat goroutines that have not executed their deferred functions.
Heartbeats == {h \in Conns : pc[h] # "off"}

\* heartbeatRunning tells whether a heartbeat goroutine exists, and there is
\* never a second one, however Connect, Disconnect and the exits interleave.
OneHeartbeat ==
  /\ heartbeatRunning <=> Heartbeats # {}
  /\ \A g, h \in Heartbeats : g = h

-----------------------------------------------------------------------------
(***************************************************************************)
(* Liveness                                                                *)
(***************************************************************************)

\* The Go scheduler runs every goroutine, the timers of a select, of a dial
\* and of a read deadline fire, and sync.Mutex is starvation free.  Nothing is
\* assumed of callers or of the PLC.  What a call waits for stays there, except
\* for t.mu, which others take in between.
Fairness ==
  /\ \A p \in Clients : SF_vars(SendStep(p) \/ OperatorStep(p))
  /\ \A h \in Conns : WF_vars(SendStep(h) \/ HeartbeatStep(h)) /\ SF_vars(SendWrite(h))
  /\ \A l \in Conns : WF_vars(LoopStep(l))

FairSpec == Spec /\ Fairness

\* Every call returns: SendCommand, that of a heartbeat included, Connect,
\* Disconnect and Reconnect do not hang, whatever the PLC does and whoever
\* holds t.mu.
CallsReturn ==
  /\ \A p \in Clients : pc[p] # "idle" ~> pc[p] = "idle"
  /\ \A h \in Conns : pc[h] \in SendPcs ~> pc[h] \notin SendPcs

\* Once Disconnect has set closed for good, all readLoops and heartbeats end.
GoroutinesEnd ==
  <>[]closed => <>[](\A c \in Conns : pc[c] = "off" /\ loopPc[c] \in {"none", "dead"})

-----------------------------------------------------------------------------
(***************************************************************************)
(* What the tests and the documentation say, and the code does not do      *)
(***************************************************************************)

\* transport_test.go: after Reconnect has returned nil IsConnected is true.
\* (For one operator that makes no Disconnect call of its own, and a peer that
\* does not close.)
ConnectedAfterReconnect ==
  \A p \in Operators : pc[p] = "idle" /\ outcome[p] = "ok" => connected

\* doc.go: the heartbeat monitors connection health periodically.  A transport
\* does not stay connected for ever without a heartbeat goroutine.
HeartbeatMonitors == ~<>[](connected /\ Heartbeats = {})
=============================================================================

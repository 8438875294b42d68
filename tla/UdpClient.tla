------------------------------- MODULE UdpClient -------------------------------
(***************************************************************************)
(* The UDP client of src/udp/client.go: callers in sendCommand, the        *)
(* goroutine listenLoop, and a caller of Close.                            *)
(*                                                                         *)
(* Each call of sendCommand has a number, its request, in the order of     *)
(* incrementSid.  A channel is named by the request that made it, 0 is     *)
(* the nil channel.  A datagram is the request it carries or answers; its  *)
(* service identifier is header[request].                                  *)
(***************************************************************************)
EXTENDS Integers

CONSTANTS
  Callers,      \* goroutines that call sendCommand
  SidMod,       \* number of service identifiers, 256 for the byte of the code
  MaxRequests,  \* bound: calls of sendCommand
  Timeout,      \* responseTimeoutMs > 0
  Unreliable,   \* whether datagrams may be lost or arrive twice
  Refuses       \* whether the PLC's host may refuse a datagram

ASSUME UdpAssumption ==
  /\ SidMod \in Nat \ {0} /\ MaxRequests \in Nat
  /\ Timeout \in BOOLEAN /\ Unreliable \in BOOLEAN /\ Refuses \in BOOLEAN

Reqs == 1..MaxRequests
Sids == 0..SidMod - 1

VARIABLES
  sid,            \* c.sid
  resp,           \* c.resp: the channel in each cell
  closed,         \* c.closed
  open,           \* whether the socket is open
  callerPc, req,  \* where each caller is, and its request
  waitCh,         \* the channel a caller waits on
  nextReq,        \* requests so far
  header,         \* header.serviceID of each request
  reply,          \* the answer a request returned with, 0 for none
  gaveUp,         \* the requests that returned an error
  listenPc, listenAns, listenCh,  \* listenLoop: place, ans and the cell's channel
  net,            \* requests whose datagram, or its answer, is under way
  fatal           \* log.Fatal has ended the process

callVars == <<callerPc, req, waitCh, nextReq, header, reply, gaveUp>>
listenVars == <<listenPc, listenAns, listenCh>>
udpVars == <<sid, resp, closed, open, callVars, listenVars, net, fatal>>

\* The types of all variables.
TypeOK ==
  /\ sid \in Sids /\ nextReq \in 0..MaxRequests
  /\ resp \in [Sids -> 0..nextReq]
  /\ closed \in BOOLEAN /\ open \in BOOLEAN /\ fatal \in BOOLEAN
  /\ callerPc \in [Callers -> {"idle", "cell", "write", "select", "wait"}]
  /\ req \in [Callers -> 0..nextReq]
  /\ waitCh \in [Callers -> 0..nextReq]
  /\ header \in [Reqs -> Sids]
  /\ reply \in [Reqs -> 0..nextReq]
  /\ gaveUp \subseteq 1..nextReq /\ net \subseteq 1..nextReq
  /\ listenPc \in {"read", "send", "dead"}
  /\ listenAns \in 0..nextReq /\ listenCh \in 0..nextReq

\* NewClient: the socket is open, all cells are nil, listenLoop runs.
UdpInit ==
  /\ sid = 0 /\ nextReq = 0
  /\ resp = [s \in Sids |-> 0]
  /\ closed = FALSE /\ open = TRUE /\ fatal = FALSE
  /\ callerPc = [p \in Callers |-> "idle"]
  /\ req = [p \in Callers |-> 0]
  /\ waitCh = [p \in Callers |-> 0]
  /\ header = [n \in Reqs |-> 0]
  /\ reply = [n \in Reqs |-> 0]
  /\ gaveUp = {} /\ net = {}
  /\ listenPc = "read" /\ listenAns = 0 /\ listenCh = 0

-----------------------------------------------------------------------------
\* Mutant of NextSid: one identifier is skipped at the wrap-around.
NextSidShort(s) == IF s + 2 >= SidMod THEN 0 ELSE s + 1

\* Increment of a byte.
NextSid(s) == (s + 1) % SidMod

\* The part of incrementSid under the lock.
IncrementSid(p) ==
  /\ callerPc[p] = "idle" /\ nextReq < MaxRequests
  /\ nextReq' = nextReq + 1
  /\ sid' = NextSid(sid)
  /\ header' = [header EXCEPT ![nextReq'] = sid']
  /\ req' = [req EXCEPT ![p] = nextReq']
  /\ callerPc' = [callerPc EXCEPT ![p] = "cell"]
  /\ UNCHANGED <<resp, closed, open, waitCh, reply, gaveUp, listenVars, net, fatal>>

\* Mutant of MakeCell: the cell is left as it was.
MakeCellSkipped(p) ==
  /\ callerPc[p] = "cell"
  /\ callerPc' = [callerPc EXCEPT ![p] = "write"]
  /\ UNCHANGED <<sid, resp, closed, open, req, waitCh, nextReq, header, reply,
                 gaveUp, listenVars, net, fatal>>

\* c.resp[sid] = make(chan response), after the unlock.
MakeCell(p) ==
  /\ callerPc[p] = "cell"
  /\ resp' = [resp EXCEPT ![header[req[p]]] = req[p]]
  /\ callerPc' = [callerPc EXCEPT ![p] = "write"]
  /\ UNCHANGED <<sid, closed, open, req, waitCh, nextReq, header, reply, gaveUp,
                 listenVars, net, fatal>>

\* A call of sendCommand is over.
Returns(p) ==
  /\ callerPc' = [callerPc EXCEPT ![p] = "idle"]
  /\ req' = [req EXCEPT ![p] = 0]
  /\ waitCh' = [waitCh EXCEPT ![p] = 0]

\* The socket reports an error: it is closed, or the host of the PLC has refused
\* an earlier datagram.
SocketError ==
  \/ ~open /\ UNCHANGED net
  \/ open /\ Refuses /\ \E m \in net : net' = net \ {m}

\* conn.Write: the datagram leaves, or the error is returned.
Write(p) ==
  /\ callerPc[p] = "write"
  /\ \/ /\ open
        /\ net' = net \cup {req[p]}
        /\ callerPc' = [callerPc EXCEPT ![p] = "select"]
        /\ UNCHANGED <<req, waitCh, gaveUp>>
     \/ /\ SocketError
        /\ gaveUp' = gaveUp \cup {req[p]}
        /\ Returns(p)
  /\ UNCHANGED <<sid, resp, closed, open, nextReq, header, reply, listenVars, fatal>>

\* Mutant of Select: the cell of the client's current identifier.
SelectCurrent(p) ==
  /\ callerPc[p] = "select"
  /\ waitCh' = [waitCh EXCEPT ![p] = resp[sid]]
  /\ callerPc' = [callerPc EXCEPT ![p] = "wait"]
  /\ UNCHANGED <<sid, resp, closed, open, req, nextReq, header, reply, gaveUp,
                 listenVars, net, fatal>>

\* The receive expression: the cell is read when the select, or the receive of
\* a client without timeout, begins.
Select(p) ==
  /\ callerPc[p] = "select"
  /\ waitCh' = [waitCh EXCEPT ![p] = resp[header[req[p]]]]
  /\ callerPc' = [callerPc EXCEPT ![p] = "wait"]
  /\ UNCHANGED <<sid, resp, closed, open, req, nextReq, header, reply, gaveUp,
                 listenVars, net, fatal>>

\* Mutant of TimesOut: the test of responseTimeoutMs is inverted.
TimesOutInverted(p) ==
  /\ ~Timeout /\ callerPc[p] = "wait"
  /\ gaveUp' = gaveUp \cup {req[p]}
  /\ Returns(p)
  /\ UNCHANGED <<sid, resp, closed, open, nextReq, header, reply, listenVars, net, fatal>>

\* time.After fires before an answer has been received.
TimesOut(p) ==
  /\ Timeout /\ callerPc[p] = "wait"
  /\ gaveUp' = gaveUp \cup {req[p]}
  /\ Returns(p)
  /\ UNCHANGED <<sid, resp, closed, open, nextReq, header, reply, listenVars, net, fatal>>

-----------------------------------------------------------------------------
\* listenLoop reads a datagram, decodes it and looks its cell up.
ListenRead(m) ==
  /\ listenPc = "read" /\ open
  /\ m \in net
  /\ net' \in {net \ {m}} \cup {k \in {net} : Unreliable}
  /\ listenAns' = m
  /\ listenCh' = resp[header[m]]
  /\ listenPc' = "send"
  /\ UNCHANGED <<sid, resp, closed, open, callVars, fatal>>

\* The channels are not buffered: the send and a receive are one step.
Deliver(p) ==
  /\ listenPc = "send" /\ listenCh # 0
  /\ callerPc[p] = "wait" /\ waitCh[p] = listenCh
  /\ reply' = [reply EXCEPT ![req[p]] = listenAns]
  /\ Returns(p)
  /\ listenPc' = "read" /\ listenAns' = 0 /\ listenCh' = 0
  /\ UNCHANGED <<sid, resp, closed, open, nextReq, header, gaveUp, net, fatal>>

\* Mutant of ListenError: the loop goes on after the client has been closed.
ListenErrorGoesOn ==
  /\ listenPc = "read" /\ SocketError
  /\ fatal' = ~closed
  /\ UNCHANGED <<sid, resp, closed, open, callVars, listenVars>>

\* Read fails: the loop ends if the client has been closed, else the process does.
ListenError ==
  /\ listenPc = "read" /\ SocketError
  /\ \/ /\ closed
        /\ listenPc' = "dead"
        /\ UNCHANGED fatal
     \/ /\ ~closed
        /\ fatal' = TRUE
        /\ UNCHANGED listenPc
  /\ UNCHANGED <<sid, resp, closed, open, callVars, listenAns, listenCh>>

\* Mutant of CloseFlag: the socket is closed first.
CloseConnFirst ==
  /\ open
  /\ open' = FALSE
  /\ UNCHANGED <<sid, resp, closed, callVars, listenVars, net, fatal>>

\* Close: first the flag ...
CloseFlag ==
  /\ ~closed
  /\ closed' = TRUE
  /\ UNCHANGED <<sid, resp, open, callVars, listenVars, net, fatal>>

\* ... then the socket.
CloseConn ==
  /\ closed /\ open
  /\ open' = FALSE
  /\ UNCHANGED <<sid, resp, closed, callVars, listenVars, net, fatal>>

\* The network drops a datagram.
Lose(m) ==
  /\ Unreliable /\ m \in net
  /\ net' = net \ {m}
  /\ UNCHANGED <<sid, resp, closed, open, callVars, listenVars, fatal>>

SendCommand(p) ==
  \/ IncrementSid(p)
  \/ MakeCell(p)
  \/ Write(p)
  \/ Select(p)
  \/ TimesOut(p)
  \/ Deliver(p)

UdpNext ==
  /\ ~fatal
  /\ \/ \E p \in Callers : SendCommand(p)
     \/ \E m \in Reqs : ListenRead(m) \/ Lose(m)
     \/ ListenError \/ CloseFlag \/ CloseConn

UdpSpec == UdpInit /\ [][UdpNext]_udpVars

-----------------------------------------------------------------------------
\* Close never ends the process: log.Fatal is reached on an open socket only,
\* because Close sets the flag before the read of listenLoop can fail.
CloseIsPeaceful == fatal => open

\* listenLoop never sends to the nil channel of an unused cell, on which it would
\* block for good: the cell is made before the datagram leaves.
NoUnsetCell == listenPc = "send" => listenCh # 0

\* sendCommand returns the answer to its own command unless at least SidMod
\* commands lie between the two, although it looks its cell up a second time
\* after the write.
OwnResponse ==
  \A n \in Reqs : reply[n] # 0 =>
    \/ reply[n] = n
    \/ reply[n] - n >= SidMod
    \/ n - reply[n] >= SidMod

\* The unbuffered send of listenLoop has a receiver: as long as the cell still
\* holds the channel it sends on, the command that made the channel is on its way
\* to receive from it, or has returned.  Only the answer that comes after its
\* command has returned, late or a second time, can make the client deaf.
ListenerHasPartner ==
  listenPc = "send" /\ resp[header[listenCh]] = listenCh =>
    \/ listenCh \in gaveUp
    \/ reply[listenCh] # 0
    \/ \E p \in Callers :
         /\ req[p] = listenCh
         /\ callerPc[p] \in {"write", "select"} \/ (callerPc[p] = "wait" /\ waitCh[p] = listenCh)

-----------------------------------------------------------------------------
\* Goroutines run and timers fire until the process ends; nothing is assumed of
\* the network.
Fairness ==
  /\ \A p \in Callers :
       /\ WF_udpVars(~fatal /\ MakeCell(p)) /\ WF_udpVars(~fatal /\ Write(p))
       /\ WF_udpVars(~fatal /\ Select(p)) /\ WF_udpVars(~fatal /\ TimesOut(p))
       /\ WF_udpVars(~fatal /\ Deliver(p))
  /\ WF_udpVars(~fatal /\ \E m \in Reqs : ListenRead(m)) /\ WF_udpVars(~fatal /\ ListenError)
  /\ WF_udpVars(~fatal /\ CloseConn)

FairUdpSpec == UdpSpec /\ Fairness

\* With a timeout every sendCommand returns, also on a deaf or closed client.
CommandsReturn == \A p \in Callers : callerPc[p] # "idle" ~> callerPc[p] = "idle" \/ fatal

\* Close ends the goroutine of listenLoop, unless an answer that came after its
\* command had returned, or after its cell was taken over, has made it deaf.
ListenerEnds ==
  closed ~> \/ listenPc = "dead" \/ fatal
            \/ /\ listenPc = "send"
               /\ \/ listenCh \in gaveUp \/ reply[listenCh] # 0
                  \/ resp[header[listenCh]] # listenCh
=============================================================================

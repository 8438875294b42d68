------------------------------- MODULE Driver --------------------------------
(***************************************************************************)
(* fins.go, with the configuration and the Reconnect loop of transport.go: *)
(* callers share one FinsTCPDriver.  A section that holds d.mu is one      *)
(* action.  The inside of the transport (the modules Transport and         *)
(* FrameStream) is reduced to whether it is connected, which the peer may  *)
(* end at any time.                                                        *)
(* A configuration maps keys to values [kind, v], kind being the Go type.  *)
(***************************************************************************)
EXTENDS Integers, Sequences, FiniteSets

CONSTANTS Caller,
          Configs,    \* the configurations given to Init and SetDeviceConfig
          MaxBackoff, \* t.maxBackoff, 30 seconds in the code
          Ops,        \* the operations called
          MaxCalls,   \* bound on the number of calls
          MaxDrops    \* bound on connections the peer drops

ASSUME MaxBackoffAssumption == MaxBackoff \in Nat

\* A value whose Go type is a number is one.
Numbers(cfg) == \A k \in DOMAIN cfg : cfg[k].kind \in {"float64", "int"} => cfg[k].v \in Int

ASSUME ConfigsAssumption == \A cfg \in Configs : Numbers(cfg)

VARIABLES initialized, deviceCfg,
          transport,  \* the settings of d.transport, or Nil
          scheduler,  \* the settings of d.scheduler, or Nil
          connected,  \* t.connected
          reconnectCount,
          call,       \* per caller, where its call is and its Reconnect loop
          calls, drops

driver == <<initialized, deviceCfg, transport, scheduler>>
link == <<connected, reconnectCount>>
vars == <<driver, link, call, calls, drops>>

-----------------------------------------------------------------------------
(* Settings.  Numbers are taken from a float64 or an int; anything else,   *)
(* or nothing, leaves the default.                                         *)

TransportDefaults ==
    [plcPort |-> 9600, timeout |-> 3000, heartbeatInterval |-> 30000, maxRetries |-> 3,
     retryInterval |-> 1000, srcNetworkAddr |-> 0, srcNodeAddr |-> 1, srcUnitAddr |-> 255,
     dstNetworkAddr |-> 0, dstNodeAddr |-> 1, dstUnitAddr |-> 0]
AddressKeys == {"srcNetworkAddr", "srcNodeAddr", "srcUnitAddr",
                "dstNetworkAddr", "dstNodeAddr", "dstUnitAddr"}
SchedulerDefaults == [maxFrameLength |-> 64, minInterval |-> 0]

Setting(cfg, key, default) ==
    IF key \in DOMAIN cfg /\ cfg[key].kind \in {"float64", "int"} THEN cfg[key].v ELSE default

Nil == [nil |-> TRUE]
HasIP(cfg) == "plcIP" \in DOMAIN cfg /\ cfg["plcIP"].kind = "string"
loadConfig(cfg) ==
    [k \in DOMAIN TransportDefaults |->
        LET v == Setting(cfg, k, TransportDefaults[k])
        IN IF k \in AddressKeys THEN v % 256 ELSE v]
NewScheduler(cfg) ==
    [k \in DOMAIN SchedulerDefaults |-> Setting(cfg, k, SchedulerDefaults[k])]

Merge(old, new) ==
    [k \in DOMAIN old \cup DOMAIN new |-> IF k \in DOMAIN new THEN new[k] ELSE old[k]]

-----------------------------------------------------------------------------
\* A caller that is not in a call, with the outcome of its last one.
Idle(outcome) == [pc |-> "idle", op |-> "none", attempt |-> 0, interval |-> 0, outcome |-> outcome]

Init ==
    /\ initialized = FALSE
    /\ deviceCfg = [k \in {} |-> 0]
    /\ transport = Nil /\ scheduler = Nil
    /\ connected = FALSE /\ reconnectCount = 0
    /\ call = [c \in Caller |-> Idle("none")]
    /\ calls = 0 /\ drops = 0

Goto(c, label) == call' = [call EXCEPT ![c].pc = label]
Return(c, outcome) == call' = [call EXCEPT ![c] = Idle(outcome)]

Start(c, o) ==
    /\ call[c].pc = "idle"
    /\ o \in Ops
    /\ calls < MaxCalls
    /\ calls' = calls + 1

\* Mutant: an Init that fails later has already marked the driver.
MutantCallInit(c, cfg) ==
    /\ Start(c, "Init")
    /\ IF initialized THEN Return(c, "error") /\ UNCHANGED driver
       ELSE /\ deviceCfg' = Merge(deviceCfg, cfg)
            /\ initialized' = TRUE
            /\ IF HasIP(deviceCfg')
               THEN /\ transport' = loadConfig(deviceCfg')
                    /\ scheduler' = NewScheduler(deviceCfg')
                    /\ Return(c, "ok")
               ELSE Return(c, "error") /\ UNCHANGED <<transport, scheduler>>
    /\ UNCHANGED <<link, drops>>

\* Mutant: Init does not look at initialized.
MutantInitAgain(c, cfg) ==
    /\ Start(c, "Init")
    /\ deviceCfg' = Merge(deviceCfg, cfg)
    /\ IF HasIP(deviceCfg')
       THEN /\ transport' = loadConfig(deviceCfg')
            /\ scheduler' = NewScheduler(deviceCfg')
            /\ initialized' = TRUE
            /\ Return(c, "ok")
       ELSE Return(c, "error") /\ UNCHANGED <<initialized, transport, scheduler>>
    /\ UNCHANGED <<link, drops>>

\* Init merges its configuration into deviceCfg and keeps it there even
\* when NewTransport refuses it.
CallInit(c, cfg) ==
    /\ Start(c, "Init")
    /\ IF initialized THEN Return(c, "error") /\ UNCHANGED driver
       ELSE /\ deviceCfg' = Merge(deviceCfg, cfg)
            /\ IF HasIP(deviceCfg')
               THEN /\ transport' = loadConfig(deviceCfg')
                    /\ scheduler' = NewScheduler(deviceCfg')
                    /\ initialized' = TRUE
                    /\ Return(c, "ok")
               ELSE Return(c, "error") /\ UNCHANGED <<initialized, transport, scheduler>>
    /\ UNCHANGED <<link, drops>>

SetDeviceConfig(c, cfg) ==
    /\ Start(c, "SetDeviceConfig")
    /\ deviceCfg' = Merge(deviceCfg, cfg)
    /\ Return(c, "ok")
    /\ UNCHANGED <<initialized, transport, scheduler, link, drops>>

\* The check under d.mu that every other operation starts with; the
\* transport is used only after d.mu is released.
CallOn(c, o, ready, label, refused) ==
    /\ Start(c, o)
    /\ call' = [call EXCEPT ![c] = IF ready THEN [Idle("none") EXCEPT !.pc = label, !.op = o]
                                   ELSE Idle(refused)]
    /\ UNCHANGED <<driver, link, drops>>

CallConnect(c) == CallOn(c, "Connect", initialized, "dial", "error")
CallDisconnect(c) == CallOn(c, "Disconnect", transport # Nil, "disconnect", "ok")
CallReconnect(c) == CallOn(c, "Reconnect", transport # Nil, "disconnect", "error")
CallReadPoints(c) == CallOn(c, "ReadPoints", initialized /\ scheduler # Nil, "check", "error")
CallWritePoint(c) == CallOn(c, "WritePoint", initialized /\ scheduler # Nil, "check", "error")

-----------------------------------------------------------------------------
(* ReadPoints and WritePoint reconnect first if the link is down.          *)

Points(c) == call[c].op \in {"ReadPoints", "WritePoint"}
Failed(c) == Return(c, IF call[c].op = "ReadPoints" THEN "bad" ELSE "error")

Check(c) ==
    /\ call[c].pc = "check"
    /\ Goto(c, IF connected THEN "request" ELSE "disconnect")
    /\ UNCHANGED <<driver, link, calls, drops>>

\* transport.Disconnect, alone or at the start of transport.Reconnect: it
\* closes whatever connection there is by now.
Disconnect(c) ==
    /\ call[c].pc = "disconnect"
    /\ connected' = FALSE
    /\ IF call[c].op = "Disconnect" THEN Return(c, "ok")
       ELSE call' = [call EXCEPT ![c].pc = "dial", ![c].interval = transport.retryInterval]
    /\ UNCHANGED <<driver, reconnectCount, calls, drops>>

-----------------------------------------------------------------------------
(* The loop of transport.Reconnect; Connect is one dial without a loop.    *)

Once(c) == call[c].op = "Connect"
Dialling(c) == call[c].pc = "dial" /\ (Once(c) \/ call[c].attempt < transport.maxRetries)

\* A connection that is already there will do.
DialSucceeds(c) ==
    /\ Dialling(c)
    /\ connected' = TRUE
    /\ reconnectCount' = IF Once(c) THEN reconnectCount ELSE reconnectCount + 1
    /\ IF Points(c) THEN Goto(c, "request") ELSE Return(c, "ok")
    /\ UNCHANGED <<driver, calls, drops>>

\* After the last attempt there is no wait.
DialFails(c) ==
    /\ Dialling(c)
    /\ ~connected
    /\ IF Once(c) THEN Failed(c)
       ELSE IF call[c].attempt < transport.maxRetries - 1 THEN Goto(c, "backoff")
       ELSE call' = [call EXCEPT ![c].attempt = @ + 1]
    /\ UNCHANGED <<driver, link, calls, drops>>

\* Mutant: the attempts are not counted.
MutantEndless(c) ==
    /\ call[c].pc = "backoff"
    /\ Goto(c, "dial")
    /\ UNCHANGED <<driver, link, calls, drops>>

\* The wait of interval is over; the next one is twice as long, up to maxBackoff.
Backoff(c) ==
    /\ call[c].pc = "backoff"
    /\ LET doubled == 2 * call[c].interval
       IN call' = [call EXCEPT ![c].pc = "dial", ![c].attempt = @ + 1,
                               ![c].interval = IF doubled > MaxBackoff THEN MaxBackoff
                                               ELSE doubled]
    /\ UNCHANGED <<driver, link, calls, drops>>

\* The retries are used up, or the context ends during a wait.
GiveUp(c) ==
    /\ call[c].pc \in {"dial", "backoff"}
    /\ ~Dialling(c)
    /\ Failed(c)
    /\ UNCHANGED <<driver, link, calls, drops>>

-----------------------------------------------------------------------------
(* The requests of the scheduler, which need a connection to go out on.    *)

Send(c) ==
    /\ call[c].pc = "request"
    /\ IF connected THEN Goto(c, "await") ELSE Failed(c)
    /\ UNCHANGED <<driver, link, calls, drops>>

\* The answer is there, or the connection was closed, or the time is up.
Await(c) ==
    /\ call[c].pc = "await"
    /\ Return(c, "ok") \/ Failed(c)
    /\ UNCHANGED <<driver, link, calls, drops>>

\* readLoop meets the end of the stream.
Drop ==
    /\ connected
    /\ drops < MaxDrops
    /\ connected' = FALSE
    /\ drops' = drops + 1
    /\ UNCHANGED <<driver, reconnectCount, call, calls>>

Step(c) ==
    \/ Check(c) \/ Disconnect(c) \/ DialSucceeds(c) \/ DialFails(c) \/ Backoff(c) \/ GiveUp(c)
    \/ Send(c) \/ Await(c)
Call(c) ==
    \/ \E cfg \in Configs : CallInit(c, cfg) \/ SetDeviceConfig(c, cfg)
    \/ CallConnect(c) \/ CallDisconnect(c) \/ CallReconnect(c)
    \/ CallReadPoints(c) \/ CallWritePoint(c)

Next == Drop \/ \E c \in Caller : Call(c) \/ Step(c)

Spec == Init /\ [][Next]_vars

\* Dials end by their timeout, waits end, and requests end by theirs.
FairSpec == Spec /\ \A c \in Caller : WF_vars(Step(c))

-----------------------------------------------------------------------------
(* Properties.                                                             *)

Labels == {"idle", "check", "disconnect", "dial", "backoff", "request", "await"}

\* No operation gets past its check under d.mu with a nil transport or a
\* nil scheduler, whichever Init failed before: what it goes on to use after
\* the unlock is there.
NoNilUse ==
    /\ initialized => transport # Nil /\ scheduler # Nil
    /\ \A c \in Caller : call[c].pc # "idle" => transport # Nil /\ scheduler # Nil

\* A driver in use keeps its transport and scheduler: no later Init or
\* SetDeviceConfig replaces them under the calls that run on them.
TransportKept ==
    [][transport # Nil => transport' = transport /\ scheduler' = scheduler]_vars

\* Every call of the driver returns.
CallsReturn == \A c \in Caller : call[c].pc # "idle" ~> call[c].pc = "idle"
=============================================================================

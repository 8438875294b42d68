# A verification of the FINS driver

This directory holds TLA+ models of the Omron FINS driver in `src/`, the TLC
configurations that check them on small instances, and proofs, checked by
TLAPS, of the most important properties for every value of the constants.

## 1. The system

The repository is a Go driver for Omron PLCs that speak FINS.

| part | source | state | operations |
|---|---|---|---|
| TCP transport | `transport.go` | one socket and its reader, the flags `connected` and `closed`, `t.mu`, the SID counter, the map of response channels, the heartbeat flag and its stop token, the retry settings | `Connect`, `Disconnect`, `Reconnect`, `SendCommand`, the goroutines `readLoop` and heartbeat, `dispatchResponse` |
| framing | `transport.go` 258-288, `protocol.go` | the accumulator of `readLoop` | append what was read, cut frames, skip a byte when the header is bad |
| scheduler | `scheduler.go` | statistics, time of the last request, limits | `ReadPoints` (parse, group, read, decode), `WritePoint`, `waitMinInterval`, `GetStats`, `ResetStats` |
| decoder | `decoder.go` | none (byte order) | `ParseAddress`, `EncodeValue`, `DecodeValue`, area codes |
| driver | `fins.go` | decoder, scheduler and transport of one device | `Init`, `Connect`, `ReadPoints`, `WritePoint` with a reconnect when the transport is down |
| mock PLC | `mock_plc.go` | memory by area and address, connections | read and write of words and bits |
| UDP client | `udp/client.go` | SID, 256 response cells, `closed` | `sendCommand`, `listenLoop`, `Close`, typed reads and writes, `ToggleBit` |
| UDP codecs | `udp/driver.go`, `udp/header.go` | none | header, command and response codec, BCD |
| UDP simulator | `udp/server.go` | word and bit memory | memory read and write, clock |
| programs | `cmd/` | the memory of two demonstration servers | memory read and write over TCP and UDP, clock |

How they interact: a caller of the driver goes through the scheduler to
`Transport.SendCommand`.  `SendCommand` registers a channel under a fresh
service identifier (SID), writes the frame and waits.  `readLoop` cuts frames
out of the byte stream and `dispatchResponse` hands each one to the channel
registered under its SID.  `Disconnect` closes the socket and all registered
channels; `Reconnect` is `Disconnect` and then up to `maxRetries` times
`Connect`.  The heartbeat is one more caller of `SendCommand`.

What makes it hard:

- a read loop is not told which connection it belongs to: it reads `t.conn` and
  `t.reader` anew on every turn, and its deferred function clears the
  `connected` flag of whatever connection is current;
- `dispatchResponse` sends after it has released `respMu`, while `Disconnect`
  may be closing channels;
- SIDs are reused after 255 commands, and the deferred delete of one command
  removes whatever is registered under its SID;
- `t.mu` is held across a dial;
- the heartbeat is stopped by a token in a buffered channel that nobody owns.

`PROJECT.json` lists every hazard with its line and the properties that would
catch it going wrong.

## 2. The modules

| module | models |
|---|---|
| `Transport`, `TransportInv` | `transport.go`: goroutines, flags, channels, locks (section 3) |
| `UdpClient` | `udp/client.go`: `sendCommand`, `listenLoop`, `Close` (section 4) |
| `Frames`, `FrameStream`, `FrameDelivery` | the byte stream and `readLoop`'s accumulator, and what they promise (5.1) |
| `Decoder`, `Grouping`, `Scheduler` | `decoder.go` and `scheduler.go` (5.2) |
| `PlcMemory`, `MockPlc`, `AtomicPlc` | `mock_plc.go`, and what it promises (5.3) |
| `PointStore` | decoder, scheduler, memory commands and a PLC composed (5.4) |
| `Driver` | `fins.go` with `loadConfig` and the retries of `Reconnect` (5.5) |
| `CmdMemory`, `CmdServer` | `cmd/tcp/server` (5.6) |
| `UdpCodec`, `Bcd`, `UdpPlc` | the UDP codecs, and the client's operations against the simulator and `cmd/udp/server` composed (5.7) |
| `MC...` | the instances of the module named after the prefix |
| `TransportProofs`, `FrameStreamProofs`, `SchedulerProofs`, `ReadPathProofs`, `MockPlcProofs`, `UdpPlcProofs`, `SimulatorProofs` | theorems about the module named, the data of `ReadPoints`, and the UDP simulator (section 7) |
| `EndpointProofs` | theorems about `CmdServer`, `Driver` and `UdpClient` (section 7) |

Definitions whose names start with `Mutant` are deliberately wrong variants of
the definition that follows them.  They belong to no specification; each shows
that a property notices a plausible mistake at that place.

## 3. The transport model

### State

`Transport` has one variable per field of the struct that a goroutine can
observe, one program counter per goroutine and the state of the TCP
connections.

- `connected`, `closed`, `conn`, `sidCounter`, `responseChans`,
  `heartbeatRunning`, `stopHeartbeat`, `reconnectCount` are the fields; `conn`
  stands for `t.conn` and `t.reader` together and counts successful dials.
- `mu` is the holder of `t.mu`.  `respMu` and `sidMu` protect sections without
  blocking operations; each section is one step.
- An activation of `SendCommand` has a number, its *request*; `sid`, `chanBuf`,
  `chanClosed` and `reply` are its local variable, its channel and its result.
  A frame on the wire is the number of the request it answers: its SID field is
  `sid` of that number.
- `loopPc`, `loopOn`, `loopAcc`, `loopCh` are the read loops, one per
  successful dial: where they are, the connection whose read they are in, the
  frames cut from what was read and the channel `dispatchResponse` has claimed.
- `link` and `wire` are the TCP connections as the code meets them.
- `panicked` records a send on, or a close of, a closed channel.

### Actions

| action | lines of `transport.go` |
|---|---|
| `SendCommand`, `NewRequest`, `NextSID` | check of `connected`, `nextSID`, `make(chan)` |
| `SendRegister`, `SendWrite` | registration, the write under `t.mu` |
| `SendReceive`, `SendGiveUp` | the `select`; giving up is a timer, the context or a closed channel |
| `SendCleanup` | the deferred delete |
| `ConnectLock`, `ConnectDial`, `ConnectFail` | `Connect`; a dial succeeds or fails as it likes |
| `DisconnectLock`, `DisconnectClose`, `DisconnectSweep` | `Disconnect` |
| `Backoff`, `DisconnectReturns`, `CountReconnect` | the rest of `Reconnect` |
| `LoopTop`, `LoopRead`, `LoopReadError` | `readLoop` |
| `DispatchTake`, `DispatchSend` | `dispatchResponse` before and after the unlock |
| `LoopCheck`, `LoopStore` | the deferred function of `readLoop` |
| `HeartbeatTick`, `HeartbeatStop`, `HeartbeatExit` | the heartbeat goroutine |
| `NoAnswer`, `PeerClose` | the PLC and the network |

Three reductions deserve a word.  The check of `connected` and `nextSID` are one
step: the counter is touched by `nextSID` only, so a command that passes the
check can be taken to draw its identifier before the flag next changes.  The
heartbeat's own check of the flags and the one inside `SendCommand` are one
step for the same reason; a failure between them leaves nothing behind.  The
check of `closed` at the head of `readLoop` and the load of `t.conn` are one
step: every interleaving in between ends like one in which both come later.

When two loops are inside `Read` of the same `bufio.Reader` the program has a
data race.  The model lets either loop get the bytes, or both of them.

### Properties

- `NoPanic`: no send on a closed channel, no double close.
- `ClaimedHasRoom`: the non-blocking send of `dispatchResponse` never drops.
- `NoLeakedChannel`: the map holds channels of running commands only.
- `OwnResponse`: a caller gets the answer to its own command unless at least
  `MaxSid` commands lie between the two.
- `WaiterReachable`: a waiting command can be woken by more than its timer, or
  its identifier has been used by another command.
- `ReaderAlive`: no deaf connection, `connected` implies a live reader.
- `OwnLoopLeavesBroken`: the reader of the current connection gives up only on
  a broken link or a `Disconnect`.
- `OneHeartbeat`: the flag mirrors the goroutine, and there is one at most.
- `CallsReturn`, `GoroutinesEnd`: liveness.

### Fairness

`Fairness` assumes that the Go scheduler runs every runnable goroutine, that
the timers of a `select`, a dial and a read deadline fire (weak fairness), and
that `sync.Mutex` is starvation free (strong fairness of the steps that take
`t.mu`; Go's mutex hands the lock over to a waiter that has waited for 1 ms).
A goroutine is at one place at a time, so fairness of the disjunction of its steps is
fairness of each of them.
Nothing is assumed of callers, of the ticker, of the PLC or of the network.

## 4. The UDP client model

`UdpClient` models `sendCommand`, `incrementSid`, `listenLoop` and `Close` of
`udp/client.go`.  As in `Transport`, a call of `sendCommand` has a number, its
request, which also names the channel it makes and the datagrams of the command
and its answer.

| action | lines of `udp/client.go` |
|---|---|
| `IncrementSid`, `MakeCell` | `incrementSid`, under the lock and after it |
| `Write` | `conn.Write`: the datagram leaves, or the socket reports an error |
| `Select`, `TimesOut` | the receive expression, which reads the cell a second time; the timer |
| `ListenRead`, `ListenError` | `listenLoop`: read, decode and look the cell up; the error path with `log.Fatal` |
| `Deliver` | the rendezvous on the unbuffered channel |
| `CloseFlag`, `CloseConn` | the two statements of `Close` |
| `Lose` | the network |

`net` is the set of requests whose datagram, or its answer, is under way.  With
`Unreliable` a datagram may get lost, and one that has been read may be read
again.  With `Refuses` the PLC's host may refuse a datagram, which a connected
UDP socket reports as an error of a later `Write` or `Read`.  An empty datagram
is logged and ignored by `listenLoop`; it has no action.

Properties:

- `CloseIsPeaceful`: `log.Fatal` is never reached because of `Close`.  A refused
  datagram on an open client does reach it, as the code has it.
- `NoUnsetCell`: `listenLoop` never sends on a nil channel.
- `OwnResponse`: the answer is the command's own, unless at least `SidMod`
  commands lie between the two, in either direction.
- `ListenerHasPartner`: `listenLoop` blocks on the unbuffered send only for a
  command that is about to receive, or one that has returned already, or whose
  cell has been replaced.  The exception is real: after a late answer
  `listenLoop` waits for ever and every later command times out.
- `CommandsReturn`: with a timeout every command returns.
- `ListenerEnds`: `Close` ends the goroutine of `listenLoop`, with the exception
  above.

Fairness: runnable goroutines run and timers fire.  Nothing is assumed of the
network or of callers; once `Close` has set the flag it also closes the socket.

## 5. The other models

### 5.1 The byte stream

`FrameStream` has the bytes on the wire, the accumulator, and whether `readLoop`
is in `Read` or in its inner loop.  `Frames` has the two headers byte by byte.

| action | lines of `transport.go` |
|---|---|
| `Read` | `reader.Read` with any number of bytes, and the append |
| `NeedMore`, `Skip`, `Cut` | the three outcomes of a turn of the inner loop: wait, drop one byte, cut a frame and dispatch it |
| `PeerSend`, `PeerNoise` | the peer writes a frame, or other bytes |

`FrameDelivery` is the abstract specification: a sequence of frames sent, of
which the receiver is handed the next one.  `ImplementsDelivery` is the
refinement, with `delivered <- dispatched`; it includes the liveness part, every
frame is delivered.  The part without it, `Safety`, is also proved.  `NoiseAssumption`
says which bytes the peer may write between its frames: bytes in which the magic does
not begin, not even one that the next bytes written would complete, perhaps after a
frame too short to hold a FINS message.  The noise of the instance has stray bytes, a torn magic, frames that are too
short and headers with a length below 4; section 8 says why no length is too large.

### 5.2 Decoder and scheduler

`Decoder` models addresses in the parts which the regular expression tells apart,
and values as numbers.  A byte has `ByteBits` bits (2 or 3 instead of 8) so that 64
bit numbers and the 16 bits of an address fit TLC's integers in proportion: a
string, a bit number or an address that wraps does so at the scaled limit.  A
float is its bit pattern.

`Grouping` models `groupPoints` and `decodePointValue`.  A Go map is walked in any
order and `sort.Slice` is not stable; `TakingOrders` is the set of all orders that
can result.  `AddPoint` is one turn of the loop over the points: the point joins the
last group or opens one.

`Scheduler` runs them for several callers.

| action | lines of `scheduler.go` |
|---|---|
| `CallReadPoints`, `ReadPointsReturns` | parsing and grouping; the end of the loop |
| `CallWritePoint`, `WritePointRejected` | `WritePoint`, which counts itself before it parses |
| `NoWait`, `Lock`, `Wait`, `Stamp` | `waitMinInterval`: the test outside the lock, the sleep with it held, the time stamp |
| `Count`, `Send`, `Fail`, `Succeed` | one request; the transport fails or answers as it likes |
| `GetStats`, `ResetStats` | three loads or stores of counters, one after the other |
| `SetMinInterval`, `SetMaxFrameLength` | the setters |
| `Tick` | time, in units of the interval |

The byte at address k is named k, so that a result shows the bytes it was made of.
`OwnBytes` compares them with the bytes of the point's own address.  Two history
variables serve the properties: `spoilt`, the points whose request failed or was
answered short, for `GoodUnlessFailed`, and `wasReset`, for the statistics: until a
reset they account for every request (`StatsAccount`), and from then on they are off by
at most one outcome for each other caller (`StatsDrift`).  `SnapshotComplete` bounds
what the three loads of `GetStats` can miss.  `BatchFitsFrame` is about the step that
groups: `SetMaxFrameLength` may change the limit while the groups are being read.

### 5.3 The mock PLC

`MockPlc` copies words byte by byte and bits one by one with the mutex held, for
connections and for `SetWord` and `GetWord` of a test.  `AtomicPlc` promises that a
request takes effect in one step between its arrival and its answer, and that
every request is answered; `Safety` is the first half of it.  What a request does to
the memory and what is answered are parameters, `Effect` and `AnswerTo`, which
`MockPlc` defines without the copying.  The mapping of `ImplementsAtomicPlc` takes the memory
with the rest of a copy in progress stored already: a write takes effect when the
mutex is taken, a read when its last item has been copied.

### 5.4 The data path

`PointStore` composes `WritePoint`, `EncodeValue`, the memory commands of the
transport, the memory of a PLC, `groupPoints` and `DecodeValue` for one caller.
Beside the bytes it keeps `ref`, the bits that the addresses mean, by area, word and
bit number.  It is written without the code's arithmetic.  `MemoryIsMeant` and
`ReadsMeaning` compare the two.  `server` is chosen in `Init`: the mock PLC, or the
demonstration server of `cmd/tcp/server` with its own area codes.

### 5.5 The driver

`Driver` has the fields of `FinsTCPDriver`, the settings of its transport and
scheduler, whether the transport is connected, and the loop of `Reconnect` for each
caller.  A section with `d.mu` held is one action.  Configurations map keys to
values of a Go type, and `loadConfig` falls back to its defaults as the code does.

### 5.6 The TCP demonstration server

`CmdServer` differs from the mock PLC in that a read returns a slice of the live
memory, which is copied without the lock when the answer is encoded.  A word may
thus be torn; `ReadsHeld` says what remains true.  `held` records for each
connection the values each byte has had since its request came.  `last` is the last
write that gave the mutex back.

### 5.7 UDP operations and servers

`UdpPlc` composes the typed operations of `udp/client.go` with the codecs of
`UdpCodec` and a server, the simulator of `udp/server.go` or `cmd/udp/server`.  The
server keeps one buffer for all datagrams, and its address arithmetic is modulo
`U16`.  `meant` and `expected` are what the calls mean.  The network delivers here;
the unreliable one is in `UdpClient`.  `server` is chosen in `Init`.  `Bcd` says what
the BCD codec should compute; with integers of `UBits` bits, `BcdMeaning` compares the
two over all numbers and all digit strings of a bounded length.

### Fairness

As in section 3: runnable goroutines run, and `sync.Mutex` is starvation free.
`Scheduler` also needs time to pass, `FrameStream` that TCP delivers what was
written.  Nothing is assumed of callers and peers.  `Driver` assumes that a dial
and a request end, which `CallsReturn` of `Transport` shows.

## 6. The runs

| run | instance | shows |
|---|---|---|
| `correlation` | 2 callers, 1 operator, 1 connection, `MaxSid` 2, 4 commands | channel discipline and correlation with identifiers that wrap around twice |
| `lifecycle` | 1 operator that disconnects and reconnects at will, 2 connections, 2 retries, failing dials, heartbeats that send, a peer that closes | flags and readers across a reconnection with stale read loops, one heartbeat; calls return, goroutines end |
| `reconnect_test` | 1 operator, connect and reconnect only | violated, see below |
| `heartbeat_doc` | 1 operator, connect and disconnect, heartbeat | violated, see below |
| `udp_client` | 2 callers, `SidMod` 2, 3 commands, timeouts, a network that loses, repeats and refuses | correlation, cells, `Close`; calls return and `listenLoop` ends |
| `frame_delivery` | 2 messages, 5 kinds of noise, 3 items, chunks of any size | the stream implements `FrameDelivery`; no frame waits for the next |
| `scheduler` | 2 callers, 6 batches of 12 points, 2 frame lengths, intervals 0 and 1, one call each | every point is answered, from its own bytes; joined requests fit the frame; statistics; stamps keep their distance; calls return |
| `mock_plc` | a connection and a test goroutine | `MockPlc` implements `AtomicPlc` |
| `point_store` | 12 overlapping points of the mock PLC or 6 of the demonstration server, 2 writes, batches of 2 | what is read is what was written, bit for bit |
| `driver` | 2 callers, 3 configurations, 4 calls, a dropped link | no nil use, one transport; calls return |
| `cmd_server` | 2 connections | writes do not mix, bytes read were there; every request ends |
| `udp_plc` | 2 clients, every operation, 3 calls, either server; 8 bit numbers and up to 4 digits | memory, results and clock; the auxiliary area of `cmd/udp/server` stays; the BCD codec |

Bounds: `MaxRequests` bounds commands, `MaxConns` successful dials.  Two
connections are enough for a loop or a heartbeat to be stale, two callers for
two commands to share an identifier, and four commands with two identifiers for
an identifier to come round twice.  The proofs lift the bounds.  Deadlock is
not checked where the bounds make an instance stop.

In the other modules the bounds are chosen by what must meet.  Three points give a
group that is opened, extended and left; the points lie next to each other, inside
each other, ten and eleven words apart and across the end of the area.  Two writes
and a batch of two let any point overwrite, or be read with, any other.  Two
connections are enough for a copy to be interrupted.  `Words`, `Size` and `U16` keep
the proportions of the code (an area of D is half of what an address can name), so
that wrapping meets the bounds check where it does in the code.

Two properties state what the repository says of the program and are violated:

| run | what TLC shows |
|---|---|
| `reconnect_test` | the old read loop's deferred function clears `connected` of the new connection after a successful `Reconnect`; `Disconnect` is a no-op from then on |
| `heartbeat_doc` | `Connect` right after `Disconnect` finds the old heartbeat still marked as running and starts none; the old one then ends |

`PROJECT.json` quotes the test and the documentation.

## 7. The proofs

The theorems about the transport hold for any finite or infinite sets of callers and operators, any
number of identifiers, commands, connections and retries (`ConstantsAssumption`
is all that is assumed: naturals, at least one identifier, and that callers are
not numbers used for connections).

`TransportProofs` proves `TypeInv`: the types, and the *shape* of the state
(`PcShape`, `ReqShape`, `LoopShape`: goroutines of connections that do not exist
yet have not started, a loop reads from a connection not older than its own, a
dispatcher holds a frame and an issued channel).  One lemma per action.

Its second part proves `LifecycleInv`, which strengthens `ReaderAlive` and
`OwnLoopLeavesBroken` by `MuInv` (who is in a critical section holds `t.mu`) and
`FlagInv`.  The strengthening is needed where `Connect` clears `closed`: the
loop of the old connection may be on its way out then, and only "closed means
that the socket is closed once `Disconnect` is past its close" rules out an open
link.  `OneHeartbeat` is inductive together with `TypeInv`.

Its third part proves `CorrelationInv`.  The heart of it is an ownership argument:
a channel is unregistered and unknown (`RegisterInv`), in the map under its own
identifier and untouched (`MapInv`), claimed by exactly one dispatcher and
untouched (`ClaimInv`), or spent.  Taking it out of the map and claiming it is
one step under `respMu`, so the sweep of `Disconnect` cannot meet a claimed
channel; that is why the send after the unlock is safe.  `SidInv` counts
identifiers back from the counter: the last `MaxSid` commands have different
ones.  With `FrameInv` (frames reach channels of their own identifier only) it
gives `OwnResponse`.

`EndpointProofs` has three parts, one to a module.  The one about `UdpClient` proves
`UdpInv`, from `UdpAssumption` (at least one identifier).
Identifiers are counted back from `sid` (`SidInv`), so equal ones are `SidMod`
apart (`Spaced`).  Cells, waiting callers, `listenLoop` and results stay within
one identifier (`CellInv`, `SameSid`), which gives `UdpOwnResponse` although
cells are written outside the lock and read twice.  `SetInv` (a command past
`incrementSid`, and every datagram, has a set cell) gives `CellsAreSet`.
`Accounted` (a command is running or has returned) together with "a channel that
is still in its cell is the one its maker waits on" gives
`UdpListenerHasPartner`.

The part about `Driver` proves `IInv` from `MaxBackoffAssumption` and `ConfigsAssumption` (a
configuration value whose Go type is a number is one).  Transport and scheduler are
set together, at the end of a successful `Init`, and a call that is past its check
implies that they are (`Together`, `CallsOK`).  This gives `NoNilUseTheorem`, for the
uses of `d.transport` after `d.mu` has been released, and `TransportKeptTheorem`.  The
part of `CallsOK` about intervals gives `CappedAfterFirstTheorem`: the first wait is
the only one that can exceed `maxBackoff`, whatever the configuration.

`SchedulerProofs` proves `StampsSpacedTheorem` from `SInv`: whoever sleeps in
`waitMinInterval` holds `s.mu`, so that nobody else stamps, and the sleep that is left
and the time since the last stamp add up to `minInterval`.  The invariant is needed
because the time left was computed when the sleep began.  `StatsAccountTheorem` counts:
the operation of each caller and its program counter say whether it owes an outcome
(`CountedAt`), and each action moves one caller into or out of that set together with
one counter (`Balanced`, with `CardinalityMoves` about finite sets).

`StatsDriftTheorem` is about statistics that are reset.  An invariant that only mentions
the counters is lost between the three stores of `ResetStats`, and two resets may
overlap.  `DriftInv` therefore says for every place a reset can be at how far outcomes
and requests can be apart: the request under way in another caller is the only one whose
start the reset can have erased while its outcome is still to come.
`SnapshotCompleteTheorem` rests on `SnapshotInv`: what a half-finished snapshot shows is
bounded by the counters as they are now, which only grow until a reset (`OutcomesGrow`).
Assumed for all of these: finitely many callers, at least one, and a largest interval.

`ReadPathProofs` follows the data of `ReadPoints`, for any callers and
batches, any order `groupPoints` may take them in, any frame lengths and any answers.
Its invariant `PathInv` says of a `ReadPoints` at any label that each point of its batch
is *settled* or lies in a group still to be read (`Core`).  A settled point has a result;
one that is Good has the bytes of its own address, and one that can be read is Good or
spoilt.  Three arguments meet in it:

- `GroupOK`: a point of a word group lies in the words the group asks for, at the offset
  noted with it.  `JoinOK` and `NewGroupOK` show it for one turn of the loop of
  `groupPoints`, where it matters that the points come sorted (`Ordered`): a point below
  the start of its group would have a negative offset.  `GroupsOK` is the induction over
  the order.
- `GroupBytes`: a point of such a group is decoded without slicing beyond the answer,
  and from its own bytes; an answer that was cut short gives an error and no wrong value.
- `CoreNext`: entering the results of one group leaves the settled points of the others
  settled, because a batch has one point to an identifier.

`PathInvariance` puts them together, with one lemma for the steps of each kind, and gives
`NoPanicTheorem`, `OwnBytesTheorem` and `GoodUnlessFailedTheorem`.
`BatchFitsFrameTheorem` is the action property of the step that groups (`JoinFits`).
Assumed (`FrameLengthsAssumption`, `BatchesAssumption`, `WidthAssumption`): frame lengths
are at least 1, a bit number fits a byte, a batch has one point to an identifier, and each
point with a valid address is `Supported`.  That rules out what section 8 says the code
does otherwise: addresses whose end wraps, BIT points without a bit number, and strings
and bits in an area whose answers may be cut short.  A batch with a point that
`ParseAddress` refuses is allowed.

`MockPlcProofs` proves `AtomicSafetyTheorem`: `MockPlc` implements `AtomicPlc!Safety` for
any connections and tests, any sizes of the areas and any requests (`ClientAssumption`,
`RequestAssumption`).  `PlcInv` says that whoever is copying holds the mutex, what it has
copied, and that the answer of a read shows the memory as it is.  The mapping stores the
rest of a copy in progress, which `StoreFrom` defines by recursion over its items.
`StoreFromNext` (storing one item and then the rest is storing all) and `LoadedRest` are
proved by induction.  With them every action is the abstract step of its client or
changes nothing that `AtomicPlc` shows (`AskSeen`, `LockSeen`, `CopyUnseen`, ...).

`FrameStreamProofs` proves `DeliverySafetyTheorem` and `NoneHeldBackTheorem` for any
messages, buffer size and noise (`MessageAssumption`, `NoiseAssumption`).  It starts with
the codecs: what `EncodeFINSFrame` and `EncodeFINSTCPFrame` write is what their decoders
read, also when only the header has arrived (`MessageHeader`, `MessageDecodes`).  The
invariant `StreamInv` cannot speak of accumulator and wire alone, because noise may end
in the middle of either.  It says that there is a history `H`, everything ever written,
of which they are a window, and a set `P` of positions such that from each of them a
message, a short frame or a byte to skip leads to the next (`Tiled`).  The accumulator
always begins at a position of `P`.  Writing extends the tiling (`TiledMessage`,
`TiledNoise`), and `Skip` and `Cut` move to the next position (`StreamSkips`,
`StreamCuts`).  `NoneHeldBackTheorem` is an induction over what is left of the history.

The part of `EndpointProofs` about `CmdServer` proves `LastWriteWholeTheorem` and
`ReadsHeldTheorem` for any number of connections and any requests (`RequestAssumption` gives their fields types).  `Base` has
the shapes: a connection carries a request, a count and an answer that fit its line.
`Progress` says which bytes a copy has stored and that the copier holds the mutex.
`SeenOK` says that `held` includes the current memory, and that every byte encoded so far
is among what its place held.

`UdpPlcProofs` and `SimulatorProofs` are about `UdpPlc`, for any clients, calls, byte
order and sizes of the areas and the buffer.  The assumptions stand in `UdpPlc`:
`SizesAssumption` (an area ends before uint16 does, the buffer holds a header and a
command, an integer holds a byte), `TimesAssumption` (years whose two digits say the
century), `CallsAssumption` (a call has the fields of its operation and its datagram fits
the buffer; a call to the simulator is `Simulated`, which leaves out the wrapping ranges
and the odd `WriteBytes` of section 8) and `TogglesAssumption` (no other client names a bit
that one toggles).

`UdpPlcProofs` goes through the codecs: what the server reads of a datagram is what the
client encoded, although the buffer may go on with bytes of an earlier one
(`RequestBytes`, `RequestRead`), and what the client reads of the answer is what the server
gave (`HeaderDecoded`, `ResponseDecoded`, `OneByte`).  `PlcInv` has the types, the command
that each datagram under way carries (`UnderWay`) and the auxiliary area of
`cmd/udp/server`.  It is needed because `AnswersOwnRequest` decodes a datagram that the
buffer may no longer hold: the answer was made from the buffer, and only what the datagram
carries links the two.  `AnswersOwnRequestTheorem` is about both servers, and it allows
requests on which a server panics.

The rest is about the simulator alone.  `SimRange` shows that the arithmetic modulo
`U16` names the range that is meant whenever it fits and is refused whenever it does not;
`ReadCallMet`, `WriteCallMet`, `TwiddleMet` and `ClockRead` show that each request does
what its call means.  `SimInv`, in `SimulatorProofs`, is the invariant over the calls of
all clients.  That `mem` is `meant` is not inductive, since a toggle is two datagrams: between them what is meant is
ahead of the memory by the one bit.  `SimInv` says which bits lag (`Lags`, `CellMeant`),
what the client that toggles one has been told, and which value its second datagram
carries (`ClientMeant`).  That no second client changes the bit in between is
`TogglesAssumption`, and without it the write is lost, as section 8 says.  This gives
`MemoryIsMeantTheorem` and `ReadsMeaningTheorem`.

Induction over data is done from the fact that a set of naturals that is not empty has
a least element (`LeastNatural`, `InductionFrom`): the set of the numbers for which a
statement holds takes the place of the statement.

Model-checked only:

- the liveness properties, and with them the liveness halves of `FrameDelivery` and
  `AtomicPlc`: fairness and `ENABLED` are beyond the proof system;
- `MemoryIsMeant` and `ReadsMeaning` of `PointStore`: what is meant is kept bit by bit
  there, and each fold over the bits of a value would need an induction of its own;
- `BcdMeaning`, for numbers of several bytes, for the same reason; of the BCD codec the
  proofs cover the single bytes of the clock;
- the violated properties.

The instances of `Transport`, `UdpClient`, `CmdServer`, `MockPlc`, `FrameStream`,
`Scheduler` and `UdpPlc` may stay small because the proofs cover the safety of all others.

## 8. What the instances leave out

The models follow the code on the cases below as well, but there the code does not
have the property that the runs check, so that the instances leave them out and the
runs say nothing about them.  A reader who relies on a property should know them.

| input | what the code does with it | source |
|---|---|---|
| a TCP header whose length is larger than its frame | waits for the bytes that follow and takes them as part of the frame | `transport.go` 273-280 |
| a point longer than `maxFrameLength` | is read in one request: the first point of a group is not compared with the limit | `scheduler.go` 229 |
| an answer that ends before a string | `decodePointValue` slices out of range | `scheduler.go` 306 |
| an answer without the bit asked for | `ReadBits` makes up a bit that is off, and the point is Good | `transport.go` 419-422 |
| two points with one identifier in a batch | the one decoded last stays in the results | `scheduler.go` 126-139 |
| a BIT point without a bit number | asks for bit 255 | `scheduler.go` 277 |
| an address beyond 65535 | is taken modulo 65536 | `scheduler.go` 241 |
| requests after `waitMinInterval` | the stamps are `minInterval` apart, the requests that follow them may be closer | `scheduler.go` 384 |
| `GetStats` beside requests | its three loads may show more outcomes than requests | `scheduler.go` 391 |
| `SetWord`, `GetWord` of D32767 | slice with a bound that has wrapped to 0 | `mock_plc.go` 318 |
| bits on `cmd/tcp/server` | are served as words, those of W, H and A from each other's areas: the codes differ from the client's | `cmd/tcp/server/main.go` 233 |
| `WritePoint` to A on the mock PLC | is written, although the table of areas marks it as read-only | `decoder.go` 37 |
| F addresses, which are documented | are refused by `ParseAddress` | `decoder.go` |
| the byte order of a string address | is parsed and not used | `decoder.go` 282-292 |
| `retryInterval` above `maxBackoff` | the first wait is not capped | `transport.go` 497 |
| `SetDeviceConfig` on a driver in use | has no effect on its transport | `fins.go` 152 |
| two calls that find the link down | the second `Reconnect` closes the connection of the first | `fins.go` 95 |
| BCD numbers beyond 64 bits | some are decoded: the test for overflow wraps itself | `udp/driver.go` 166 |
| a write between the two halves of `ToggleBit` | is lost | `udp/client.go` 235 |
| word or bit ranges whose end wraps in uint16, bit offsets that pass the end | pass the bounds check and slice out of range | `udp/server.go` 68-81 |
| `WriteBytes` with an odd count | stores a byte of an earlier datagram | `udp/server.go` 76 |
| the clock and word areas of `cmd/udp/server` | fields below ten are encoded with another padding than the client's; area codes differ | `cmd/udp/server/main.go` 33, 391 |

The interleavings among them (requests after the stamp, `GetStats`, the two reconnecting
calls) are part of the runs; it is the stronger property that is not claimed.

## 9. Not modelled

- Of the transport: read and write deadlines as times, `SetTimeout` (an
  unsynchronised read of `t.timeout` elsewhere changes how long a wait is and nothing
  else), `GetMetrics` and the getters, which copy values.  In `Transport` a frame that
  `DecodeFINSFrame` refuses counts as not answered; the bytes are in `FrameStream`.
- Of the decoder: EM addresses without their W, where the regular expression divides
  the digits between bank and address; the documented form has the W.  White space and
  letter case of addresses.  The values of floats (they are bit patterns).
- Of the driver: `Health`, `SetSlaveID` and the getters.  `Driver` reduces the transport
  to a flag; the races inside it are in `Transport`.  The two are not composed, since the
  product is beyond TLC.
- `EndCodeText` and the tables of wordings; `types.go` has declarations only.
- Of the UDP client: `SetByteOrder` and `SetTimeoutMs` at run time, and datagrams too
  short to decode.  Of its servers: errors of the socket and `Close`.
- Of `cmd/`: the two clients, which print what the library returns, and the servers'
  own copies of the frame codecs, which repeat those of the library.  A length field
  below 4 at the TCP server is left out: `CmdServer` starts from whole messages.
- Memory as the hardware sees it: unsynchronised accesses to single bytes and flags are
  taken as atomic, except where section 3 says otherwise.

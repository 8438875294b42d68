---------------------------- MODULE FrameStream -----------------------------
(***************************************************************************)
(* The byte stream of one connection and the loop that cuts it into        *)
(* frames: readLoop of transport.go, whose inner loop MockPLC repeats on   *)
(* the other side.  The peer writes frames and other bytes; TCP hands them *)
(* over in order, in chunks of any size; every chunk is appended to the    *)
(* accumulator, and the frames that are complete are cut off its front.    *)
(***************************************************************************)
EXTENDS Frames

CONSTANTS Message,  \* the messages the peer sends, before encoding
          Noise,    \* other byte strings it may write
          MaxItems, \* bound on what it writes
          MaxRead   \* the size of the read buffer, 4096 in the code

Address == [Network : Nat, Node : Nat, Unit : Nat]
Header == [ICF : Nat, RSV : Nat, GCT : Nat, Dest : Address, Src : Address, SID : Nat]

ASSUME SizesAssumption == MaxItems \in Nat /\ MaxRead \in Nat
ASSUME MessageAssumption ==
    \A m \in Message : /\ m.header \in Header /\ m.data \in Seq(Nat)
                       /\ m.command \in Nat /\ m.endCode \in Nat

\* Noise is bytes in which the magic does not begin, not even one that what
\* is written next would complete, perhaps after a frame too short to hold a
\* FINS message.
First == {b[1] : b \in Noise} \cup {Magic[1]}
Junk(b, from) ==
    \A p \in from .. Len(b) : \E q \in 1 .. 4 :
        \/ p + q - 1 <= Len(b) /\ b[p + q - 1] # Magic[q]
        \/ p + q - 1 = Len(b) + 1 /\ Magic[q] \notin First
ShortFrame(b) ==
    /\ Len(b) >= 12 /\ \A q \in 1 .. 4 : b[q] = Magic[q]
    /\ Uint32(b, 5) < 18 /\ Uint32(b, 5) + 8 <= Len(b)
ASSUME NoiseAssumption ==
    \A b \in Noise : /\ b \in Seq(Nat) /\ b # <<>>
                     /\ Junk(b, 1) \/ (ShortFrame(b) /\ Junk(b, Uint32(b, 5) + 9))

VARIABLES wire,        \* bytes written and not yet read
          accumulator, \* bytes read and not yet consumed
          phase,       \* "read", or "parse" while the inner loop runs
          sent,        \* the messages written, oldest first
          items,       \* number of things written
          dispatched   \* the frames given to dispatchResponse

vars == <<wire, accumulator, phase, sent, items, dispatched>>

\* A message as a receiver should see it.
FrameOf(m) == [ok |-> TRUE, Header |-> m.header, CommandCode |-> m.command,
               EndCode |-> m.endCode, Data |-> m.data]

Init ==
    /\ wire = <<>>
    /\ accumulator = <<>>
    /\ phase = "read"
    /\ sent = <<>>
    /\ items = 0
    /\ dispatched = <<>>

\* What MockPLC.handleConnection writes for a response.
PeerSend(m) ==
    /\ items < MaxItems
    /\ items' = items + 1
    /\ wire' = wire \o EncodeFINSTCPFrame(TCPCommandFINSFrame, 0,
                          EncodeFINSFrame(m.header, m.command, m.endCode, m.data))
    /\ sent' = Append(sent, FrameOf(m))
    /\ UNCHANGED <<accumulator, phase, dispatched>>

PeerNoise(bytes) ==
    /\ items < MaxItems
    /\ items' = items + 1
    /\ wire' = wire \o bytes
    /\ UNCHANGED <<accumulator, phase, sent, dispatched>>

\* t.reader.Read(buf) returns n bytes.
Read(n) ==
    /\ phase = "read"
    /\ n \in 1 .. (IF Len(wire) < MaxRead THEN Len(wire) ELSE MaxRead)
    /\ accumulator' = accumulator \o SubSeq(wire, 1, n)
    /\ wire' = SubSeq(wire, n + 1, Len(wire))
    /\ phase' = "parse"
    /\ UNCHANGED <<sent, items, dispatched>>

-----------------------------------------------------------------------------
(* The inner loop.                                                         *)

Drop(s, n) == SubSeq(s, n + 1, Len(s))
FrameLen == 12 + DecodeFINSTCPFrame(accumulator).Length - 4
HeaderOK == DecodeFINSTCPFrame(accumulator).ok

\* No header yet, or a header whose frame is not complete: back to Read.
NeedMore ==
    /\ phase = "parse"
    /\ Len(accumulator) < 12 \/ (HeaderOK /\ Len(accumulator) < FrameLen)
    /\ phase' = "read"
    /\ UNCHANGED <<wire, accumulator, sent, items, dispatched>>

\* Mutant: a header that does not decode throws the whole accumulator away.
MutantSkip ==
    /\ phase = "parse"
    /\ Len(accumulator) >= 12
    /\ ~HeaderOK
    /\ accumulator' = <<>>
    /\ UNCHANGED <<wire, phase, sent, items, dispatched>>

\* The accumulator does not start with the magic: one byte is dropped.
Skip ==
    /\ phase = "parse"
    /\ Len(accumulator) >= 12
    /\ ~HeaderOK
    /\ accumulator' = Drop(accumulator, 1)
    /\ UNCHANGED <<wire, phase, sent, items, dispatched>>

\* Mutant: after one frame the loop waits for more bytes.
MutantCut ==
    /\ phase = "parse"
    /\ HeaderOK /\ Len(accumulator) >= FrameLen
    /\ LET fins == DecodeFINSFrame(DecodeFINSTCPFrame(accumulator).Data)
       IN dispatched' = IF fins.ok THEN Append(dispatched, fins) ELSE dispatched
    /\ accumulator' = Drop(accumulator, FrameLen)
    /\ phase' = "read"
    /\ UNCHANGED <<wire, sent, items>>

\* A complete frame is cut off, and dispatched if it holds a FINS message.
Cut ==
    /\ phase = "parse"
    /\ HeaderOK /\ Len(accumulator) >= FrameLen
    /\ LET fins == DecodeFINSFrame(DecodeFINSTCPFrame(accumulator).Data)
       IN dispatched' = IF fins.ok THEN Append(dispatched, fins) ELSE dispatched
    /\ accumulator' = Drop(accumulator, FrameLen)
    /\ phase' = IF FrameLen >= Len(accumulator) THEN "read" ELSE "parse"
    /\ UNCHANGED <<wire, sent, items>>

Parse == NeedMore \/ Skip \/ Cut

Next ==
    \/ \E m \in Message : PeerSend(m)
    \/ \E b \in Noise : PeerNoise(b)
    \/ \E n \in 1 .. MaxRead : Read(n)
    \/ Parse

\* TCP delivers what was written and the loop keeps running.
Spec == Init /\ [][Next]_vars
             /\ WF_vars(\E n \in 1 .. MaxRead : Read(n)) /\ WF_vars(Parse)

-----------------------------------------------------------------------------
(* Properties.                                                             *)

\* However the stream is chunked and whatever lies between the frames,
\* readLoop dispatches the frames sent, whole, once each, in order and
\* eventually: the stream implements FrameDelivery.
Delivery == INSTANCE FrameDelivery
                WITH delivered <- dispatched, Frame <- {FrameOf(m) : m \in Message}
ImplementsDelivery == Delivery!Spec

\* When readLoop goes back to Read and nothing is on the wire, no complete
\* frame is left behind in the accumulator to wait for the next response.
NoneHeldBack == phase = "read" /\ wire = <<>> => dispatched = sent
=============================================================================

---------------------------- MODULE FrameDelivery ----------------------------
(***************************************************************************)
(* What the framing of a TCP byte stream promises: the frames the peer     *)
(* sent are handed on whole, once each and in order, and each of them is   *)
(* handed on eventually.                                                   *)
(***************************************************************************)
EXTENDS Naturals, Sequences

CONSTANT Frame

VARIABLES sent,      \* the frames sent, oldest first
          delivered  \* the frames handed on

vars == <<sent, delivered>>

Init ==
    /\ sent = <<>>
    /\ delivered = <<>>

Send(f) ==
    /\ sent' = Append(sent, f)
    /\ UNCHANGED delivered

Deliver ==
    /\ Len(delivered) < Len(sent)
    /\ delivered' = Append(delivered, sent[Len(delivered) + 1])
    /\ UNCHANGED sent

Next == Deliver \/ \E f \in Frame : Send(f)

Safety == Init /\ [][Next]_vars
Spec == Safety /\ WF_vars(Deliver)
=============================================================================

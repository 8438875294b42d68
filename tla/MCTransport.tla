------------------------------ MODULE MCTransport ------------------------------
(***************************************************************************)
(* Instances of Transport for TLC.                                         *)
(***************************************************************************)
EXTENDS TransportInv, TLC

\* Callers that only send are interchangeable.
SenderSymmetry == Permutations(Senders)
=============================================================================

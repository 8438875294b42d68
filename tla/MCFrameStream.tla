--------------------------- MODULE MCFrameStream ---------------------------
(* A small instance of FrameStream.                                        *)
EXTENDS FrameStream

HostA == [Network |-> 0, Node |-> 1, Unit |-> 255]
HostB == [Network |-> 0, Node |-> 2, Unit |-> 0]
Response(sid, data) ==
    [header |-> DefaultResponseHeader(DefaultCommandHeader(HostA, HostB, sid)),
     command |-> 257, endCode |-> 0, data |-> data]

\* A response without data, and one whose data looks like the magic.
MCMessage == {Response(1, <<>>), Response(70, <<70, 73, 78, 83>>)}

\* A stray byte, a torn magic, a frame too short for a FINS message, and
\* headers whose Length is below 4.
MCNoise == {<<0>>, <<70, 73, 70>>, EncodeFINSTCPFrame(2, 0, <<1>>),
            Magic \o <<0, 0, 0, 0, 0, 2, 0, 0>>, Magic \o <<0, 0, 0, 3, 0, 2, 0, 0>>}
=============================================================================

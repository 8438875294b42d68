------------------------------- MODULE Frames -------------------------------
(***************************************************************************)
(* The FINS/TCP codecs of protocol.go: a frame is the magic FINS, a four   *)
(* byte length, a command and an error code, and the FINS message, which   *)
(* has a header of ten bytes, a command code, an end code and data.  A     *)
(* byte is a number in 0..255 and a slice is a sequence of bytes.  A       *)
(* decoder returns Invalid where the code returns an error.                *)
(***************************************************************************)
EXTENDS Integers, Sequences

Magic == <<70, 73, 78, 83>>
TCPCommandFINSFrame == 0
Invalid == [ok |-> FALSE]

PutUint16(v) == <<v \div 256, v % 256>>
Uint16(b, i) == b[i] * 256 + b[i + 1]
Uint32(b, i) == Uint16(b, i) * 65536 + Uint16(b, i + 2)

-----------------------------------------------------------------------------
(* The TCP envelope.                                                       *)

EncodeFINSTCPFrame(command, errorCode, finsData) ==
    Magic \o PutUint16(0) \o PutUint16(Len(finsData) + 4)
          \o PutUint16(command) \o PutUint16(errorCode) \o finsData

\* A Length below 4 counts as no data, and data beyond the slice is not there.
DecodeFINSTCPFrame(data) ==
    IF Len(data) < 12 \/ SubSeq(data, 1, 4) # Magic THEN Invalid
    ELSE LET length == Uint32(data, 5)
             end == IF 8 + length > Len(data) THEN Len(data) ELSE 8 + length
         IN [ok |-> TRUE, Length |-> length, Data |-> SubSeq(data, 13, end)]

-----------------------------------------------------------------------------
(* The FINS message.                                                       *)

PutAddress(a) == <<a.Network, a.Node, a.Unit>>
AddressAt(b, i) == [Network |-> b[i], Node |-> b[i + 1], Unit |-> b[i + 2]]

EncodeFINSFrame(h, commandCode, endCode, data) ==
    <<h.ICF, h.RSV, h.GCT>> \o PutAddress(h.Dest) \o PutAddress(h.Src) \o <<h.SID>>
        \o PutUint16(commandCode) \o PutUint16(endCode) \o data

DecodeFINSFrame(data) ==
    IF Len(data) < 14 THEN Invalid
    ELSE [ok |-> TRUE,
          Header |-> [ICF |-> data[1], RSV |-> data[2], GCT |-> data[3],
                      Dest |-> AddressAt(data, 4), Src |-> AddressAt(data, 7),
                      SID |-> data[10]],
          CommandCode |-> Uint16(data, 11),
          EndCode |-> Uint16(data, 13),
          Data |-> SubSeq(data, 15, Len(data))]

DefaultCommandHeader(src, dest, sid) ==
    [ICF |-> 128, RSV |-> 0, GCT |-> 2, Dest |-> dest, Src |-> src, SID |-> sid]

DefaultResponseHeader(h) ==
    [ICF |-> 192, RSV |-> 0, GCT |-> h.GCT, Dest |-> h.Src, Src |-> h.Dest, SID |-> h.SID]

EncodeMemoryAddress(m) == <<m.Area>> \o PutUint16(m.Address) \o <<m.BitOffset>>

DecodeMemoryAddress(b) == [Area |-> b[1], Address |-> Uint16(b, 2), BitOffset |-> b[4]]

\* A command: its code, the memory address, the item count and the data.
EncodeReadCommand(m, count) ==
    PutUint16(257) \o EncodeMemoryAddress(m) \o PutUint16(count)

EncodeWriteCommand(m, count, data) ==
    PutUint16(258) \o EncodeMemoryAddress(m) \o PutUint16(count) \o data
=============================================================================

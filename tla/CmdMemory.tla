------------------------------ MODULE CmdMemory ------------------------------
(***************************************************************************)
(* The memory of the demonstration server of cmd/tcp/server: one switch    *)
(* for the codes of words and bits, which treats both as words, and an     *)
(* area A that cannot be written.                                          *)
(***************************************************************************)
EXTENDS PlcMemory

CmdArea(code) ==
    CASE code \in {48, 176} -> "CIO"
      [] code \in {49, 177} -> "W"
      [] code \in {50, 178} -> "H"
      [] code \in {51, 179} -> "A"
      [] code \in {2, 130} -> "D"
      [] OTHER -> "none"

CmdLocate(at, count) ==
    LET area == CmdArea(at.Area)
    IN CASE area = "none" -> Refused("1101")
         [] area # "none" /\ at.Address * 2 + count * 2 > Words[area] * 2 -> Refused("1104")
         [] OTHER -> [end |-> "NORMAL", area |-> area, isBit |-> FALSE,
                      first |-> at.Address * 2, items |-> count * 2]

cmdReadMemory(m, at, count) ==
    LET t == CmdLocate(at, count)
    IN [end |-> t.end, data |-> [i \in 1 .. t.items |-> Load(m, t, i)]]

cmdWriteMemory(m, at, count, data) ==
    LET t == CmdLocate(at, count)
    IN IF CmdArea(at.Area) = "A" THEN [end |-> "2101", mem |-> m]
       ELSE [end |-> t.end, mem |-> IF t.end = "NORMAL" THEN StoreFrom(m, t, data, 0) ELSE m]
=============================================================================

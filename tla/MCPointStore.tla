---------------------------- MODULE MCPointStore ----------------------------
(* A small instance of PointStore: bytes of three bits, so that words have *)
(* six bits and a 16 bit address becomes one of six bits.                  *)
EXTENDS PointStore

MCWords == [a \in Areas |-> IF a = "D" THEN 6 ELSE 2]

P(area, num, dot, order, type) ==
    [id |-> <<area, num, dot, order, type>>, dataType |-> type,
     addr |-> [area |-> area, em |-> 0, num |-> num, dot |-> dot, order |-> order]]

\* Overlapping words, bits and strings, both ends of an area, and an area
\* that the PLC does not have.
MockPoint ==
    {P("D", 0, NoDot, "", "UINT16"), P("D", 0, 5, "", "BIT"), P("D", 1, 0, "", "BIT"),
     P("D", 0, NoDot, "", "INT32"), P("D", 1, NoDot, "", "INT8"), P("D", 2, 7, "", "STRING"),
     P("D", 1, 3, "H", "STRING"), P("D", 2, NoDot, "", "UINT64"), P("D", 5, NoDot, "", "FLOAT"),
     P("H", 1, NoDot, "", "INT16"), P("H", 1, 2, "", "BIT"), P("T", 0, NoDot, "", "UINT16")}

\* Points of the demonstration server: words and strings, and a read-only
\* area.
CmdPoint ==
    {P("D", 0, NoDot, "", "UINT16"), P("D", 0, NoDot, "", "INT32"), P("D", 1, 3, "H", "STRING"),
     P("D", 5, NoDot, "", "FLOAT"), P("A", 1, NoDot, "", "INT16"), P("T", 0, NoDot, "", "UINT16")}
MCPoint(s) == IF s = "mock" THEN MockPoint ELSE CmdPoint

V(kind, v) == [kind |-> kind, v |-> v]
MCValuesOf(p) ==
    CASE p.addr.dot \in 0 .. WordBits - 1 /\ p.addr.order = "" -> {V("bool", TRUE), V("bool", FALSE)}
      [] p.dataType = "UINT16" -> {V("uint16", 43), V("float64", U16 - 1)}
      [] p.dataType = "INT16" -> {V("int16", -2), V("uint16", 1)}
      [] p.dataType = "INT8" -> {V("int8", -3)}
      [] p.dataType = "INT32" -> {V("int32", -1), V("int32", 1234)}
      [] p.dataType = "UINT64" -> {V("uint64", 1234567)}
      [] p.dataType = "FLOAT" -> {V("float32", 99)}
      [] p.dataType = "STRING" -> {V("string", <<1, 2>>), V("string", <<7, 6, 5, 4, 3, 2, 1, 7>>)}
      [] OTHER -> {V("bool", TRUE)}
=============================================================================

---------------------------- MODULE MCScheduler -----------------------------
(* A small instance of Scheduler.                                          *)
EXTENDS Scheduler

CONSTANTS c1, c2

Addr(area, num, dot, order) ==
    [area |-> area, em |-> 0, num |-> num, dot |-> dot, order |-> order]
P(id, area, num, dot, order, type) ==
    [id |-> id, addr |-> Addr(area, num, dot, order), dataType |-> type]

\* Words that touch, overlap and lie inside each other, that lie ten words
\* apart and eleven, that cross the end of the area, and strings behind words.
\* Then bits, an area without bits, and a bad address.
w0 == P("w0", "D", 0, NoDot, "", "UINT16")
q0 == P("q0", "D", 0, NoDot, "", "UINT64")
b1 == P("b1", "D", 1, NoDot, "", "UINT8")
s5 == P("s5", "D", 5, 7, "", "STRING")
w11 == P("w11", "D", 11, NoDot, "", "INT16")
w12 == P("w12", "D", 12, NoDot, "", "INT16")
q29 == P("q29", "D", 29, NoDot, "", "DOUBLE")
bit == P("bit", "D", 1, 3, "", "BIT")
h2 == P("h2", "H", 2, NoDot, "", "UINT16")
h3 == P("h3", "H", 3, NoDot, "", "UINT16")
t1 == P("t1", "T", 1, NoDot, "", "UINT16")
bad == P("bad", "F", 0, NoDot, "", "UINT8")
MCBatches == {<<w11, b1, q0>>, <<w0, bad, w12>>, <<q0, s5, w0>>, <<q29, bit>>, <<t1>>, <<h2, h3>>}
MCWritePoints == {w0, bad}

\* One caller reads and sets the frame length, the other writes, uses the
\* statistics and sets the interval.
MCOps == [c \in Caller |-> IF c = c1 THEN {"read", "setFrame"}
                           ELSE {"write", "stats", "reset", "setInterval"}]
MCShortAreas == {MemoryAreaWord["H"]}
=============================================================================

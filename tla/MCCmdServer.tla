---------------------------- MODULE MCCmdServer -----------------------------
(* A small instance of CmdServer: bytes of two bits.                       *)
EXTENDS CmdServer

CONSTANTS c1, c2

MCWords == [a \in Areas |-> IF a = "D" THEN 2 ELSE 1]
At(code, address) == [Area |-> code, Address |-> address, BitOffset |-> 0]
DWord == MemoryAreaWord["D"]

\* Two writes that overlap, one short of data and one by the code of bits,
\* a read across them, and requests that are refused.
MCRequest ==
    {[cmd |-> "write", at |-> At(DWord, 0), count |-> 2, data |-> <<1, 1, 1>>],
     [cmd |-> "write", at |-> At(MemoryAreaBit["D"], 1), count |-> 1, data |-> <<2, 2>>],
     [cmd |-> "write", at |-> At(MemoryAreaWord["A"], 0), count |-> 1, data |-> <<1, 1>>],
     [cmd |-> "read", at |-> At(DWord, 0), count |-> 2, data |-> <<>>],
     [cmd |-> "read", at |-> At(DWord, 1), count |-> 2, data |-> <<>>],
     [cmd |-> "short"], [cmd |-> "unknown"]}
=============================================================================

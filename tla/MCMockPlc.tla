----------------------------- MODULE MCMockPlc ------------------------------
(* A small instance of MockPlc: bytes of two bits, and a D area of half    *)
(* the words that a 16 bit address can name, as in the code.               *)
EXTENDS MockPlc

CONSTANTS c1, t1

MCWords == [a \in Areas |-> IF a = "D" THEN U16 \div 2 ELSE 1]

At(code, address, bit) == [Area |-> code, Address |-> address, BitOffset |-> bit]
DWord == MemoryAreaWord["D"]
DBit == MemoryAreaBit["D"]
Last == U16 \div 2 - 1

\* Words and bits of the first two words of D, a write with too little data,
\* the last word, and requests that are refused.
MCRequest ==
    {[cmd |-> "write", at |-> At(DWord, 0, 0), count |-> 2, data |-> <<1, 2, 3, 1>>],
     [cmd |-> "write", at |-> At(DWord, 1, 0), count |-> 1, data |-> <<2>>],
     [cmd |-> "write", at |-> At(DBit, 0, 3), count |-> 2, data |-> <<0, 1>>],
     [cmd |-> "read", at |-> At(DWord, 0, 0), count |-> 2, data |-> <<>>],
     [cmd |-> "read", at |-> At(DBit, 0, 2), count |-> 3, data |-> <<>>],
     [cmd |-> "read", at |-> At(DWord, Last, 0), count |-> 2, data |-> <<>>],
     [cmd |-> "read", at |-> At(MemoryAreaWord["T"], 0, 0), count |-> 1, data |-> <<>>],
     [cmd |-> "status"], [cmd |-> "short"], [cmd |-> "unknown"]}
MCWordRequest ==
    {[cmd |-> "set", at |-> At(DWord, 1, 0), count |-> 1, data |-> <<3, 0>>],
     [cmd |-> "get", at |-> At(DWord, 0, 0), count |-> 1, data |-> <<>>],
     [cmd |-> "get", at |-> At(DWord, Last + 1, 0), count |-> 1, data |-> <<>>]}
=============================================================================

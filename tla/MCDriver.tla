------------------------------ MODULE MCDriver -------------------------------
(* A small instance of Driver.                                             *)
EXTENDS Driver

CONSTANTS c1, c2

Str == [kind |-> "string", v |-> 0]
Num(kind, n) == [kind |-> kind, v |-> n]

\* A configuration without plcIP, one with settings of every kind, and one
\* that changes the retries alone.
NoIP == [maxRetries |-> Num("int", 4), srcNodeAddr |-> Num("int", 300)]
Full == [plcIP |-> Str, retryInterval |-> Num("float64", 2), maxRetries |-> Num("string", 0)]
Other == [plcIP |-> Str, retryInterval |-> Num("int", 1), minInterval |-> Num("int", 1)]

MCConfigs == {NoIP, Full, Other}
=============================================================================

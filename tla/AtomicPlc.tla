------------------------------ MODULE AtomicPlc ------------------------------
(***************************************************************************)
(* What the memory of the mock PLC promises to the connections it serves   *)
(* and to the tests that call it: every request takes effect at once, at   *)
(* some moment between its arrival and its answer, and every one of them   *)
(* is answered.                                                            *)
(***************************************************************************)
CONSTANTS Client, Request,
          NewMemory,        \* the memory at first
          Effect(_, _),     \* the memory after a request
          AnswerTo(_, _)    \* the answer to it

VARIABLES mem,     \* the bytes of every area
          status,  \* of each client: "idle", "pending" or "done"
          request, \* its last request
          answer   \* the answer to it

vars == <<mem, status, request, answer>>

None == [end |-> "none", data |-> <<>>]

Init ==
    /\ mem = NewMemory
    /\ status = [c \in Client |-> "idle"]
    /\ request = [c \in Client |-> None]
    /\ answer = [c \in Client |-> None]

Ask(c, r) ==
    /\ status[c] = "idle"
    /\ status' = [status EXCEPT ![c] = "pending"]
    /\ request' = [request EXCEPT ![c] = r]
    /\ answer' = [answer EXCEPT ![c] = None]
    /\ UNCHANGED mem

TakeEffect(c) ==
    /\ status[c] = "pending"
    /\ status' = [status EXCEPT ![c] = "done"]
    /\ mem' = Effect(mem, request[c])
    /\ answer' = [answer EXCEPT ![c] = AnswerTo(mem, request[c])]
    /\ UNCHANGED request

Answer(c) ==
    /\ status[c] = "done"
    /\ status' = [status EXCEPT ![c] = "idle"]
    /\ UNCHANGED <<mem, request, answer>>

Next == \E c \in Client :
            TakeEffect(c) \/ Answer(c) \/ \E r \in Request : Ask(c, r)

Safety == Init /\ [][Next]_vars
Spec == Safety /\ \A c \in Client : WF_vars(TakeEffect(c)) /\ WF_vars(Answer(c))
=============================================================================

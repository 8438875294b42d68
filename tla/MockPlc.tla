------------------------------- MODULE MockPlc -------------------------------
(***************************************************************************)
(* mock_plc.go: the mock PLC serves every connection in a goroutine of its *)
(* own, and tests call SetWord and GetWord beside them.  The memory is     *)
(* guarded by one mutex and copied item by item.  A request is a FINS      *)
(* message as the framing of FrameStream hands it over: its command, the   *)
(* memory address, the item count and the data.                            *)
(***************************************************************************)
EXTENDS PlcMemory

CONSTANTS Conn,         \* connections
          Test,         \* goroutines of a test, in the process of the PLC
          Request,      \* the requests that connections carry
          WordRequest   \* the calls of SetWord and GetWord

ASSUME ClientAssumption == "none" \notin Conn \cup Test /\ Conn \cap Test = {}
ASSUME RequestAssumption ==
    /\ \A r \in Request :
        /\ r.cmd \in {"read", "write", "status", "short", "unknown"}
        /\ r.cmd \in {"read", "write"} => r.count \in Nat /\ r.data \in Seq(Nat)
    /\ \A r \in WordRequest : r.cmd \in {"set", "get"} /\ r.count = 1 /\ r.data \in Seq(Nat)

Client == Conn \cup Test

VARIABLES mem,     \* the bytes of every area
          mu,      \* the holder of the mutex
          closed,
          pc,
          request,
          copied,  \* the items copied so far
          answer

vars == <<mem, mu, closed, pc, request, copied, answer>>

NoClient == "none"
None == [end |-> "none", data |-> <<>>]

Init ==
    /\ mem = NewMockPLC
    /\ mu = NoClient
    /\ closed = FALSE
    /\ pc = [c \in Client |-> IF c \in Conn THEN "closed" ELSE "idle"]
    /\ request = [c \in Client |-> None]
    /\ copied = [c \in Client |-> 0]
    /\ answer = [c \in Client |-> None]

Goto(c, label) == pc' = [pc EXCEPT ![c] = label]
SetAnswer(c, end, d) == answer' = [answer EXCEPT ![c] = [end |-> end, data |-> d]]

-----------------------------------------------------------------------------
(* Connections.                                                            *)

\* acceptLoop takes connections until Close, which ends no connection.
Accept(c) ==
    /\ c \in Conn /\ pc[c] = "closed"
    /\ ~closed
    /\ Goto(c, "idle")
    /\ UNCHANGED <<mem, mu, closed, request, copied, answer>>

Close ==
    /\ ~closed
    /\ closed' = TRUE
    /\ UNCHANGED <<mem, mu, pc, request, copied, answer>>

\* The peer is gone: handleConnection returns.
HangUp(c) ==
    /\ c \in Conn /\ pc[c] = "idle"
    /\ Goto(c, "closed")
    /\ UNCHANGED <<mem, mu, closed, request, copied, answer>>

Arrive(c, r) ==
    /\ pc[c] = "idle"
    /\ r \in (IF c \in Conn THEN Request ELSE WordRequest)
    /\ request' = [request EXCEPT ![c] = r]
    /\ copied' = [copied EXCEPT ![c] = 0]
    /\ answer' = [answer EXCEPT ![c] = None]
    /\ Goto(c, "handle")
    /\ UNCHANGED <<mem, mu, closed>>

\* handleRequest: memory commands go on to the mutex.
handleRequest(c) ==
    /\ c \in Conn /\ pc[c] = "handle"
    /\ \/ request[c].cmd \in {"read", "write"} /\ Goto(c, "lock") /\ UNCHANGED answer
       \/ request[c].cmd = "short" /\ SetAnswer(c, "CMD_TOO_SHORT", <<>>) /\ Goto(c, "reply")
       \/ request[c].cmd = "status" /\ SetAnswer(c, "NORMAL", <<0, 0>>) /\ Goto(c, "reply")
       \/ request[c].cmd = "unknown" /\ SetAnswer(c, "UNDEFINED_CMD", <<>>) /\ Goto(c, "reply")
    /\ UNCHANGED <<mem, mu, closed, request, copied>>

\* SetWord and GetWord look at the range before they lock.
SetWordOrGetWord(c) ==
    /\ c \in Test /\ pc[c] = "handle"
    /\ IF Locate(request[c].at, 1).end = "NORMAL" THEN Goto(c, "lock") /\ UNCHANGED answer
       ELSE /\ SetAnswer(c, "NORMAL", IF request[c].cmd = "get" THEN <<0, 0>> ELSE <<>>)
            /\ Goto(c, "reply")
    /\ UNCHANGED <<mem, mu, closed, request, copied>>

\* The answer is written to the connection, or the call returns.
Reply(c) ==
    /\ pc[c] = "reply"
    /\ Goto(c, "idle")
    /\ UNCHANGED <<mem, mu, closed, request, copied, answer>>

-----------------------------------------------------------------------------
(* readMemory, writeMemory, and the bodies of SetWord and GetWord.         *)

Writes(r) == r.cmd \in {"write", "set"}
Items(r) == IF Writes(r) THEN StoredItems(Locate(r.at, r.count), r.data)
            ELSE Locate(r.at, r.count).items

\* SetWord and GetWord slice the area with bounds computed in 16 bits.
SliceOutOfRange(c) ==
    LET address == request[c].at.Address
    IN c \in Test /\ (address * 2) % U16 > (address * 2 + 2) % U16

\* Mutant: reads and writes do not wait for each other.
MutantLock(c) ==
    /\ pc[c] = "lock"
    /\ LET t == Locate(request[c].at, request[c].count)
       IN \/ /\ t.end # "NORMAL"
             /\ SetAnswer(c, t.end, <<>>)
             /\ Goto(c, "reply")
             /\ UNCHANGED mu
          \/ /\ t.end = "NORMAL"
             /\ SetAnswer(c, "NORMAL", <<>>)
             /\ Goto(c, "copy")
             /\ mu' = IF Writes(request[c]) THEN c ELSE mu
    /\ UNCHANGED <<mem, closed, request, copied>>

Lock(c) ==
    /\ pc[c] = "lock"
    /\ mu = NoClient
    /\ LET t == Locate(request[c].at, request[c].count)
       IN \/ /\ t.end # "NORMAL"
             /\ SetAnswer(c, t.end, <<>>)
             /\ Goto(c, "reply")
             /\ UNCHANGED mu
          \/ /\ t.end = "NORMAL"
             /\ mu' = c
             /\ IF SliceOutOfRange(c) THEN Goto(c, "panicked") /\ UNCHANGED answer
                ELSE Goto(c, "copy") /\ SetAnswer(c, "NORMAL", <<>>)
    /\ UNCHANGED <<mem, closed, request, copied>>

\* One byte or bit is copied, into the memory or into the answer.
Copy(c) ==
    /\ pc[c] = "copy"
    /\ copied[c] < Items(request[c])
    /\ copied' = [copied EXCEPT ![c] = @ + 1]
    /\ LET r == request[c]
           t == Locate(r.at, r.count)
           i == copied[c] + 1
       IN IF Writes(r) THEN mem' = Store(mem, t, i, r.data[i]) /\ UNCHANGED answer
          ELSE answer' = [answer EXCEPT ![c].data = Append(@, Load(mem, t, i))] /\ UNCHANGED mem
    /\ UNCHANGED <<mu, closed, pc, request>>

Unlock(c) ==
    /\ pc[c] = "copy"
    /\ copied[c] = Items(request[c])
    /\ mu' = NoClient
    /\ Goto(c, "reply")
    /\ UNCHANGED <<mem, closed, request, copied, answer>>

-----------------------------------------------------------------------------
Work(c) == handleRequest(c) \/ SetWordOrGetWord(c) \/ Reply(c) \/ Copy(c) \/ Unlock(c)

Next ==
    \/ Close
    \/ \E c \in Client :
        \/ Accept(c) \/ HangUp(c) \/ Lock(c) \/ Work(c)
        \/ \E r \in Request \cup WordRequest : Arrive(c, r)

\* Goroutines run, and a Go mutex starves none.
Spec == Init /\ [][Next]_vars
             /\ \A c \in Client : WF_vars(Work(c)) /\ SF_vars(Lock(c))

-----------------------------------------------------------------------------
(* Properties.                                                             *)

\* The memory with the write under way completed, and the answer with the
\* read under way completed.
WholeMem ==
    IF mu # NoClient /\ pc[mu] = "copy" /\ Writes(request[mu])
    THEN StoreFrom(mem, Locate(request[mu].at, request[mu].count), request[mu].data, copied[mu])
    ELSE mem
WholeAnswer(c) ==
    IF pc[c] = "copy" /\ ~Writes(request[c])
    THEN [answer[c] EXCEPT !.data =
             @ \o SubSeq(readMemory(mem, request[c].at, request[c].count).data,
                         copied[c] + 1, Items(request[c]))]
    ELSE answer[c]
Status(c) ==
    CASE pc[c] \in {"closed", "idle"} -> "idle"
      [] pc[c] \in {"handle", "lock", "panicked"} -> "pending"
      [] pc[c] \in {"copy", "reply"} -> "done"

\* The memory after a request, and the answer to it.
\* SetWord and GetWord pass over an address that is out of range.
Effect(m, r) == IF r.cmd \in {"write", "set"} THEN writeMemory(m, r.at, r.count, r.data).mem ELSE m
AnswerTo(m, r) ==
    CASE r.cmd = "read" -> readMemory(m, r.at, r.count)
      [] r.cmd = "write" -> [end |-> writeMemory(m, r.at, r.count, r.data).end, data |-> <<>>]
      [] r.cmd = "set" -> [end |-> "NORMAL", data |-> <<>>]
      [] r.cmd = "get" ->
            [end |-> "NORMAL", data |-> IF readMemory(m, r.at, 1).end = "NORMAL"
                                        THEN readMemory(m, r.at, 1).data ELSE <<0, 0>>]
      [] r.cmd = "status" -> [end |-> "NORMAL", data |-> <<0, 0>>]
      [] r.cmd = "short" -> [end |-> "CMD_TOO_SHORT", data |-> <<>>]
      [] OTHER -> [end |-> "UNDEFINED_CMD", data |-> <<>>]

\* Requests of several connections and tests, copied item by item under the
\* mutex, behave as if each took effect at once, and each is answered.
Atomic == INSTANCE AtomicPlc
              WITH mem <- WholeMem, NewMemory <- NewMockPLC, Request <- Request \cup WordRequest,
                   status <- [c \in Client |-> Status(c)],
                   answer <- [c \in Client |-> WholeAnswer(c)]
ImplementsAtomicPlc == Atomic!Spec
=============================================================================

------------------------------ MODULE CmdServer ------------------------------
(***************************************************************************)
(* cmd/tcp/server: one goroutine per connection over one memory.  Writes   *)
(* copy their bytes under the mutex.  A read takes no lock: readMemory     *)
(* returns a slice of the area itself, whose bytes are copied only when    *)
(* the answer is encoded, so that writes of other connections may fall     *)
(* between them.                                                           *)
(***************************************************************************)
EXTENDS CmdMemory

CONSTANTS Conn,      \* connections
          Request    \* the requests that connections carry

ASSUME ConnAssumption == "none" \notin Conn
ASSUME RequestAssumption == \A r \in Request :
    /\ r.cmd \in {"read", "write", "short", "unknown"}
    /\ r.cmd \in {"read", "write"} =>
           r.at.Address \in Nat /\ r.count \in Nat /\ r.data \in Seq(Nat)

VARIABLES mem,     \* the bytes of every area
          mu,      \* the holder of the mutex
          stopped,
          pc,
          request,
          copied,  \* the bytes copied so far
          answer,
          held,    \* per connection, what each byte has held since its request came
          last     \* the last write that gave the mutex back

cmdVars == <<mem, mu, stopped, pc, request, copied, answer, held, last>>

NoConn == "none"
None == [end |-> "none", data |-> <<>>]

CmdInit ==
    /\ mem = NewMockPLC
    /\ mu = NoConn
    /\ stopped = FALSE
    /\ pc = [c \in Conn |-> "closed"]
    /\ request = [c \in Conn |-> None]
    /\ copied = [c \in Conn |-> 0]
    /\ answer = [c \in Conn |-> None]
    /\ held = [c \in Conn |-> <<>>]
    /\ last = None

Move(c, label) == pc' = [pc EXCEPT ![c] = label]
SetAnswer(c, end, d) == answer' = [answer EXCEPT ![c] = [end |-> end, data |-> d]]
Place(r) == CmdLocate(r.at, r.count)

-----------------------------------------------------------------------------
(* Connections.  Close stops the accept loop and ends no connection.       *)

Accept(c) ==
    /\ pc[c] = "closed"
    /\ ~stopped
    /\ Move(c, "idle")
    /\ UNCHANGED <<mem, mu, stopped, request, copied, answer, held, last>>

Close ==
    /\ ~stopped
    /\ stopped' = TRUE
    /\ UNCHANGED <<mem, mu, pc, request, copied, answer, held, last>>

\* A request has come in whole.
Arrive(c, r) ==
    /\ pc[c] = "idle"
    /\ request' = [request EXCEPT ![c] = r]
    /\ held' = [held EXCEPT ![c] =
                    IF r.cmd # "read" THEN <<>>
                    ELSE [i \in 1 .. Place(r).items |-> {Load(mem, Place(r), i)}]]
    /\ Move(c, "handle")
    /\ UNCHANGED <<mem, mu, stopped, copied, answer, last>>

\* The end code of a write, before anything is locked.
WriteEnd(r) == IF CmdArea(r.at.Area) = "A" THEN "2101" ELSE Place(r).end

handleRequest(c) ==
    /\ pc[c] = "handle"
    /\ LET r == request[c]
       IN \/ r.cmd = "short" /\ SetAnswer(c, "1002", <<>>) /\ Move(c, "reply")
          \/ r.cmd = "unknown" /\ SetAnswer(c, "0401", <<>>) /\ Move(c, "reply")
          \/ r.cmd = "read" /\ SetAnswer(c, Place(r).end, <<>>) /\ Move(c, "encode")
          \/ /\ r.cmd = "write"
             /\ SetAnswer(c, WriteEnd(r), <<>>)
             /\ Move(c, IF WriteEnd(r) = "NORMAL" THEN "lock" ELSE "reply")
    /\ UNCHANGED <<mem, mu, stopped, request, copied, held, last>>

\* The answer is written, or the peer is gone and handleConnection returns;
\* either way the request is done with.
Reply(c) ==
    /\ pc[c] = "reply"
    /\ Move(c, "idle") \/ Move(c, "closed")
    /\ request' = [request EXCEPT ![c] = None]
    /\ copied' = [copied EXCEPT ![c] = 0]
    /\ answer' = [answer EXCEPT ![c] = None]
    /\ held' = [held EXCEPT ![c] = <<>>]
    /\ UNCHANGED <<mem, mu, stopped, last>>

HangUp(c) ==
    /\ pc[c] = "idle"
    /\ Move(c, "closed")
    /\ UNCHANGED <<mem, mu, stopped, request, copied, answer, held, last>>

-----------------------------------------------------------------------------
(* writeMemory.                                                            *)

\* Mutant: writes do not wait for each other.
MutantLock(c) ==
    /\ pc[c] = "lock"
    /\ mu' = c
    /\ Move(c, "copy")
    /\ UNCHANGED <<mem, stopped, request, copied, answer, held, last>>

Lock(c) ==
    /\ pc[c] = "lock"
    /\ mu = NoConn
    /\ mu' = c
    /\ Move(c, "copy")
    /\ UNCHANGED <<mem, stopped, request, copied, answer, held, last>>

\* What every read under way sees change.
Held(m) ==
    [c \in Conn |-> [i \in DOMAIN held[c] |-> held[c][i] \cup {Load(m, Place(request[c]), i)}]]

Copy(c) ==
    /\ pc[c] = "copy"
    /\ copied[c] < StoredItems(Place(request[c]), request[c].data)
    /\ copied' = [copied EXCEPT ![c] = @ + 1]
    /\ LET i == copied[c] + 1
       IN mem' = Store(mem, Place(request[c]), i, request[c].data[i])
    /\ held' = Held(mem')
    /\ UNCHANGED <<mu, stopped, pc, request, answer, last>>

\* Mutant: the mutex is kept.
MutantUnlock(c) ==
    /\ pc[c] = "copy"
    /\ copied[c] = StoredItems(Place(request[c]), request[c].data)
    /\ last' = request[c]
    /\ Move(c, "reply")
    /\ UNCHANGED <<mem, mu, stopped, request, copied, answer, held>>

Unlock(c) ==
    /\ pc[c] = "copy"
    /\ copied[c] = StoredItems(Place(request[c]), request[c].data)
    /\ mu' = NoConn
    /\ last' = request[c]
    /\ Move(c, "reply")
    /\ UNCHANGED <<mem, stopped, request, copied, answer, held>>

-----------------------------------------------------------------------------
(* encodeFINSFrame copies the slice that readMemory returned.              *)

\* Mutant: the slice is copied from its end.
MutantEncode(c) ==
    /\ pc[c] = "encode"
    /\ copied[c] < Place(request[c]).items
    /\ copied' = [copied EXCEPT ![c] = @ + 1]
    /\ answer' = [answer EXCEPT ![c].data =
                     Append(@, Load(mem, Place(request[c]), Place(request[c]).items - copied[c]))]
    /\ UNCHANGED <<mem, mu, stopped, pc, request, held, last>>

Encode(c) ==
    /\ pc[c] = "encode"
    /\ copied[c] < Place(request[c]).items
    /\ copied' = [copied EXCEPT ![c] = @ + 1]
    /\ answer' = [answer EXCEPT ![c].data = Append(@, Load(mem, Place(request[c]), copied[c] + 1))]
    /\ UNCHANGED <<mem, mu, stopped, pc, request, held, last>>

Encoded(c) ==
    /\ pc[c] = "encode"
    /\ copied[c] = Place(request[c]).items
    /\ Move(c, "reply")
    /\ UNCHANGED <<mem, mu, stopped, request, copied, answer, held, last>>

-----------------------------------------------------------------------------
Work(c) == \/ handleRequest(c) \/ Reply(c) \/ Copy(c) \/ Unlock(c) \/ Encode(c) \/ Encoded(c)

CmdNext ==
    \/ Close
    \/ \E c \in Conn : Accept(c) \/ HangUp(c) \/ Lock(c) \/ Work(c) \/ \E r \in Request : Arrive(c, r)

\* Goroutines run, and a Go mutex starves none.
CmdSpec == CmdInit /\ [][CmdNext]_cmdVars
             /\ \A c \in Conn : WF_cmdVars(Work(c)) /\ SF_cmdVars(Lock(c))

-----------------------------------------------------------------------------
(* Properties.                                                             *)

\* Overlapping writes of several connections do not mix: when nobody holds
\* the mutex, the whole of the last write is in the memory.
LastWriteWhole ==
    mu = NoConn /\ last # None =>
        \A i \in 1 .. StoredItems(Place(last), last.data) : Load(mem, Place(last), i) = last.data[i]

\* Every byte of an answer is one its place held between the request's
\* arrival and now; together they may be of no single moment.
ReadsHeld ==
    \A c \in Conn : \A i \in DOMAIN answer[c].data : answer[c].data[i] \in held[c][i]

\* Every request that came in is answered, or its connection is gone.
RequestsEnd == \A c \in Conn : pc[c] = "handle" ~> pc[c] \in {"idle", "closed"}
=============================================================================

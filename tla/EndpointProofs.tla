---------------------------- MODULE EndpointProofs ---------------------------
(***************************************************************************)
(* Proofs about the programs at the two ends of a connection: the TCP      *)
(* demonstration server, the driver over the transport and the scheduler,  *)
(* and the UDP client.                                                     *)
(*                                                                         *)
(* Of the server, for any connections, requests and sizes of the areas:    *)
(* writes do not mix, and every byte of an answer is one that its place    *)
(* held while the request was being served.                                *)
(***************************************************************************)
EXTENDS CmdServer, Driver, UdpClient, TLAPS

-----------------------------------------------------------------------------
(* The memory, and one item of a transfer.                                 *)

MemOK(m) ==
    /\ DOMAIN m = Areas
    /\ \A a \in Areas : m[a] \in [0 .. 2 * Words[a] - 1 -> Nat]

\* A transfer of words that lies inside its area.
Inside(t) ==
    /\ t.isBit = FALSE /\ t.first \in Nat /\ t.items \in Nat
    /\ t.items > 0 => t.area \in Areas /\ t.first + t.items <= 2 * Words[t.area]

\* What an item is, for a transfer of words.
LEMMA LoadWord ==
  ASSUME NEW m, NEW t, Inside(t), NEW i
  PROVE  Load(m, t, i) = m[t.area][t.first + i - 1]
BY Zenon DEF Load, Inside

\* The items of a transfer are bytes of its area.
LEMMA InRange ==
  ASSUME NEW m, MemOK(m), NEW t, Inside(t), NEW i \in 1 .. t.items
  PROVE  /\ t.area \in Areas /\ t.area \in DOMAIN m
         /\ t.first + i - 1 \in DOMAIN m[t.area]
         /\ m[t.area] \in [0 .. 2 * Words[t.area] - 1 -> Nat]
         /\ Load(m, t, i) \in Nat
<1>1. t.area \in Areas /\ t.first \in Nat /\ t.items \in Nat
      /\ t.first + t.items <= 2 * Words[t.area]
  BY DEF Inside
<1>2. Words[t.area] \in Nat
  BY <1>1, WordsAssumption, Zenon
<1>3. t.first + i - 1 \in 0 .. 2 * Words[t.area] - 1
  BY <1>1, <1>2
<1>4. m[t.area] \in [0 .. 2 * Words[t.area] - 1 -> Nat] /\ DOMAIN m = Areas
  BY <1>1, Zenon DEF MemOK
<1>5. Load(m, t, i) = m[t.area][t.first + i - 1]
  BY LoadWord, Zenon
<1>6. m[t.area][t.first + i - 1] \in Nat /\ t.first + i - 1 \in DOMAIN m[t.area]
  BY <1>3, <1>4, Zenon
<1> QED
  BY <1>1, <1>4, <1>5, <1>6, Zenon

\* An item that is stored is there, and the other items are as they were.
LEMMA StoreLoad ==
  ASSUME NEW m, MemOK(m), NEW t, Inside(t), NEW i \in 1 .. t.items, NEW v \in Nat
  PROVE  /\ MemOK(Store(m, t, i, v))
         /\ Load(Store(m, t, i, v), t, i) = v
         /\ \A j \in 1 .. t.items : j # i => Load(Store(m, t, i, v), t, j) = Load(m, t, j)
<1> DEFINE a == t.area
           p == t.first + i - 1
           n == Store(m, t, i, v)
<1>1. a \in Areas /\ p \in DOMAIN m[a] /\ m[a] \in [0 .. 2 * Words[a] - 1 -> Nat]
  BY InRange, Zenon
<1>2. n = [m EXCEPT ![a] = [m[a] EXCEPT ![p] = v]]
  BY Zenon DEF Store, Inside
<1>3. DOMAIN m = Areas
  BY Zenon DEF MemOK
<1>4. DOMAIN n = Areas /\ n[a] = [m[a] EXCEPT ![p] = v] /\ \A b \in Areas : b # a => n[b] = m[b]
  BY <1>1, <1>2, <1>3, Zenon
<1>5. t.first \in Nat /\ t.items \in Nat
  BY Zenon DEF Inside
<1>6. \A j \in 1 .. t.items : j # i => t.first + j - 1 # p
  BY <1>5
<1>7. \A j : Load(n, t, j) = n[a][t.first + j - 1] /\ Load(m, t, j) = m[a][t.first + j - 1]
  BY LoadWord, Zenon
<1>8. \A j \in 1 .. t.items : t.first + j - 1 \in DOMAIN m[a]
  BY InRange, Zenon
<1> HIDE DEF n, a
<1>9. n[a][p] = v /\ \A q \in DOMAIN m[a] : q # p => n[a][q] = m[a][q]
  BY <1>1, <1>4, Zenon
<1>10. MemOK(n)
  <2>1. n[a] \in [0 .. 2 * Words[a] - 1 -> Nat]
    BY <1>1, <1>4, Zenon
  <2> QED
    BY <1>4, <2>1, Zenon DEF MemOK
<1> QED
  BY <1>6, <1>7, <1>8, <1>9, <1>10, Zenon DEF n, a

\* Words as bytes.
LEMMA Doubles ==
  \A x, y, w \in Nat : /\ x * 2 \in Nat /\ y * 2 \in Nat
                       /\ ~(x * 2 + y * 2 > w * 2) => x * 2 + y * 2 <= 2 * w
OBVIOUS

\* CmdLocate yields a transfer inside its area, or none.
LEMMA PlaceInside ==
  ASSUME NEW r \in Request, r.cmd \in {"read", "write"}
  PROVE  Inside(Place(r)) /\ r.data \in Seq(Nat)
<1>1. r.at.Address \in Nat /\ r.count \in Nat /\ r.data \in Seq(Nat)
  BY RequestAssumption, Zenon
<1> DEFINE area == CmdArea(r.at.Area)
<1>2. area \in Areas \cup {"none"}
  BY DEF CmdArea, Areas
<1> HIDE DEF area
<1>3. CASE area = "none"
  <2>1. Place(r) = Refused("1101")
    BY <1>3, Zenon DEF Place, CmdLocate, area
  <2> QED
    BY <1>1, <2>1 DEF Refused, Inside
<1>4. CASE area # "none" /\ r.at.Address * 2 + r.count * 2 > Words[area] * 2
  <2>1. Place(r) = Refused("1104")
    BY <1>4, Zenon DEF Place, CmdLocate, area
  <2> QED
    BY <1>1, <2>1 DEF Refused, Inside
<1>5. CASE area # "none" /\ ~(r.at.Address * 2 + r.count * 2 > Words[area] * 2)
  <2>1. Place(r) = [end |-> "NORMAL", area |-> area, isBit |-> FALSE,
                    first |-> r.at.Address * 2, items |-> r.count * 2]
    BY <1>5, Zenon DEF Place, CmdLocate, area
  <2>2. area \in Areas /\ Words[area] \in Nat
    BY <1>2, <1>5, WordsAssumption, Zenon
  <2>3. /\ r.at.Address * 2 \in Nat /\ r.count * 2 \in Nat
        /\ r.at.Address * 2 + r.count * 2 <= 2 * Words[area]
    BY <1>1, <1>5, <2>2, Doubles, Zenon
  <2> QED
    BY <1>1, <2>1, <2>2, <2>3 DEF Inside
<1> QED
  BY <1>3, <1>4, <1>5, Zenon

-----------------------------------------------------------------------------
(* Where a connection is, and what it carries there.                       *)

ConnLabels == {"closed", "idle", "handle", "lock", "copy", "encode", "reply"}
Ends == {"none", "NORMAL", "1002", "0401", "1101", "1104", "2101"}
Answers == [end : Ends, data : Seq(Nat)]

\* At label l a connection has request r, has copied n items, and has data d
\* in its answer.
Fits(l, r, n, d) ==
    /\ l \in {"handle", "lock", "copy", "encode"} => r \in Request
    /\ l \in {"lock", "copy"} => r.cmd = "write"
    /\ l = "encode" => r.cmd = "read" /\ n <= Place(r).items /\ Len(d) = n
    /\ l = "copy" => n <= StoredItems(Place(r), r.data)
    /\ l \in {"closed", "idle", "handle", "lock"} => n = 0
    /\ l \in {"closed", "idle", "handle", "lock", "copy"} => d = <<>>

Base ==
    /\ MemOK(mem)
    /\ pc \in [Conn -> ConnLabels]
    /\ copied \in [Conn -> Nat]
    /\ answer \in [Conn -> Answers]
    /\ DOMAIN request = Conn /\ DOMAIN held = Conn
    /\ \A c \in Conn : Fits(pc[c], request[c], copied[c], answer[c].data)

\* Every end code is one of the list.
LEMMA EndsOK ==
  ASSUME NEW r
  PROVE  Place(r).end \in Ends /\ WriteEnd(r) \in Ends
<1>1. Place(r).end \in {"NORMAL", "1101", "1104"}
  <2> DEFINE area == CmdArea(r.at.Area)
             far == r.at.Address * 2 + r.count * 2 > Words[area] * 2
  <2>1. CASE area = "none"
    BY <2>1, Zenon DEF Place, CmdLocate, Refused
  <2>2. CASE area # "none" /\ far
    BY <2>2, Zenon DEF Place, CmdLocate, Refused
  <2>3. CASE area # "none" /\ ~far
    BY <2>3, Zenon DEF Place, CmdLocate
  <2> QED
    BY <2>1, <2>2, <2>3, Zenon
<1> QED
  BY <1>1, Zenon DEF WriteEnd, Ends

\* The items of a write are items of its transfer, and its data are there.
LEMMA StoredBound ==
  ASSUME NEW r \in Request, r.cmd = "write", NEW i \in Nat,
         1 <= i, i <= StoredItems(Place(r), r.data)
  PROVE  i \in 1 .. Place(r).items /\ r.data[i] \in Nat
<1>1. Inside(Place(r)) /\ r.data \in Seq(Nat)
  BY PlaceInside, Zenon
<1>2. Place(r).items \in Nat /\ Len(r.data) \in Nat
  BY <1>1 DEF Inside
<1>3. i <= Place(r).items /\ i <= Len(r.data)
  BY <1>2 DEF StoredItems
<1> QED
  BY <1>1, <1>2, <1>3

\* The number of items a write stores is a number.
LEMMA StoredNat ==
  ASSUME NEW r \in Request, r.cmd = "write"
  PROVE  StoredItems(Place(r), r.data) \in Nat
<1>1. Inside(Place(r)) /\ r.data \in Seq(Nat)
  BY PlaceInside, Zenon
<1> QED
  BY <1>1 DEF StoredItems, Inside

\* A step of one connection.
LEMMA OneMoves ==
  ASSUME Base, NEW c \in Conn, MemOK(mem)', DOMAIN request' = Conn, DOMAIN held' = Conn,
         pc' \in [Conn -> ConnLabels], copied' \in [Conn -> Nat], answer' \in [Conn -> Answers],
         \A d \in Conn : d # c => /\ pc'[d] = pc[d] /\ request'[d] = request[d]
                                 /\ copied'[d] = copied[d] /\ answer'[d] = answer[d],
         Fits(pc'[c], request'[c], copied'[c], answer'[c].data)
  PROVE  Base'
<1>1. ASSUME NEW d \in Conn
      PROVE  Fits(pc'[d], request'[d], copied'[d], answer'[d].data)
  <2>1. CASE d = c
    BY <2>1, Zenon
  <2>2. CASE d # c
    <3>1. Fits(pc[d], request[d], copied[d], answer[d].data)
      BY Zenon DEF Base
    <3> QED
      BY <2>2, <3>1, Zenon
  <2> QED
    BY <2>1, <2>2, Zenon
<1>2. \A d \in Conn : Fits(pc'[d], request'[d], copied'[d], answer'[d].data)
  BY <1>1, Zenon
<1> QED
  BY <1>2, Zenon DEF Base, Fits

\* No connection is open and the memory is zero.
LEMMA BaseInit == CmdInit => Base
<1> SUFFICES ASSUME CmdInit PROVE Base
  BY Zenon
<1>1. MemOK(mem)
  BY WordsAssumption, Zenon DEF CmdInit, NewMockPLC, MemOK
<1>2. None.data = <<>> /\ None \in Answers
  BY DEF None, Answers, Ends
<1>3. \A c \in Conn : Fits(pc[c], request[c], copied[c], answer[c].data)
  BY <1>2, Zenon DEF CmdInit, Fits
<1> QED
  BY <1>1, <1>2, <1>3, Zenon DEF CmdInit, Base, ConnLabels

\* Connections come and go, and requests arrive.
LEMMA ArrivalsBase ==
  ASSUME Base, NEW c \in Conn,
         Accept(c) \/ HangUp(c) \/ (\E r \in Request : Arrive(c, r)) \/ Lock(c)
  PROVE  Base'
<1>1. Fits(pc[c], request[c], copied[c], answer[c].data)
  BY Zenon DEF Base
<1>2. UNCHANGED <<mem, copied, answer>>
  BY Zenon DEF Accept, HangUp, Arrive, Lock
<1>3. DOMAIN request' = Conn /\ DOMAIN held' = Conn
  BY Zenon DEF Accept, HangUp, Arrive, Lock, Base
<1>4. \A d \in Conn : d # c => pc'[d] = pc[d] /\ request'[d] = request[d]
  BY Zenon DEF Accept, HangUp, Arrive, Lock, Move, Base
<1>5. /\ pc' \in [Conn -> ConnLabels]
      /\ \/ pc'[c] \in {"idle", "closed"} /\ pc[c] \in {"idle", "closed"}
         \/ pc'[c] = "handle" /\ pc[c] = "idle" /\ request'[c] \in Request
         \/ pc'[c] = "copy" /\ pc[c] = "lock" /\ UNCHANGED request
  <2>1. pc \in [Conn -> ConnLabels] /\ DOMAIN request = Conn
    BY Zenon DEF Base
  <2>2. CASE Accept(c) \/ HangUp(c)
    BY <2>1, <2>2, Zenon DEF Accept, HangUp, Move, ConnLabels
  <2>3. CASE Lock(c)
    BY <2>1, <2>3, Zenon DEF Lock, Move, ConnLabels
  <2>4. ASSUME NEW r \in Request, Arrive(c, r)
        PROVE  pc' \in [Conn -> ConnLabels] /\ pc'[c] = "handle" /\ pc[c] = "idle" /\ request'[c] = r
    BY <2>1, <2>4, Zenon DEF Arrive, Move, ConnLabels
  <2> QED
    BY <2>2, <2>3, <2>4, Zenon
<1>6. Fits(pc'[c], request'[c], copied[c], answer[c].data)
  <2>1. CASE pc'[c] \in {"idle", "closed"} /\ pc[c] \in {"idle", "closed"}
    BY <1>1, <2>1, Zenon DEF Fits
  <2>2. CASE pc'[c] = "handle" /\ pc[c] = "idle" /\ request'[c] \in Request
    BY <1>1, <2>2, Zenon DEF Fits
  <2>3. CASE pc'[c] = "copy" /\ pc[c] = "lock" /\ UNCHANGED request
    <3>1. request[c] \in Request /\ request[c].cmd = "write" /\ copied[c] = 0
          /\ answer[c].data = <<>>
      BY <1>1, <2>3, Zenon DEF Fits
    <3>2. 0 <= StoredItems(Place(request[c]), request[c].data)
      BY <3>1, StoredNat
    <3> QED
      BY <2>3, <3>1, <3>2, Zenon DEF Fits
  <2> QED
    BY <1>5, <2>1, <2>2, <2>3, Zenon
<1>7. MemOK(mem)' /\ copied' \in [Conn -> Nat] /\ answer' \in [Conn -> Answers]
  BY <1>2, Zenon DEF Base, MemOK
<1> QED
  BY <1>2, <1>3, <1>4, <1>5, <1>6, <1>7, OneMoves, Zenon

\* handleRequest starts an answer without data.
LEMMA HandleBase ==
  ASSUME Base, NEW c \in Conn, handleRequest(c)
  PROVE  Base'
<1> DEFINE r == request[c]
<1>1. /\ pc \in [Conn -> ConnLabels] /\ answer \in [Conn -> Answers] /\ copied \in [Conn -> Nat]
      /\ DOMAIN request = Conn /\ DOMAIN held = Conn
  BY Zenon DEF Base
<1>2. r \in Request /\ copied[c] = 0
  BY Zenon DEF handleRequest, Base, Fits
<1>3. PICK l \in {"reply", "encode", "lock"}, e \in Ends :
         /\ pc' = [pc EXCEPT ![c] = l]
         /\ answer' = [answer EXCEPT ![c] = [end |-> e, data |-> <<>>]]
         /\ l = "encode" => r.cmd = "read"
         /\ l = "lock" => r.cmd = "write"
  <2>1. CASE r.cmd \in {"short", "unknown"}
    BY <2>1, Zenon DEF handleRequest, SetAnswer, Move, Ends
  <2>2. CASE r.cmd = "read"
    BY <2>2, EndsOK, Zenon DEF handleRequest, SetAnswer, Move
  <2>3. CASE r.cmd = "write"
    <3>1. CASE WriteEnd(r) = "NORMAL"
      BY <2>3, <3>1, EndsOK, Zenon DEF handleRequest, SetAnswer, Move
    <3>2. CASE WriteEnd(r) # "NORMAL"
      BY <2>3, <3>2, EndsOK, Zenon DEF handleRequest, SetAnswer, Move
    <3> QED
      BY <3>1, <3>2, Zenon
  <2> QED
    BY <2>1, <2>2, <2>3, Zenon DEF handleRequest
<1>4. UNCHANGED <<mem, request, copied, held>>
  BY Zenon DEF handleRequest
<1>5. [end |-> e, data |-> <<>>] \in Answers
  BY <1>3 DEF Answers
<1>6. /\ pc' \in [Conn -> ConnLabels] /\ pc'[c] = l
      /\ answer' \in [Conn -> Answers] /\ answer'[c].data = <<>>
  BY <1>1, <1>3, <1>5, Zenon DEF ConnLabels
<1>7. \A d \in Conn : d # c => pc'[d] = pc[d] /\ answer'[d] = answer[d]
  BY <1>1, <1>3, Zenon
<1>8. Fits(l, r, 0, <<>>)
  <2>1. l = "encode" => Place(r).items \in Nat
    BY <1>2, <1>3, PlaceInside, Zenon DEF Inside
  <2> QED
    BY <1>2, <1>3, <2>1 DEF Fits
<1>9. MemOK(mem)'
  BY <1>4, Zenon DEF Base, MemOK
<1> QED
  BY <1>1, <1>2, <1>4, <1>6, <1>7, <1>8, <1>9, OneMoves, Zenon

\* Reply forgets the request; Unlock and Encoded lead to it.
LEMMA RepliesBase ==
  ASSUME Base, NEW c \in Conn, Reply(c) \/ Unlock(c) \/ Encoded(c)
  PROVE  Base'
<1>1. /\ pc \in [Conn -> ConnLabels] /\ answer \in [Conn -> Answers] /\ copied \in [Conn -> Nat]
      /\ DOMAIN request = Conn /\ DOMAIN held = Conn
  BY Zenon DEF Base
<1>2. MemOK(mem)'
  BY Zenon DEF Reply, Unlock, Encoded, Base, MemOK
<1>3. CASE Reply(c)
  <2>1. None \in Answers /\ None.data = <<>>
    BY DEF None, Answers, Ends
  <2>2. /\ pc' \in [Conn -> ConnLabels] /\ pc'[c] \in {"idle", "closed"}
        /\ \A d \in Conn : d # c => pc'[d] = pc[d]
    BY <1>1, <1>3, Zenon DEF Reply, Move, ConnLabels
  <2>3. /\ answer' \in [Conn -> Answers] /\ copied' \in [Conn -> Nat]
        /\ DOMAIN request' = Conn /\ DOMAIN held' = Conn
        /\ copied'[c] = 0 /\ answer'[c] = None
        /\ \A d \in Conn : d # c => /\ request'[d] = request[d] /\ copied'[d] = copied[d]
                                   /\ answer'[d] = answer[d]
    BY <1>1, <1>3, <2>1, Zenon DEF Reply
  <2>4. Fits(pc'[c], request'[c], 0, <<>>)
    BY <2>2, Zenon DEF Fits
  <2> QED
    BY <1>2, <2>1, <2>2, <2>3, <2>4, OneMoves, Zenon
<1>4. CASE Unlock(c) \/ Encoded(c)
  <2>1. UNCHANGED <<request, copied, answer, held>> /\ pc' = [pc EXCEPT ![c] = "reply"]
    BY <1>4, Zenon DEF Unlock, Encoded, Move
  <2>2. pc' \in [Conn -> ConnLabels] /\ pc'[c] = "reply" /\ \A d \in Conn : d # c => pc'[d] = pc[d]
    BY <1>1, <2>1, Zenon DEF ConnLabels
  <2>3. Fits("reply", request[c], copied[c], answer[c].data)
    BY Zenon DEF Fits
  <2> QED
    BY <1>1, <1>2, <2>1, <2>2, <2>3, OneMoves, Zenon
<1> QED
  BY <1>3, <1>4, Zenon

\* The item a write copies next.
LEMMA NextItem ==
  ASSUME Base, NEW c \in Conn, Copy(c)
  PROVE  /\ request[c] \in Request /\ request[c].cmd = "write" /\ Inside(Place(request[c]))
         /\ copied[c] \in Nat /\ answer[c].data = <<>>
         /\ copied[c] + 1 \in 1 .. Place(request[c]).items
         /\ copied[c] + 1 <= StoredItems(Place(request[c]), request[c].data)
         /\ request[c].data[copied[c] + 1] \in Nat
         /\ mem' = Store(mem, Place(request[c]), copied[c] + 1, request[c].data[copied[c] + 1])
<1>1. /\ request[c] \in Request /\ request[c].cmd = "write" /\ answer[c].data = <<>>
      /\ copied[c] \in Nat
  BY Zenon DEF Copy, Base, Fits
<1>2. copied[c] + 1 <= StoredItems(Place(request[c]), request[c].data)
  BY <1>1, StoredNat DEF Copy
<1>3. copied[c] + 1 \in 1 .. Place(request[c]).items /\ request[c].data[copied[c] + 1] \in Nat
  BY <1>1, <1>2, StoredBound
<1>4. Inside(Place(request[c]))
  BY <1>1, PlaceInside, Zenon
<1>5. mem' = Store(mem, Place(request[c]), copied[c] + 1, request[c].data[copied[c] + 1])
  BY Zenon DEF Copy
<1> QED
  BY <1>1, <1>2, <1>3, <1>4, <1>5, Zenon

\* Copy stores one item and leaves a well-formed memory.
LEMMA CopyBase ==
  ASSUME Base, NEW c \in Conn, Copy(c)
  PROVE  Base'
<1>1. MemOK(mem')
  BY NextItem, StoreLoad DEF Base
<1>2. /\ copied \in [Conn -> Nat] /\ answer \in [Conn -> Answers] /\ pc \in [Conn -> ConnLabels]
      /\ DOMAIN request = Conn
  BY Zenon DEF Base
<1>3. /\ copied' = [copied EXCEPT ![c] = copied[c] + 1] /\ UNCHANGED <<pc, request, answer>>
      /\ held' = Held(mem') /\ pc[c] = "copy"
  BY Zenon DEF Copy
<1>4. DOMAIN held' = Conn
  BY <1>3, Zenon DEF Held
<1>5. /\ copied' \in [Conn -> Nat] /\ copied'[c] = copied[c] + 1
      /\ \A d \in Conn : d # c => copied'[d] = copied[d]
  BY <1>2, <1>3
<1>6. Fits("copy", request[c], copied[c] + 1, answer[c].data)
  BY NextItem, Zenon DEF Fits
<1>7. MemOK(mem)'
  BY <1>1, Zenon DEF MemOK
<1> QED
  BY <1>2, <1>3, <1>4, <1>5, <1>6, <1>7, OneMoves, ZenonT(30)

\* Encode appends a byte of the area to the answer.
LEMMA NextByte ==
  ASSUME Base, NEW c \in Conn, Encode(c)
  PROVE  /\ Load(mem, Place(request[c]), copied[c] + 1) \in Nat
         /\ copied[c] + 1 \in 1 .. Place(request[c]).items
         /\ answer'[c].data = Append(answer[c].data, Load(mem, Place(request[c]), copied[c] + 1))
         /\ Len(answer[c].data) = copied[c] /\ answer[c].data \in Seq(Nat)
         /\ answer' \in [Conn -> Answers]
         /\ \A d \in Conn : d # c => answer'[d] = answer[d]
<1> DEFINE v == Load(mem, Place(request[c]), copied[c] + 1)
<1>1. /\ request[c] \in Request /\ request[c].cmd = "read" /\ Len(answer[c].data) = copied[c]
      /\ copied[c] \in Nat /\ answer \in [Conn -> Answers] /\ MemOK(mem)
  BY Zenon DEF Encode, Base, Fits
<1>2. Inside(Place(request[c]))
  BY <1>1, PlaceInside, Zenon
<1>3. copied[c] + 1 \in 1 .. Place(request[c]).items
  BY <1>1, <1>2 DEF Encode, Inside
<1>4. v \in Nat
  BY <1>1, <1>2, <1>3, InRange, Zenon
<1>5. answer' = [answer EXCEPT ![c] = [answer[c] EXCEPT !.data = Append(answer[c].data, v)]]
  BY Zenon DEF Encode
<1>6. answer[c] \in Answers /\ answer[c].data \in Seq(Nat)
  BY <1>1, Zenon DEF Answers
<1> HIDE DEF v
<1>7. Append(answer[c].data, v) \in Seq(Nat)
  BY <1>4, <1>6
<1> DEFINE a == [answer[c] EXCEPT !.data = Append(answer[c].data, v)]
<1>8. a \in Answers /\ a.data = Append(answer[c].data, v)
  BY <1>6, <1>7, Zenon DEF Answers
<1>9. answer' = [answer EXCEPT ![c] = a]
  BY <1>5, Zenon
<1> HIDE DEF a
<1>10. /\ answer' \in [Conn -> Answers] /\ answer'[c] = a
       /\ \A d \in Conn : d # c => answer'[d] = answer[d]
  BY <1>1, <1>8, <1>9, Zenon
<1> QED
  BY <1>1, <1>3, <1>4, <1>6, <1>8, <1>10, Zenon DEF v

\* Encode copies one byte of the transfer more.
LEMMA EncodeBase ==
  ASSUME Base, NEW c \in Conn, Encode(c)
  PROVE  Base'
<1>1. /\ copied \in [Conn -> Nat] /\ pc \in [Conn -> ConnLabels]
      /\ DOMAIN request = Conn /\ DOMAIN held = Conn
  BY Zenon DEF Base
<1>2. /\ copied' = [copied EXCEPT ![c] = copied[c] + 1] /\ UNCHANGED <<mem, pc, request, held>>
      /\ pc[c] = "encode"
  BY Zenon DEF Encode
<1>3. /\ copied' \in [Conn -> Nat] /\ copied'[c] = copied[c] + 1
      /\ \A d \in Conn : d # c => copied'[d] = copied[d]
  BY <1>1, <1>2
<1>4. Len(answer'[c].data) = copied[c] + 1
  BY NextByte
<1>5. request[c] \in Request /\ request[c].cmd = "read"
  BY <1>2, Zenon DEF Base, Fits
<1>6. copied[c] + 1 <= Place(request[c]).items
  BY NextByte
<1>7. Fits("encode", request[c], copied[c] + 1, answer'[c].data)
  BY <1>4, <1>5, <1>6, Zenon DEF Fits
<1>8. MemOK(mem)'
  BY <1>2, Zenon DEF Base, MemOK
<1> QED
  BY <1>1, <1>2, <1>3, <1>7, <1>8, NextByte, OneMoves, ZenonT(30)

\* Every step of the server keeps Base.
LEMMA BaseNext == Base /\ [CmdNext]_cmdVars => Base'
<1> SUFFICES ASSUME Base, [CmdNext]_cmdVars PROVE Base'
  BY Zenon
<1>1. CASE Close \/ UNCHANGED cmdVars
  <2>1. UNCHANGED <<mem, pc, request, copied, answer, held>>
    BY <1>1, Zenon DEF Close, cmdVars
  <2> QED
    BY <2>1, Zenon DEF Base, MemOK, Fits
<1>2. ASSUME NEW c \in Conn,
             \/ Accept(c) \/ HangUp(c) \/ Lock(c) \/ Work(c) \/ \E r \in Request : Arrive(c, r)
      PROVE  Base'
  BY <1>2, ArrivalsBase, HandleBase, RepliesBase, CopyBase, EncodeBase, Zenon DEF Work
<1> QED
  BY <1>1, <1>2, Zenon DEF CmdNext

\* A connection carries a request, a count and an answer that fit the line of
\* handleConnection it is at, and the memory keeps its shape.
THEOREM BaseInvariance == CmdSpec => []Base
BY BaseInit, BaseNext, PTL DEF CmdSpec

-----------------------------------------------------------------------------
(* Writes.                                                                 *)

\* Whoever copies holds the mutex, and what it has copied is in the memory.
Progress ==
    \A c \in Conn : pc[c] = "copy" =>
        /\ mu = c
        /\ \A i \in 1 .. copied[c] : Load(mem, Place(request[c]), i) = request[c].data[i]

WInv == Progress /\ LastWriteWhole

\* The steps that neither write nor touch the mutex.
LEMMA OtherWrites ==
  ASSUME WInv, UNCHANGED <<mem, mu, last>>,
         \A d \in Conn : pc'[d] = "copy" =>
             pc[d] = "copy" /\ request'[d] = request[d] /\ copied'[d] = copied[d]
  PROVE  WInv'
<1>1. Progress'
  BY DEF WInv, Progress
<1>2. LastWriteWhole'
  BY Zenon DEF WInv, LastWriteWhole
<1> QED
  BY <1>1, <1>2, Zenon DEF WInv

\* The holder of the mutex copies: its earlier items stay, and nobody else is
\* copying.
LEMMA CopyWrites ==
  ASSUME Base, WInv, NEW c \in Conn, Copy(c)
  PROVE  WInv'
<1> DEFINE t == Place(request[c])
           n == copied[c]
           v == request[c].data[n + 1]
<1>1. /\ pc[c] = "copy" /\ UNCHANGED <<pc, mu, request>>
      /\ copied' = [copied EXCEPT ![c] = n + 1]
  BY Zenon DEF Copy
<1>2. mu = c /\ \A i \in 1 .. n : Load(mem, t, i) = request[c].data[i]
  BY <1>1, Zenon DEF WInv, Progress
<1>3. /\ Inside(t) /\ n \in Nat /\ n + 1 \in 1 .. t.items /\ v \in Nat
      /\ mem' = Store(mem, t, n + 1, v)
  BY NextItem, Zenon
<1>4. MemOK(mem) /\ copied \in [Conn -> Nat]
  BY Zenon DEF Base
<1>5. /\ Load(mem', t, n + 1) = v
      /\ \A j \in 1 .. t.items : j # n + 1 => Load(mem', t, j) = Load(mem, t, j)
  BY <1>3, <1>4, StoreLoad
<1>6. t.items \in Nat
  BY <1>3, Zenon DEF Inside
<1>7. copied'[c] = n + 1
  BY <1>1, <1>4, Zenon
<1> HIDE DEF t, n, v
<1>8. ASSUME NEW i \in 1 .. n + 1 PROVE Load(mem', t, i) = request[c].data[i]
  <2>1. CASE i = n + 1
    BY <1>5, <2>1, Zenon DEF v
  <2>2. CASE i # n + 1
    <3>1. i \in 1 .. n /\ i \in 1 .. t.items
      BY <1>3, <1>6, <2>2
    <3> QED
      BY <1>2, <1>5, <2>2, <3>1, Zenon
  <2> QED
    BY <2>1, <2>2, Zenon
<1>9. \A i \in 1 .. copied'[c] : Load(mem', Place(request'[c]), i) = request'[c].data[i]
  BY <1>1, <1>7, <1>8, Zenon DEF t
<1>10. \A d \in Conn : pc'[d] = "copy" => d = c
  BY <1>1, <1>2, Zenon DEF WInv, Progress
<1>11. mu' = c /\ mu' # NoConn
  BY <1>1, <1>2, ConnAssumption, Zenon DEF NoConn
<1>12. Progress'
  BY <1>9, <1>10, <1>11, Zenon DEF Progress
<1>13. LastWriteWhole'
  BY <1>11, Zenon DEF LastWriteWhole
<1> QED
  BY <1>12, <1>13, Zenon DEF WInv

\* Whoever gets the mutex has copied nothing, and nobody else is copying.
LEMMA LockWrites ==
  ASSUME Base, WInv, NEW c \in Conn, Lock(c)
  PROVE  WInv'
<1>1. \A d \in Conn : pc[d] # "copy"
  BY ConnAssumption, Zenon DEF Lock, WInv, Progress, NoConn
<1>2. copied[c] = 0 /\ pc \in [Conn -> ConnLabels]
  BY Zenon DEF Lock, Base, Fits
<1>3. mu' = c /\ pc' = [pc EXCEPT ![c] = "copy"] /\ UNCHANGED copied /\ mu' # NoConn
  BY ConnAssumption, Zenon DEF Lock, Move, NoConn
<1>4. \A d \in Conn : pc'[d] = "copy" => d = c /\ copied'[d] = 0
  BY <1>1, <1>2, <1>3, Zenon
<1>5. Progress'
  BY <1>3, <1>4 DEF Progress
<1>6. LastWriteWhole'
  BY <1>3, Zenon DEF LastWriteWhole
<1> QED
  BY <1>5, <1>6, Zenon DEF WInv

\* When the mutex is given back the whole write is in the memory.
LEMMA UnlockWrites ==
  ASSUME Base, WInv, NEW c \in Conn, Unlock(c)
  PROVE  WInv'
<1>1. /\ pc[c] = "copy" /\ copied[c] = StoredItems(Place(request[c]), request[c].data)
      /\ last' = request[c] /\ UNCHANGED mem /\ pc' = [pc EXCEPT ![c] = "reply"]
  BY Zenon DEF Unlock, Move
<1>2. mu = c /\ \A i \in 1 .. copied[c] : Load(mem, Place(request[c]), i) = request[c].data[i]
  BY <1>1, Zenon DEF WInv, Progress
<1>3. pc \in [Conn -> ConnLabels]
  BY Zenon DEF Base
<1>4. \A d \in Conn : pc'[d] # "copy"
  BY <1>1, <1>2, <1>3, Zenon DEF WInv, Progress
<1>5. Progress'
  BY <1>4, Zenon DEF Progress
<1>6. LastWriteWhole'
  BY <1>1, <1>2, Zenon DEF LastWriteWhole
<1> QED
  BY <1>5, <1>6, Zenon DEF WInv

\* Overlapping writes of any connections do not mix.
THEOREM LastWriteWholeTheorem == CmdSpec => []LastWriteWhole
<1>1. CmdInit => WInv
  <2>1. CmdInit => Progress
    BY Zenon DEF CmdInit, Progress
  <2>2. CmdInit => LastWriteWhole
    BY Zenon DEF CmdInit, LastWriteWhole
  <2> QED
    BY <2>1, <2>2, Zenon DEF WInv
<1>2. Base /\ WInv /\ [CmdNext]_cmdVars => WInv'
  <2> SUFFICES ASSUME Base, WInv, [CmdNext]_cmdVars PROVE WInv'
    BY Zenon
  <2>1. pc \in [Conn -> ConnLabels] /\ DOMAIN request = Conn /\ copied \in [Conn -> Nat]
    BY Zenon DEF Base
  <2>2. CASE Close \/ UNCHANGED cmdVars
    <3>1. UNCHANGED <<mem, mu, last, pc, request, copied>>
      BY <2>2, Zenon DEF Close, cmdVars
    <3> QED
      BY <3>1, OtherWrites, Zenon
  <2>3. ASSUME NEW c \in Conn,
               \/ Accept(c) \/ HangUp(c) \/ handleRequest(c) \/ Encode(c) \/ Encoded(c)
               \/ Reply(c) \/ \E r \in Request : Arrive(c, r)
        PROVE  WInv'
    <3>1. UNCHANGED <<mem, mu, last>>
      BY <2>3, Zenon DEF Accept, HangUp, handleRequest, Encode, Encoded, Reply, Arrive
    <3>2. pc'[c] # "copy"
      BY <2>1, <2>3, Zenon DEF Accept, HangUp, handleRequest, Encode, Encoded, Reply, Arrive, Move
    <3>3. ASSUME NEW d \in Conn, d # c
          PROVE  pc'[d] = pc[d] /\ request'[d] = request[d] /\ copied'[d] = copied[d]
      BY <2>1, <2>3, <3>3, Zenon DEF Accept, HangUp, handleRequest, Encode, Encoded, Reply, Arrive, Move
    <3> QED
      BY <3>1, <3>2, <3>3, OtherWrites, Zenon
  <2> QED
    BY <2>2, <2>3, CopyWrites, LockWrites, UnlockWrites, Zenon DEF CmdNext, Work
<1>3. WInv => LastWriteWhole
  BY Zenon DEF WInv
<1> QED
  BY <1>1, <1>2, <1>3, BaseInvariance, PTL DEF CmdSpec

-----------------------------------------------------------------------------
(* Reads.                                                                  *)

\* At label l, with request r: what was held covers the transfer, holds what
\* memory m holds now, and holds what is in the answer a.
SeenOK(l, r, h, a, m) ==
    /\ l \in {"handle", "encode"} /\ r.cmd = "read" => DOMAIN h = 1 .. Place(r).items
    /\ \A i \in DOMAIN h : Load(m, Place(r), i) \in h[i]
    /\ \A i \in DOMAIN a : i \in DOMAIN h /\ a[i] \in h[i]

HInv == \A c \in Conn : SeenOK(pc[c], request[c], held[c], answer[c].data, mem)

\* An empty answer to a request whose places hold nothing yet, or what they
\* hold now.
LEMMA EmptySeen ==
  ASSUME NEW l, NEW r, NEW m, l \notin {"handle", "encode"} \/ r.cmd # "read"
  PROVE  SeenOK(l, r, <<>>, <<>>, m)
<1>1. DOMAIN <<>> = {}
  OBVIOUS
<1> QED
  BY <1>1, Zenon DEF SeenOK

\* A read that comes in starts with what its places hold.
LEMMA ArriveSeen ==
  ASSUME Base, NEW c \in Conn, NEW r \in Request, Arrive(c, r)
  PROVE  SeenOK(pc'[c], request'[c], held'[c], answer'[c].data, mem')
<1>1. /\ answer[c].data = <<>> /\ UNCHANGED <<mem, answer>> /\ pc'[c] = "handle"
      /\ request'[c] = r
  BY Zenon DEF Arrive, Move, Base, Fits
<1>2. held'[c] = IF r.cmd # "read" THEN <<>>
                 ELSE [i \in 1 .. Place(r).items |-> {Load(mem, Place(r), i)}]
  BY Zenon DEF Arrive, Base
<1>3. CASE r.cmd # "read"
  BY <1>1, <1>2, <1>3, EmptySeen, Zenon
<1>4. CASE r.cmd = "read"
  <2>1. DOMAIN <<>> = {}
    OBVIOUS
  <2> DEFINE h == [i \in 1 .. Place(r).items |-> {Load(mem, Place(r), i)}]
  <2>2. SeenOK("handle", r, h, <<>>, mem)
    BY <2>1, Zenon DEF SeenOK
  <2> QED
    BY <1>1, <1>2, <1>4, <2>2, Zenon
<1> QED
  BY <1>3, <1>4, Zenon

\* Copy changes the memory under every read, and all of them see it.
LEMMA CopySeen ==
  ASSUME Base, HInv, NEW c \in Conn, Copy(c), NEW d \in Conn
  PROVE  SeenOK(pc'[d], request'[d], held'[d], answer'[d].data, mem')
<1> DEFINE h == [i \in DOMAIN held[d] |-> held[d][i] \cup {Load(mem', Place(request[d]), i)}]
<1>1. UNCHANGED <<pc, request, answer>> /\ held' = Held(mem')
  BY Zenon DEF Copy
<1>2. held'[d] = h
  BY <1>1, Zenon DEF Held
<1>3. SeenOK(pc[d], request[d], held[d], answer[d].data, mem)
  BY Zenon DEF HInv
<1>4. SeenOK(pc[d], request[d], h, answer[d].data, mem')
  BY <1>3, Zenon DEF SeenOK
<1> QED
  BY <1>1, <1>2, <1>4, Zenon

\* The byte that Encode appends is one that its place holds now.
LEMMA EncodeSeen ==
  ASSUME Base, HInv, NEW c \in Conn, Encode(c)
  PROVE  SeenOK(pc'[c], request'[c], held'[c], answer'[c].data, mem')
<1> DEFINE a == answer[c].data
           b == answer'[c].data
           n == copied[c] + 1
           v == Load(mem, Place(request[c]), n)
<1>1. UNCHANGED <<mem, pc, request, held>> /\ pc[c] = "encode" /\ request[c].cmd = "read"
  BY Zenon DEF Encode, Base, Fits
<1>2. SeenOK(pc[c], request[c], held[c], a, mem)
  BY Zenon DEF HInv
<1>3. /\ n \in 1 .. Place(request[c]).items
      /\ b = Append(a, v) /\ Len(a) = copied[c] /\ a \in Seq(Nat)
  BY NextByte, Zenon
<1> HIDE DEF a, b, v
<1>4. n \in DOMAIN held[c]
  BY <1>1, <1>2, <1>3, Zenon DEF SeenOK
<1>5. v \in held[c][n]
  BY <1>2, <1>4, Zenon DEF SeenOK, v
<1>6. ASSUME NEW i \in DOMAIN b PROVE i \in DOMAIN held[c] /\ b[i] \in held[c][i]
  <2>1. b \in Seq({v} \cup Nat) /\ Len(b) = n /\ b[n] = v /\ \A j \in 1 .. Len(a) : b[j] = a[j]
    BY <1>3, SMTT(30)
  <2>2. i \in 1 .. n /\ DOMAIN a = 1 .. Len(a)
    BY <1>3, <2>1
  <2>3. CASE i = n
    BY <1>4, <1>5, <2>1, <2>3, Zenon
  <2>4. CASE i # n
    <3>1. i \in DOMAIN a /\ b[i] = a[i]
      BY <1>3, <2>1, <2>2, <2>4
    <3> QED
      BY <1>2, <3>1, Zenon DEF SeenOK
  <2> QED
    BY <2>3, <2>4, Zenon
<1>7. SeenOK(pc[c], request[c], held[c], b, mem)
  BY <1>2, <1>6, Zenon DEF SeenOK
<1> QED
  BY <1>1, <1>7, Zenon DEF b

\* handleRequest empties the answer, Reply forgets the request, and the
\* other steps move on from it.
LEMMA OtherSeen ==
  ASSUME Base, HInv, NEW c \in Conn,
         \/ Accept(c) \/ HangUp(c) \/ Lock(c) \/ Unlock(c) \/ Encoded(c)
         \/ handleRequest(c) \/ Reply(c)
  PROVE  SeenOK(pc'[c], request'[c], held'[c], answer'[c].data, mem')
<1>1. SeenOK(pc[c], request[c], held[c], answer[c].data, mem)
  BY Zenon DEF HInv
<1>2. /\ pc \in [Conn -> ConnLabels] /\ answer \in [Conn -> Answers]
      /\ DOMAIN request = Conn /\ DOMAIN held = Conn
  BY Zenon DEF Base
<1>3. CASE Accept(c) \/ HangUp(c) \/ Lock(c) \/ Unlock(c) \/ Encoded(c)
  <2>1. UNCHANGED <<mem, request, held, answer>> /\ pc'[c] \notin {"handle", "encode"}
    BY <1>2, <1>3, Zenon DEF Accept, HangUp, Lock, Unlock, Encoded, Move
  <2> QED
    BY <1>1, <2>1, Zenon DEF SeenOK
<1>4. CASE handleRequest(c)
  <2>1. UNCHANGED <<mem, request, held>> /\ pc[c] = "handle" /\ pc'[c] # "handle"
    BY <1>2, <1>4, Zenon DEF handleRequest, Move
  <2>2. answer'[c].data = <<>>
    <3>1. PICK e : answer' = [answer EXCEPT ![c] = [end |-> e, data |-> <<>>]]
      BY <1>4, Zenon DEF handleRequest, SetAnswer
    <3>2. answer'[c] = [end |-> e, data |-> <<>>]
      BY <1>2, <3>1, Zenon
    <3> QED
      BY <3>2
  <2>3. DOMAIN <<>> = {}
    OBVIOUS
  <2>4. SeenOK(pc'[c], request[c], held[c], <<>>, mem)
    BY <1>1, <2>1, <2>3, Zenon DEF SeenOK
  <2> QED
    BY <2>1, <2>2, <2>4, Zenon
<1>5. CASE Reply(c)
  <2>1. pc'[c] \in {"idle", "closed"} /\ held'[c] = <<>> /\ answer'[c] = None
    BY <1>2, <1>5, Zenon DEF Reply, Move
  <2> QED
    BY <2>1, EmptySeen DEF None
<1> QED
  BY <1>3, <1>4, <1>5, Zenon

\* Every byte of an answer is one its place held while the request was being
\* served, whatever other connections write.
THEOREM ReadsHeldTheorem == CmdSpec => []ReadsHeld
<1>1. CmdInit => HInv
  <2> SUFFICES ASSUME CmdInit, NEW c \in Conn
               PROVE  SeenOK(pc[c], request[c], held[c], answer[c].data, mem)
    BY Zenon DEF HInv
  <2>1. pc[c] = "closed" /\ held[c] = <<>> /\ answer[c].data = <<>>
    BY Zenon DEF CmdInit, None
  <2> QED
    BY <2>1, EmptySeen, Zenon
<1>2. Base /\ HInv /\ [CmdNext]_cmdVars => HInv'
  <2> SUFFICES ASSUME Base, HInv, [CmdNext]_cmdVars, NEW d \in Conn
               PROVE  SeenOK(pc'[d], request'[d], held'[d], answer'[d].data, mem')
    BY Zenon DEF HInv, SeenOK
  <2>1. SeenOK(pc[d], request[d], held[d], answer[d].data, mem)
    BY Zenon DEF HInv
  <2>2. /\ pc \in [Conn -> ConnLabels] /\ answer \in [Conn -> Answers]
        /\ DOMAIN request = Conn /\ DOMAIN held = Conn
    BY Zenon DEF Base
  <2>3. CASE Close \/ UNCHANGED cmdVars
    BY <2>1, <2>3, Zenon DEF Close, cmdVars
  <2>4. ASSUME NEW c \in Conn, Copy(c)
        PROVE  SeenOK(pc'[d], request'[d], held'[d], answer'[d].data, mem')
    BY <2>4, CopySeen, Zenon
  <2>5. ASSUME NEW c \in Conn,
               \/ Accept(c) \/ HangUp(c) \/ Lock(c) \/ Unlock(c) \/ Encoded(c)
               \/ handleRequest(c) \/ Reply(c) \/ Encode(c) \/ \E r \in Request : Arrive(c, r)
        PROVE  SeenOK(pc'[d], request'[d], held'[d], answer'[d].data, mem')
    <3>1. CASE d = c
      BY <2>5, <3>1, OtherSeen, EncodeSeen, ArriveSeen, Zenon
    <3>2. CASE d # c
      <4>1. mem' = mem /\ pc'[d] = pc[d] /\ request'[d] = request[d] /\ held'[d] = held[d]
        BY <2>2, <2>5, <3>2, Zenon DEF Accept, HangUp, Lock, Unlock, Encoded, handleRequest, Reply,
                                Encode, Arrive, Move
      <4>2. answer'[d] = answer[d]
        BY <2>2, <2>5, <3>2, Zenon DEF Accept, HangUp, Lock, Unlock, Encoded, handleRequest, Reply,
                                Encode, Arrive, SetAnswer
      <4> QED
        BY <2>1, <4>1, <4>2, Zenon
    <3> QED
      BY <3>1, <3>2, Zenon
  <2> QED
    BY <2>3, <2>4, <2>5, Zenon DEF CmdNext, Work
<1>3. HInv => ReadsHeld
  BY Zenon DEF HInv, SeenOK, ReadsHeld
<1> QED
  BY <1>1, <1>2, <1>3, BaseInvariance, PTL DEF CmdSpec

-----------------------------------------------------------------------------
(* The driver.  For any callers, configurations and number of calls, what  *)
(* an operation uses after it has released d.mu is there and stays, and no *)
(* wait of Reconnect but the first exceeds maxBackoff.                     *)

Outcomes == {"none", "ok", "error", "bad"}
Records ==
    [pc : Labels, op : Ops \cup {"none"}, attempt : Nat, interval : Int, outcome : Outcomes]

\* A call in progress has its transport; its attempts and its wait are those
\* of a Reconnect loop that has retries left.
CallOK(r, t) ==
    /\ r.pc # "idle" => t # Nil
    /\ r.pc \in {"check", "disconnect"} => r.attempt = 0
    /\ r.pc = "backoff" => r.attempt < t.maxRetries - 1
    /\ r.pc \in {"dial", "backoff"} /\ r.attempt > 0 /\ r.attempt < t.maxRetries
           => r.interval <= MaxBackoff

Settings(t) == t # Nil => t.retryInterval \in Int /\ t.maxRetries \in Int

\* initialized, transport and scheduler are set together.
Together ==
    /\ initialized \in BOOLEAN
    /\ initialized <=> transport # Nil
    /\ transport # Nil <=> scheduler # Nil

CallsOK ==
    /\ call \in [Caller -> Records]
    /\ \A c \in Caller : CallOK(call[c], transport)

IInv == Together /\ Numbers(deviceCfg) /\ Settings(transport) /\ CallsOK

\* loadConfig and NewScheduler never return nil, and their numbers are numbers.
LEMMA LoadedSettings ==
  ASSUME NEW cfg, Numbers(cfg)
  PROVE  /\ loadConfig(cfg) # Nil
         /\ Settings(loadConfig(cfg))
         /\ NewScheduler(cfg) # Nil
<1> DEFINE t == loadConfig(cfg)
           s == NewScheduler(cfg)
<1>1. DOMAIN t = DOMAIN TransportDefaults /\ DOMAIN s = DOMAIN SchedulerDefaults
  BY DEF loadConfig, NewScheduler
<1>2. "plcPort" \in DOMAIN t /\ "minInterval" \in DOMAIN s
  BY <1>1 DEF TransportDefaults, SchedulerDefaults
<1>3. "plcPort" \notin DOMAIN Nil /\ "minInterval" \notin DOMAIN Nil
  BY Zenon DEF Nil
<1>4. t # Nil /\ s # Nil
  BY <1>2, <1>3, Zenon
<1>5. t.retryInterval = Setting(cfg, "retryInterval", 1000)
  BY DEF loadConfig, TransportDefaults, AddressKeys
<1>6. t.maxRetries = Setting(cfg, "maxRetries", 3)
  BY DEF loadConfig, TransportDefaults, AddressKeys
<1>7. \A k, d : d \in Int => Setting(cfg, k, d) \in Int
  BY Zenon DEF Setting, Numbers
<1>8. Settings(t)
  BY <1>5, <1>6, <1>7 DEF Settings
<1> QED
  BY <1>4, <1>8, Zenon

\* Merging configurations keeps their numbers numbers.
LEMMA MergedNumbers ==
  ASSUME NEW old, NEW new, Numbers(old), Numbers(new)
  PROVE  Numbers(Merge(old, new))
BY Zenon DEF Numbers, Merge

\* A caller that is not in a call satisfies the invariant of calls.
LEMMA IdleOK ==
  ASSUME NEW outcome \in Outcomes, NEW t
  PROVE  Idle(outcome) \in Records /\ CallOK(Idle(outcome), t)
<1>1. Idle(outcome) \in Records
  BY DEF Idle, Records, Labels
<1>2. Idle(outcome).pc = "idle"
  BY Zenon DEF Idle
<1> QED
  BY <1>1, <1>2, Zenon DEF CallOK

\* One call moves on under an unchanged transport.
LEMMA OneCall ==
  ASSUME CallsOK, NEW c \in Caller, NEW r \in Records, CallOK(r, transport),
         call' = [call EXCEPT ![c] = r], transport' = transport
  PROVE  CallsOK'
<1>1. call' \in [Caller -> Records]
  BY Zenon DEF CallsOK
<1>2. ASSUME NEW d \in Caller
      PROVE  CallOK(call'[d], transport)
  BY <1>2, Zenon DEF CallsOK
<1> QED
  BY <1>1, <1>2, Zenon DEF CallsOK

\* The start of an operation: the driver is ready, or the call returns.
LEMMA CallOnOK ==
  ASSUME IInv, NEW c \in Caller, NEW o \in Ops, NEW ready, NEW label \in Labels,
         NEW refused \in Outcomes,
         CallOn(c, o, ready, label, refused),
         ready => transport # Nil, label \in {"dial", "disconnect", "check"}
  PROVE  IInv'
<1> DEFINE r == IF ready THEN [Idle("none") EXCEPT !.pc = label, !.op = o] ELSE Idle(refused)
<1>1. UNCHANGED <<initialized, deviceCfg, transport, scheduler>> /\ call' = [call EXCEPT ![c] = r]
  BY Zenon DEF CallOn, driver
<1>2. r \in Records /\ CallOK(r, transport)
  <2>1. CASE ready
    <3>1. r = [pc |-> label, op |-> o, attempt |-> 0, interval |-> 0, outcome |-> "none"]
      BY <2>1, Zenon DEF Idle
    <3> HIDE DEF r
    <3>2. r \in Records
      BY <3>1 DEF Records, Outcomes
    <3>3. r.pc = label /\ r.attempt = 0
      BY <3>1, Zenon
    <3> QED
      BY <2>1, <3>2, <3>3 DEF CallOK
  <2>2. CASE ~ready
    BY <2>2, IdleOK, Zenon
  <2> QED
    BY <2>1, <2>2, Zenon
<1>3. CallsOK'
  <2> HIDE DEF r
  <2> QED
    BY <1>1, <1>2, OneCall, Zenon DEF IInv
<1> QED
  BY <1>1, <1>3, Zenon DEF IInv, Together, Settings, Numbers

\* A step of a call that leaves the driver's fields alone.
LEMMA StepOK ==
  ASSUME IInv, NEW c \in Caller, NEW r \in Records, CallOK(r, transport),
         call' = [call EXCEPT ![c] = r], UNCHANGED driver
  PROVE  IInv'
<1>1. UNCHANGED <<initialized, deviceCfg, transport, scheduler>>
  BY Zenon DEF driver
<1>2. CallsOK'
  BY <1>1, OneCall, Zenon DEF IInv
<1> QED
  BY <1>1, <1>2, Zenon DEF IInv, Together, Settings, Numbers

\* A call returns.
LEMMA ReturnOK ==
  ASSUME IInv, NEW c \in Caller, NEW outcome \in Outcomes, Return(c, outcome), UNCHANGED driver
  PROVE  IInv'
<1>1. Idle(outcome) \in Records /\ CallOK(Idle(outcome), transport)
  BY IdleOK, Zenon
<1> QED
  BY <1>1, StepOK, Zenon DEF Return

\* A call fails.
LEMMA FailedOK ==
  ASSUME IInv, NEW c \in Caller, Failed(c), UNCHANGED driver
  PROVE  IInv'
BY ReturnOK, Zenon DEF Failed, Outcomes

\* A call moves to a place where nothing is asked of its attempts.
LEMMA GotoOK ==
  ASSUME IInv, NEW c \in Caller, NEW label \in {"request", "await"}, Goto(c, label),
         transport # Nil, UNCHANGED driver
  PROVE  IInv'
<1> DEFINE r == [call[c] EXCEPT !.pc = label]
<1>1. call[c] \in Records
  BY Zenon DEF IInv, CallsOK
<1>2. r \in Records /\ r.pc = label
  BY <1>1, Zenon DEF Records, Labels
<1>3. call' = [call EXCEPT ![c] = r]
  BY Zenon DEF Goto
<1>4. CallOK(r, transport)
  BY <1>2, Zenon DEF CallOK
<1> HIDE DEF r
<1> QED
  BY <1>2, <1>3, <1>4, StepOK, Zenon

\* Init sets everything, or nothing but deviceCfg.
LEMMA CallInitOK ==
  ASSUME IInv, NEW c \in Caller, NEW cfg \in Configs, CallInit(c, cfg)
  PROVE  IInv'
<1>1. CASE initialized
  BY <1>1, ReturnOK, Zenon DEF CallInit, Outcomes
<1>2. CASE ~initialized
  <2>1. deviceCfg' = Merge(deviceCfg, cfg) /\ Numbers(deviceCfg')
    BY <1>2, MergedNumbers, ConfigsAssumption, Zenon DEF CallInit, IInv
  <2>2. PICK o \in Outcomes : Return(c, o)
    BY <1>2, Zenon DEF CallInit, Outcomes
  <2>3. call' = [call EXCEPT ![c] = Idle(o)] /\ Idle(o) \in Records /\ Idle(o).pc = "idle"
    BY <2>2, IdleOK, Zenon DEF Return, Idle
  <2>4. transport = Nil /\ scheduler = Nil
    BY <1>2, Zenon DEF IInv, Together
  <2>5. \A d \in Caller : call[d].pc = "idle"
    BY <2>4, Zenon DEF IInv, CallsOK, CallOK
  <2>6. call' \in [Caller -> Records] /\ \A d \in Caller : call'[d].pc = "idle"
    BY <2>3, <2>5, Zenon DEF IInv, CallsOK
  <2>7. CallsOK'
    BY <2>6, Zenon DEF CallsOK, CallOK
  <2>8. CASE HasIP(deviceCfg')
    <3>1. /\ transport' = loadConfig(deviceCfg') /\ scheduler' = NewScheduler(deviceCfg')
          /\ initialized' = TRUE
      BY <1>2, <2>8, Zenon DEF CallInit
    <3>2. transport' # Nil /\ scheduler' # Nil /\ Settings(transport')
      BY <2>1, <3>1, LoadedSettings, Zenon
    <3> QED
      BY <2>1, <2>7, <3>1, <3>2, Zenon DEF IInv, Together, Settings, Numbers, Nil
  <2>9. CASE ~HasIP(deviceCfg')
    <3>1. UNCHANGED <<initialized, transport, scheduler>>
      BY <1>2, <2>9, Zenon DEF CallInit
    <3> QED
      BY <2>1, <2>7, <3>1, Zenon DEF IInv, Together, Settings, Numbers
  <2> QED
    BY <2>8, <2>9, Zenon
<1> QED
  BY <1>1, <1>2, Zenon DEF IInv, Together

\* SetDeviceConfig only merges.
LEMMA SetDeviceConfigOK ==
  ASSUME IInv, NEW c \in Caller, NEW cfg \in Configs, SetDeviceConfig(c, cfg)
  PROVE  IInv'
<1>1. Numbers(deviceCfg')
  BY MergedNumbers, ConfigsAssumption, Zenon DEF SetDeviceConfig, IInv
<1>2. Idle("ok") \in Records /\ CallOK(Idle("ok"), transport)
  BY IdleOK, Zenon DEF Outcomes
<1>3. UNCHANGED <<initialized, transport, scheduler>> /\ call' = [call EXCEPT ![c] = Idle("ok")]
  BY Zenon DEF SetDeviceConfig, Return
<1>4. CallsOK'
  BY <1>2, <1>3, OneCall, Zenon DEF IInv
<1> QED
  BY <1>1, <1>3, <1>4, Zenon DEF IInv, Together, Settings, Numbers

-----------------------------------------------------------------------------
(* The steps of a call.                                                    *)

\* transport.Disconnect, and the interval a Reconnect loop starts with.
LEMMA DisconnectOK ==
  ASSUME IInv, NEW c \in Caller, Disconnect(c)
  PROVE  IInv'
<1>1. CASE call[c].op = "Disconnect"
  BY <1>1, ReturnOK, Zenon DEF Disconnect, Outcomes
<1>2. CASE call[c].op # "Disconnect"
  <2> DEFINE r == [call[c] EXCEPT !.pc = "dial", !.interval = transport.retryInterval]
  <2>1. call[c] \in Records /\ call[c].attempt = 0 /\ transport # Nil
    BY Zenon DEF IInv, CallsOK, CallOK, Disconnect
  <2>2. transport.retryInterval \in Int
    BY <2>1, Zenon DEF IInv, Settings
  <2>3. r \in Records /\ r.pc = "dial" /\ r.attempt = 0
    BY <2>1, <2>2, Zenon DEF Records, Labels
  <2>4. call' = [call EXCEPT ![c] = r] /\ UNCHANGED driver
    BY <1>2, Zenon DEF Disconnect
  <2>5. CallOK(r, transport)
    BY <2>1, <2>3 DEF CallOK
  <2> HIDE DEF r
  <2> QED
    BY <2>3, <2>4, <2>5, StepOK, Zenon
<1> QED
  BY <1>1, <1>2, Zenon

\* A dial that fails leads to a wait only while another attempt is left.
LEMMA DialFailsOK ==
  ASSUME IInv, NEW c \in Caller, DialFails(c)
  PROVE  IInv'
<1>1. /\ call[c] \in Records /\ CallOK(call[c], transport) /\ transport # Nil
      /\ call[c].pc = "dial"
  BY Zenon DEF IInv, CallsOK, CallOK, DialFails, Dialling
<1>2. transport.maxRetries \in Int /\ call[c].attempt \in Nat
  BY <1>1, Zenon DEF IInv, Settings, Records
<1>3. CASE Once(c)
  BY <1>3, FailedOK, Zenon DEF DialFails
<1>4. CASE ~Once(c) /\ call[c].attempt < transport.maxRetries - 1
  <2> DEFINE r == [call[c] EXCEPT !.pc = "backoff"]
  <2>1. /\ r \in Records /\ r.pc = "backoff" /\ r.attempt = call[c].attempt
        /\ r.interval = call[c].interval
    BY <1>1, Zenon DEF Records, Labels
  <2>2. call' = [call EXCEPT ![c] = r] /\ UNCHANGED driver
    BY <1>4, Zenon DEF DialFails, Goto
  <2>3. CallOK(r, transport)
    BY <1>1, <1>2, <1>4, <2>1, Zenon DEF CallOK
  <2> HIDE DEF r
  <2> QED
    BY <2>1, <2>2, <2>3, StepOK, Zenon
<1>5. CASE ~Once(c) /\ ~(call[c].attempt < transport.maxRetries - 1)
  <2> DEFINE r == [call[c] EXCEPT !.attempt = @ + 1]
  <2>1. r \in Records /\ r.pc = "dial" /\ r.attempt = call[c].attempt + 1
    BY <1>1, <1>2 DEF Records
  <2>2. call' = [call EXCEPT ![c] = r] /\ UNCHANGED driver
    BY <1>5, Zenon DEF DialFails
  <2>3. ~(r.attempt < transport.maxRetries)
    BY <1>2, <1>5, <2>1
  <2>4. CallOK(r, transport)
    BY <1>1, <2>1, <2>3, Zenon DEF CallOK
  <2> HIDE DEF r
  <2> QED
    BY <2>1, <2>2, <2>4, StepOK, Zenon
<1> QED
  BY <1>3, <1>4, <1>5, Zenon

\* The interval is doubled and capped after every wait.
LEMMA BackoffOK ==
  ASSUME IInv, NEW c \in Caller, Backoff(c)
  PROVE  IInv'
<1>1. call[c] \in Records /\ transport # Nil
  BY Zenon DEF IInv, CallsOK, CallOK, Backoff
<1>2. call[c].interval \in Int /\ call[c].attempt \in Nat
  BY <1>1, Zenon DEF Records
<1>3. PICK next \in Int :
         /\ next = IF 2 * call[c].interval > MaxBackoff THEN MaxBackoff
                   ELSE 2 * call[c].interval
         /\ next <= MaxBackoff
  BY <1>2, MaxBackoffAssumption
<1> DEFINE n == call[c].attempt + 1
           r == [call[c] EXCEPT !.pc = "dial", !.attempt = n, !.interval = next]
<1>4. call' = [call EXCEPT ![c] = r] /\ UNCHANGED driver
  BY <1>3, Zenon DEF Backoff
<1>5. n \in Nat
  BY <1>2
<1> HIDE DEF n
<1>6. r \in Records /\ r.pc = "dial" /\ r.interval = next
  BY <1>1, <1>5, Zenon DEF Records, Labels
<1>7. CallOK(r, transport)
  BY <1>1, <1>3, <1>6, Zenon DEF CallOK
<1> HIDE DEF r
<1> QED
  BY <1>4, <1>6, <1>7, StepOK, Zenon

\* Every step of a call.
LEMMA EveryStepOK ==
  ASSUME IInv, NEW c \in Caller, Step(c)
  PROVE  IInv'
<1>1. call[c] \in Records /\ (call[c].pc # "idle" => transport # Nil)
  BY Zenon DEF IInv, CallsOK, CallOK
<1>2. CASE Check(c)
  <2>1. CASE connected
    BY <1>1, <1>2, <2>1, GotoOK, Zenon DEF Check
  <2>2. CASE ~connected
    <3> DEFINE r == [call[c] EXCEPT !.pc = "disconnect"]
    <3>1. r \in Records /\ r.pc = "disconnect" /\ r.attempt = call[c].attempt
      BY <1>1, Zenon DEF Records, Labels
    <3>2. call[c].attempt = 0 /\ transport # Nil
      BY <1>2, Zenon DEF Check, IInv, CallsOK, CallOK
    <3>3. call' = [call EXCEPT ![c] = r] /\ UNCHANGED driver
      BY <1>2, <2>2, Zenon DEF Check, Goto
    <3>4. CallOK(r, transport)
      BY <3>1, <3>2, Zenon DEF CallOK
    <3> HIDE DEF r
    <3> QED
      BY <3>1, <3>3, <3>4, StepOK, Zenon
  <2> QED
    BY <2>1, <2>2, Zenon
<1>3. CASE Disconnect(c)
  BY <1>3, DisconnectOK, Zenon
<1>4. CASE DialSucceeds(c)
  <2>1. CASE Points(c)
    BY <1>1, <1>4, <2>1, GotoOK, Zenon DEF DialSucceeds, Dialling
  <2>2. CASE ~Points(c)
    BY <1>4, <2>2, ReturnOK, Zenon DEF DialSucceeds, Outcomes
  <2> QED
    BY <2>1, <2>2, Zenon
<1>5. CASE DialFails(c)
  BY <1>5, DialFailsOK, Zenon
<1>6. CASE Backoff(c)
  BY <1>6, BackoffOK, Zenon
<1>7. CASE GiveUp(c)
  BY <1>7, FailedOK, Zenon DEF GiveUp
<1>8. CASE Send(c)
  <2>1. CASE connected
    BY <1>1, <1>8, <2>1, GotoOK, Zenon DEF Send
  <2>2. CASE ~connected
    BY <1>8, <2>2, FailedOK, Zenon DEF Send
  <2> QED
    BY <2>1, <2>2, Zenon
<1>9. CASE Await(c)
  BY <1>9, ReturnOK, FailedOK, Zenon DEF Await, Outcomes
<1> QED
  BY <1>2, <1>3, <1>4, <1>5, <1>6, <1>7, <1>8, <1>9, Zenon DEF Step

\* Every start of a call.
LEMMA EveryCallOK ==
  ASSUME IInv, NEW c \in Caller, Call(c)
  PROVE  IInv'
<1>1. initialized => transport # Nil
  BY Zenon DEF IInv, Together
<1>2. ASSUME NEW cfg \in Configs, CallInit(c, cfg) \/ SetDeviceConfig(c, cfg)
      PROVE  IInv'
  BY <1>2, CallInitOK, SetDeviceConfigOK, Zenon
<1>3. CASE CallConnect(c)
  BY <1>1, <1>3, CallOnOK, ZenonT(30) DEF CallConnect, CallOn, Start, Labels, Outcomes
<1>4. CASE CallDisconnect(c)
  BY <1>4, CallOnOK, ZenonT(30) DEF CallDisconnect, CallOn, Start, Labels, Outcomes
<1>5. CASE CallReconnect(c)
  BY <1>5, CallOnOK, ZenonT(30) DEF CallReconnect, CallOn, Start, Labels, Outcomes
<1>6. CASE CallReadPoints(c)
  BY <1>1, <1>6, CallOnOK, ZenonT(30) DEF CallReadPoints, CallOn, Start, Labels, Outcomes
<1>7. CASE CallWritePoint(c)
  BY <1>1, <1>7, CallOnOK, ZenonT(30) DEF CallWritePoint, CallOn, Start, Labels, Outcomes
<1> QED
  BY <1>2, <1>3, <1>4, <1>5, <1>6, <1>7, Zenon DEF Call
-----------------------------------------------------------------------------
(* The invariant, and what follows from it.                                *)

\* A driver that is not initialised, with no call in progress.
LEMMA InitIInv == Init => IInv
<1> SUFFICES ASSUME Init PROVE IInv
  BY Zenon
<1>1. Together
  BY Zenon DEF Init, Together
<1>2. Numbers(deviceCfg)
  BY Zenon DEF Init, Numbers
<1>3. Settings(transport)
  BY Zenon DEF Init, Settings
<1>4. Idle("none") \in Records /\ CallOK(Idle("none"), transport)
  BY IdleOK, Zenon DEF Outcomes
<1>5. CallsOK
  BY <1>4, Zenon DEF Init, CallsOK
<1> QED
  BY <1>1, <1>2, <1>3, <1>5, Zenon DEF IInv

\* Every call, and every step of one, keeps the invariant.
LEMMA NextIInv == IInv /\ [Next]_vars => IInv'
<1> SUFFICES ASSUME IInv, [Next]_vars PROVE IInv'
  BY Zenon
<1>1. CASE Drop \/ UNCHANGED vars
  <2>1. UNCHANGED <<initialized, deviceCfg, transport, scheduler, call>>
    BY <1>1, Zenon DEF Drop, driver, vars
  <2> QED
    BY <2>1, Zenon DEF IInv, Together, Settings, Numbers, CallsOK, CallOK
<1>2. ASSUME NEW c \in Caller, Call(c) PROVE IInv'
  BY <1>2, EveryCallOK, Zenon
<1>3. ASSUME NEW c \in Caller, Step(c) PROVE IInv'
  BY <1>3, EveryStepOK, Zenon
<1> QED
  BY <1>1, <1>2, <1>3, Zenon DEF Next

\* The transport and the scheduler of the driver are set together, before any
\* call uses them, and the waits of Reconnect fit its attempts.
THEOREM Invariance == Spec => []IInv
BY InitIInv, NextIInv, PTL DEF Spec

\* No operation uses a nil transport or scheduler after it has released d.mu.
THEOREM NoNilUseTheorem == Spec => []NoNilUse
<1>1. IInv => NoNilUse
  BY Zenon DEF IInv, Together, CallsOK, CallOK, NoNilUse
<1> QED
  BY <1>1, Invariance, PTL

\* Only an Init that succeeds writes the transport, and then it was nil.
LEMMA StepKeeps ==
  ASSUME Together, [Next]_vars, transport # Nil
  PROVE  transport' = transport /\ scheduler' = scheduler
<1>1. CASE Drop \/ UNCHANGED vars
  BY <1>1, Zenon DEF Drop, driver, vars
<1>2. ASSUME NEW c \in Caller, Step(c) PROVE UNCHANGED <<transport, scheduler>>
  BY <1>2, Zenon DEF Step, Check, Disconnect, DialSucceeds, DialFails, Backoff, GiveUp, Send, Await,
              driver
<1>3. ASSUME NEW c \in Caller, NEW cfg \in Configs, CallInit(c, cfg) \/ SetDeviceConfig(c, cfg)
      PROVE  UNCHANGED <<transport, scheduler>>
  BY <1>3, Zenon DEF Together, CallInit, SetDeviceConfig, driver
<1>4. ASSUME NEW c \in Caller,
             \/ CallConnect(c) \/ CallDisconnect(c) \/ CallReconnect(c)
             \/ CallReadPoints(c) \/ CallWritePoint(c)
      PROVE  UNCHANGED <<transport, scheduler>>
  BY <1>4, Zenon DEF CallConnect, CallDisconnect, CallReconnect, CallReadPoints, CallWritePoint,
              CallOn, driver
<1> QED
  BY <1>1, <1>2, <1>3, <1>4, Zenon DEF Next, Call

\* A driver in use keeps its transport and its scheduler.
THEOREM TransportKeptTheorem == Spec => TransportKept
<1>1. IInv /\ [Next]_vars =>
          [transport # Nil => transport' = transport /\ scheduler' = scheduler]_vars
  BY StepKeeps, Zenon DEF IInv
<1> QED
  BY <1>1, Invariance, PTL DEF Spec, TransportKept

\* The waits of Reconnect after the first are at most maxBackoff: only the
\* first is as long as the configuration makes it.
CappedAfterFirst ==
    \A c \in Caller :
        call[c].pc = "backoff" /\ call[c].attempt > 0 => call[c].interval <= MaxBackoff

\* Only the first wait of a Reconnect can exceed maxBackoff, whatever the
\* configuration says.
THEOREM CappedAfterFirstTheorem == Spec => []CappedAfterFirst
<1>1. IInv => CappedAfterFirst
  <2> SUFFICES ASSUME IInv, NEW c \in Caller, call[c].pc = "backoff", call[c].attempt > 0
               PROVE  call[c].interval <= MaxBackoff
    BY Zenon DEF CappedAfterFirst
  <2>1. call[c] \in Records /\ CallOK(call[c], transport) /\ transport # Nil
    BY Zenon DEF IInv, CallsOK, CallOK
  <2>2. transport.maxRetries \in Int /\ call[c].attempt \in Nat
    BY <2>1, Zenon DEF IInv, Settings, Records
  <2>3. call[c].attempt < transport.maxRetries
    BY <2>1, <2>2 DEF CallOK
  <2> QED
    BY <2>1, <2>3, Zenon DEF CallOK
<1> QED
  BY <1>1, Invariance, PTL

-----------------------------------------------------------------------------
(* The safety properties of the UDP client, for every number of callers,   *)
(* identifiers and commands.                                               *)

\* The last SidMod commands count their identifiers back from the counter.
SidInv ==
  \A n \in 1..nextReq : nextReq - n < SidMod =>
    header[n] = IF nextReq - n <= sid THEN sid - (nextReq - n)
                                      ELSE sid - (nextReq - n) + SidMod

\* Commands with the same identifier are far apart.
Spaced ==
  \A n, m \in 1..nextReq : header[n] = header[m] /\ n < m => m - n >= SidMod

\* A running command has a number of its own.
OwnNumber ==
  /\ \A p \in Callers : callerPc[p] # "idle" => req[p] \in 1..nextReq
  /\ \A p, q \in Callers :
       callerPc[p] # "idle" /\ callerPc[q] # "idle" /\ req[p] = req[q] => p = q

\* A cell holds a channel of its own identifier, which its command has made.
CellInv ==
  /\ \A s \in Sids : resp[s] # 0 => header[resp[s]] = s
  /\ \A p \in Callers : callerPc[p] = "cell" => \A s \in Sids : resp[s] # req[p]

\* The cell of a command that is past incrementSid is set.
SetInv ==
  /\ \A p \in Callers :
       callerPc[p] \in {"write", "select", "wait"} => resp[header[req[p]]] # 0
  /\ \A m \in net : resp[header[m]] # 0

\* Channels and answers stay within one identifier.
SameSid ==
  /\ \A p \in Callers : callerPc[p] = "wait" =>
       /\ waitCh[p] # 0 /\ header[waitCh[p]] = header[req[p]]
       /\ resp[header[req[p]]] = req[p] => waitCh[p] = req[p]
  /\ listenPc = "send" =>
       /\ listenCh # 0 /\ listenAns # 0
       /\ header[listenCh] = header[listenAns]
  /\ \A n \in Reqs : reply[n] # 0 => n <= nextReq /\ header[reply[n]] = header[n]

\* Every command is running, or has returned an answer or an error.
Accounted ==
  \A n \in 1..nextReq :
    \/ n \in gaveUp
    \/ reply[n] # 0
    \/ \E p \in Callers : req[p] = n /\ callerPc[p] # "idle"

\* Close sets the flag first.
CloseInv == (~open => closed) /\ (fatal => open)

UdpInv ==
  /\ TypeOK /\ SidInv /\ Spaced /\ OwnNumber /\ CellInv /\ SetInv /\ SameSid
  /\ Accounted /\ CloseInv

-----------------------------------------------------------------------------
\* Incrementing a byte wraps around at SidMod.
LEMMA NextSidFact ==
  ASSUME NEW s \in Sids
  PROVE  NextSid(s) = IF s = SidMod - 1 THEN 0 ELSE s + 1
BY UdpAssumption, SMT DEF NextSid, Sids

\* Initially nothing has been sent.
LEMMA UdpStarts == UdpInit => UdpInv
<1> SUFFICES ASSUME UdpInit PROVE UdpInv
  BY Zenon
<1>1. TypeOK
  <2>1. /\ 0 \in Sids /\ 0 \in 0..MaxRequests /\ 0 \in 0..0
    BY UdpAssumption DEF Sids
  <2> QED BY <2>1, Zenon DEF UdpInit, TypeOK
<1>2. SidInv /\ Spaced /\ OwnNumber /\ Accounted /\ CloseInv
  BY DEF UdpInit, SidInv, Spaced, OwnNumber, Accounted, CloseInv
<1>3. CellInv /\ SetInv /\ SameSid
  BY Zenon DEF UdpInit, CellInv, SetInv, SameSid
<1> QED BY <1>1, <1>2, <1>3, Zenon DEF UdpInv

\* incrementSid under the lock: the new command has the largest number, and its
\* identifier is SidMod commands away from the last use of it.
LEMMA UdpIncrementSid ==
  ASSUME UdpInv, NEW p \in Callers, IncrementSid(p)
  PROVE  UdpInv'
<1> DEFINE n == nextReq + 1
<1> USE UdpAssumption
<1>1. /\ nextReq \in Nat /\ n \in Reqs /\ nextReq' = n /\ sid' \in Sids
      /\ sid' = IF sid = SidMod - 1 THEN 0 ELSE sid + 1
      /\ header' = [header EXCEPT ![n] = sid']
  <2>1. sid \in Sids /\ nextReq \in 0..MaxRequests
    BY Zenon DEF UdpInv, TypeOK
  <2>2. sid' = IF sid = SidMod - 1 THEN 0 ELSE sid + 1
    BY <2>1, NextSidFact, Zenon DEF IncrementSid
  <2> QED BY <2>1, <2>2 DEF IncrementSid, Sids, Reqs
<1>2. /\ header'[n] = sid'
      /\ \A k \in 1..nextReq : header'[k] = header[k]
  BY <1>1 DEF UdpInv, TypeOK, Reqs
<1>3. TypeOK'
  <2>1. 0..nextReq \subseteq 0..n /\ 1..nextReq \subseteq 1..n /\ n \in 0..n
        /\ n \in 0..MaxRequests
    BY <1>1 DEF Reqs
  <2> HIDE DEF n
  <2> QED BY <1>1, <2>1, ZenonT(30) DEF UdpInv, TypeOK, IncrementSid, listenVars
<1>0. SidInv /\ sid \in Sids
  BY Zenon DEF UdpInv, TypeOK
<1>4. SidInv'
  BY <1>0, <1>1, <1>2 DEF SidInv, Sids
<1>5. Spaced'
  <2>1. \A k \in 1..nextReq : header[k] = sid' => n - k >= SidMod
    BY <1>0, <1>1 DEF SidInv, Sids
  <2> QED BY <1>1, <1>2, <2>1 DEF UdpInv, Spaced
<1>6. OwnNumber'
  BY <1>1 DEF UdpInv, TypeOK, OwnNumber, IncrementSid
<1>7. CellInv'
  BY <1>1, <1>2, SMTT(30) DEF UdpInv, TypeOK, OwnNumber, CellInv, IncrementSid
<1>8. SetInv'
  BY <1>1, <1>2 DEF UdpInv, TypeOK, OwnNumber, SetInv, IncrementSid
<1>9. SameSid'
  <2>1. ASSUME NEW q \in Callers, callerPc'[q] = "wait"
        PROVE  /\ waitCh'[q] # 0 /\ header'[waitCh'[q]] = header'[req'[q]]
               /\ resp'[header'[req'[q]]] = req'[q] => waitCh'[q] = req'[q]
    <3>1. q # p /\ callerPc[q] = "wait" /\ req'[q] = req[q] /\ waitCh'[q] = waitCh[q]
      BY <2>1, Zenon DEF UdpInv, TypeOK, IncrementSid
    <3>2. req[q] \in 1..nextReq /\ waitCh[q] \in 0..nextReq /\ waitCh[q] # 0
      BY <3>1, Zenon DEF UdpInv, TypeOK, OwnNumber, SameSid
    <3>3. header'[req[q]] = header[req[q]] /\ header'[waitCh[q]] = header[waitCh[q]]
      BY <1>1, <1>2, <3>2, SMTT(30)
    <3> QED BY <3>1, <3>2, <3>3 DEF UdpInv, SameSid, IncrementSid
  <2>2. listenPc' = "send" =>
          /\ listenCh' # 0 /\ listenAns' # 0
          /\ header'[listenCh'] = header'[listenAns']
    BY <1>1, <1>2, SMTT(30) DEF UdpInv, TypeOK, SameSid, IncrementSid, listenVars
  <2>3. ASSUME NEW k \in Reqs, reply'[k] # 0
        PROVE  k <= nextReq' /\ header'[reply'[k]] = header'[k]
    BY <1>1, <1>2, <2>3 DEF UdpInv, TypeOK, SameSid, IncrementSid, Reqs
  <2> QED BY <2>1, <2>2, <2>3, ZenonT(30) DEF SameSid
<1>10. Accounted'
  BY <1>1 DEF UdpInv, TypeOK, Accounted, IncrementSid
<1>11. CloseInv'
  BY Zenon DEF UdpInv, CloseInv, IncrementSid
<1> QED BY <1>3, <1>4, <1>5, <1>6, <1>7, <1>8, <1>9, <1>10, <1>11, ZenonT(30) DEF UdpInv

\* Making the cell replaces the channel of another command at most.
LEMMA UdpMakeCell ==
  ASSUME UdpInv, NEW p \in Callers, MakeCell(p)
  PROVE  UdpInv'
<1>1. /\ req[p] \in 1..nextReq /\ header[req[p]] \in Sids /\ nextReq \in 0..MaxRequests
      /\ nextReq \in Nat
  BY UdpAssumption DEF UdpInv, TypeOK, OwnNumber, MakeCell, Reqs
<1>2. TypeOK'
  BY <1>1, Zenon DEF UdpInv, TypeOK, MakeCell, listenVars
<1>3. SidInv' /\ Spaced' /\ CloseInv'
  BY Zenon DEF UdpInv, SidInv, Spaced, CloseInv, MakeCell
<1>4. OwnNumber' /\ Accounted'
  BY DEF UdpInv, TypeOK, OwnNumber, Accounted, MakeCell
<1>5. CellInv'
  BY <1>1, ZenonT(30) DEF UdpInv, TypeOK, OwnNumber, CellInv, MakeCell
<1>6. SetInv'
  BY <1>1, SMTT(30) DEF UdpInv, TypeOK, OwnNumber, SetInv, MakeCell
<1>7. SameSid'
  BY <1>1 DEF UdpInv, TypeOK, OwnNumber, SameSid, MakeCell, listenVars
<1> QED BY <1>2, <1>3, <1>4, <1>5, <1>6, <1>7, ZenonT(30) DEF UdpInv

\* The datagram leaves after its cell has been made.
LEMMA UdpWrite ==
  ASSUME UdpInv, NEW p \in Callers, Write(p)
  PROVE  UdpInv'
<1>1. req[p] \in 1..nextReq /\ nextReq \in Nat
  BY UdpAssumption DEF UdpInv, TypeOK, OwnNumber, Write
<1>2. /\ net' \subseteq net \cup {req[p]}
      /\ gaveUp \subseteq gaveUp' /\ gaveUp' \subseteq gaveUp \cup {req[p]}
      /\ \A q \in Callers : q # p =>
           callerPc'[q] = callerPc[q] /\ req'[q] = req[q] /\ waitCh'[q] = waitCh[q]
      /\ \/ callerPc'[p] = "idle" /\ req[p] \in gaveUp'
         \/ callerPc'[p] = "select" /\ req'[p] = req[p]
  BY ZenonT(30) DEF UdpInv, TypeOK, Write, SocketError, Returns
<1>3. TypeOK'
  BY <1>1, <1>2 DEF UdpInv, TypeOK, Write, Returns, listenVars
<1>4. SidInv' /\ Spaced' /\ CloseInv'
  BY ZenonT(30) DEF UdpInv, SidInv, Spaced, CloseInv, Write
<1>5. OwnNumber' /\ CellInv'
  BY <1>2 DEF UdpInv, OwnNumber, CellInv, Write
<1>6. SetInv'
  BY <1>2, ZenonT(30) DEF UdpInv, SetInv, Write
<1>7. SameSid'
  BY <1>2, ZenonT(30) DEF UdpInv, SameSid, Write, listenVars
<1>8. Accounted'
  BY <1>2 DEF UdpInv, Accounted, Write
<1> QED BY <1>3, <1>4, <1>5, <1>6, <1>7, <1>8, ZenonT(30) DEF UdpInv

\* The second look at the cell finds a channel of the same identifier.
LEMMA UdpSelect ==
  ASSUME UdpInv, NEW p \in Callers, Select(p)
  PROVE  UdpInv'
<1>1. /\ req[p] \in 1..nextReq /\ nextReq \in Nat /\ header[req[p]] \in Sids
      /\ resp[header[req[p]]] \in 0..nextReq /\ resp[header[req[p]]] # 0
  BY UdpAssumption, SMTT(30) DEF UdpInv, TypeOK, OwnNumber, SetInv, Select, Reqs
<1>2. TypeOK'
  BY <1>1, Zenon DEF UdpInv, TypeOK, Select, listenVars
<1>3. SidInv' /\ Spaced' /\ CloseInv'
  BY Zenon DEF UdpInv, SidInv, Spaced, CloseInv, Select
<1>4. OwnNumber' /\ Accounted'
  BY DEF UdpInv, TypeOK, OwnNumber, Accounted, Select
<1>5. CellInv' /\ SetInv'
  BY <1>1, ZenonT(30) DEF UdpInv, TypeOK, CellInv, SetInv, Select
<1>6. SameSid'
  BY <1>1 DEF UdpInv, TypeOK, CellInv, SameSid, Select, listenVars
<1> QED BY <1>2, <1>3, <1>4, <1>5, <1>6, ZenonT(30) DEF UdpInv

\* A command that times out has returned an error.
LEMMA UdpTimesOut ==
  ASSUME UdpInv, NEW p \in Callers, TimesOut(p)
  PROVE  UdpInv'
<1>1. req[p] \in 1..nextReq /\ nextReq \in Nat
  BY UdpAssumption DEF UdpInv, TypeOK, OwnNumber, TimesOut
<1>2. /\ callerPc'[p] = "idle" /\ gaveUp' = gaveUp \cup {req[p]}
      /\ \A q \in Callers : q # p =>
           callerPc'[q] = callerPc[q] /\ req'[q] = req[q] /\ waitCh'[q] = waitCh[q]
  BY Zenon DEF UdpInv, TypeOK, TimesOut, Returns
<1>3. TypeOK'
  <2>1. 0 \in 0..nextReq
    BY <1>1
  <2>2. gaveUp \subseteq 1..nextReq
    BY Zenon DEF UdpInv, TypeOK
  <2>3. gaveUp' \subseteq 1..nextReq
    BY <1>1, <1>2, <2>2, Zenon
  <2> QED BY <2>1, <2>3, Zenon DEF UdpInv, TypeOK, TimesOut, Returns, listenVars
<1>4. SidInv' /\ Spaced' /\ CloseInv'
  BY ZenonT(30) DEF UdpInv, SidInv, Spaced, CloseInv, TimesOut
<1>5. OwnNumber' /\ CellInv' /\ SetInv'
  BY <1>2, SMTT(30) DEF UdpInv, OwnNumber, CellInv, SetInv, TimesOut
<1>6. SameSid' /\ Accounted'
  BY <1>2 DEF UdpInv, SameSid, Accounted, TimesOut, listenVars
<1> QED BY <1>3, <1>4, <1>5, <1>6, ZenonT(30) DEF UdpInv

\* listenLoop finds a set cell for whatever it reads.
LEMMA UdpListenRead ==
  ASSUME UdpInv, NEW m \in Reqs, ListenRead(m)
  PROVE  UdpInv'
<1>1. /\ m \in 1..nextReq /\ nextReq \in Nat /\ header[m] \in Sids /\ net' \subseteq net
      /\ resp[header[m]] \in 0..nextReq /\ resp[header[m]] # 0
  BY UdpAssumption, SMTT(30) DEF UdpInv, TypeOK, SetInv, ListenRead
<1>2. TypeOK'
  BY <1>1 DEF UdpInv, TypeOK, ListenRead, callVars
<1>3. SidInv' /\ Spaced' /\ CloseInv' /\ OwnNumber' /\ Accounted' /\ CellInv'
  BY ZenonT(30) DEF UdpInv, SidInv, Spaced, CloseInv, OwnNumber, Accounted, CellInv, ListenRead,
         callVars
<1>4. SetInv'
  BY <1>1, Zenon DEF UdpInv, SetInv, ListenRead, callVars
<1>5. SameSid'
  <2>1. m # 0
    BY <1>1, SMT
  <2>2. header[resp[header[m]]] = header[m]
    BY <1>1, Zenon DEF UdpInv, CellInv
  <2> QED
    BY <1>1, <2>1, <2>2, Zenon DEF UdpInv, SameSid, ListenRead, callVars
<1> QED BY <1>2, <1>3, <1>4, <1>5, ZenonT(30) DEF UdpInv

\* The answer handed over and the command that takes it share an identifier.
LEMMA UdpDeliver ==
  ASSUME UdpInv, NEW p \in Callers, Deliver(p)
  PROVE  UdpInv'
<1>1. /\ req[p] \in 1..nextReq /\ req[p] \in Reqs /\ nextReq \in Nat
      /\ listenAns # 0 /\ listenAns \in 0..nextReq
      /\ header[listenAns] = header[req[p]]
  <2>1. req[p] \in 1..nextReq /\ nextReq \in 0..MaxRequests /\ listenAns \in 0..nextReq
    BY Zenon DEF UdpInv, TypeOK, OwnNumber, Deliver
  <2>2. listenAns # 0 /\ header[listenAns] = header[req[p]]
    BY Zenon DEF UdpInv, SameSid, Deliver
  <2> QED BY <2>1, <2>2, UdpAssumption DEF Reqs
<1>2. /\ callerPc'[p] = "idle"
      /\ \A q \in Callers : q # p =>
           callerPc'[q] = callerPc[q] /\ req'[q] = req[q] /\ waitCh'[q] = waitCh[q]
  BY ZenonT(30) DEF UdpInv, TypeOK, Deliver, Returns
<1>3. /\ reply'[req[p]] = listenAns
      /\ \A n \in Reqs : n # req[p] => reply'[n] = reply[n]
      /\ 1..nextReq \subseteq Reqs
  BY <1>1, UdpAssumption, SMTT(30) DEF UdpInv, TypeOK, Deliver, Reqs
<1>4. TypeOK'
  BY <1>1 DEF UdpInv, TypeOK, Deliver, Returns
<1>5. SidInv' /\ Spaced' /\ CloseInv'
  BY ZenonT(30) DEF UdpInv, SidInv, Spaced, CloseInv, Deliver
<1>6. OwnNumber' /\ CellInv' /\ SetInv'
  BY <1>2, SMTT(30) DEF UdpInv, OwnNumber, CellInv, SetInv, Deliver
<1>7. SameSid'
  BY <1>1, <1>2, <1>3, SMTT(30) DEF UdpInv, SameSid, Deliver
<1>8. Accounted'
  <2>1. nextReq' = nextReq /\ gaveUp' = gaveUp /\ reply'[req[p]] # 0
    BY <1>1, <1>3, Zenon DEF Deliver
  <2>2. ASSUME NEW n \in 1..nextReq, n # req[p]
        PROVE  n \in gaveUp \/ reply'[n] # 0 \/ \E q \in Callers : req'[q] = n /\ callerPc'[q] # "idle"
    <3>1. reply'[n] = reply[n]
      BY <1>3, <2>2, Zenon
    <3>2. n \in gaveUp \/ reply[n] # 0 \/ \E q \in Callers : req[q] = n /\ callerPc[q] # "idle"
      BY Zenon DEF UdpInv, Accounted
    <3> QED
      BY <1>2, <2>2, <3>1, <3>2, Zenon
  <2> QED
    BY <2>1, <2>2, Zenon DEF Accounted
<1> QED BY <1>4, <1>5, <1>6, <1>7, <1>8, Zenon DEF UdpInv

\* The read error, Close and the network leave commands and cells alone.
LEMMA UdpOther ==
  ASSUME UdpInv, ~fatal,
         ListenError \/ CloseFlag \/ CloseConn \/ \E m \in Reqs : Lose(m)
  PROVE  UdpInv'
<1>1. /\ UNCHANGED <<sid, resp, callVars, listenAns, listenCh>>
      /\ net' \subseteq net
      /\ listenPc' = listenPc \/ listenPc' = "dead"
      /\ closed' \in BOOLEAN /\ open' \in BOOLEAN /\ fatal' \in BOOLEAN
  BY Zenon DEF UdpInv, TypeOK, ListenError, SocketError, CloseFlag, CloseConn, Lose, listenVars
<1>2. CloseInv'
  BY DEF UdpInv, CloseInv, ListenError, CloseFlag, CloseConn, Lose
<1>3. TypeOK'
  BY <1>1, Zenon DEF UdpInv, TypeOK, callVars
<1>4. SidInv' /\ Spaced' /\ OwnNumber' /\ Accounted' /\ CellInv'
  BY <1>1, Zenon DEF UdpInv, SidInv, Spaced, OwnNumber, Accounted, CellInv, callVars
<1>5. SetInv' /\ SameSid'
  BY <1>1, Zenon DEF UdpInv, SetInv, SameSid, callVars
<1> QED BY <1>2, <1>3, <1>4, <1>5, Zenon DEF UdpInv

\* Every step preserves the invariant.
LEMMA UdpStep == UdpInv /\ [UdpNext]_udpVars => UdpInv'
<1> SUFFICES ASSUME UdpInv, [UdpNext]_udpVars PROVE UdpInv'
  BY Zenon
<1>1. CASE UNCHANGED udpVars
  <2>1. TypeOK' /\ SidInv' /\ Spaced' /\ OwnNumber'
    BY <1>1, Zenon DEF UdpInv, TypeOK, SidInv, Spaced, OwnNumber, udpVars, callVars, listenVars
  <2>2. CellInv' /\ SetInv' /\ SameSid'
    BY <1>1, Zenon DEF UdpInv, CellInv, SetInv, SameSid, udpVars, callVars, listenVars
  <2>3. Accounted' /\ CloseInv'
    BY <1>1, Zenon DEF UdpInv, Accounted, CloseInv, udpVars, callVars, listenVars
  <2> QED
    BY <2>1, <2>2, <2>3, Zenon DEF UdpInv
<1>2. CASE UdpNext
  <2>1. ASSUME NEW p \in Callers, SendCommand(p) PROVE UdpInv'
    BY <2>1, UdpIncrementSid, UdpMakeCell, UdpWrite, UdpSelect, UdpTimesOut, UdpDeliver, Zenon
       DEF SendCommand
  <2>2. ASSUME NEW m \in Reqs, ListenRead(m) PROVE UdpInv'
    BY <2>2, UdpListenRead, Zenon
  <2> QED BY <1>2, <2>1, <2>2, UdpOther, Zenon DEF UdpNext
<1> QED BY <1>1, <1>2, Zenon

\* The inductive invariant holds in every reachable state.
THEOREM UdpCorrect == UdpSpec => []UdpInv
BY UdpStarts, UdpStep, PTL DEF UdpSpec

\* Close never ends the process through log.Fatal in listenLoop.
THEOREM CloseNeverFatal == UdpSpec => []CloseIsPeaceful
<1>1. UdpInv => CloseIsPeaceful
  BY Zenon DEF UdpInv, CloseInv, CloseIsPeaceful
<1> QED BY <1>1, UdpCorrect, PTL

\* listenLoop never sends on a nil channel.
THEOREM CellsAreSet == UdpSpec => []NoUnsetCell
<1>1. UdpInv => NoUnsetCell
  BY Zenon DEF UdpInv, SameSid, NoUnsetCell
<1> QED BY <1>1, UdpCorrect, PTL

\* sendCommand returns the answer to its own command unless SidMod commands lie
\* between the two.
THEOREM UdpOwnResponse == UdpSpec => []OwnResponse
<1>1. UdpInv => OwnResponse
  <2> SUFFICES ASSUME UdpInv, NEW n \in Reqs, reply[n] # 0, reply[n] # n
               PROVE  reply[n] - n >= SidMod \/ n - reply[n] >= SidMod
    BY Zenon DEF OwnResponse
  <2>1. /\ n \in 1..nextReq /\ reply[n] \in 1..nextReq /\ nextReq \in Nat
        /\ header[reply[n]] = header[n]
    BY UdpAssumption DEF UdpInv, TypeOK, SameSid, Reqs
  <2> QED BY <2>1 DEF UdpInv, Spaced
<1> QED BY <1>1, UdpCorrect, PTL

\* The send of listenLoop has a receiver unless its command has returned or its
\* cell has been given to another command.
THEOREM UdpListenerHasPartner == UdpSpec => []ListenerHasPartner
<1>1. UdpInv => ListenerHasPartner
  <2> SUFFICES ASSUME UdpInv, listenPc = "send", resp[header[listenCh]] = listenCh,
                      listenCh \notin gaveUp, reply[listenCh] = 0
               PROVE  \E p \in Callers :
                        /\ req[p] = listenCh
                        /\ \/ callerPc[p] \in {"write", "select"}
                           \/ callerPc[p] = "wait" /\ waitCh[p] = listenCh
    BY ZenonT(30) DEF ListenerHasPartner
  <2>1. listenCh \in 1..nextReq /\ header[listenCh] \in Sids
    BY UdpAssumption, SMTT(30) DEF UdpInv, TypeOK, SameSid, Reqs
  <2>2. PICK p \in Callers : req[p] = listenCh /\ callerPc[p] # "idle"
    BY <2>1, Zenon DEF UdpInv, Accounted
  <2>3. callerPc[p] # "cell"
    BY <2>1, <2>2, Zenon DEF UdpInv, CellInv
  <2>4. callerPc[p] = "wait" => waitCh[p] = listenCh
    BY <2>2, Zenon DEF UdpInv, SameSid
  <2> QED BY <2>2, <2>3, <2>4, Zenon DEF UdpInv, TypeOK
<1> QED BY <1>1, UdpCorrect, PTL

=============================================================================

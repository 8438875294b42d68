---------------------------- MODULE MockPlcProofs ---------------------------
(***************************************************************************)
(* MockPlc implements the safety part of AtomicPlc, for any connections,   *)
(* tests, requests and sizes of the areas: requests that are copied item   *)
(* by item under the mutex take effect at once.                            *)
(***************************************************************************)
EXTENDS MockPlc, WellFoundedInduction, SequenceTheorems, TLAPS

-----------------------------------------------------------------------------
(* Induction over the items of a transfer.                                 *)

\* A set of naturals that is not empty has a least element.
LEMMA LeastNatural ==
  ASSUME NEW T \in SUBSET Nat, T # {}
  PROVE  \E x \in T : \A y \in T : x <= y
<1> DEFINE R == OpToRel(<, Nat)
<1>1. IsWellFoundedOn(R, Nat)
  BY NatLessThanWellFounded, Zenon
<1>2. \A x, y \in Nat : x < y => <<x, y>> \in R
  BY Zenon DEF OpToRel
<1> HIDE DEF R
<1>3. PICK x \in T : \A y \in T : ~(<<y, x>> \in R)
  BY <1>1, WFMin, Zenon
<1>4. \A y \in T : ~(y < x)
  BY <1>2, <1>3, Zenon
<1>5. \A y \in T : x <= y
  BY <1>4
<1> QED
  BY <1>5, Zenon

\* Induction on the naturals from k on, with the property given as a set.
LEMMA InductionFrom ==
  ASSUME NEW k \in Nat, NEW T, k \in T, \A n \in Nat : n >= k /\ n \in T => n + 1 \in T
  PROVE  \A n \in Nat : n >= k => n \in T
<1> DEFINE Bad == {n \in Nat : n >= k /\ n \notin T}
<1>1. SUFFICES ASSUME Bad # {} PROVE FALSE
  BY Zenon
<1>2. PICK x \in Bad : \A y \in Bad : x <= y
  BY <1>1, LeastNatural, Zenon
<1>3. x \in Nat /\ x > k /\ x \notin T
  BY <1>2
<1>4. x - 1 \in Nat /\ x - 1 >= k /\ (x - 1) + 1 = x /\ ~(x <= x - 1)
  BY <1>3
<1>5. x - 1 \in T
  BY <1>2, <1>4, Zenon
<1> QED
  BY <1>3, <1>4, <1>5, Zenon

\* f holds the memory m, and after it the memories in which one more of the
\* items up to n is stored.
Stores(f, m, t, data, i, n) ==
    f = [k \in i .. n |-> IF k = i THEN m ELSE Store(f[k - 1], t, k, data[k])]

\* There are such memories: writeMemory's loop is well defined.
LEMMA StoresExist ==
  ASSUME NEW m, NEW t, NEW data, NEW i \in Nat
  PROVE  \A n \in Nat : n >= i => \E f : Stores(f, m, t, data, i, n)
<1> DEFINE T == {n \in Nat : \E f : Stores(f, m, t, data, i, n)}
<1>1. i \in T
  <2> DEFINE f == [k \in i .. i |-> m]
  <2>1. \A k \in i .. i : k = i
    OBVIOUS
  <2>2. f = [k \in i .. i |-> IF k = i THEN m ELSE Store(f[k - 1], t, k, data[k])]
    <3> HIDE DEF f
    <3>1. f = [k \in i .. i |-> m]
      BY Zenon DEF f
    <3> QED
      BY <2>1, <3>1, Zenon
  <2> QED
    BY <2>2, Zenon DEF Stores
<1>2. ASSUME NEW n \in Nat, n >= i, n \in T PROVE n + 1 \in T
  <2>1. PICK f : Stores(f, m, t, data, i, n)
    BY <1>2, Zenon
  <2> DEFINE last == Store(f[n], t, n + 1, data[n + 1])
             g == [k \in i .. n + 1 |-> IF k = n + 1 THEN last ELSE f[k]]
  <2>2. ASSUME NEW k \in i .. n + 1
        PROVE  g[k] = IF k = i THEN m ELSE Store(g[k - 1], t, k, data[k])
    <3>1. CASE k = n + 1
      <4>1. g[k] = last /\ k # i /\ k - 1 = n /\ n \in i .. n + 1 /\ n # n + 1
        BY <1>2, <3>1
      <4>2. g[n] = f[n]
        BY <4>1, Zenon
      <4> HIDE DEF g
      <4> QED
        BY <3>1, <4>1, <4>2, Zenon
    <3>2. CASE k # n + 1
      <4>1. k \in i .. n /\ g[k] = f[k]
        BY <3>2
      <4>2. f[k] = IF k = i THEN m ELSE Store(f[k - 1], t, k, data[k])
        BY <2>1, <4>1, Zenon DEF Stores
      <4>3. k # i => k - 1 \in i .. n + 1 /\ k - 1 # n + 1
        BY <4>1
      <4>4. k # i => g[k - 1] = f[k - 1]
        BY <4>3, Zenon
      <4> HIDE DEF g
      <4> QED
        BY <4>1, <4>2, <4>4, Zenon
    <3> QED
      BY <3>1, <3>2, Zenon
  <2>3. g = [k \in i .. n + 1 |-> g[k]]
    BY Zenon
  <2> HIDE DEF g
  <2>4. Stores(g, m, t, data, i, n + 1)
    BY <2>2, <2>3, Zenon DEF Stores
  <2> QED
    BY <2>4, n + 1 \in Nat, Zenon
<1> HIDE DEF T
<1>3. \A n \in Nat : n >= i => n \in T
  BY <1>1, <1>2, InductionFrom, Zenon
<1> QED
  BY <1>3, Zenon DEF T

\* StoreFrom is the last of the memories that Stores describes.
LEMMA StoreFromStores ==
  ASSUME NEW m, NEW t, NEW data, NEW i \in Nat,
         StoredItems(t, data) \in Nat, i <= StoredItems(t, data)
  PROVE  \E f : /\ Stores(f, m, t, data, i, StoredItems(t, data))
                /\ StoreFrom(m, t, data, i) = f[StoredItems(t, data)]
<1> DEFINE n == StoredItems(t, data)
           h == CHOOSE f : Stores(f, m, t, data, i, n)
<1>1. \E f : Stores(f, m, t, data, i, n)
  BY StoresExist, Zenon
<1>2. Stores(h, m, t, data, i, n)
  BY <1>1, Zenon
<1>3. StoreFrom(m, t, data, i) = h[n]
  BY Zenon DEF StoreFrom, Stores
<1> QED
  BY <1>2, <1>3, Zenon

\* When every item is stored, nothing is left to do.
LEMMA StoreFromLast ==
  ASSUME NEW m, NEW t, NEW data, StoredItems(t, data) \in Nat
  PROVE  StoreFrom(m, t, data, StoredItems(t, data)) = m
<1> DEFINE n == StoredItems(t, data)
<1>1. PICK f : Stores(f, m, t, data, n, n) /\ StoreFrom(m, t, data, n) = f[n]
  BY StoreFromStores
<1>2. n \in n .. n
  OBVIOUS
<1> HIDE DEF n
<1>3. f[n] = m
  BY <1>1, <1>2, Zenon DEF Stores
<1> QED
  BY <1>1, <1>3, Zenon DEF n

\* The next item may be stored first and the others after it.
LEMMA StoreFromNext ==
  ASSUME NEW m, NEW t, NEW data, NEW i \in Nat,
         StoredItems(t, data) \in Nat, i < StoredItems(t, data)
  PROVE  StoreFrom(Store(m, t, i + 1, data[i + 1]), t, data, i + 1) = StoreFrom(m, t, data, i)
<1> DEFINE n == StoredItems(t, data)
           m1 == Store(m, t, i + 1, data[i + 1])
<1>1. PICK f : Stores(f, m, t, data, i, n) /\ StoreFrom(m, t, data, i) = f[n]
  BY StoreFromStores
<1>2. PICK g : Stores(g, m1, t, data, i + 1, n) /\ StoreFrom(m1, t, data, i + 1) = g[n]
  <2>1. i + 1 \in Nat /\ i + 1 <= n
    OBVIOUS
  <2> HIDE DEF m1
  <2> QED
    BY <2>1, StoreFromStores
<1>3. n \in Nat /\ i < n
  BY Zenon
<1> HIDE DEF n
<1> DEFINE T == {k \in Nat : k <= n => f[k] = g[k]}
<1>4. i + 1 \in T
  <2>1. i \in i .. n /\ i + 1 \in i .. n /\ i + 1 \in (i + 1) .. n /\ i + 1 # i /\ (i + 1) - 1 = i
    BY <1>3
  <2>2. f[i] = m
    BY <1>1, <2>1, Zenon DEF Stores
  <2>3. f[i + 1] = Store(f[(i + 1) - 1], t, i + 1, data[i + 1])
    BY <1>1, <2>1, Zenon DEF Stores
  <2>4. g[i + 1] = m1
    BY <1>2, <2>1, Zenon DEF Stores
  <2>5. f[i + 1] = g[i + 1]
    BY <2>1, <2>2, <2>3, <2>4, Zenon
  <2> QED
    BY <2>5
<1>5. ASSUME NEW k \in Nat, k >= i + 1, k \in T PROVE k + 1 \in T
  <2>1. SUFFICES ASSUME k + 1 <= n PROVE f[k + 1] = g[k + 1]
    OBVIOUS
  <2>2. k + 1 \in i .. n /\ k + 1 \in (i + 1) .. n /\ k + 1 # i /\ k + 1 # i + 1 /\ (k + 1) - 1 = k
    BY <1>3, <1>5, <2>1
  <2>3. f[k + 1] = Store(f[(k + 1) - 1], t, k + 1, data[k + 1])
    BY <1>1, <2>2, Zenon DEF Stores
  <2>4. g[k + 1] = Store(g[(k + 1) - 1], t, k + 1, data[k + 1])
    BY <1>2, <2>2, Zenon DEF Stores
  <2>5. f[k] = g[k]
    BY <1>3, <1>5, <2>1
  <2> QED
    BY <2>2, <2>3, <2>4, <2>5, Zenon
<1> HIDE DEF T
<1>6. \A k \in Nat : k >= i + 1 => k \in T
  <2>1. i + 1 \in Nat
    OBVIOUS
  <2> QED
    BY <1>4, <1>5, <2>1, InductionFrom, Zenon
<1>7. f[n] = g[n]
  BY <1>3, <1>6 DEF T
<1> QED
  BY <1>1, <1>2, <1>7, Zenon

-----------------------------------------------------------------------------
(* Reads: the items loaded so far, and those that are left.                *)

Loaded(m, t, n) == [i \in 1 .. n |-> Load(m, t, i)]

\* One more item.
LEMMA LoadedNext ==
  ASSUME NEW m, NEW t, NEW n \in Nat
  PROVE  Append(Loaded(m, t, n), Load(m, t, n + 1)) = Loaded(m, t, n + 1)
<1> DEFINE L(i) == Load(m, t, i)
<1> HIDE DEF L
<1>1. Append([i \in 1 .. n |-> L(i)], L(n + 1)) = [i \in 1 .. n + 1 |-> L(i)]
  OBVIOUS
<1> QED
  BY <1>1, Zenon DEF L, Loaded

\* The items that are loaded, followed by those that are not, are all of them.
LEMMA LoadedRest ==
  ASSUME NEW m, NEW t, NEW n \in Nat, NEW k \in 0 .. n
  PROVE  Loaded(m, t, k) \o SubSeq(Loaded(m, t, n), k + 1, n) = Loaded(m, t, n)
<1> DEFINE L(i) == Load(m, t, i)
<1> HIDE DEF L
<1>1. [i \in 1 .. k |-> L(i)] \o SubSeq([i \in 1 .. n |-> L(i)], k + 1, n) = [i \in 1 .. n |-> L(i)]
  OBVIOUS
<1> QED
  BY <1>1, Zenon DEF L, Loaded

-----------------------------------------------------------------------------
(* The inductive invariant.                                                *)

Labels == {"closed", "idle", "handle", "lock", "panicked", "copy", "reply"}
MemoryCommands == {"read", "write", "set", "get"}

Place(r) == Locate(r.at, r.count)
Asked(c, r) == r \in (IF c \in Conn THEN Request ELSE WordRequest)

\* What a client at label l with request r has copied, n items, and where.
Carries(c, l, r, n) ==
    /\ l \in {"handle", "lock", "panicked", "copy"} => Asked(c, r)
    /\ l \in {"handle", "lock"} => n = 0
    /\ l \in {"lock", "copy"} => r.cmd \in MemoryCommands
    /\ l = "lock" /\ c \in Test => Place(r).end = "NORMAL"
    /\ l = "copy" => Place(r).end = "NORMAL" /\ n <= Items(r)

\* The answer that is growing while a request is copied.
Growing(m, r, n) ==
    [end |-> "NORMAL", data |-> IF Writes(r) THEN <<>> ELSE Loaded(m, Place(r), n)]

\* The holder of the mutex, and nobody else, is copying or has panicked.
PlcInv ==
    /\ pc \in [Client -> Labels]
    /\ copied \in [Client -> Nat]
    /\ request = [c \in Client |-> request[c]]
    /\ answer = [c \in Client |-> answer[c]]
    /\ mu \in Client \cup {NoClient}
    /\ \A c \in Client :
        /\ Carries(c, pc[c], request[c], copied[c])
        /\ pc[c] \in {"copy", "panicked"} <=> mu = c
        /\ pc[c] = "copy" => answer[c] = Growing(mem, request[c], copied[c])

\* The numbers of items of a request are natural.
LEMMA ItemsNatural ==
  ASSUME NEW c \in Client, NEW r, Asked(c, r), r.cmd \in MemoryCommands
  PROVE  /\ Place(r).items \in Nat
         /\ Writes(r) => StoredItems(Place(r), r.data) \in Nat
         /\ Items(r) \in Nat
<1>1. r.count \in Nat /\ r.data \in Seq(Nat)
  <2>1. CASE r \in Request
    <3>1. r.cmd \in {"read", "write"}
      BY <2>1, RequestAssumption, Zenon DEF MemoryCommands
    <3> QED
      BY <2>1, <3>1, RequestAssumption, Zenon
  <2>2. CASE r \in WordRequest
    BY <2>2, RequestAssumption
  <2> QED
    BY <2>1, <2>2, Zenon DEF Asked
<1>2. Place(r).items \in Nat
  <2>1. Place(r).items \in {0, r.count, r.count * 2}
    BY Zenon DEF Place, Locate, Refused
  <2> QED
    BY <1>1, <2>1
<1>3. Len(r.data) \in Nat
  BY <1>1, LenProperties, Zenon
<1>4. StoredItems(Place(r), r.data) \in Nat
  BY <1>2, <1>3, Zenon DEF StoredItems
<1> QED
  BY <1>2, <1>4, Zenon DEF Items, Place

\* A step of one client keeps the invariant when the client's own state fits
\* and nobody else's mutex or memory is touched.
LEMMA ClientMoves ==
  ASSUME PlcInv, NEW c \in Client, NEW l \in Labels, NEW r, NEW n \in Nat, NEW a,
         pc' = [pc EXCEPT ![c] = l],
         request' = [request EXCEPT ![c] = r],
         copied' = [copied EXCEPT ![c] = n],
         answer' = [answer EXCEPT ![c] = a],
         Carries(c, l, r, n),
         l \in {"copy", "panicked"} <=> mu' = c,
         l = "copy" => a = Growing(mem', r, n),
         mu' \in Client \cup {NoClient},
         \A d \in Client : d # c => (mu = d <=> mu' = d),
         mem' = mem \/ mu = c
  PROVE  PlcInv'
<1>1. pc' \in [Client -> Labels] /\ copied' \in [Client -> Nat]
  BY Zenon DEF PlcInv
<1>2. request' = [d \in Client |-> request'[d]] /\ answer' = [d \in Client |-> answer'[d]]
  BY Zenon DEF PlcInv
<1>3. /\ pc'[c] = l /\ request'[c] = r /\ copied'[c] = n /\ answer'[c] = a
      /\ \A d \in Client : d # c => /\ pc'[d] = pc[d] /\ request'[d] = request[d]
                                    /\ copied'[d] = copied[d] /\ answer'[d] = answer[d]
  <2>1. /\ DOMAIN pc = Client /\ DOMAIN request = Client
        /\ DOMAIN copied = Client /\ DOMAIN answer = Client
    BY Zenon DEF PlcInv
  <2> QED
    BY <2>1, Zenon
<1>4. ASSUME NEW d \in Client, d # c
      PROVE  /\ Carries(d, pc'[d], request'[d], copied'[d])
             /\ pc'[d] \in {"copy", "panicked"} <=> mu' = d
             /\ pc'[d] = "copy" => answer'[d] = Growing(mem', request'[d], copied'[d])
  <2>1. /\ Carries(d, pc[d], request[d], copied[d])
        /\ pc[d] \in {"copy", "panicked"} <=> mu = d
        /\ pc[d] = "copy" => answer[d] = Growing(mem, request[d], copied[d])
    BY Zenon DEF PlcInv
  <2>2. mu = c => pc[d] # "copy"
    BY <1>4, <2>1, Zenon
  <2>3. pc[d] = "copy" => mem' = mem
    BY <2>2, Zenon
  <2> QED
    BY <1>3, <1>4, <2>1, <2>3, Zenon
<1>5. /\ Carries(c, pc'[c], request'[c], copied'[c])
      /\ pc'[c] \in {"copy", "panicked"} <=> mu' = c
      /\ pc'[c] = "copy" => answer'[c] = Growing(mem', request'[c], copied'[c])
  BY <1>3, Zenon
<1>6. \A d \in Client :
        /\ Carries(d, pc'[d], request'[d], copied'[d])
        /\ pc'[d] \in {"copy", "panicked"} <=> mu' = d
        /\ pc'[d] = "copy" => answer'[d] = Growing(mem', request'[d], copied'[d])
  BY <1>4, <1>5, Zenon
<1> QED
  BY <1>1, <1>2, <1>6, Zenon DEF PlcInv, Carries, Growing, NoClient, Place, Items, Asked, Writes

\* What a client leaves alone it may be said to set to what it was.
LEMMA Keeps ==
  ASSUME PlcInv, NEW c \in Client
  PROVE  /\ UNCHANGED request => request' = [request EXCEPT ![c] = request[c]]
         /\ UNCHANGED copied => copied' = [copied EXCEPT ![c] = copied[c]]
         /\ UNCHANGED answer => answer' = [answer EXCEPT ![c] = answer[c]]
         /\ UNCHANGED pc => pc' = [pc EXCEPT ![c] = pc[c]]
<1>1. request = [d \in Client |-> request[d]] /\ answer = [d \in Client |-> answer[d]]
  BY Zenon DEF PlcInv
<1>2. copied = [d \in Client |-> copied[d]] /\ pc = [d \in Client |-> pc[d]]
  BY Zenon DEF PlcInv
<1>3. ASSUME NEW f, f = [d \in Client |-> f[d]]
      PROVE  f = [f EXCEPT ![c] = f[c]]
  BY <1>3, Zenon
<1> QED
  BY <1>1, <1>2, <1>3, Zenon

\* Nobody is served by a new PLC.
LEMMA PlcInvInit == Init => PlcInv
<1> SUFFICES ASSUME Init PROVE PlcInv
  BY Zenon
<1>1. \A c \in Client : pc[c] \in {"closed", "idle"}
  BY Zenon DEF Init
<1>2. pc \in [Client -> Labels] /\ copied \in [Client -> Nat]
  BY Zenon DEF Init, Labels
<1>3. request = [c \in Client |-> request[c]] /\ answer = [c \in Client |-> answer[c]]
  BY Zenon DEF Init
<1>4. mu = NoClient /\ NoClient \notin Client
  BY ClientAssumption, Zenon DEF Init, NoClient, Client
<1>5. ASSUME NEW c \in Client
      PROVE  /\ Carries(c, pc[c], request[c], copied[c])
             /\ pc[c] \in {"copy", "panicked"} <=> mu = c
             /\ pc[c] = "copy" => answer[c] = Growing(mem, request[c], copied[c])
  BY <1>1, <1>4, Zenon DEF Carries
<1> QED
  BY <1>2, <1>3, <1>4, <1>5, Zenon DEF PlcInv

\* Steps that neither copy nor touch the mutex.
LEMMA ConnectionSteps ==
  ASSUME PlcInv, NEW c \in Client, Accept(c) \/ HangUp(c) \/ Reply(c)
  PROVE  PlcInv'
<1>1. PICK l \in {"idle", "closed"} : pc' = [pc EXCEPT ![c] = l]
  BY Zenon DEF Accept, HangUp, Reply, Goto
<1>2. UNCHANGED <<mem, mu, request, copied, answer>> /\ pc[c] \in {"closed", "idle", "reply"}
  BY Zenon DEF Accept, HangUp, Reply
<1>3. /\ l \in Labels /\ l \notin {"copy", "panicked"}
      /\ Carries(c, l, request[c], copied[c])
  BY Zenon DEF Labels, Carries
<1>4. /\ copied[c] \in Nat /\ mu' # c
      /\ mu' \in Client \cup {NoClient}
      /\ \A d \in Client : d # c => (mu = d <=> mu' = d)
  BY <1>2, Zenon DEF PlcInv
<1>5. /\ request' = [request EXCEPT ![c] = request[c]]
      /\ copied' = [copied EXCEPT ![c] = copied[c]]
      /\ answer' = [answer EXCEPT ![c] = answer[c]]
  BY <1>2, Keeps, Zenon
<1>6. mem' = mem /\ l # "copy" /\ (l \in {"copy", "panicked"} <=> mu' = c)
  BY <1>2, <1>3, <1>4, Zenon
<1> QED
  BY <1>1, <1>3, <1>4, <1>5, <1>6, ClientMoves, Zenon

\* A request arrives with its types.
LEMMA ArriveStep ==
  ASSUME PlcInv, NEW c \in Client, NEW r, Arrive(c, r)
  PROVE  PlcInv'
<1>1. /\ pc' = [pc EXCEPT ![c] = "handle"] /\ request' = [request EXCEPT ![c] = r]
      /\ copied' = [copied EXCEPT ![c] = 0] /\ answer' = [answer EXCEPT ![c] = None]
      /\ UNCHANGED <<mem, mu>> /\ pc[c] = "idle"
  BY Zenon DEF Arrive, Goto
<1>2. Carries(c, "handle", r, 0)
  BY Zenon DEF Carries, Arrive, Asked
<1>3. /\ mu' # c /\ mu' \in Client \cup {NoClient}
      /\ \A d \in Client : d # c => (mu = d <=> mu' = d)
  BY <1>1, Zenon DEF PlcInv
<1>4. "handle" \in Labels /\ 0 \in Nat
  BY Zenon DEF Labels
<1> QED
  BY <1>1, <1>2, <1>3, <1>4, ClientMoves, Zenon

\* handleRequest, SetWord and GetWord before the mutex.
LEMMA HandleStep ==
  ASSUME PlcInv, NEW c \in Client, handleRequest(c) \/ SetWordOrGetWord(c)
  PROVE  PlcInv'
<1>1. PICK l \in {"lock", "reply"} : pc' = [pc EXCEPT ![c] = l]
  BY Zenon DEF handleRequest, SetWordOrGetWord, Goto
<1>2. PICK a : answer' = [answer EXCEPT ![c] = a]
  BY Keeps, Zenon DEF handleRequest, SetWordOrGetWord, SetAnswer
<1>3. UNCHANGED <<mem, mu, request, copied>> /\ pc[c] = "handle"
  BY Zenon DEF handleRequest, SetWordOrGetWord
<1>4. Asked(c, request[c]) /\ copied[c] = 0 /\ copied[c] \in Nat
  BY <1>3, Zenon DEF PlcInv, Carries
<1>5. pc'[c] = l
  BY <1>1, Zenon DEF PlcInv
<1>6. Carries(c, l, request[c], copied[c])
  <2>1. CASE l = "reply"
    BY <2>1, Zenon DEF Carries
  <2>2. CASE l = "lock" /\ handleRequest(c)
    <3>1. request[c].cmd \in {"read", "write"} /\ c \notin Test
      <4>1. c \in Conn /\ c \notin Test
        BY <2>2, ClientAssumption, Zenon DEF handleRequest
      <4>2. pc' # [pc EXCEPT ![c] = "reply"]
        BY <1>5, <2>2, Zenon DEF PlcInv
      <4> QED
        BY <2>2, <4>1, <4>2, Zenon DEF handleRequest, Goto
    <3> QED
      BY <1>4, <2>2, <3>1, Zenon DEF Carries, MemoryCommands
  <2>3. CASE l = "lock" /\ SetWordOrGetWord(c)
    <3>1. c \in Test /\ c \notin Conn
      BY <2>3, ClientAssumption, Zenon DEF SetWordOrGetWord
    <3>2. request[c] \in WordRequest
      BY <1>4, <3>1, Zenon DEF Asked
    <3>3. request[c].cmd \in {"set", "get"} /\ request[c].count = 1
      BY <3>2, RequestAssumption, Zenon
    <3>4. pc' # [pc EXCEPT ![c] = "reply"]
      BY <1>5, <2>3, Zenon DEF PlcInv
    <3>5. Locate(request[c].at, 1).end = "NORMAL"
      BY <2>3, <3>4, Zenon DEF SetWordOrGetWord, Goto
    <3> QED
      BY <1>4, <2>3, <3>3, <3>5, Zenon DEF Carries, MemoryCommands, Place
  <2> QED
    BY <2>1, <2>2, <2>3, Zenon
<1>7. /\ mu' # c /\ mu' \in Client \cup {NoClient}
      /\ \A d \in Client : d # c => (mu = d <=> mu' = d)
  BY <1>3, Zenon DEF PlcInv
<1>8. l \in Labels /\ l \notin {"copy", "panicked"}
  BY Zenon DEF Labels
<1>9. /\ request' = [request EXCEPT ![c] = request[c]]
      /\ copied' = [copied EXCEPT ![c] = copied[c]]
  BY <1>3, Keeps, Zenon
<1> QED
  BY <1>1, <1>2, <1>3, <1>4, <1>6, <1>7, <1>8, <1>9, ClientMoves, Zenon

\* The mutex is free when it is taken, and nothing has been copied.
LEMMA LockStep ==
  ASSUME PlcInv, NEW c \in Client, Lock(c)
  PROVE  PlcInv'
<1> DEFINE r == request[c]
<1>1. pc[c] = "lock" /\ mu = NoClient /\ UNCHANGED <<mem, request, copied>>
  BY Zenon DEF Lock
<1>2. /\ request' = [request EXCEPT ![c] = r]
      /\ copied' = [copied EXCEPT ![c] = copied[c]]
  BY <1>1, Keeps, Zenon
<1>3. /\ Asked(c, r) /\ copied[c] = 0 /\ copied[c] \in Nat /\ r.cmd \in MemoryCommands
  BY <1>1, Zenon DEF PlcInv, Carries
<1>4. Items(r) \in Nat
  BY <1>3, ItemsNatural, Zenon
<1>5. NoClient \notin Client
  BY ClientAssumption, Zenon DEF NoClient, Client
<1>6. CASE Place(r).end # "NORMAL"
  <2>1. /\ pc' = [pc EXCEPT ![c] = "reply"] /\ UNCHANGED mu
        /\ answer' = [answer EXCEPT ![c] = [end |-> Place(r).end, data |-> <<>>]]
    BY <1>6, Zenon DEF Lock, Place, Goto, SetAnswer
  <2>2. Carries(c, "reply", r, copied[c]) /\ "reply" \in Labels
    BY Zenon DEF Carries, Labels
  <2>3. mu' # c /\ mu' \in Client \cup {NoClient}
    BY <1>1, <1>5, <2>1, Zenon
  <2>4. \A d \in Client : d # c => (mu = d <=> mu' = d)
    BY <2>1, Zenon
  <2> HIDE DEF r
  <2> QED
    BY <1>1, <1>2, <1>3, <2>1, <2>2, <2>3, <2>4, ClientMoves, Zenon
<1>7. CASE Place(r).end = "NORMAL"
  <2>1. mu' = c
    BY <1>7, Zenon DEF Lock, Place
  <2>2. \A d \in Client : d # c => (mu = d <=> mu' = d)
    BY <1>1, <1>5, <2>1, Zenon
  <2>3. CASE SliceOutOfRange(c)
    <3>1. pc' = [pc EXCEPT ![c] = "panicked"] /\ UNCHANGED answer
      BY <1>7, <2>3, Zenon DEF Lock, Place, Goto
    <3>2. answer' = [answer EXCEPT ![c] = answer[c]]
      BY <3>1, Keeps, Zenon
    <3>3. Carries(c, "panicked", r, copied[c]) /\ "panicked" \in Labels
      BY <1>3, Zenon DEF Carries, Labels
    <3> HIDE DEF r
    <3> QED
      BY <1>1, <1>2, <1>3, <2>1, <2>2, <3>1, <3>2, <3>3, ClientMoves, Zenon
  <2>4. CASE ~SliceOutOfRange(c)
    <3>1. /\ pc' = [pc EXCEPT ![c] = "copy"]
          /\ answer' = [answer EXCEPT ![c] = [end |-> "NORMAL", data |-> <<>>]]
      BY <1>7, <2>4, Zenon DEF Lock, Place, Goto, SetAnswer
    <3>2. Carries(c, "copy", r, copied[c]) /\ "copy" \in Labels
      BY <1>3, <1>4, <1>7 DEF Carries, Labels
    <3>3. Growing(mem', r, copied[c]) = [end |-> "NORMAL", data |-> <<>>]
      <4>1. Loaded(mem', Place(r), 0) = <<>>
        BY DEF Loaded
      <4> QED
        BY <1>3, <4>1, Zenon DEF Growing
    <3> HIDE DEF r
    <3> QED
      BY <1>1, <1>2, <1>3, <2>1, <2>2, <3>1, <3>2, <3>3, ClientMoves, Zenon
  <2> QED
    BY <2>3, <2>4, Zenon
<1> QED
  BY <1>6, <1>7, Zenon

\* One item is copied, by the holder of the mutex.
LEMMA CopyStep ==
  ASSUME PlcInv, NEW c \in Client, Copy(c)
  PROVE  PlcInv'
<1> DEFINE r == request[c]
           n == copied[c] + 1
<1>1. /\ pc[c] = "copy" /\ UNCHANGED <<mu, pc, request>>
      /\ copied[c] < Items(r) /\ copied' = [copied EXCEPT ![c] = n]
  BY Zenon DEF Copy, PlcInv
<1>2. request' = [request EXCEPT ![c] = r] /\ pc' = [pc EXCEPT ![c] = "copy"]
  BY <1>1, Keeps, Zenon
<1>3. /\ Carries(c, "copy", r, copied[c]) /\ copied[c] \in Nat /\ mu = c
      /\ answer[c] = Growing(mem, r, copied[c])
  BY <1>1, Zenon DEF PlcInv
<1>4. Items(r) \in Nat
  BY <1>3, ItemsNatural, Zenon DEF Carries
<1>5. Carries(c, "copy", r, n) /\ n \in Nat /\ "copy" \in Labels
  BY <1>1, <1>3, <1>4 DEF Carries, Labels
<1>6. /\ mu' = c /\ mu' \in Client \cup {NoClient}
      /\ \A d \in Client : d # c => (mu = d <=> mu' = d)
  BY <1>1, <1>3, Zenon
<1>7. CASE Writes(r)
  <2>1. answer' = [answer EXCEPT ![c] = answer[c]]
    BY <1>7, Keeps, Zenon DEF Copy
  <2>2. answer[c] = Growing(mem', r, n)
    BY <1>3, <1>7, Zenon DEF Growing
  <2> HIDE DEF r, n
  <2> QED
    BY <1>2, <1>1, <1>3, <1>5, <1>6, <2>1, <2>2, ClientMoves, Zenon
<1>8. CASE ~Writes(r)
  <2>1. /\ answer' = [answer EXCEPT ![c].data = Append(@, Load(mem, Place(r), n))]
        /\ mem' = mem
    BY <1>8, Zenon DEF Copy, Place
  <2>2. answer[c] = [end |-> "NORMAL", data |-> Loaded(mem, Place(r), copied[c])]
    BY <1>3, <1>8, Zenon DEF Growing
  <2>3. Growing(mem', r, n) =
          [end |-> "NORMAL", data |-> Append(Loaded(mem, Place(r), copied[c]), Load(mem, Place(r), n))]
    BY <1>3, <1>8, <2>1, LoadedNext, Zenon DEF Growing
  <2>4. answer' = [answer EXCEPT ![c] = Growing(mem', r, n)]
    <3> DEFINE L == Loaded(mem, Place(r), copied[c])
               x == Load(mem, Place(r), n)
    <3> HIDE DEF L, x
    <3>1. [answer[c] EXCEPT !.data = Append(@, x)] = [end |-> "NORMAL", data |-> Append(L, x)]
      BY <2>2, SMTT(30) DEF L
    <3>2. answer' = [answer EXCEPT ![c] = [answer[c] EXCEPT !.data = Append(@, x)]]
      BY <2>1, Zenon DEF PlcInv, x
    <3> QED
      BY <2>3, <3>1, <3>2, Zenon DEF L, x
  <2> HIDE DEF r, n
  <2> QED
    BY <1>2, <1>1, <1>3, <1>5, <1>6, <2>1, <2>4, ClientMoves, Zenon
<1> QED
  BY <1>7, <1>8, Zenon

\* The mutex is given back when everything has been copied.
LEMMA UnlockStep ==
  ASSUME PlcInv, NEW c \in Client, Unlock(c)
  PROVE  PlcInv'
<1>1. /\ pc[c] = "copy" /\ pc' = [pc EXCEPT ![c] = "reply"] /\ mu' = NoClient
      /\ UNCHANGED <<mem, request, copied, answer>>
  BY Zenon DEF Unlock, Goto
<1>2. /\ request' = [request EXCEPT ![c] = request[c]]
      /\ copied' = [copied EXCEPT ![c] = copied[c]]
      /\ answer' = [answer EXCEPT ![c] = answer[c]]
  BY <1>1, Keeps, Zenon
<1>3. mu = c /\ copied[c] \in Nat
  BY <1>1, Zenon DEF PlcInv
<1>4. Carries(c, "reply", request[c], copied[c]) /\ "reply" \in Labels
  BY Zenon DEF Carries, Labels
<1>5. NoClient \notin Client
  BY ClientAssumption, Zenon DEF NoClient, Client
<1>6. \A d \in Client : d # c => (mu = d <=> mu' = d)
  BY <1>1, <1>3, <1>5, Zenon
<1>7. mu' # c /\ mu' \in Client \cup {NoClient} /\ mem' = mem
  BY <1>1, <1>5, Zenon
<1> QED
  BY <1>1, <1>2, <1>3, <1>4, <1>6, <1>7, ClientMoves, Zenon

\* The invariant does not depend on closed.
LEMMA QuietStep ==
  ASSUME PlcInv, UNCHANGED <<mem, mu, pc, request, copied, answer>>
  PROVE  PlcInv'
BY ZenonT(30) DEF PlcInv, Carries, Growing, NoClient, Place, Items, Asked, Writes

\* Every step keeps the invariant.
LEMMA PlcInvStep == PlcInv /\ [Next]_vars => PlcInv'
<1> SUFFICES ASSUME PlcInv, [Next]_vars PROVE PlcInv'
  BY Zenon
<1>1. CASE Close \/ UNCHANGED vars
  <2>1. UNCHANGED <<mem, mu, pc, request, copied, answer>>
    BY <1>1, Zenon DEF Close, vars
  <2> QED
    BY <2>1, QuietStep, Zenon
<1>2. ASSUME NEW c \in Client,
             \/ Accept(c) \/ HangUp(c) \/ Lock(c) \/ Work(c)
             \/ \E r \in Request \cup WordRequest : Arrive(c, r)
      PROVE  PlcInv'
  BY <1>2, ConnectionSteps, ArriveStep, HandleStep, LockStep, CopyStep, UnlockStep, Zenon DEF Work
<1> QED
  BY <1>1, <1>2, Zenon DEF Next

-----------------------------------------------------------------------------
(* What a client of AtomicPlc sees.                                        *)

StatusOf(l) ==
    CASE l \in {"closed", "idle"} -> "idle"
      [] l \in {"handle", "lock", "panicked"} -> "pending"
      [] l \in {"copy", "reply"} -> "done"

\* The answer of a request that is being copied, once it is copied.
Outcome(m, r) == Growing(m, r, Items(r))

\* The answer that AtomicPlc sees: while a request is copied, the whole of it.
LEMMA WholeAnswers ==
  ASSUME PlcInv, NEW c \in Client
  PROVE  WholeAnswer(c) = IF pc[c] = "copy" THEN Outcome(mem, request[c]) ELSE answer[c]
<1> DEFINE r == request[c]
           t == Place(r)
<1>1. SUFFICES ASSUME pc[c] = "copy" PROVE WholeAnswer(c) = Outcome(mem, r)
  BY Zenon DEF WholeAnswer
<1>2. /\ Carries(c, "copy", r, copied[c]) /\ copied[c] \in Nat
      /\ answer[c] = Growing(mem, r, copied[c])
  BY <1>1, Zenon DEF PlcInv
<1>3. CASE Writes(r)
  BY <1>2, <1>3, Zenon DEF WholeAnswer, Outcome, Growing
<1>4. CASE ~Writes(r)
  <2>1. Items(r) = t.items /\ Items(r) \in Nat /\ copied[c] \in 0 .. Items(r)
    BY <1>2, <1>4, ItemsNatural DEF Carries, Items, Place
  <2>2. readMemory(mem, r.at, r.count).data = Loaded(mem, t, Items(r))
    BY <2>1, Zenon DEF readMemory, Loaded, Place
  <2>3. answer[c] = [end |-> "NORMAL", data |-> Loaded(mem, t, copied[c])]
    BY <1>2, <1>4, Zenon DEF Growing
  <2>4. WholeAnswer(c) = [answer[c] EXCEPT !.data =
            @ \o SubSeq(Loaded(mem, t, Items(r)), copied[c] + 1, Items(r))]
    BY <1>1, <1>4, <2>2, Zenon DEF WholeAnswer
  <2> DEFINE L == Loaded(mem, t, copied[c])
             S == SubSeq(Loaded(mem, t, Items(r)), copied[c] + 1, Items(r))
  <2>5. L \o S = Loaded(mem, t, Items(r))
    BY <2>1, LoadedRest, Zenon
  <2> HIDE DEF L, S
  <2>6. WholeAnswer(c) = [end |-> "NORMAL", data |-> L \o S]
    <3>1. ASSUME NEW a, a = [end |-> "NORMAL", data |-> L]
          PROVE  [a EXCEPT !.data = @ \o S] = [end |-> "NORMAL", data |-> L \o S]
      BY <3>1, SMTT(30)
    <3> QED
      BY <2>3, <2>4, <3>1, Zenon DEF L, S
  <2> QED
    BY <1>4, <2>5, <2>6, Zenon DEF Outcome, Growing
<1> QED
  BY <1>3, <1>4, Zenon

-----------------------------------------------------------------------------
(* What a request does at once.                                            *)

\* Effect stores the data of an accepted write, and nothing else.
LEMMA EffectOf ==
  ASSUME NEW m, NEW r
  PROVE  Effect(m, r) = IF Writes(r) /\ Place(r).end = "NORMAL"
                               THEN StoreFrom(m, Place(r), r.data, 0) ELSE m
<1>1. Effect(m, r) = IF Writes(r) THEN writeMemory(m, r.at, r.count, r.data).mem ELSE m
  BY Zenon DEF Effect, Writes
<1>2. writeMemory(m, r.at, r.count, r.data).mem =
        IF Place(r).end = "NORMAL" THEN StoreFrom(m, Place(r), r.data, 0) ELSE m
  BY Zenon DEF writeMemory, Place
<1> QED
  BY <1>1, <1>2, Zenon

\* The answer AtomicPlc gives to a request whose range is accepted.
LEMMA AnswerAccepted ==
  ASSUME NEW c \in Client, NEW m, NEW r, Asked(c, r), r.cmd \in MemoryCommands,
         Place(r).end = "NORMAL"
  PROVE  AnswerTo(m, r) = Outcome(m, r)
<1>1. CASE Writes(r)
  <2>1. Outcome(m, r) = [end |-> "NORMAL", data |-> <<>>]
    BY <1>1, Zenon DEF Outcome, Growing
  <2>2. writeMemory(m, r.at, r.count, r.data).end = "NORMAL"
    BY Zenon DEF writeMemory, Place
  <2>3. r.cmd \in {"write", "set"}
    BY <1>1, Zenon DEF Writes
  <2>4. CASE r.cmd = "write"
    <3>1. AnswerTo(m, r) =
            [end |-> writeMemory(m, r.at, r.count, r.data).end, data |-> <<>>]
      BY <2>4, Zenon DEF AnswerTo
    <3> QED
      BY <2>1, <2>2, <3>1, Zenon
  <2>5. CASE r.cmd = "set"
    BY <2>1, <2>5, Zenon DEF AnswerTo
  <2> QED
    BY <2>3, <2>4, <2>5, Zenon
<1>2. CASE ~Writes(r)
  <2>1. Outcome(m, r) = [end |-> "NORMAL", data |-> Loaded(m, Place(r), Place(r).items)]
    BY <1>2, Zenon DEF Outcome, Growing, Items, Place
  <2>2. readMemory(m, r.at, r.count) =
          [end |-> "NORMAL", data |-> Loaded(m, Place(r), Place(r).items)]
    BY Zenon DEF readMemory, Loaded, Place
  <2>3. r.cmd \in {"read", "get"}
    BY <1>2, Zenon DEF Writes, MemoryCommands
  <2>4. CASE r.cmd = "read"
    <3>1. AnswerTo(m, r) = readMemory(m, r.at, r.count)
      BY <2>4, Zenon DEF AnswerTo
    <3> QED
      BY <2>1, <2>2, <3>1, Zenon
  <2>5. CASE r.cmd = "get"
    <3>1. r.count = 1
      BY <2>5, RequestAssumption, Zenon DEF Asked
    <3>2. AnswerTo(m, r) =
            [end |-> "NORMAL", data |-> IF readMemory(m, r.at, 1).end = "NORMAL"
                                        THEN readMemory(m, r.at, 1).data ELSE <<0, 0>>]
      BY <2>5, Zenon DEF AnswerTo
    <3>3. readMemory(m, r.at, 1) =
            [end |-> "NORMAL", data |-> Loaded(m, Place(r), Place(r).items)]
      BY <2>2, <3>1, Zenon
    <3>4. /\ readMemory(m, r.at, 1).end = "NORMAL"
          /\ readMemory(m, r.at, 1).data = Loaded(m, Place(r), Place(r).items)
      BY <3>3
    <3> QED
      BY <2>1, <3>2, <3>4, Zenon
  <2> QED
    BY <2>3, <2>4, <2>5, Zenon
<1> QED
  BY <1>1, <1>2, Zenon

\* The answer it gives to one whose range is refused.
LEMMA AnswerRefused ==
  ASSUME NEW m, NEW r, Place(r).end # "NORMAL"
  PROVE  /\ r.cmd \in {"read", "write"} =>
             AnswerTo(m, r) = [end |-> Place(r).end, data |-> <<>>]
         /\ r.count = 1 /\ r.cmd \in {"set", "get"} =>
             AnswerTo(m, r) =
                 [end |-> "NORMAL", data |-> IF r.cmd = "get" THEN <<0, 0>> ELSE <<>>]
<1>1. Place(r).items = 0
  BY Zenon DEF Place, Locate, Refused
<1>2. readMemory(m, r.at, r.count) = [end |-> Place(r).end, data |-> <<>>]
  <2>1. Loaded(m, Place(r), 0) = <<>>
    BY DEF Loaded
  <2>2. readMemory(m, r.at, r.count) = [end |-> Place(r).end, data |-> Loaded(m, Place(r), 0)]
    BY <1>1, Zenon DEF readMemory, Loaded, Place
  <2> QED
    BY <2>1, <2>2, Zenon
<1>3. writeMemory(m, r.at, r.count, r.data).end = Place(r).end
  BY Zenon DEF writeMemory, Place
<1>4. CASE r.cmd = "read"
  <2>1. AnswerTo(m, r) = readMemory(m, r.at, r.count)
    BY <1>4, Zenon DEF AnswerTo
  <2> QED
    BY <1>2, <1>4, <2>1, Zenon
<1>5. CASE r.cmd = "write"
  <2>1. AnswerTo(m, r) =
          [end |-> writeMemory(m, r.at, r.count, r.data).end, data |-> <<>>]
    BY <1>5, Zenon DEF AnswerTo
  <2> QED
    BY <1>3, <1>5, <2>1, Zenon
<1>6. CASE r.cmd = "set"
  BY <1>6, Zenon DEF AnswerTo
<1>7. CASE r.cmd = "get"
  <2>1. AnswerTo(m, r) =
          [end |-> "NORMAL", data |-> IF readMemory(m, r.at, 1).end = "NORMAL"
                                      THEN readMemory(m, r.at, 1).data ELSE <<0, 0>>]
    BY <1>7, Zenon DEF AnswerTo
  <2>2. r.count = 1 => readMemory(m, r.at, 1).end # "NORMAL"
    BY <1>2
  <2> QED
    BY <1>7, <2>1, <2>2, Zenon
<1> QED
  BY <1>4, <1>5, <1>6, <1>7, Zenon

\* The answer to a request that is not for the memory.
LEMMA AnswerOther ==
  ASSUME NEW m, NEW r
  PROVE  /\ r.cmd = "status" => AnswerTo(m, r) = [end |-> "NORMAL", data |-> <<0, 0>>]
         /\ r.cmd = "short" => AnswerTo(m, r) = [end |-> "CMD_TOO_SHORT", data |-> <<>>]
         /\ r.cmd = "unknown" => AnswerTo(m, r) = [end |-> "UNDEFINED_CMD", data |-> <<>>]
BY Zenon DEF AnswerTo

-----------------------------------------------------------------------------
(* The variables of AtomicPlc along a step.                                *)

Statuses == [c \in Client |-> Status(c)]
Answers == [c \in Client |-> WholeAnswer(c)]

\* The answers seen before and after a step.
LEMMA AnswersSeen ==
  PlcInv => \A c \in Client :
              WholeAnswer(c) = IF pc[c] = "copy" THEN Outcome(mem, request[c]) ELSE answer[c]
BY WholeAnswers, Zenon

\* AnswersSeen in the next state.
LEMMA AnswersSeenNext ==
  PlcInv' => \A c \in Client :
               WholeAnswer(c)' =
                   IF pc'[c] = "copy" THEN Outcome(mem, request[c])' ELSE answer'[c]
<1>1. (PlcInv => \A c \in Client :
              WholeAnswer(c) = IF pc[c] = "copy" THEN Outcome(mem, request[c]) ELSE answer[c])'
  BY AnswersSeen, PTL
<1> QED
  BY <1>1, Zenon

\* What client c has after a step: its label, request, items and answer.
Becomes(c, l, r, n, a) ==
    /\ pc' = [pc EXCEPT ![c] = l]
    /\ request' = [request EXCEPT ![c] = r]
    /\ copied' = [copied EXCEPT ![c] = n]
    /\ answer' = [answer EXCEPT ![c] = a]

\* What is seen of it after the step.
Seen(c, s, w) ==
    /\ Statuses' = [Statuses EXCEPT ![c] = s]
    /\ Answers' = [Answers EXCEPT ![c] = w]

\* A step of one client changes what is seen of that client only.
LEMMA OneSeen ==
  ASSUME PlcInv, PlcInv', NEW c \in Client, NEW l \in Labels, NEW r, NEW n, NEW a, NEW w,
         Becomes(c, l, r, n, a),
         mem' = mem \/ mu = c,
         l = "copy" => w = Outcome(mem', r),
         l # "copy" => w = a
  PROVE  Seen(c, StatusOf(l), w)
<1>1. /\ pc'[c] = l /\ request'[c] = r /\ answer'[c] = a
      /\ \A d \in Client : d # c => pc'[d] = pc[d] /\ request'[d] = request[d] /\ answer'[d] = answer[d]
  <2>1. DOMAIN pc = Client /\ DOMAIN request = Client /\ DOMAIN answer = Client
    BY Zenon DEF PlcInv
  <2> QED
    BY <2>1, Zenon DEF Becomes
<1>2. \A d \in Client : Status(d) = StatusOf(pc[d]) /\ Status(d)' = StatusOf(pc'[d])
  BY Zenon DEF Status, StatusOf
<1>3. Statuses' = [Statuses EXCEPT ![c] = StatusOf(l)]
  <2>1. Statuses' = [d \in Client |-> StatusOf(pc'[d])] /\ Statuses = [d \in Client |-> StatusOf(pc[d])]
    BY <1>2, Zenon DEF Statuses
  <2>2. \A d \in Client : StatusOf(pc'[d]) = IF d = c THEN StatusOf(l) ELSE StatusOf(pc[d])
    BY <1>1, Zenon
  <2> QED
    BY <2>1, <2>2, Zenon
<1>4. ASSUME NEW d \in Client
      PROVE  WholeAnswer(d)' = IF d = c THEN w ELSE WholeAnswer(d)
  <2>1. WholeAnswer(d)' = IF pc'[d] = "copy" THEN Outcome(mem, request[d])' ELSE answer'[d]
    BY AnswersSeenNext, Zenon
  <2>2. Outcome(mem, request[d])' = Outcome(mem', request'[d])
    BY Zenon DEF Outcome, Growing, Place, Items, Writes
  <2>3. CASE d = c
    BY <1>1, <2>1, <2>2, <2>3, Zenon
  <2>4. CASE d # c
    <3>1. WholeAnswer(d) = IF pc[d] = "copy" THEN Outcome(mem, request[d]) ELSE answer[d]
      BY AnswersSeen, Zenon
    <3>2. pc[d] = "copy" => mu = d
      BY Zenon DEF PlcInv
    <3>3. pc[d] = "copy" => mem' = mem
      BY <2>4, <3>2, Zenon
    <3> QED
      BY <1>1, <2>1, <2>2, <2>4, <3>1, <3>3, Zenon
  <2> QED
    BY <2>3, <2>4, Zenon
<1>5. Answers' = [Answers EXCEPT ![c] = w]
  <2>1. Answers' = [d \in Client |-> WholeAnswer(d)'] /\ Answers = [d \in Client |-> WholeAnswer(d)]
    BY Zenon DEF Answers
  <2> QED
    BY <1>4, <2>1, Zenon
<1> QED
  BY <1>3, <1>5, Zenon DEF Seen

\* The memory seen while nobody, or c, holds the mutex.
LEMMA MemorySeen ==
  PlcInv =>
    /\ mu = NoClient => WholeMem = mem
    /\ \A c \in Client : mu = c =>
         WholeMem = IF pc[c] = "copy" /\ Writes(request[c])
                    THEN StoreFrom(mem, Place(request[c]), request[c].data, copied[c]) ELSE mem
<1>1. \A c \in Client : c # NoClient
  BY ClientAssumption, Zenon DEF NoClient, Client
<1> QED
  BY <1>1, Zenon DEF WholeMem, Place

\* MemorySeen in the next state.
LEMMA MemorySeenNext ==
  PlcInv' =>
    /\ mu' = NoClient => WholeMem' = mem'
    /\ \A c \in Client : mu' = c =>
         WholeMem' = IF pc'[c] = "copy" /\ Writes(request'[c])
                     THEN StoreFrom(mem', Place(request'[c]), request'[c].data, copied'[c])
                     ELSE mem'
<1>1. (PlcInv =>
         /\ mu = NoClient => WholeMem = mem
         /\ \A c \in Client : mu = c =>
              WholeMem = IF pc[c] = "copy" /\ Writes(request[c])
                         THEN StoreFrom(mem, Place(request[c]), request[c].data, copied[c])
                         ELSE mem)'
  BY MemorySeen, PTL
<1> QED
  BY <1>1, Zenon

\* A client without the mutex does not change it.
LEMMA MemoryStays ==
  ASSUME PlcInv, NEW c \in Client, NEW l, NEW r, NEW n, NEW a, Becomes(c, l, r, n, a),
         mu # c, UNCHANGED <<mem, mu>>
  PROVE  WholeMem' = WholeMem
<1>1. CASE mu = NoClient
  BY <1>1, Zenon DEF WholeMem, NoClient
<1>2. CASE mu \in Client
  <2>1. DOMAIN pc = Client /\ DOMAIN request = Client /\ DOMAIN copied = Client
    BY Zenon DEF PlcInv
  <2>2. pc'[mu] = pc[mu] /\ request'[mu] = request[mu] /\ copied'[mu] = copied[mu]
    BY <1>2, <2>1, Zenon DEF Becomes
  <2>3. mu' = mu /\ mem' = mem
    BY Zenon
  <2> QED
    BY <2>2, <2>3, Zenon DEF WholeMem
<1> QED
  BY <1>1, <1>2, Zenon DEF PlcInv

-----------------------------------------------------------------------------
(* Every step is one of AtomicPlc, or changes nothing that it sees.        *)

\* The arrival of a request is the abstract Ask.
LEMMA AskSeen ==
  ASSUME PlcInv, PlcInv', NEW c \in Client, NEW r \in Request \cup WordRequest, Arrive(c, r)
  PROVE  Atomic!Ask(c, r)
<1>1. /\ pc[c] = "idle" /\ mem' = mem /\ mu' = mu
      /\ Becomes(c, "handle", r, 0, None) /\ request' = [request EXCEPT ![c] = r]
  BY Zenon DEF Arrive, Goto, Becomes
<1>2. mu # c
  BY <1>1, Zenon DEF PlcInv
<1>3. WholeMem' = WholeMem
  BY <1>1, <1>2, MemoryStays, Zenon
<1>4. Seen(c, StatusOf("handle"), None)
  <2>1. "handle" \in Labels
    BY Zenon DEF Labels
  <2> QED
    BY <1>1, <2>1, OneSeen, Zenon
<1>5. Statuses[c] = "idle" /\ StatusOf("handle") = "pending"
  BY <1>1, Zenon DEF Statuses, Status, StatusOf
<1>6. Atomic!None = None
  BY Zenon DEF Atomic!None, None
<1> QED
  BY <1>1, <1>3, <1>4, <1>5, <1>6, Zenon DEF Atomic!Ask, Statuses, Answers, Seen

\* A step of c that leaves what is seen of it: nothing is seen.
LEMMA NothingSeen ==
  ASSUME PlcInv, PlcInv', NEW c \in Client, NEW l \in Labels, NEW n, NEW a,
         Becomes(c, l, request[c], n, a),
         mem' = mem \/ mu = c, WholeMem' = WholeMem,
         StatusOf(l) = StatusOf(pc[c]),
         l = "copy" => WholeAnswer(c) = Outcome(mem', request[c]),
         l # "copy" => WholeAnswer(c) = a
  PROVE  UNCHANGED Atomic!vars
<1>1. Seen(c, StatusOf(l), WholeAnswer(c))
  BY OneSeen, Zenon
<1>2. Status(c) = StatusOf(l)
  BY Zenon DEF Status, StatusOf
<1>3. Statuses' = Statuses
  BY <1>1, <1>2, Zenon DEF Statuses, Seen
<1>4. Answers' = Answers
  BY <1>1, Zenon DEF Answers, Seen
<1>5. request' = request
  BY Zenon DEF Becomes, PlcInv
<1> QED
  BY <1>3, <1>4, <1>5, Zenon DEF Atomic!vars, Statuses, Answers

\* The reply is the abstract Answer.
LEMMA AnswerSeen ==
  ASSUME PlcInv, PlcInv', NEW c \in Client, Reply(c)
  PROVE  Atomic!Answer(c)
<1>1. /\ pc[c] = "reply" /\ mem' = mem /\ mu' = mu /\ request' = request
      /\ Becomes(c, "idle", request[c], copied[c], answer[c])
  <2>1. UNCHANGED <<request, copied, answer>> /\ pc' = [pc EXCEPT ![c] = "idle"]
    BY Zenon DEF Reply, Goto
  <2> QED
    BY <2>1, Keeps, Zenon DEF Reply, Becomes
<1>2. mu # c
  BY <1>1, Zenon DEF PlcInv
<1>3. WholeMem' = WholeMem
  BY <1>1, <1>2, MemoryStays, Zenon
<1>4. Seen(c, StatusOf("idle"), answer[c])
  <2>1. "idle" \in Labels
    BY Zenon DEF Labels
  <2> QED
    BY <1>1, <2>1, OneSeen, Zenon
<1>5. Statuses[c] = "done" /\ StatusOf("idle") = "idle"
  BY <1>1, Zenon DEF Statuses, Status, StatusOf
<1>6. WholeAnswer(c) = answer[c]
  BY <1>1, AnswersSeen, Zenon
<1>7. Answers' = Answers
  BY <1>4, <1>6, Zenon DEF Answers, Seen
<1> QED
  BY <1>1, <1>3, <1>4, <1>5, <1>7, Zenon DEF Atomic!Answer, Statuses, Answers, Seen

\* The connections come and go unseen.
LEMMA ConnectionUnseen ==
  ASSUME PlcInv, PlcInv', NEW c \in Client, Accept(c) \/ HangUp(c)
  PROVE  UNCHANGED Atomic!vars
<1>1. PICK l \in {"idle", "closed"} : pc' = [pc EXCEPT ![c] = l]
  BY Zenon DEF Accept, HangUp, Goto
<1>2. UNCHANGED <<mem, mu, request, copied, answer>> /\ pc[c] \in {"closed", "idle"}
  BY Zenon DEF Accept, HangUp
<1>3. Becomes(c, l, request[c], copied[c], answer[c])
  BY <1>1, <1>2, Keeps, Zenon DEF Becomes
<1>4. mu # c
  BY <1>2, Zenon DEF PlcInv
<1>5. WholeMem' = WholeMem
  BY <1>2, <1>3, <1>4, MemoryStays, Zenon
<1>6. StatusOf(l) = StatusOf(pc[c]) /\ l \in Labels /\ l # "copy" /\ pc[c] # "copy"
  BY <1>2, Zenon DEF StatusOf, Labels
<1>7. WholeAnswer(c) = answer[c]
  BY <1>6, AnswersSeen, Zenon
<1> QED
  BY <1>2, <1>3, <1>5, <1>6, <1>7, NothingSeen, Zenon

\* What a step of c must show to be the one in which its request takes effect.
LEMMA TakesEffect ==
  ASSUME NEW c \in Client, Statuses[c] = "pending", Seen(c, "done", AnswerTo(WholeMem, request[c])),
         WholeMem' = Effect(WholeMem, request[c]), request' = request
  PROVE  Atomic!TakeEffect(c)
BY Zenon DEF Atomic!TakeEffect, Statuses, Answers, Seen

\* handleRequest, SetWord and GetWord go on to the mutex unseen, or the
\* request takes effect by being refused.
LEMMA HandleSeen ==
  ASSUME PlcInv, PlcInv', NEW c \in Client, handleRequest(c) \/ SetWordOrGetWord(c)
  PROVE  Atomic!TakeEffect(c) \/ UNCHANGED Atomic!vars
<1> DEFINE r == request[c]
<1>1. UNCHANGED <<mem, mu, request, copied>> /\ pc[c] = "handle"
  BY Zenon DEF handleRequest, SetWordOrGetWord
<1>2. Asked(c, r)
  BY <1>1, Zenon DEF PlcInv, Carries
<1>3. mu # c
  BY <1>1, Zenon DEF PlcInv
<1>4. CASE pc' = [pc EXCEPT ![c] = "lock"] /\ UNCHANGED answer
  <2>1. Becomes(c, "lock", r, copied[c], answer[c])
    BY <1>1, <1>4, Keeps, Zenon DEF Becomes
  <2>2. WholeMem' = WholeMem
    BY <1>1, <1>3, <2>1, MemoryStays, Zenon
  <2>3. StatusOf("lock") = StatusOf(pc[c]) /\ "lock" \in Labels
    BY <1>1, Zenon DEF StatusOf, Labels
  <2>4. WholeAnswer(c) = answer[c]
    BY <1>1, AnswersSeen, Zenon
  <2>5. UNCHANGED Atomic!vars
    BY <1>1, <2>1, <2>2, <2>3, <2>4, NothingSeen, Zenon
  <2> QED
    BY <2>5, Zenon
<1>5. ASSUME NEW a, pc' = [pc EXCEPT ![c] = "reply"], answer' = [answer EXCEPT ![c] = a],
             a = AnswerTo(WholeMem, r), Effect(WholeMem, r) = WholeMem
      PROVE  Atomic!TakeEffect(c)
  <2>1. Becomes(c, "reply", r, copied[c], a)
    BY <1>1, <1>5, Keeps, Zenon DEF Becomes
  <2>2. WholeMem' = WholeMem
    BY <1>1, <1>3, <2>1, MemoryStays, Zenon
  <2>3. StatusOf("reply") = "done" /\ "reply" \in Labels /\ Statuses[c] = "pending"
    BY <1>1, Zenon DEF StatusOf, Labels, Statuses, Status
  <2>4. Seen(c, "done", a)
    BY <1>1, <2>1, <2>3, OneSeen, Zenon
  <2> QED
    BY <1>1, <1>5, <2>2, <2>3, <2>4, TakesEffect, Zenon
<1>6. CASE handleRequest(c)
  <2>1. \/ pc' = [pc EXCEPT ![c] = "lock"] /\ UNCHANGED answer
        \/ /\ pc' = [pc EXCEPT ![c] = "reply"]
           /\ \/ r.cmd = "short"
                 /\ answer' = [answer EXCEPT ![c] = [end |-> "CMD_TOO_SHORT", data |-> <<>>]]
              \/ r.cmd = "status"
                 /\ answer' = [answer EXCEPT ![c] = [end |-> "NORMAL", data |-> <<0, 0>>]]
              \/ r.cmd = "unknown"
                 /\ answer' = [answer EXCEPT ![c] = [end |-> "UNDEFINED_CMD", data |-> <<>>]]
    BY <1>6, Zenon DEF handleRequest, Goto, SetAnswer
  <2>2. r.cmd \in {"short", "status", "unknown"} => Effect(WholeMem, r) = WholeMem
    BY EffectOf, Zenon DEF Writes
  <2> HIDE DEF r
  <2> QED
    BY <1>4, <1>5, <2>1, <2>2, AnswerOther, Zenon
<1>7. CASE SetWordOrGetWord(c)
  <2>1. c \in Test /\ c \notin Conn
    BY <1>7, ClientAssumption, Zenon DEF SetWordOrGetWord
  <2>2. r.count = 1 /\ r.cmd \in {"set", "get"}
    BY <1>2, <2>1, RequestAssumption, Zenon DEF Asked
  <2>3. CASE Place(r).end = "NORMAL"
    <3>1. pc' = [pc EXCEPT ![c] = "lock"] /\ UNCHANGED answer
      BY <1>7, <2>2, <2>3, Zenon DEF SetWordOrGetWord, Place, Goto
    <3> QED
      BY <1>4, <3>1, Zenon
  <2>4. CASE Place(r).end # "NORMAL"
    <3> DEFINE a == [end |-> "NORMAL", data |-> IF r.cmd = "get" THEN <<0, 0>> ELSE <<>>]
    <3>1. pc' = [pc EXCEPT ![c] = "reply"] /\ answer' = [answer EXCEPT ![c] = a]
      BY <1>7, <2>2, <2>4, Zenon DEF SetWordOrGetWord, Place, Goto, SetAnswer
    <3>2. a = AnswerTo(WholeMem, r) /\ Effect(WholeMem, r) = WholeMem
      BY <2>2, <2>4, AnswerRefused, EffectOf, Zenon
    <3> HIDE DEF a
    <3> QED
      BY <1>5, <3>1, <3>2, Zenon
  <2> QED
    BY <2>3, <2>4, Zenon
<1> QED
  BY <1>6, <1>7, Zenon

\* The request takes effect when its client gets the mutex.
LEMMA LockSeen ==
  ASSUME PlcInv, PlcInv', NEW c \in Client, Lock(c)
  PROVE  Atomic!TakeEffect(c) \/ UNCHANGED Atomic!vars
<1> DEFINE r == request[c]
<1>1. /\ pc[c] = "lock" /\ mu = NoClient /\ mem' = mem
      /\ request' = request /\ copied' = copied
  BY Zenon DEF Lock
<1>2. /\ Asked(c, r) /\ r.cmd \in MemoryCommands /\ copied[c] = 0
      /\ c \in Test => Place(r).end = "NORMAL"
  BY <1>1, Zenon DEF PlcInv, Carries
<1>3. WholeMem = mem
  BY <1>1, MemorySeen, Zenon
<1>4. Statuses[c] = "pending"
  BY <1>1, Zenon DEF Statuses, Status
<1>5. CASE Place(r).end # "NORMAL"
  <2> DEFINE a == [end |-> Place(r).end, data |-> <<>>]
  <2>1. /\ pc' = [pc EXCEPT ![c] = "reply"] /\ mu' = mu
        /\ answer' = [answer EXCEPT ![c] = a]
    BY <1>5, Zenon DEF Lock, Place, Goto, SetAnswer
  <2>2. Becomes(c, "reply", r, copied[c], a)
    BY <1>1, <2>1, Keeps, Zenon DEF Becomes
  <2>3. r.cmd \in {"read", "write"}
    <3>1. r \in Request
      BY <1>2, <1>5, Zenon DEF Asked, Client
    <3> QED
      BY <1>2, <3>1, RequestAssumption, Zenon DEF MemoryCommands
  <2>4. AnswerTo(mem, r) = a /\ Effect(mem, r) = mem
    BY <1>5, <2>3, AnswerRefused, EffectOf, SMTT(20)
  <2>5. WholeMem' = mem
    BY <1>1, <2>1, MemorySeenNext, Zenon
  <2> HIDE DEF a
  <2>6. StatusOf("reply") = "done" /\ "reply" \in Labels
    BY Zenon DEF StatusOf, Labels
  <2>7. Seen(c, "done", a)
    BY <1>1, <2>2, <2>6, OneSeen, Zenon
  <2> QED
    BY <1>1, <1>3, <1>4, <2>4, <2>5, <2>7, TakesEffect, Zenon
<1>6. CASE Place(r).end = "NORMAL" /\ SliceOutOfRange(c)
  <2>1. mu' = c /\ pc' = [pc EXCEPT ![c] = "panicked"] /\ answer' = answer
    BY <1>6, Zenon DEF Lock, Place, Goto
  <2>2. Becomes(c, "panicked", r, copied[c], answer[c])
    BY <1>1, <2>1, Keeps, Zenon DEF Becomes
  <2>3. WholeMem' = mem
    <3>1. pc'[c] = "panicked"
      BY <2>1, Zenon DEF PlcInv
    <3> QED
      BY <1>1, <2>1, <3>1, MemorySeenNext, Zenon
  <2>4. StatusOf("panicked") = StatusOf(pc[c]) /\ "panicked" \in Labels
    BY <1>1, Zenon DEF StatusOf, Labels
  <2>5. WholeAnswer(c) = answer[c]
    BY <1>1, AnswersSeen, SMTT(20)
  <2> QED
    BY <1>1, <1>3, <2>2, <2>3, <2>4, <2>5, NothingSeen, Zenon
<1>7. CASE Place(r).end = "NORMAL" /\ ~SliceOutOfRange(c)
  <2> DEFINE a == [end |-> "NORMAL", data |-> <<>>]
  <2>1. /\ mu' = c /\ pc' = [pc EXCEPT ![c] = "copy"]
        /\ answer' = [answer EXCEPT ![c] = a]
    BY <1>7, Zenon DEF Lock, Place, Goto, SetAnswer
  <2> HIDE DEF a
  <2>2. Becomes(c, "copy", r, copied[c], a)
    BY <1>1, <2>1, Keeps, Zenon DEF Becomes
  <2>3. WholeMem' = IF Writes(r) THEN StoreFrom(mem, Place(r), r.data, 0) ELSE mem
    <3>1. pc'[c] = "copy"
      BY <2>1, Zenon DEF PlcInv
    <3> QED
      BY <1>1, <1>2, <2>1, <3>1, MemorySeenNext, Zenon
  <2>4. WholeMem' = Effect(WholeMem, r)
    BY <1>3, <1>7, <2>3, EffectOf, Zenon
  <2>5. Outcome(mem', r) = AnswerTo(WholeMem, r)
    BY <1>1, <1>2, <1>3, <1>7, AnswerAccepted, Zenon
  <2>6. StatusOf("copy") = "done" /\ "copy" \in Labels
    BY Zenon DEF StatusOf, Labels
  <2>7. Seen(c, "done", Outcome(mem', r))
    BY <1>1, <2>2, <2>6, OneSeen, Zenon
  <2> QED
    BY <1>1, <1>4, <2>4, <2>5, <2>7, TakesEffect, Zenon
<1> QED
  BY <1>5, <1>6, <1>7, Zenon

\* The items that are copied are unseen: what is stored was seen before.
LEMMA CopyUnseen ==
  ASSUME PlcInv, PlcInv', NEW c \in Client, Copy(c)
  PROVE  UNCHANGED Atomic!vars
<1> DEFINE r == request[c]
           t == Place(r)
           i == copied[c]
<1>1. /\ pc[c] = "copy" /\ mu' = mu /\ pc' = pc /\ request' = request
      /\ i < Items(r) /\ copied' = [copied EXCEPT ![c] = i + 1]
  BY Zenon DEF Copy, PlcInv
<1>2. /\ Carries(c, "copy", r, i) /\ i \in Nat /\ mu = c
      /\ copied'[c] = i + 1 /\ pc'[c] = "copy" /\ request'[c] = r
  BY <1>1 DEF PlcInv
<1>3. Asked(c, r) /\ r.cmd \in MemoryCommands
  BY <1>2, Zenon DEF Carries
<1>4. PICK a : Becomes(c, "copy", r, i + 1, a)
  <2>1. PICK a : answer' = [answer EXCEPT ![c] = a]
    <3>1. CASE Writes(r)
      <4>1. UNCHANGED answer
        BY <3>1, Zenon DEF Copy
      <4> QED
        BY <4>1, Keeps, Zenon
    <3>2. CASE ~Writes(r)
      BY <3>2, Zenon DEF Copy
    <3> QED
      BY <3>1, <3>2, Zenon
  <2> QED
    BY <1>1, <2>1, Keeps, Zenon DEF Becomes
<1>5. WholeMem' = WholeMem
  <2>1. CASE Writes(r)
    <3>1. mem' = Store(mem, t, i + 1, r.data[i + 1])
      BY <2>1, Zenon DEF Copy, Place
    <3>2. WholeMem = StoreFrom(mem, t, r.data, i)
      BY <1>1, <1>2, <2>1, MemorySeen, Zenon
    <3>3. WholeMem' = StoreFrom(mem', t, r.data, i + 1)
      BY <1>1, <1>2, <2>1, MemorySeenNext, SMTT(20)
    <3>4. StoredItems(t, r.data) \in Nat /\ i < StoredItems(t, r.data)
      BY <1>1, <1>3, <2>1, ItemsNatural, Zenon DEF Items, Place
    <3> HIDE DEF r, t, i
    <3> QED
      BY <1>2, <3>1, <3>2, <3>3, <3>4, StoreFromNext
  <2>2. CASE ~Writes(r)
    <3>1. mem' = mem
      BY <2>2, Zenon DEF Copy
    <3>2. WholeMem = mem
      BY <1>2, <2>2, MemorySeen, Zenon
    <3>3. WholeMem' = mem'
      BY <1>1, <1>2, <2>2, MemorySeenNext, Zenon
    <3> QED
      BY <3>1, <3>2, <3>3, Zenon
  <2> QED
    BY <2>1, <2>2, Zenon
<1>6. WholeAnswer(c) = Outcome(mem', r)
  <2>1. WholeAnswer(c) = Outcome(mem, r)
    BY <1>1, AnswersSeen, Zenon
  <2>2. CASE Writes(r)
    BY <2>1, <2>2, Zenon DEF Outcome, Growing
  <2>3. CASE ~Writes(r)
    <3>1. mem' = mem
      BY <2>3, Zenon DEF Copy
    <3> QED
      BY <2>1, <3>1, Zenon
  <2> QED
    BY <2>2, <2>3, Zenon
<1>7. "copy" \in Labels
  BY Zenon DEF Labels
<1> HIDE DEF r, i
<1> QED
  BY <1>1, <1>2, <1>4, <1>5, <1>6, <1>7, NothingSeen, ZenonT(30) DEF r

\* When the mutex is released nothing is left to copy.
LEMMA UnlockUnseen ==
  ASSUME PlcInv, PlcInv', NEW c \in Client, Unlock(c)
  PROVE  UNCHANGED Atomic!vars
<1> DEFINE r == request[c]
<1>1. /\ pc[c] = "copy" /\ copied[c] = Items(r) /\ mu' = NoClient
      /\ pc' = [pc EXCEPT ![c] = "reply"]
      /\ mem' = mem /\ request' = request /\ copied' = copied /\ answer' = answer
  BY Zenon DEF Unlock, Goto
<1>2. /\ Carries(c, "copy", r, copied[c]) /\ mu = c
      /\ answer[c] = Growing(mem, r, copied[c])
  BY <1>1, ZenonT(30) DEF PlcInv
<1>3. Becomes(c, "reply", r, copied[c], answer[c])
  BY <1>1, Keeps, Zenon DEF Becomes
<1>4. WholeAnswer(c) = answer[c]
  <2>1. WholeAnswer(c) = Outcome(mem, r)
    BY <1>1, AnswersSeen, Zenon
  <2> QED
    BY <1>1, <1>2, <2>1, Zenon DEF Outcome
<1>5. WholeMem' = WholeMem
  <2>1. WholeMem' = mem
    BY <1>1, MemorySeenNext, Zenon
  <2>2. CASE Writes(r)
    <3>1. StoredItems(Place(r), r.data) \in Nat
      BY <1>2, <2>2, ItemsNatural, Zenon DEF Carries
    <3>2. copied[c] = StoredItems(Place(r), r.data)
      BY <1>1, <2>2, SMTT(20) DEF Items, Place
    <3>3. WholeMem = StoreFrom(mem, Place(r), r.data, copied[c])
      BY <1>1, <1>2, <2>2, MemorySeen, SMTT(20)
    <3> QED
      BY <2>1, <3>1, <3>2, <3>3, StoreFromLast, Zenon
  <2>3. CASE ~Writes(r)
    BY <1>2, <2>1, <2>3, MemorySeen, Zenon
  <2> QED
    BY <2>2, <2>3, Zenon
<1>6. StatusOf("reply") = StatusOf(pc[c]) /\ "reply" \in Labels
  BY <1>1, Zenon DEF StatusOf, Labels
<1> QED
  BY <1>1, <1>3, <1>4, <1>5, <1>6, NothingSeen, Zenon

\* A new PLC maps to a new AtomicPlc.
LEMMA AtomicInit == Init => Atomic!Init
<1> SUFFICES ASSUME Init PROVE Atomic!Init
  BY Zenon
<1>1. WholeMem = NewMockPLC
  BY Zenon DEF WholeMem, Init
<1>2. \A c \in Client : pc[c] \in {"closed", "idle"} /\ answer[c] = None
  BY Zenon DEF Init
<1>3. [c \in Client |-> Status(c)] = [c \in Client |-> "idle"]
  BY <1>2, Zenon DEF Status
<1>4. \A c \in Client : WholeAnswer(c) = None
  BY <1>2, Zenon DEF WholeAnswer
<1>5. Atomic!None = None
  BY Zenon DEF Atomic!None, None
<1>6. [c \in Client |-> WholeAnswer(c)] = [c \in Client |-> Atomic!None]
  BY <1>4, <1>5, Zenon
<1>7. request = [c \in Client |-> Atomic!None]
  BY <1>5, Zenon DEF Init
<1> QED
  BY <1>1, <1>3, <1>6, <1>7, Zenon DEF Atomic!Init

\* Every step is a step of AtomicPlc or changes nothing it shows.
LEMMA AtomicStep == PlcInv /\ PlcInv' /\ [Next]_vars => [Atomic!Next]_(Atomic!vars)
<1> SUFFICES ASSUME PlcInv, PlcInv', [Next]_vars PROVE Atomic!Next \/ UNCHANGED Atomic!vars
  BY Zenon
<1>1. CASE Close \/ UNCHANGED vars
  <2>1. UNCHANGED <<mem, mu, pc, request, copied, answer>>
    BY <1>1, Zenon DEF Close, vars
  <2> QED
    BY <2>1 DEF Atomic!vars, WholeMem, WholeAnswer, Status, NoClient, Writes, Items
<1>2. ASSUME NEW c \in Client,
             \/ Accept(c) \/ HangUp(c) \/ Lock(c) \/ Work(c)
             \/ \E r \in Request \cup WordRequest : Arrive(c, r)
      PROVE  Atomic!Next \/ UNCHANGED Atomic!vars
  <2>1. \/ Atomic!TakeEffect(c) \/ Atomic!Answer(c)
        \/ \E r \in Request \cup WordRequest : Atomic!Ask(c, r)
        \/ UNCHANGED Atomic!vars
    BY <1>2, ConnectionUnseen, AskSeen, HandleSeen, LockSeen, CopyUnseen, UnlockUnseen, AnswerSeen,
       Zenon DEF Work
  <2> QED
    BY <2>1, Zenon DEF Atomic!Next
<1> QED
  BY <1>1, <1>2, Zenon DEF Next

\* Whatever the connections and tests ask and however their steps interleave,
\* the requests that mock_plc.go copies byte by byte and bit by bit under its
\* mutex behave as if each took effect at once, between arrival and answer.
THEOREM AtomicSafetyTheorem == Spec => Atomic!Safety
<1>1. Init => Atomic!Init
  BY AtomicInit, Zenon
<1>2. Init => PlcInv
  BY PlcInvInit, Zenon
<1>3. PlcInv /\ [Next]_vars => PlcInv'
  BY PlcInvStep, Zenon
<1>4. PlcInv /\ PlcInv' /\ [Next]_vars => [Atomic!Next]_(Atomic!vars)
  BY AtomicStep, Zenon
<1> QED
  BY <1>1, <1>2, <1>3, <1>4, PTL DEF Spec, Atomic!Safety
=============================================================================

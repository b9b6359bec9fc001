----------------------------- MODULE ApiProofs -----------------------------
(***************************************************************************)
(* Proofs about the components of the API process, each for any number of  *)
(* threads or tasks, any upstream data and any bound.                      *)
(***************************************************************************)
EXTENDS RequestCache, RpcSessions, AssetDirectory, CosmosSigning, CosmosHistory,
        ApiReads, DataLemmas

-----------------------------------------------------------------------------
(* RpcSessions.  A thread has a session from checkout until it is returned *)
(* or closed; an open session is idle or some thread has it.               *)

Using == {"request", "return", "broken"}
Holding == Using \cup {"close"}

SessionsTyped ==
    /\ idle \subseteq open /\ open \subseteq Sessions /\ closed \in BOOLEAN
    /\ thread \in [Threads -> [pc : Holding \cup {"out", "wait"}, session : Sessions \cup {0}]]

SessionsOwned ==
    /\ \A t \in Threads :
         /\ thread[t].pc \in Holding <=> thread[t].session # 0
         /\ thread[t].session # 0 => thread[t].session \in open \ idle
    /\ \A t, u \in Threads :
         t # u /\ thread[t].session # 0 => thread[t].session # thread[u].session
    /\ \A s \in open \ idle : \E t \in Threads : thread[t].session = s
    /\ closed => idle = {}

SessionsCounted ==
    /\ IsFiniteSet(idle) /\ IsFiniteSet(InUse)
    /\ count = Cardinality(idle) + Cardinality(InUse) /\ count <= MaxSessions

SessionsInv == SessionsTyped /\ SessionsOwned /\ SessionsCounted

\* A set image of a filtered set: who holds a session in use.
LEMMA InUseMember ==
    \A s : s \in InUse <=> \E t \in Threads : thread[t].pc \in Using /\ thread[t].session = s
BY DEF InUse, Using

\* A thread that takes a session nobody has adds it to those in use.
LEMMA InUseTaken ==
    ASSUME SessionsTyped, SessionsOwned, NEW t \in Threads, NEW s \in Sessions,
           thread[t].session = 0,
           thread' = [thread EXCEPT ![t] = [pc |-> "request", session |-> s]]
    PROVE  InUse' = InUse \cup {s}
<1>1. \A u \in Threads : thread'[u] = IF u = t THEN [pc |-> "request", session |-> s] ELSE thread[u]
  BY DEF SessionsTyped
<1>2. thread[t].pc \notin Using
  BY DEF SessionsOwned, Holding
<1>3. InUse' = {thread'[u].session : u \in {w \in Threads : thread'[w].pc \in Using}}
  BY DEF InUse, Using
<1> QED BY <1>1, <1>2, <1>3, InUseMember DEF Using

\* A thread that stops using its session removes it.
LEMMA InUseLeft ==
    ASSUME SessionsTyped, SessionsOwned, NEW t \in Threads, NEW r,
           thread[t].pc \in Using, r.pc \notin Using,
           thread' = [thread EXCEPT ![t] = r]
    PROVE  InUse' = InUse \ {thread[t].session}
<1>1. \A u \in Threads : thread'[u] = IF u = t THEN r ELSE thread[u]
  BY DEF SessionsTyped
<1>2. \A u \in Threads : u # t /\ thread[u].session # 0 => thread[u].session # thread[t].session
  BY DEF SessionsOwned
<1>3. InUse' = {thread'[u].session : u \in {w \in Threads : thread'[w].pc \in Using}}
  BY DEF InUse, Using
<1>4. \A u \in Threads : thread[u].pc \in Using => thread[u].session # 0
  BY DEF SessionsOwned, Holding
<1> QED BY <1>1, <1>2, <1>3, <1>4, InUseMember

\* Any other step of a thread leaves the sessions in use alone.
LEMMA InUseKept ==
    ASSUME SessionsTyped, NEW t \in Threads, NEW r,
           (r.pc \in Using) <=> (thread[t].pc \in Using), r.session = thread[t].session,
           thread' = [thread EXCEPT ![t] = r]
    PROVE  InUse' = InUse
<1>1. \A u \in Threads : thread'[u] = IF u = t THEN r ELSE thread[u]
  BY DEF SessionsTyped
<1>3. InUse' = {thread'[u].session : u \in {w \in Threads : thread'[w].pc \in Using}}
  BY DEF InUse, Using
<1> QED BY <1>1, <1>3, InUseMember

\* Assigning the pc of a thread replaces its record.
LEMMA ThreadPc ==
    ASSUME SessionsTyped, NEW t \in Threads, NEW x
    PROVE  [thread EXCEPT ![t].pc = x] = [thread EXCEPT ![t] = [pc |-> x, session |-> thread[t].session]]
<1>1. thread[t] \in [pc : Holding \cup {"out", "wait"}, session : Sessions \cup {0}]
  BY DEF SessionsTyped
<1>2. [thread[t] EXCEPT !.pc = x] = [pc |-> x, session |-> thread[t].session]
  BY <1>1
<1> QED BY <1>2, Zenon

\* No session is open before the first checkout.
LEMMA SessionsInitInv == SessionsInit => SessionsInv
<1> SUFFICES ASSUME SessionsInit PROVE SessionsInv
  OBVIOUS
<1>1. InUse = {}
  BY DEF InUse, SessionsInit, Out
<1>2. SessionsTyped /\ SessionsOwned
  BY DEF SessionsInit, SessionsTyped, SessionsOwned, Out, Holding, Using
<1> QED BY <1>1, <1>2, FS_EmptySet, SessionsAssumption DEF SessionsInv, SessionsCounted, SessionsInit

\* checkout, return, discard and close keep the sessions counted and apart.
LEMMA SessionsStep == SessionsInv /\ [SessionsNext]_sessionVars => SessionsInv'
<1> SUFFICES ASSUME SessionsInv, [SessionsNext]_sessionVars PROVE SessionsInv'
  OBVIOUS
<1> USE SessionsAssumption DEF SessionsInv
<1>c. Cardinality(idle) \in Nat /\ Cardinality(InUse) \in Nat /\ count \in Nat
  BY FS_CardinalityType DEF SessionsCounted
<1>1. ASSUME NEW t \in Threads, thread[t].session = 0, NEW s \in idle, idle' = idle \ {s},
             thread' = [thread EXCEPT ![t] = [pc |-> "request", session |-> s]],
             UNCHANGED <<count, open, closed>>
      PROVE  SessionsInv'
  <2>1. \A u \in Threads : thread'[u] = IF u = t THEN [pc |-> "request", session |-> s] ELSE thread[u]
    BY <1>1 DEF SessionsTyped
  <2>2. SessionsTyped'
    BY <1>1 DEF SessionsTyped, Holding, Using
  <2>3. SessionsOwned'
    BY <1>1, <2>1 DEF SessionsTyped, SessionsOwned, Holding, Using
  <2>4. InUse' = InUse \cup {s}
    BY <1>1, InUseTaken DEF SessionsTyped
  <2>5. s \notin InUse
    BY <1>1, InUseMember DEF SessionsOwned, SessionsTyped
  <2>6. IsFiniteSet(idle') /\ Cardinality(idle') = Cardinality(idle) - 1
    BY <1>1, FS_RemoveElement DEF SessionsCounted
  <2>7. IsFiniteSet(InUse') /\ Cardinality(InUse') = Cardinality(InUse) + 1
    BY <2>4, <2>5, FS_AddElement DEF SessionsCounted
  <2> QED BY <1>1, <1>c, <2>2, <2>3, <2>6, <2>7 DEF SessionsCounted
<1>2. ASSUME NEW t \in Threads, NEW r, r \in [pc : Holding \cup {"out", "wait"}, session : Sessions \cup {0}],
             (r.pc \in Using) <=> (thread[t].pc \in Using), r.session = thread[t].session,
             (r.pc \in Holding) <=> (thread[t].pc \in Holding),
             thread' = [thread EXCEPT ![t] = r],
             UNCHANGED <<idle, count, open, closed>>
      PROVE  SessionsInv'
  <2>1. \A u \in Threads : thread'[u] = IF u = t THEN r ELSE thread[u]
    BY <1>2 DEF SessionsTyped
  <2>2. SessionsTyped'
    BY <1>2 DEF SessionsTyped
  <2>3. \A u \in Threads : thread'[u].session = thread[u].session /\ (thread'[u].pc \in Holding <=> thread[u].pc \in Holding)
    BY <1>2, <2>1
  <2>4. SessionsOwned'
    BY <1>2, <2>3 DEF SessionsOwned
  <2>5. InUse' = InUse
    BY <1>2, InUseKept
  <2> QED BY <1>2, <2>2, <2>4, <2>5 DEF SessionsCounted
<1>3. ASSUME NEW t \in Threads, Checkout(t) PROVE SessionsInv'
  <2>1. thread[t].session = 0
    BY <1>3 DEF Checkout, SessionsOwned, Holding, Using
  <2>2. CASE idle = {} /\ count < MaxSessions /\ count' = count + 1
    <3>1. PICK s \in Sessions \ open :
            /\ open' = open \cup {s}
            /\ thread' = [thread EXCEPT ![t] = [pc |-> "request", session |-> s]]
      BY <1>3, <2>2, <1>c DEF Checkout
    <3>2. idle' = idle /\ closed' = closed
      BY <1>3, <2>2, <1>c DEF Checkout
    <3>3. \A u \in Threads : thread'[u] = IF u = t THEN [pc |-> "request", session |-> s] ELSE thread[u]
      BY <3>1 DEF SessionsTyped
    <3>4. SessionsTyped'
      BY <3>1, <3>2 DEF SessionsTyped, Holding, Using
    <3>5. SessionsOwned'
      BY <2>1, <3>1, <3>2, <3>3 DEF SessionsTyped, SessionsOwned, Holding, Using
    <3>6. InUse' = InUse \cup {s}
      BY <2>1, <3>1, InUseTaken
    <3>7. s \notin InUse
      BY <3>1, InUseMember DEF SessionsOwned, SessionsTyped
    <3>8. IsFiniteSet(InUse') /\ Cardinality(InUse') = Cardinality(InUse) + 1
      BY <3>6, <3>7, FS_AddElement DEF SessionsCounted
    <3> QED BY <1>c, <2>2, <3>2, <3>4, <3>5, <3>8 DEF SessionsCounted
  <2>3. CASE thread' = [thread EXCEPT ![t].pc = "wait"] /\ UNCHANGED <<idle, count, open, closed>>
    <3>1. thread' = [thread EXCEPT ![t] = [pc |-> "wait", session |-> 0]]
      BY <2>1, <2>3, ThreadPc
    <3> QED BY <1>2, <1>3, <2>1, <2>3, <3>1 DEF Checkout, Holding, Using
  <2> QED BY <1>1, <1>3, <2>1, <2>2, <2>3 DEF Checkout
<1>4. ASSUME NEW t \in Threads, WaitEnds(t) PROVE SessionsInv'
  <2>1. thread[t].session = 0
    BY <1>4 DEF WaitEnds, SessionsOwned, Holding, Using
  <2>2. CASE thread' = [thread EXCEPT ![t] = Out] /\ UNCHANGED idle
    BY <1>2, <1>4, <2>1, <2>2 DEF WaitEnds, Out, Holding, Using
  <2> QED BY <1>1, <1>4, <2>1, <2>2 DEF WaitEnds
<1>5. ASSUME NEW t \in Threads, Respond(t) PROVE SessionsInv'
  <2>1. PICK pc \in {"return", "broken"} : thread' = [thread EXCEPT ![t].pc = pc]
    BY <1>5 DEF Respond
  <2>2. thread' = [thread EXCEPT ![t] = [pc |-> pc, session |-> thread[t].session]]
    BY <2>1, ThreadPc
  <2>3. thread[t].session \in Sessions \cup {0}
    BY DEF SessionsTyped
  <2> QED BY <1>2, <1>5, <2>2, <2>3 DEF Respond, Holding, Using
<1>6. ASSUME NEW t \in Threads, thread[t].pc \in Using, count' = count - 1,
             thread' = [thread EXCEPT ![t].pc = "close"], UNCHANGED <<idle, open, closed>>
      PROVE  SessionsInv'
  <2>1. thread' = [thread EXCEPT ![t] = [pc |-> "close", session |-> thread[t].session]]
    BY <1>6, ThreadPc
  <2>2. \A u \in Threads : thread'[u].session = thread[u].session /\ (thread'[u].pc \in Holding <=> thread[u].pc \in Holding)
    BY <1>6, <2>1 DEF SessionsTyped, Holding
  <2>3. SessionsTyped'
    BY <1>6, <2>1 DEF SessionsTyped, Holding
  <2>4. SessionsOwned'
    BY <1>6, <2>2 DEF SessionsOwned
  <2>5. InUse' = InUse \ {thread[t].session}
    <3>1. PICK r : r = [pc |-> "close", session |-> thread[t].session]
      OBVIOUS
    <3>2. r.pc \notin Using /\ thread' = [thread EXCEPT ![t] = r]
      BY <2>1, <3>1 DEF Using
    <3> QED BY <1>6, <3>2, InUseLeft
  <2>6. thread[t].session \in InUse
    BY <1>6, InUseMember
  <2>7. IsFiniteSet(InUse') /\ Cardinality(InUse') = Cardinality(InUse) - 1
    BY <2>5, <2>6, FS_RemoveElement DEF SessionsCounted
  <2> QED BY <1>6, <1>c, <2>3, <2>4, <2>7 DEF SessionsCounted
<1>7. ASSUME NEW t \in Threads, Return(t) PROVE SessionsInv'
  <2>1. CASE closed
    BY <1>6, <1>7, <2>1 DEF Return, Using
  <2>2. CASE ~closed
    <3>1. /\ thread' = [thread EXCEPT ![t] = Out] /\ idle' = idle \cup {thread[t].session}
          /\ UNCHANGED <<count, closed, open>> /\ thread[t].pc = "return"
      BY <1>7, <2>2 DEF Return
    <3>2. \A u \in Threads : thread'[u] = IF u = t THEN Out ELSE thread[u]
      BY <3>1 DEF SessionsTyped
    <3>3. thread[t].session \in open \ idle /\ thread[t].session # 0
      BY <3>1 DEF SessionsOwned, Holding, Using
    <3>4. SessionsTyped'
      BY <3>1, <3>3 DEF SessionsTyped, Out
    <3>5. SessionsOwned'
      BY <2>2, <3>1, <3>2, <3>3 DEF SessionsTyped, SessionsOwned, Out, Holding, Using
    <3>6. InUse' = InUse \ {thread[t].session}
      <4>1. Out.pc \notin Using /\ thread[t].pc \in Using
        BY <3>1 DEF Out, Using
      <4> QED BY <3>1, <4>1, InUseLeft
    <3>7. thread[t].session \in InUse
      BY <3>1, InUseMember DEF Using
    <3>8. IsFiniteSet(InUse') /\ Cardinality(InUse') = Cardinality(InUse) - 1
      BY <3>6, <3>7, FS_RemoveElement DEF SessionsCounted
    <3>9. IsFiniteSet(idle') /\ Cardinality(idle') = Cardinality(idle) + 1
      BY <3>1, <3>3, FS_AddElement DEF SessionsCounted
    <3> QED BY <1>c, <3>1, <3>4, <3>5, <3>8, <3>9 DEF SessionsCounted
  <2> QED BY <2>1, <2>2
<1>8. ASSUME NEW t \in Threads, Discard(t) PROVE SessionsInv'
  BY <1>6, <1>8 DEF Discard, Using
<1>9. ASSUME NEW t \in Threads, CloseSession(t) PROVE SessionsInv'
  <2>1. \A u \in Threads : thread'[u] = IF u = t THEN Out ELSE thread[u]
    BY <1>9 DEF CloseSession, SessionsTyped
  <2>2. thread[t].session \in open \ idle /\ thread[t].session # 0
    BY <1>9 DEF CloseSession, SessionsOwned, Holding
  <2>3. SessionsTyped'
    BY <1>9, <2>2 DEF CloseSession, SessionsTyped, Out
  <2>4. SessionsOwned'
    BY <1>9, <2>1, <2>2 DEF CloseSession, SessionsTyped, SessionsOwned, Out, Holding, Using
  <2>5. InUse' = {thread'[u].session : u \in {w \in Threads : thread'[w].pc \in Using}}
    BY DEF InUse, Using
  <2>6. InUse' = InUse
    BY <1>9, <2>1, <2>5, InUseMember DEF CloseSession, Out, Using
  <2> QED BY <1>9, <2>3, <2>4, <2>6 DEF CloseSession, SessionsCounted
<1>10. ASSUME CloseClient PROVE SessionsInv'
  <2>1. SessionsTyped' /\ SessionsOwned'
    BY <1>10 DEF CloseClient, SessionsTyped, SessionsOwned
  <2>2. InUse' = InUse
    BY <1>10 DEF CloseClient, InUse
  <2> QED BY <1>10, <1>c, <2>1, <2>2, FS_EmptySet DEF CloseClient, SessionsCounted
<1>11. CASE UNCHANGED sessionVars
  <2>1. InUse' = InUse
    BY <1>11 DEF sessionVars, InUse
  <2> QED BY <1>11, <2>1 DEF sessionVars, SessionsTyped, SessionsOwned, SessionsCounted
<1> QED BY <1>3, <1>4, <1>5, <1>7, <1>8, <1>9, <1>10, <1>11 DEF SessionsNext

\* The session pool of GnoRpcClient for any number of threads and any pool
\* size: it never leaks, shares or over-counts a session, whatever the order
\* of checkouts, waits, returns, discards and a concurrent close.
THEOREM SessionsAreSound == SessionsSpec => []SessionsSound
<1>1. SessionsInv => SessionsSound
  <2> SUFFICES ASSUME SessionsInv PROVE SessionsSound
    OBVIOUS
  <2>1. idle \cap InUse = {}
    BY InUseMember, SessionsAssumption DEF SessionsInv, SessionsTyped, SessionsOwned
  <2>2. ASSUME closed, \A t \in Threads : thread[t].pc = "out" PROVE open = {} /\ count = 0
    <3>1. idle = {} /\ InUse = {}
      BY <2>2, InUseMember DEF SessionsInv, SessionsOwned, Using
    <3>2. open = {}
      BY <2>2, <3>1, SessionsAssumption DEF SessionsInv, SessionsOwned, SessionsTyped, Holding, Using
    <3> QED BY <3>1, <3>2, FS_EmptySet DEF SessionsInv, SessionsCounted
  <2> QED BY <2>1, <2>2 DEF SessionsInv, SessionsOwned, SessionsCounted, SessionsSound
<1> QED BY <1>1, SessionsInitInv, SessionsStep, PTL DEF SessionsSpec

-----------------------------------------------------------------------------
(* AssetDirectory.  What a handler has read may be older than the table,   *)
(* never newer; a candidate without source files, if it is still current,  *)
(* has none.                                                               *)

AssetRow == [path : AssetPaths, standard : {"grc20", "grc721"}, revision : Nat]
AssetVerdict == [key : AssetPaths \X {"grc20", "grc721"} \X Nat, verified : BOOLEAN]

AssetRequest ==
    [pc : {"idle", "lookup", "files", "classify", "answer", "done"}, rows : SUBSET AssetRow,
     misses : SUBSET AssetRow, files : SUBSET [path : AssetPaths, revision : Nat],
     verified : SUBSET AssetRow]

AssetTyped ==
    /\ revision \in [AssetPaths -> Nat]
    /\ \A p \in AssetPaths : revision[p] \in 1..Len(StandardsOf[p])
    /\ classified \in Seq(AssetVerdict)
    /\ handler \in [Handlers -> AssetRequest]

\* The verdict is right for its revision, or a rejection of an older one.
VerdictSound(x) ==
    /\ x.key[3] \in 1..revision[x.key[1]]
    /\ x.verified => Verifies[x.key[1]][x.key[3]]
    /\ x.key[3] = revision[x.key[1]] => x.verified = Verifies[x.key[1]][x.key[3]]

KeysDistinct(c) == \A i, j \in DOMAIN c : c[i].key = c[j].key => i = j

HandlerSound(h) ==
    /\ \A row \in h.rows \cup h.misses : row.revision \in 1..revision[row.path]
    /\ \A row \in h.verified : Verifies[row.path][row.revision]
    /\ h.pc = "classify" =>
         \A row \in h.misses : row.revision = revision[row.path] =>
            (\E f \in h.files : f.path = row.path) \/ ~HasSource[row.path][row.revision]

AssetInv ==
    /\ AssetTyped
    /\ Len(classified) <= CacheSize /\ KeysDistinct(classified)
    /\ \A i \in DOMAIN classified : VerdictSound(classified[i])
    /\ \A t \in Handlers : HandlerSound(handler[t])

\* RemoveAt drops one element and keeps the order of the others.
LEMMA RemoveAtProperties ==
    ASSUME NEW S, NEW s \in Seq(S), NEW i \in 1..Len(s)
    PROVE  /\ RemoveAt(s, i) \in Seq(S) /\ Len(RemoveAt(s, i)) = Len(s) - 1
           /\ \A j \in 1..(Len(s) - 1) : RemoveAt(s, i)[j] = IF j < i THEN s[j] ELSE s[j + 1]
<1> DEFINE a == SubSeq(s, 1, i - 1)
           b == SubSeq(s, i + 1, Len(s))
<1>1. Len(s) \in Nat /\ \A j \in 1..Len(s) : s[j] \in S
  BY LenProperties, ElementOfSeq
<1>2. /\ a \in Seq(S) /\ Len(a) = i - 1
      /\ \A j \in 1..(i - 1) : a[j] = s[j]
  BY <1>1, SubSeqProperties
<1>3. /\ b \in Seq(S) /\ Len(b) = Len(s) - i
      /\ \A j \in 1..(Len(s) - i) : b[j] = s[j + i]
  <2>1. \A j \in (i + 1)..Len(s) : s[j] \in S
    BY <1>1
  <2>2. /\ b \in Seq(S) /\ Len(b) = IF i + 1 <= Len(s) THEN Len(s) - (i + 1) + 1 ELSE 0
        /\ \A j \in 1..(Len(s) - (i + 1) + 1) : b[j] = s[i + 1 + j - 1]
    BY <1>1, <2>1, SubSeqProperties
  <2> QED BY <1>1, <2>2
<1> HIDE DEF a, b
<1>4. /\ a \o b \in Seq(S) /\ Len(a \o b) = Len(s) - 1
      /\ \A j \in 1..(Len(s) - 1) : (a \o b)[j] = IF j <= i - 1 THEN a[j] ELSE b[j - (i - 1)]
  <2>1. /\ a \o b \in Seq(S) /\ Len(a \o b) = Len(a) + Len(b)
        /\ \A j \in 1..(Len(a) + Len(b)) : (a \o b)[j] = IF j <= Len(a) THEN a[j] ELSE b[j - Len(a)]
    BY <1>2, <1>3, ConcatProperties
  <2>2. Len(a) + Len(b) = Len(s) - 1
    BY <1>1, <1>2, <1>3
  <2> QED BY <1>2, <2>1, <2>2
<1>5. ASSUME NEW j \in 1..(Len(s) - 1) PROVE (a \o b)[j] = IF j < i THEN s[j] ELSE s[j + 1]
  <2>1. CASE j < i
    BY <1>1, <1>2, <1>4, <2>1
  <2>2. CASE ~(j < i)
    <3>0. j - (i - 1) \in 1..(Len(s) - i) /\ ~(j <= i - 1)
      BY <1>1, <2>2
    <3>1. j - (i - 1) \in 1..(Len(s) - i) /\ (a \o b)[j] = b[j - (i - 1)]
      BY <1>4, <3>0
    <3>2. b[j - (i - 1)] = s[(j - (i - 1)) + i] /\ (j - (i - 1)) + i = j + 1
      BY <1>3, <3>1
    <3> QED BY <2>2, <3>1, <3>2
  <2> QED BY <2>1, <2>2
<1> QED BY <1>4, <1>5 DEF a, b, RemoveAt

\* Without a key, the cache holds only other entries of its own.
LEMMA OthersProperties ==
    ASSUME AssetTyped, KeysDistinct(classified), NEW key
    PROVE  /\ Others(key) \in Seq(AssetVerdict) /\ KeysDistinct(Others(key))
           /\ Len(Others(key)) = IF Cached(key) THEN Len(classified) - 1 ELSE Len(classified)
           /\ \A j \in DOMAIN Others(key) :
                /\ Others(key)[j].key # key
                /\ \E i \in DOMAIN classified : Others(key)[j] = classified[i]
<1>1. CASE ~Cached(key)
  BY <1>1 DEF Others, Cached, AssetTyped
<1>2. CASE Cached(key)
  <2>1. Slot(key) \in DOMAIN classified /\ classified[Slot(key)].key = key
    BY <1>2 DEF Cached, Slot
  <2>2. PICK n \in 1..Len(classified) : n = Slot(key) /\ classified[n].key = key
    BY <2>1, LenProperties DEF AssetTyped
  <2>3. PICK o : o = RemoveAt(classified, n)
    OBVIOUS
  <2>4. /\ o \in Seq(AssetVerdict) /\ Len(o) = Len(classified) - 1
        /\ \A j \in 1..(Len(classified) - 1) : o[j] = IF j < n THEN classified[j] ELSE classified[j + 1]
    BY <2>3, RemoveAtProperties DEF AssetTyped
  <2>5. DOMAIN o = 1..(Len(classified) - 1) /\ DOMAIN classified = 1..Len(classified) /\ Len(classified) \in Nat
    BY <2>4, LenProperties DEF AssetTyped
  <2>6. KeysDistinct(o)
    <3>1. SUFFICES ASSUME NEW i \in DOMAIN o, NEW j \in DOMAIN o, o[i].key = o[j].key PROVE i = j
      BY DEF KeysDistinct
    <3>2. PICK k \in DOMAIN classified : o[i] = classified[k] /\ k = IF i < n THEN i ELSE i + 1
      BY <2>4, <2>5
    <3>3. PICK l \in DOMAIN classified : o[j] = classified[l] /\ l = IF j < n THEN j ELSE j + 1
      BY <2>4, <2>5
    <3>4. k = l
      BY <3>1, <3>2, <3>3 DEF KeysDistinct
    <3> QED BY <2>2, <2>5, <3>2, <3>3, <3>4
  <2>7. \A j \in DOMAIN o : o[j].key # key /\ \E i \in DOMAIN classified : o[j] = classified[i]
    BY <2>2, <2>4, <2>5 DEF KeysDistinct
  <2> QED BY <1>2, <2>2, <2>3, <2>4, <2>6, <2>7 DEF Others
<1> QED BY <1>1, <1>2

\* move_to_end, or a new entry at the end: one entry more than the others.
LEMMA VerdictAppended ==
    ASSUME NEW c \in Seq(AssetVerdict), KeysDistinct(c), NEW x \in AssetVerdict,
           \A j \in DOMAIN c : c[j].key # x.key
    PROVE  /\ Append(c, x) \in Seq(AssetVerdict) /\ KeysDistinct(Append(c, x))
           /\ Len(Append(c, x)) = Len(c) + 1
           /\ \A j \in DOMAIN Append(c, x) : Append(c, x)[j] = x \/ \E i \in DOMAIN c : Append(c, x)[j] = c[i]
<1>1. PICK a : a = Append(c, x)
  OBVIOUS
<1>2. /\ a \in Seq(AssetVerdict) /\ Len(a) = Len(c) + 1 /\ a[Len(c) + 1] = x
      /\ \A i \in 1..Len(c) : a[i] = c[i]
  BY <1>1, AppendProperties
<1>3. DOMAIN c = 1..Len(c) /\ DOMAIN a = 1..(Len(c) + 1) /\ Len(c) \in Nat
  BY <1>2, LenProperties
<1>4. KeysDistinct(a)
  BY <1>2, <1>3 DEF KeysDistinct
<1> QED BY <1>1, <1>2, <1>3, <1>4

\* popitem(last=False) keeps the other entries.
LEMMA VerdictEvicted ==
    ASSUME NEW c \in Seq(AssetVerdict), KeysDistinct(c), c # <<>>
    PROVE  /\ Tail(c) \in Seq(AssetVerdict) /\ KeysDistinct(Tail(c)) /\ Len(Tail(c)) = Len(c) - 1
           /\ \A j \in DOMAIN Tail(c) : \E i \in DOMAIN c : Tail(c)[j] = c[i]
<1>1. PICK a : a = Tail(c)
  OBVIOUS
<1>2. a \in Seq(AssetVerdict) /\ Len(a) = Len(c) - 1 /\ \A i \in 1..Len(a) : a[i] = c[i + 1]
  BY <1>1, HeadTailProperties
<1>3. DOMAIN c = 1..Len(c) /\ DOMAIN a = 1..(Len(c) - 1) /\ Len(c) \in Nat
  BY <1>2, LenProperties
<1>4. KeysDistinct(a)
  BY <1>2, <1>3 DEF KeysDistinct
<1> QED BY <1>1, <1>2, <1>3, <1>4

\* A path's current revision is one that it has.
LEMMA CurrentRevision ==
    ASSUME AssetTyped, NEW p \in AssetPaths, NEW r \in 1..revision[p]
    PROVE  /\ r \in Nat /\ r \in DOMAIN StandardsOf[p] /\ revision[p] \in DOMAIN StandardsOf[p]
           /\ Verifies[p][r] \in BOOLEAN /\ (Verifies[p][r] => HasSource[p][r])
<1>1. Len(StandardsOf[p]) \in Nat /\ DOMAIN StandardsOf[p] = 1..Len(StandardsOf[p])
  BY AssetAssumption, LenProperties
<1>2. r \in DOMAIN StandardsOf[p] /\ revision[p] \in DOMAIN StandardsOf[p] /\ r \in Nat
  BY <1>1 DEF AssetTyped
<1> QED BY <1>2, AssetAssumption

\* A request that has read nothing has nothing wrong.
LEMMA AssetInitInv == AssetInit => AssetInv
<1> SUFFICES ASSUME AssetInit PROVE AssetInv
  OBVIOUS
<1>1. \A p \in AssetPaths : 1 \in 1..Len(StandardsOf[p])
  <2> SUFFICES ASSUME NEW p \in AssetPaths PROVE 1 \in 1..Len(StandardsOf[p])
    OBVIOUS
  <2>1. StandardsOf[p] \in Seq(SUBSET {"grc20", "grc721"}) /\ StandardsOf[p] # <<>>
    BY AssetAssumption
  <2> QED BY <2>1, EmptySeq, LenProperties
<1>2. classified \in Seq(AssetVerdict) /\ Len(classified) = 0 /\ DOMAIN classified = {}
  BY DEF AssetInit
<1>3. AssetTyped
  BY <1>1, <1>2 DEF AssetInit, AssetTyped, AssetRequest, Resting
<1>4. \A t \in Handlers : HandlerSound(handler[t])
  BY DEF AssetInit, HandlerSound, Resting
<1> QED BY <1>2, <1>3, <1>4, AssetAssumption DEF AssetInv, KeysDistinct

\* A revision of one path is published: what was read of it is now older.
LEMMA PublishStep ==
    ASSUME AssetInv, NEW p \in AssetPaths, PublishRevision(p)
    PROVE  AssetInv'
<1>1. /\ revision[p] < Len(StandardsOf[p]) /\ revision' = [revision EXCEPT ![p] = @ + 1]
      /\ UNCHANGED <<classified, handler>> /\ revision \in [AssetPaths -> Nat]
  BY DEF PublishRevision, AssetInv, AssetTyped
<1>2. \A q \in AssetPaths : revision'[q] = IF q = p THEN revision[q] + 1 ELSE revision[q]
  BY <1>1
<1>3. \A q \in AssetPaths : revision'[q] >= revision[q] /\ (revision'[q] = revision[q] \/ revision'[q] > revision[q])
  BY <1>1, <1>2
<1>4. AssetTyped'
  <2>1. \A q \in AssetPaths : Len(StandardsOf[q]) \in Nat
    BY AssetAssumption, LenProperties
  <2> QED BY <1>1, <1>2, <2>1 DEF AssetInv, AssetTyped
<1>5. ASSUME NEW i \in DOMAIN classified PROVE VerdictSound(classified[i])'
  <2>1. classified[i] \in AssetVerdict /\ VerdictSound(classified[i])
    BY <1>5, ElementOfSeq, LenProperties DEF AssetInv, AssetTyped
  <2>2. PICK q \in AssetPaths : q = classified[i].key[1]
    BY <2>1 DEF AssetVerdict
  <2>3. PICK r \in Nat : r = classified[i].key[3]
    BY <2>1 DEF AssetVerdict
  <2>4. r \in 1..revision'[q] /\ (r = revision'[q] => r = revision[q])
    BY <1>1, <1>3, <2>1, <2>2, <2>3 DEF VerdictSound
  <2> QED BY <1>1, <2>1, <2>2, <2>3, <2>4 DEF VerdictSound
<1>6. ASSUME NEW t \in Handlers PROVE HandlerSound(handler[t])'
  <2>1. PICK h : h = handler[t]
    OBVIOUS
  <2>2. HandlerSound(h) /\ h.rows \subseteq AssetRow /\ h.misses \subseteq AssetRow
    BY <2>1 DEF AssetInv, AssetTyped, AssetRequest
  <2>3. \A row \in h.rows \cup h.misses : row.path \in AssetPaths /\ row.revision \in Nat
    BY <2>2 DEF AssetRow
  <2>4. \A row \in h.rows \cup h.misses : row.revision \in 1..revision'[row.path]
    BY <1>1, <1>3, <2>2, <2>3 DEF HandlerSound
  <2>5. \A row \in h.misses : row.revision = revision'[row.path] => row.revision = revision[row.path]
    BY <1>1, <1>3, <2>2, <2>3 DEF HandlerSound
  <2> QED BY <1>1, <2>1, <2>2, <2>4, <2>5 DEF HandlerSound
<1> QED BY <1>1, <1>4, <1>5, <1>6 DEF AssetInv, KeysDistinct

\* The cache holds sound verdicts, one for a key, within its bound.
CacheSound(c) ==
    /\ c \in Seq(AssetVerdict) /\ Len(c) <= CacheSize /\ KeysDistinct(c)
    /\ \A i \in DOMAIN c : VerdictSound(c[i])

\* A step of one thread keeps the invariant when it keeps its own request and
\* the cache sound.
LEMMA HandlerStep ==
    ASSUME AssetInv, NEW t \in Handlers, NEW h \in AssetRequest, HandlerSound(h),
           handler'[t] = h, \A u \in Handlers \ {t} : handler'[u] = handler[u],
           handler' = [u \in Handlers |-> handler'[u]], revision' = revision, CacheSound(classified')
    PROVE  AssetInv'
<1>2. \A u \in Handlers : handler'[u] = IF u = t THEN h ELSE handler[u]
  OBVIOUS
<1>5. handler' \in [Handlers -> AssetRequest]
  <2>1. \A u \in Handlers : handler'[u] \in AssetRequest
    BY <1>2 DEF AssetInv, AssetTyped
  <2> QED BY <2>1
<1>1. AssetTyped'
  BY <1>5 DEF AssetInv, AssetTyped, CacheSound
<1>3. \A u \in Handlers : HandlerSound(handler[u])'
  BY <1>2 DEF AssetInv, HandlerSound
<1>4. \A i \in DOMAIN classified' : VerdictSound(classified[i])'
  BY DEF CacheSound, VerdictSound
<1> QED BY <1>1, <1>3, <1>4 DEF AssetInv, CacheSound, KeysDistinct

\* get moves the entry to the end, put stores one: both keep the cache sound.
LEMMA CachePut ==
    ASSUME AssetInv, NEW x \in AssetVerdict, VerdictSound(x)
    PROVE  /\ Cached(x.key) => CacheSound(Append(Others(x.key), x))
           /\ LET all == Append(Others(x.key), x)
              IN  CacheSound(IF Len(all) > CacheSize THEN Tail(all) ELSE all)
<1>1. PICK o : o = Others(x.key)
  OBVIOUS
<1>2. /\ o \in Seq(AssetVerdict) /\ KeysDistinct(o)
      /\ Len(o) = IF Cached(x.key) THEN Len(classified) - 1 ELSE Len(classified)
      /\ \A j \in DOMAIN o : o[j].key # x.key /\ \E i \in DOMAIN classified : o[j] = classified[i]
  BY <1>1, OthersProperties DEF AssetInv
<1>3. PICK a : a = Append(o, x)
  OBVIOUS
<1>4. /\ a \in Seq(AssetVerdict) /\ KeysDistinct(a) /\ Len(a) = Len(o) + 1
      /\ \A j \in DOMAIN a : a[j] = x \/ \E i \in DOMAIN o : a[j] = o[i]
  BY <1>2, <1>3, VerdictAppended
<1>5. \A j \in DOMAIN a : VerdictSound(a[j])
  BY <1>2, <1>4 DEF AssetInv
<1>6. Len(classified) \in Nat /\ Len(classified) <= CacheSize /\ CacheSize \in Nat \ {0} /\ Len(o) \in Nat
  BY <1>2, LenProperties, AssetAssumption DEF AssetInv, AssetTyped
<1>7. Cached(x.key) => CacheSound(a)
  BY <1>2, <1>4, <1>5, <1>6 DEF CacheSound
<1>8. CASE Len(a) > CacheSize
  <2>1. a # <<>>
    BY <1>4, <1>6, EmptySeq
  <2>2. /\ Tail(a) \in Seq(AssetVerdict) /\ KeysDistinct(Tail(a)) /\ Len(Tail(a)) = Len(a) - 1
        /\ \A j \in DOMAIN Tail(a) : \E i \in DOMAIN a : Tail(a)[j] = a[i]
    BY <1>4, <2>1, VerdictEvicted
  <2>3. CacheSound(Tail(a))
    BY <1>2, <1>4, <1>5, <1>6, <2>2 DEF CacheSound
  <2> QED BY <1>1, <1>3, <1>7, <1>8, <2>3
<1>9. CASE ~(Len(a) > CacheSize)
  <2>1. CacheSound(a)
    BY <1>4, <1>5, <1>6, <1>9 DEF CacheSound
  <2> QED BY <1>1, <1>3, <1>7, <1>9, <2>1
<1> QED BY <1>8, <1>9

\* The candidates are read at their current revisions.
LEMMA FetchCandidatesStep ==
    ASSUME AssetInv, NEW t \in Handlers, NEW paths \in SUBSET AssetPaths, FetchCandidates(t, paths)
    PROVE  AssetInv'
<1>1. PICK rows : /\ rows = UNION {CandidatesOf(p) : p \in {q \in paths : Cardinality(CandidatesOf(q)) = 1}}
                  /\ handler' = [handler EXCEPT ![t] = [Resting EXCEPT !.pc = "lookup", !.rows = rows]]
  BY DEF FetchCandidates
<1>2. ASSUME NEW row \in rows PROVE row \in AssetRow /\ row.revision \in 1..revision[row.path]
  <2>1. PICK p \in paths : row \in CandidatesOf(p)
    BY <1>1, <1>2
  <2>2. p \in AssetPaths /\ revision[p] \in Nat /\ revision[p] \in 1..revision[p] /\ revision[p] # 0
    BY AssetAssumption, LenProperties DEF AssetInv, AssetTyped
  <2>3. PICK s \in StandardsOf[p][revision[p]] : row = [path |-> p, standard |-> s, revision |-> revision[p]]
    BY <2>1, <2>2 DEF CandidatesOf
  <2>4. StandardsOf[p][revision[p]] \subseteq {"grc20", "grc721"}
    BY <2>2, CurrentRevision, AssetAssumption, ElementOfSeq, LenProperties DEF AssetInv
  <2> QED BY <2>2, <2>3, <2>4 DEF AssetRow
<1>3. PICK h : h = [Resting EXCEPT !.pc = "lookup", !.rows = rows]
  OBVIOUS
<1>4. /\ handler'[t] = h /\ \A u \in Handlers \ {t} : handler'[u] = handler[u]
      /\ handler' = [u \in Handlers |-> handler'[u]]
  BY <1>1, <1>3 DEF AssetInv, AssetTyped
<1>5. h \in AssetRequest /\ HandlerSound(h)
  BY <1>2, <1>3 DEF AssetRequest, HandlerSound, Resting
<1>6. CacheSound(classified') /\ revision' = revision
  BY DEF FetchCandidates, AssetInv, AssetTyped, CacheSound
<1> QED BY <1>4, <1>5, <1>6, HandlerStep

\* get answers with what the cache knows of the row, or the row is a miss.
LEMMA LookupStep == ASSUME AssetInv, NEW t \in Handlers, Lookup(t) PROVE AssetInv'
<1>0. PICK g \in AssetRequest : g = handler[t] /\ HandlerSound(g)
  BY DEF AssetInv, AssetTyped
<1>1. CASE g.rows = {}
  <2>1. /\ handler'[t].pc \in {"answer", "files"} /\ handler'[t] \in AssetRequest
        /\ handler'[t].rows = {} /\ handler'[t].misses = g.misses /\ handler'[t].verified = g.verified
        /\ \A u \in Handlers \ {t} : handler'[u] = handler[u]
        /\ handler' = [u \in Handlers |-> handler'[u]]
    BY <1>0, <1>1, SMTT(30) DEF Lookup, AssetInv, AssetTyped, AssetRequest
  <2>2. PICK h \in AssetRequest : h = handler'[t]
    BY <2>1
  <2>3. HandlerSound(h)
    BY <1>0, <2>1, <2>2 DEF HandlerSound
  <2>4. CacheSound(classified') /\ revision' = revision
    BY <1>0, <1>1 DEF Lookup, AssetInv, AssetTyped, CacheSound
  <2> QED BY <2>1, <2>2, <2>3, <2>4, HandlerStep
<1>2. CASE g.rows # {}
  <2>1. PICK row \in g.rows : row = CHOOSE x \in g.rows : TRUE
    BY <1>2
  <2>2. PICK key : key = KeyOfRow(row)
    OBVIOUS
  <2>3. /\ handler' = [handler EXCEPT
             ![t].rows = @ \ {row},
             ![t].misses = IF Cached(key) THEN @ ELSE @ \cup {row},
             ![t].verified = IF Cached(key) /\ Verdict(key).verified THEN @ \cup {row} ELSE @]
        /\ classified' = IF Cached(key) THEN Append(Others(key), Verdict(key)) ELSE classified
        /\ revision' = revision
    BY <1>0, <1>2, <2>1, <2>2 DEF Lookup
  <2>4. row \in AssetRow /\ row.path \in AssetPaths /\ row.revision \in 1..revision[row.path]
    BY <1>0, <2>1 DEF AssetRequest, AssetRow, HandlerSound
  <2>5. key = <<row.path, row.standard, row.revision>> /\ key[1] = row.path /\ key[3] = row.revision
    BY <2>2, <2>4 DEF KeyOfRow
  <2>6. ASSUME Cached(key)
        PROVE  Verdict(key) \in AssetVerdict /\ VerdictSound(Verdict(key)) /\ Verdict(key).key = key
    <3>1. Slot(key) \in DOMAIN classified /\ classified[Slot(key)].key = key
      BY <2>6 DEF Cached, Slot
    <3> QED BY <3>1, ElementOfSeq, LenProperties DEF AssetInv, AssetTyped, Verdict
  <2>7. CacheSound(classified')
    <3>1. CASE Cached(key)
      BY <2>3, <2>6, <3>1, CachePut
    <3>2. CASE ~Cached(key)
      BY <2>3, <3>2 DEF AssetInv, AssetTyped, CacheSound
    <3> QED BY <3>1, <3>2
  <2>8. /\ handler'[t].pc = g.pc /\ handler'[t].rows = g.rows \ {row}
        /\ handler'[t].misses = IF Cached(key) THEN g.misses ELSE g.misses \cup {row}
        /\ handler'[t].verified = IF Cached(key) /\ Verdict(key).verified THEN g.verified \cup {row} ELSE g.verified
        /\ \A u \in Handlers \ {t} : handler'[u] = handler[u]
        /\ handler' = [u \in Handlers |-> handler'[u]]
    BY <1>0, <2>3 DEF AssetInv, AssetTyped, AssetRequest
  <2>9. handler'[t] \in AssetRequest
    BY <1>0, <2>1, <2>3, <2>4 DEF AssetInv, AssetTyped, AssetRequest
  <2>10. PICK h \in AssetRequest : h = handler'[t]
    BY <2>9
  <2>11. HandlerSound(h)
    <3>1. h.pc # "classify"
      BY <1>0, <2>8, <2>10 DEF Lookup
    <3>2. \A x \in h.rows \cup h.misses : x.revision \in 1..revision[x.path]
      BY <1>0, <2>4, <2>8, <2>10 DEF HandlerSound
    <3>3. \A x \in h.verified : Verifies[x.path][x.revision]
      BY <1>0, <2>5, <2>6, <2>8, <2>10 DEF HandlerSound, VerdictSound
    <3> QED BY <3>1, <3>2, <3>3 DEF HandlerSound
  <2> QED BY <2>3, <2>7, <2>8, <2>10, <2>11, HandlerStep
<1> QED BY <1>1, <1>2

\* The sources are those of the current revision; none means it has none.
LEMMA FetchFilesStep == ASSUME AssetInv, NEW t \in Handlers, FetchFiles(t) PROVE AssetInv'
<1>0. PICK g \in AssetRequest : g = handler[t] /\ HandlerSound(g)
  BY DEF AssetInv, AssetTyped
<1>1. PICK files : files = {[path |-> row.path, revision |-> revision[row.path]] :
                               row \in {x \in g.misses : HasSource[x.path][revision[x.path]]}}
  OBVIOUS
<1>2. handler' = [handler EXCEPT ![t].files = files, ![t].pc = "classify"]
  BY <1>0, <1>1 DEF FetchFiles
<1>3. \A x \in g.misses : x.path \in AssetPaths /\ revision[x.path] \in Nat
  BY <1>0 DEF AssetRequest, AssetRow, AssetInv, AssetTyped
<1>4. files \subseteq [path : AssetPaths, revision : Nat]
  BY <1>1, <1>3
<1>5. /\ handler'[t].pc = "classify" /\ handler'[t].rows = g.rows /\ handler'[t].misses = g.misses
      /\ handler'[t].verified = g.verified /\ handler'[t].files = files
      /\ \A u \in Handlers \ {t} : handler'[u] = handler[u]
      /\ handler' = [u \in Handlers |-> handler'[u]] /\ handler'[t] \in AssetRequest
  BY <1>0, <1>2, <1>4 DEF AssetInv, AssetTyped, AssetRequest
<1>6. PICK h \in AssetRequest : h = handler'[t]
  BY <1>5
<1>7. ASSUME NEW row \in h.misses, row.revision = revision[row.path]
      PROVE  (\E f \in h.files : f.path = row.path) \/ ~HasSource[row.path][row.revision]
  <2>1. CASE HasSource[row.path][revision[row.path]]
    <3>1. [path |-> row.path, revision |-> revision[row.path]] \in files
      BY <1>1, <1>5, <1>6, <1>7, <2>1
    <3> QED BY <1>5, <1>6, <3>1
  <2> QED BY <1>7, <2>1
<1>8. HandlerSound(h)
  BY <1>0, <1>5, <1>6, <1>7 DEF HandlerSound
<1>9. CacheSound(classified') /\ revision' = revision
  BY DEF FetchFiles, AssetInv, AssetTyped, CacheSound
<1> QED BY <1>5, <1>6, <1>8, <1>9, HandlerStep

\* A miss is classified from the sources of its own revision only.
LEMMA ClassifyStep == ASSUME AssetInv, NEW t \in Handlers, Classify(t) PROVE AssetInv'
<1>0. PICK g \in AssetRequest : g = handler[t] /\ HandlerSound(g) /\ g.pc = "classify" /\ g.misses # {}
  BY DEF AssetInv, AssetTyped, Classify
<1>1. PICK row \in g.misses : row = CHOOSE x \in g.misses : TRUE
  BY <1>0
<1>2. PICK usable : usable = SameRevision(row, g.files)
  OBVIOUS
<1>3. PICK verified : verified = Classification(row, g.files)
  OBVIOUS
<1>4. /\ handler' = [handler EXCEPT
           ![t].misses = @ \ {row},
           ![t].verified = IF usable /\ verified THEN @ \cup {row} ELSE @]
      /\ IF usable THEN Put(KeyOfRow(row), verified) ELSE UNCHANGED classified
      /\ revision' = revision
  BY <1>0, <1>1, <1>2, <1>3 DEF Classify
<1>5. /\ row \in AssetRow /\ row.path \in AssetPaths /\ row.revision \in 1..revision[row.path]
      /\ row.revision \in Nat /\ row.standard \in {"grc20", "grc721"}
  BY <1>0, <1>1 DEF AssetRequest, AssetRow, HandlerSound
<1>6. /\ Verifies[row.path][row.revision] \in BOOLEAN
      /\ Verifies[row.path][row.revision] => HasSource[row.path][row.revision]
  BY <1>5, CurrentRevision DEF AssetInv
<1>7. verified \in BOOLEAN
  BY <1>3 DEF Classification
<1>8. ASSUME usable, verified PROVE Verifies[row.path][row.revision]
  BY <1>2, <1>3, <1>8 DEF SameRevision, Classification
<1>9. ASSUME usable, row.revision = revision[row.path] PROVE verified = Verifies[row.path][row.revision]
  <2>1. CASE \E f \in g.files : f.path = row.path
    BY <1>2, <1>3, <1>6, <1>7, <1>9, <2>1 DEF SameRevision, Classification
  <2>2. CASE ~\E f \in g.files : f.path = row.path
    <3>1. ~HasSource[row.path][row.revision]
      BY <1>0, <1>1, <1>9, <2>2 DEF HandlerSound
    <3>2. verified = FALSE
      BY <1>3, <2>2 DEF Classification
    <3> QED BY <1>6, <3>1, <3>2
  <2> QED BY <2>1, <2>2
<1>10. CacheSound(classified')
  <2>1. CASE usable
    <3>1. PICK x : x = [key |-> KeyOfRow(row), verified |-> verified]
      OBVIOUS
    <3>2. x \in AssetVerdict /\ x.key = KeyOfRow(row) /\ x.key[1] = row.path /\ x.key[3] = row.revision /\ x.verified = verified
      BY <1>5, <1>7, <3>1 DEF AssetVerdict, KeyOfRow
    <3>3. VerdictSound(x)
      BY <1>5, <1>8, <1>9, <2>1, <3>2 DEF VerdictSound
    <3>4. classified' = LET all == Append(Others(x.key), x)
                        IN  IF Len(all) > CacheSize THEN Tail(all) ELSE all
      BY <1>4, <2>1, <3>1, <3>2 DEF Put
    <3> QED BY <3>2, <3>3, <3>4, CachePut
  <2>2. CASE ~usable
    BY <1>4, <2>2 DEF AssetInv, AssetTyped, CacheSound
  <2> QED BY <2>1, <2>2
<1>11. /\ handler'[t].pc = g.pc /\ handler'[t].rows = g.rows /\ handler'[t].files = g.files
       /\ handler'[t].misses = g.misses \ {row}
       /\ handler'[t].verified = IF usable /\ verified THEN g.verified \cup {row} ELSE g.verified
       /\ \A u \in Handlers \ {t} : handler'[u] = handler[u]
       /\ handler' = [u \in Handlers |-> handler'[u]] /\ handler'[t] \in AssetRequest
  BY <1>0, <1>4, <1>5 DEF AssetInv, AssetTyped, AssetRequest
<1>12. PICK h \in AssetRequest : h = handler'[t]
  BY <1>11
<1>13. HandlerSound(h)
  BY <1>0, <1>8, <1>11, <1>12 DEF HandlerSound
<1> QED BY <1>4, <1>10, <1>11, <1>12, <1>13, HandlerStep

\* The answer is what was verified.
LEMMA FinishStep == ASSUME AssetInv, NEW t \in Handlers, Finish(t) PROVE AssetInv'
<1>0. PICK g \in AssetRequest : g = handler[t] /\ HandlerSound(g)
  BY DEF AssetInv, AssetTyped
<1>1. /\ handler'[t].pc = "done" /\ handler'[t].rows = g.rows /\ handler'[t].misses = g.misses
      /\ handler'[t].verified = g.verified
      /\ \A u \in Handlers \ {t} : handler'[u] = handler[u]
      /\ handler' = [u \in Handlers |-> handler'[u]] /\ handler'[t] \in AssetRequest
  BY <1>0 DEF Finish, AssetInv, AssetTyped, AssetRequest
<1>2. PICK h \in AssetRequest : h = handler'[t]
  BY <1>1
<1>3. HandlerSound(h)
  BY <1>0, <1>1, <1>2 DEF HandlerSound
<1>4. CacheSound(classified') /\ revision' = revision
  BY DEF Finish, AssetInv, AssetTyped, CacheSound
<1> QED BY <1>1, <1>2, <1>3, <1>4, HandlerStep

\* The asset classification of any paths, revisions and sources, by any number
\* of threads that share a cache of any size: no thread shows or caches as
\* verified a revision whose own sources do not verify it.
THEOREM AssetsAreVerified == AssetSpec => []AssetsVerified
<1>1. AssetInv => AssetsVerified
  BY DEF AssetInv, AssetsVerified, KeysDistinct, VerdictSound, HandlerSound
<1>2. AssetInv /\ [AssetNext]_assetVars => AssetInv'
  <2>1. AssetInv /\ AssetNext => AssetInv'
    BY PublishStep, FetchCandidatesStep, LookupStep, FetchFilesStep, ClassifyStep, FinishStep DEF AssetNext
  <2>2. AssetInv /\ UNCHANGED assetVars => AssetInv'
    BY DEF assetVars, AssetInv, AssetTyped, KeysDistinct, VerdictSound, HandlerSound
  <2> QED BY <2>1, <2>2
<1> QED BY <1>1, <1>2, AssetInitInv, PTL DEF AssetSpec

-----------------------------------------------------------------------------
(* CosmosSigning.  At most one warm-up task runs.  While it aggregates, a  *)
(* strip it writes is below the height it is at and may be too long; every *)
(* other strip is as the last task left it.                                *)

Point == [height : Nat, status : {"commit", "nil", "absent", "unknown"}]
Warming == {"start", "candidates", "blocks", "aggregate", "set"}
WarmupTask == [pc : Warming \cup {"done"}, active : SUBSET Signers, from : Nat, to : Nat, at : Nat]

SigningTyped ==
    /\ signingHeight \in Nat
    /\ strip \in [Signers -> Seq(Point)]
    /\ task \in [TaskIds -> WarmupTask]

\* A strip that ascends to at most the height n and tells the truth.
Ascends(s, v, n) ==
    \A i \in 1..Len(s) :
        /\ i > 1 => s[i - 1].height < s[i].height
        /\ s[i].height <= n
        /\ s[i].status # "unknown" => v \in SignersAt[s[i].height] /\ s[i].status = SignedAt[s[i].height][v]

Trimmed(v) == Ascends(strip[v], v, signingHeight) /\ Len(strip[v]) <= Points

TaskSound(k) ==
    /\ k.pc = "start" => k.to \in ChainHeights
    /\ k.pc \in Warming \ {"start"} =>
         /\ k.from >= 1 /\ k.at >= k.from /\ k.from > signingHeight
         /\ k.at <= k.to + 1 /\ k.to < Len(SignersAt)
    /\ k.pc \in {"candidates", "blocks"} => k.at = k.from
    /\ k.pc = "set" => k.at <= k.to
    /\ k.pc \in {"start", "candidates", "blocks"} => \A v \in Signers : Trimmed(v)
    /\ k.pc \in {"aggregate", "set"} =>
         \A v \in Signers : IF v \in k.active THEN Ascends(strip[v], v, k.at - 1) ELSE Trimmed(v)

SigningInv ==
    /\ SigningTyped
    /\ \A t \in TaskIds : (task[t].pc # "done" => t = warmup) /\ TaskSound(task[t])
    /\ (\A t \in TaskIds : task[t].pc = "done") => \A v \in Signers : Trimmed(v)

\* The heights of the chain are those of its validator sets.
LEMMA ChainHeightsNat == Len(SignersAt) \in Nat /\ ChainHeights = 1..Len(SignersAt) /\ Points \in Nat \ {0}
BY SigningAssumption, LenProperties DEF ChainHeights

\* The participation of a validator at a height of the chain.
LEMMA StatusTyped ==
    ASSUME NEW h \in ChainHeights, NEW known \in BOOLEAN, NEW v \in Signers
    PROVE  /\ Status(h, known, v) \in {"commit", "nil", "absent", "unknown"}
           /\ Status(h, known, v) # "unknown" => v \in SignersAt[h] /\ Status(h, known, v) = SignedAt[h][v]
BY SigningAssumption DEF Status, ChainHeights

\* A truthful point above the others keeps the strip ascending.
LEMMA StripAppended ==
    ASSUME NEW s \in Seq(Point), NEW v \in Signers, NEW h \in ChainHeights, NEW known \in BOOLEAN,
           Ascends(s, v, h - 1)
    PROVE  LET a == Append(s, [height |-> h, status |-> Status(h, known, v)])
           IN  a \in Seq(Point) /\ Ascends(a, v, h)
<1>1. PICK x : x = [height |-> h, status |-> Status(h, known, v)]
  OBVIOUS
<1>2. h \in Nat /\ x \in Point /\ x.height = h /\ x.status = Status(h, known, v)
  BY <1>1, StatusTyped, ChainHeightsNat DEF Point
<1>3. PICK a : a = Append(s, x)
  OBVIOUS
<1>4. a \in Seq(Point) /\ Len(a) = Len(s) + 1 /\ a[Len(s) + 1] = x /\ \A i \in 1..Len(s) : a[i] = s[i]
  BY <1>2, <1>3, AppendProperties
<1>5. Len(s) \in Nat /\ \A i \in 1..Len(s) : s[i].height \in Nat
  <2>1. \A i \in 1..Len(s) : s[i] \in Point
    BY ElementOfSeq
  <2> QED BY <2>1, LenProperties DEF Point
<1>6. ASSUME NEW i \in 1..Len(a)
      PROVE  /\ i > 1 => a[i - 1].height < a[i].height
             /\ a[i].height <= h
             /\ a[i].status # "unknown" => v \in SignersAt[a[i].height] /\ a[i].status = SignedAt[a[i].height][v]
  <2>1. CASE i = Len(s) + 1
    <3>1. a[i] = x /\ (i > 1 => i - 1 \in 1..Len(s) /\ a[i - 1] = s[i - 1])
      BY <1>4, <1>5, <2>1
    <3>2. i > 1 => s[i - 1].height <= h - 1 /\ s[i - 1].height \in Nat
      BY <1>5, <3>1 DEF Ascends
    <3>3. i > 1 => a[i - 1].height < a[i].height
      BY <1>2, <3>1, <3>2
    <3> QED BY <1>2, <3>1, <3>3, StatusTyped
  <2>2. CASE i # Len(s) + 1
    <3>1. i \in 1..Len(s) /\ a[i] = s[i] /\ (i > 1 => i - 1 \in 1..Len(s) /\ a[i - 1] = s[i - 1])
      BY <1>4, <1>5, <2>2
    <3>2. s[i].height <= h
      BY <1>2, <1>5, <3>1 DEF Ascends
    <3> QED BY <3>1, <3>2 DEF Ascends
  <2> QED BY <2>1, <2>2
<1> QED BY <1>1, <1>3, <1>4, <1>6 DEF Ascends

\* The newest points of an ascending strip ascend, and are no more than Points.
LEMMA StripNewest ==
    ASSUME NEW s \in Seq(Point), NEW v \in Signers, NEW n \in Nat, Ascends(s, v, n)
    PROVE  Newest(s) \in Seq(Point) /\ Ascends(Newest(s), v, n) /\ Len(Newest(s)) <= Points
<1>1. Len(s) \in Nat /\ Points \in Nat \ {0} /\ \A i \in 1..Len(s) : s[i] \in Point
  BY LenProperties, ElementOfSeq, ChainHeightsNat
<1>2. PICK m \in Nat \ {0} : m = Greatest(1, Len(s) - Points + 1)
  BY <1>1, SMTT(30) DEF Greatest
<1>3. m >= Len(s) - Points + 1
  BY <1>1, <1>2 DEF Greatest
<1>4. PICK q : q = SubSeq(s, m, Len(s))
  OBVIOUS
<1>5. /\ q \in Seq(Point) /\ Len(q) = IF m <= Len(s) THEN Len(s) - m + 1 ELSE 0
      /\ \A i \in 1..(Len(s) - m + 1) : q[i] = s[m + i - 1]
  <2>1. \A i \in m..Len(s) : s[i] \in Point
    BY <1>1, <1>2
  <2> QED BY <1>1, <1>2, <1>4, <2>1, SubSeqProperties
<1>6. ASSUME NEW i \in 1..Len(q)
      PROVE  /\ i > 1 => q[i - 1].height < q[i].height
             /\ q[i].height <= n
             /\ q[i].status # "unknown" => v \in SignersAt[q[i].height] /\ q[i].status = SignedAt[q[i].height][v]
  <2>0. i \in 1..(Len(s) - m + 1) /\ i \in Nat \ {0} /\ m \in Nat
    <3>1. Len(q) \in Nat /\ (m <= Len(s) => Len(q) = Len(s) - m + 1) /\ (~(m <= Len(s)) => Len(q) = 0)
      BY <1>5, LenProperties
    <3> QED BY <1>1, <1>2, <3>1
  <2>1. PICK k \in 1..Len(s) : k = m + i - 1 /\ q[i] = s[k]
    <3>1. m + i - 1 \in 1..Len(s)
      BY <1>1, <1>2, <2>0
    <3> QED BY <1>5, <2>0, <3>1
  <2>2. i > 1 => k > 1 /\ q[i - 1] = s[k - 1]
    <3>1. i > 1 => i - 1 \in 1..(Len(s) - m + 1) /\ m + (i - 1) - 1 = k - 1 /\ k > 1
      BY <1>1, <1>2, <2>0, <2>1, SMTT(30)
    <3> QED BY <1>5, <3>1
  <2> QED BY <2>1, <2>2 DEF Ascends
<1>7. Len(q) <= Points
  BY <1>1, <1>2, <1>3, <1>5
<1> QED BY <1>2, <1>4, <1>5, <1>6, <1>7 DEF Newest, Ascends

\* A step of one task, while no other runs.
LEMMA WarmupStep ==
    ASSUME SigningInv, NEW t \in TaskIds, \A u \in TaskIds \ {t} : task[u].pc = "done",
           task'[t] \in WarmupTask, \A u \in TaskIds \ {t} : task'[u] = task[u],
           task' = [u \in TaskIds |-> task'[u]],
           signingHeight' \in Nat, strip' \in [Signers -> Seq(Point)], warmup' = t,
           TaskSound(task[t])', task'[t].pc = "done" => \A v \in Signers : Trimmed(v)'
    PROVE  SigningInv'
<1>1. SigningTyped'
  <2>1. \A u \in TaskIds : task'[u] \in WarmupTask
    BY DEF SigningInv, SigningTyped
  <2> QED BY <2>1 DEF SigningTyped
<1>2. \A u \in TaskIds \ {t} : task'[u].pc = "done"
  OBVIOUS
<1>3. \A u \in TaskIds \ {t} : TaskSound(task[u])'
  BY <1>2 DEF TaskSound, Warming
<1> QED BY <1>1, <1>2, <1>3 DEF SigningInv

\* A task that is not done is the last one started, and the only one.
LEMMA OnlyTask ==
    ASSUME SigningInv, NEW t \in TaskIds, task[t].pc # "done"
    PROVE  warmup = t /\ \A u \in TaskIds \ {t} : task[u].pc = "done"
BY DEF SigningInv

\* What a trimmed strip is does not depend on the tasks.
LEMMA TrimmedKept ==
    ASSUME UNCHANGED <<strip, signingHeight>>, NEW v \in Signers, Trimmed(v)
    PROVE  Trimmed(v)'
BY DEF Trimmed, Ascends

\* A request starts a task only when the last one has ended.
LEMMA RequestValidatorsStep ==
    ASSUME SigningInv, NEW active \in SUBSET Signers, NEW head \in ChainHeights,
           RequestValidators(active, head)
    PROVE  SigningInv'
<1>1. \A u \in TaskIds : task[u].pc = "done"
  <2> SUFFICES ASSUME NEW u \in TaskIds, task[u].pc # "done" PROVE FALSE
    OBVIOUS
  <2>1. u = warmup /\ warmup # 0
    BY SigningAssumption DEF SigningInv
  <2> QED BY <2>1 DEF RequestValidators, WarmupDone
<1>2. PICK t \in TaskIds :
        /\ task' = [task EXCEPT ![t] = [pc |-> "start", active |-> active, from |-> head, to |-> head, at |-> head]]
        /\ warmup' = t
  BY DEF RequestValidators
<1>3. head \in Nat
  BY ChainHeightsNat
<1>4. /\ task'[t] = [pc |-> "start", active |-> active, from |-> head, to |-> head, at |-> head]
      /\ \A u \in TaskIds \ {t} : task'[u] = task[u]
      /\ task' = [u \in TaskIds |-> task'[u]]
  BY <1>2 DEF SigningInv, SigningTyped
<1>5. task'[t] \in WarmupTask
  BY <1>3, <1>4 DEF WarmupTask, Warming
<1>6. UNCHANGED <<strip, signingHeight>> /\ signingHeight \in Nat /\ strip \in [Signers -> Seq(Point)]
  BY DEF RequestValidators, SigningInv, SigningTyped
<1>7. \A v \in Signers : Trimmed(v)'
  BY <1>1, <1>6, TrimmedKept DEF SigningInv
<1>8. TaskSound(task[t])'
  BY <1>4, <1>7 DEF TaskSound
<1> QED BY <1>1, <1>2, <1>4, <1>5, <1>6, <1>7, <1>8, WarmupStep

\* The range starts above what was collected; a gap empties the strips.
LEMMA StartStep == ASSUME SigningInv, NEW t \in TaskIds, Start(t) PROVE SigningInv'
<1>0. PICK k \in WarmupTask : k = task[t] /\ k.pc = "start" /\ TaskSound(k)
  BY DEF SigningInv, SigningTyped, Start
<1>1. warmup = t /\ \A u \in TaskIds \ {t} : task[u].pc = "done"
  BY <1>0, OnlyTask
<1>2. k.to \in 1..Len(SignersAt) /\ k.to \in Nat /\ signingHeight \in Nat /\ Points \in Nat \ {0} /\ Len(SignersAt) \in Nat
  BY <1>0, ChainHeightsNat DEF TaskSound, SigningInv, SigningTyped
<1>3. PICK from \in Nat : from = FirstHeight(signingHeight, k.to) /\ from >= 1 /\ from > signingHeight
  BY <1>2 DEF FirstHeight, Greatest
<1>4. PICK to : to = LastHeight(k.to)
  OBVIOUS
<1>5. to = k.to - 1 /\ to \in Nat /\ to < Len(SignersAt)
  BY <1>2, <1>4 DEF LastHeight
<1>6. UNCHANGED <<signingHeight, warmup>> /\ \A v \in Signers : Trimmed(v)
  BY <1>0 DEF Start, TaskSound
<1>7. CASE signingHeight >= to
  <2>1. task' = [task EXCEPT ![t] = Done] /\ UNCHANGED strip
    BY <1>0, <1>4, <1>7 DEF Start
  <2>2. /\ task'[t] = Done /\ \A u \in TaskIds \ {t} : task'[u] = task[u]
        /\ task' = [u \in TaskIds |-> task'[u]]
    BY <2>1 DEF SigningInv, SigningTyped
  <2>3. task'[t] \in WarmupTask /\ task'[t].pc = "done"
    BY <2>2 DEF WarmupTask, Done
  <2>4. TaskSound(task[t])'
    BY <2>3 DEF TaskSound, Warming
  <2>5. \A v \in Signers : Trimmed(v)'
    BY <1>6, <2>1, TrimmedKept
  <2> QED BY <1>1, <1>6, <2>1, <2>2, <2>3, <2>4, <2>5, WarmupStep DEF SigningInv, SigningTyped
<1>8. CASE ~(signingHeight >= to)
  <2>1. /\ task' = [task EXCEPT ![t].pc = "candidates", ![t].from = from, ![t].to = to, ![t].at = from]
        /\ IF signingHeight = 0 \/ from > signingHeight + 1
             THEN strip' = [v \in Signers |-> <<>>] ELSE UNCHANGED strip
    BY <1>0, <1>3, <1>4, <1>8 DEF Start
  <2>2. /\ task'[t].pc = "candidates" /\ task'[t].from = from /\ task'[t].to = to /\ task'[t].at = from
        /\ \A u \in TaskIds \ {t} : task'[u] = task[u]
        /\ task' = [u \in TaskIds |-> task'[u]] /\ task'[t] \in WarmupTask
    BY <2>1, <1>3, <1>5 DEF SigningInv, SigningTyped, WarmupTask, Warming
  <2>3. strip' \in [Signers -> Seq(Point)] /\ \A v \in Signers : Trimmed(v)'
    <3>1. CASE UNCHANGED strip
      BY <1>6, <3>1, TrimmedKept DEF SigningInv, SigningTyped
    <3>2. CASE strip' = [v \in Signers |-> <<>>]
      <4>1. <<>> \in Seq(Point) /\ Len(<<>>) = 0
        OBVIOUS
      <4>2. \A v \in Signers : strip'[v] = <<>>
        BY <3>2
      <4>3. \A v \in Signers : Trimmed(v)'
        BY <4>1, <4>2, <1>2 DEF Trimmed, Ascends
      <4> QED BY <3>2, <4>1, <4>3
    <3> QED BY <2>1, <3>1, <3>2
  <2>4. from <= to + 1
    BY <1>2, <1>3, <1>5, <1>8 DEF FirstHeight, Greatest
  <2>5. TaskSound(task[t])'
    BY <1>3, <1>5, <1>6, <2>2, <2>3, <2>4 DEF TaskSound, Warming
  <2> QED BY <1>1, <1>2, <1>6, <2>2, <2>3, <2>5, WarmupStep
<1> QED BY <1>7, <1>8

\* Choosing candidates touches no strip, and may end the task.
LEMMA CandidatesStep == ASSUME SigningInv, NEW t \in TaskIds, Candidates(t) PROVE SigningInv'
<1>0. PICK k \in WarmupTask : k = task[t] /\ k.pc = "candidates" /\ TaskSound(k)
  BY DEF SigningInv, SigningTyped, Candidates
<1>1. warmup = t /\ \A u \in TaskIds \ {t} : task[u].pc = "done"
  BY <1>0, OnlyTask
<1>2. UNCHANGED <<signingHeight, strip, warmup>> /\ \A v \in Signers : Trimmed(v)
  BY <1>0 DEF Candidates, TaskSound
<1>3. signingHeight' \in Nat /\ strip' \in [Signers -> Seq(Point)] /\ \A v \in Signers : Trimmed(v)'
  BY <1>2, TrimmedKept DEF SigningInv, SigningTyped
<1>4. CASE task' = [task EXCEPT ![t].pc = "blocks"]
  <2>1. /\ task'[t].pc = "blocks" /\ task'[t].from = k.from /\ task'[t].to = k.to /\ task'[t].at = k.at
        /\ \A u \in TaskIds \ {t} : task'[u] = task[u]
        /\ task' = [u \in TaskIds |-> task'[u]] /\ task'[t] \in WarmupTask
    BY <1>0, <1>4 DEF SigningInv, SigningTyped, WarmupTask, Warming
  <2>2. TaskSound(task[t])'
    BY <1>0, <1>2, <1>3, <2>1 DEF TaskSound, Warming
  <2> QED BY <1>1, <1>2, <1>3, <2>1, <2>2, WarmupStep
<1>5. CASE task' = [task EXCEPT ![t] = Done]
  <2>1. /\ task'[t] = Done /\ \A u \in TaskIds \ {t} : task'[u] = task[u]
        /\ task' = [u \in TaskIds |-> task'[u]]
    BY <1>5 DEF SigningInv, SigningTyped
  <2>2. task'[t] \in WarmupTask /\ task'[t].pc = "done"
    BY <2>1 DEF WarmupTask, Done
  <2>3. TaskSound(task[t])'
    BY <2>2 DEF TaskSound, Warming
  <2> QED BY <1>1, <1>2, <1>3, <2>1, <2>2, <2>3, WarmupStep
<1> QED BY <1>4, <1>5 DEF Candidates

\* Blocks are read before a strip is touched.
LEMMA ReadBlockStep == ASSUME SigningInv, NEW t \in TaskIds, ReadBlock(t) PROVE SigningInv'
<1>0. PICK k \in WarmupTask : k = task[t] /\ k.pc = "blocks" /\ TaskSound(k)
  BY DEF SigningInv, SigningTyped, ReadBlock
<1>1. warmup = t /\ \A u \in TaskIds \ {t} : task[u].pc = "done"
  BY <1>0, OnlyTask
<1>2. UNCHANGED <<signingHeight, strip, warmup>> /\ \A v \in Signers : Trimmed(v)
  BY <1>0 DEF ReadBlock, TaskSound
<1>3. /\ signingHeight' \in Nat /\ strip' \in [Signers -> Seq(Point)] /\ \A v \in Signers : Trimmed(v)'
      /\ signingHeight \in Nat
  BY <1>2, TrimmedKept DEF SigningInv, SigningTyped
<1>4. CASE task' = [task EXCEPT ![t].pc = "aggregate"]
  <2>1. /\ task'[t].pc = "aggregate" /\ task'[t].from = k.from /\ task'[t].to = k.to /\ task'[t].at = k.at
        /\ \A u \in TaskIds \ {t} : task'[u] = task[u]
        /\ task' = [u \in TaskIds |-> task'[u]] /\ task'[t] \in WarmupTask
    BY <1>0, <1>4 DEF SigningInv, SigningTyped, WarmupTask, Warming
  <2>2. k.at \in Nat /\ k.at - 1 >= signingHeight
    BY <1>0, <1>3 DEF TaskSound, Warming, WarmupTask
  <2>3. ASSUME NEW v \in Signers PROVE Ascends(strip[v], v, k.at - 1)
    <3>1. strip[v] \in Seq(Point) /\ Ascends(strip[v], v, signingHeight)
      BY <1>2 DEF Trimmed, SigningInv, SigningTyped
    <3>2. \A i \in 1..Len(strip[v]) : strip[v][i] \in Point
      BY <3>1, ElementOfSeq
    <3>3. \A i \in 1..Len(strip[v]) : strip[v][i].height \in Nat
      BY <3>2 DEF Point
    <3>4. \A i \in 1..Len(strip[v]) : strip[v][i].height <= signingHeight
      BY <3>1, Zenon DEF Ascends
    <3>5. \A i \in 1..Len(strip[v]) : strip[v][i].height <= k.at - 1
      BY <1>3, <2>2, <3>3, <3>4
    <3> QED BY <3>1, <3>5, Zenon DEF Ascends
  <2>4. \A v \in Signers : Ascends(strip'[v], v, task'[t].at - 1)
    BY <1>2, <2>1, <2>3
  <2>5. \A v \in Signers : Ascends(strip[v], v, task[t].at - 1)'
    BY <2>4 DEF Ascends
  <2>6. TaskSound(task[t])'
    BY <1>0, <1>2, <1>3, <2>1, <2>5 DEF TaskSound, Warming
  <2> QED BY <1>1, <1>2, <1>3, <2>1, <2>6, WarmupStep
<1>5. CASE UNCHANGED task
  <2>1. task'[t] = k /\ task' = [u \in TaskIds |-> task'[u]]
    BY <1>0, <1>5 DEF SigningInv, SigningTyped
  <2>2. TaskSound(task[t])'
    BY <1>0, <1>2, <1>3, <2>1 DEF TaskSound, Warming
  <2> QED BY <1>0, <1>1, <1>2, <1>3, <1>5, <2>1, <2>2, WarmupStep
<1> QED BY <1>4, <1>5 DEF ReadBlock

\* One point per active validator at the height the task is at.
LEMMA AppendedStep ==
    ASSUME SigningInv, NEW t \in TaskIds, task[t].pc \in {"aggregate", "set"}, task[t].at <= task[t].to,
           NEW known \in BOOLEAN, Append1(t, known), UNCHANGED <<signingHeight, warmup>>,
           task'[t] \in WarmupTask, task'[t].pc = "aggregate", task'[t].from = task[t].from,
           task'[t].to = task[t].to, task'[t].active = task[t].active, task'[t].at = task[t].at + 1,
           \A u \in TaskIds \ {t} : task'[u] = task[u], task' = [u \in TaskIds |-> task'[u]]
    PROVE  SigningInv'
<1>0. PICK k \in WarmupTask : k = task[t] /\ TaskSound(k) /\ k.pc \in {"aggregate", "set"} /\ k.at <= k.to
  BY DEF SigningInv, SigningTyped
<1>1. warmup = t /\ \A u \in TaskIds \ {t} : task[u].pc = "done"
  BY OnlyTask
<1>2. k.at \in ChainHeights /\ {k.at, k.to, k.from} \subseteq Nat
  BY <1>0, ChainHeightsNat DEF TaskSound, Warming, WarmupTask
<1>3. \A v \in Signers : strip'[v] = IF v \in k.active
                          THEN Append(strip[v], [height |-> k.at, status |-> Status(k.at, known, v)])
                          ELSE strip[v]
  BY <1>0 DEF Append1
<1>4. ASSUME NEW v \in Signers
      PROVE  /\ strip'[v] \in Seq(Point)
             /\ IF v \in k.active THEN Ascends(strip'[v], v, k.at) ELSE Trimmed(v) /\ strip'[v] = strip[v]
  <2>1. strip[v] \in Seq(Point)
    BY DEF SigningInv, SigningTyped
  <2>2. CASE v \in k.active
    <3>1. Ascends(strip[v], v, k.at - 1)
      BY <1>0, <2>2 DEF TaskSound
    <3> QED BY <1>2, <1>3, <2>1, <2>2, <3>1, StripAppended, ZenonT(40)
  <2>3. CASE v \notin k.active
    BY <1>0, <1>3, <2>1, <2>3 DEF TaskSound
  <2> QED BY <2>2, <2>3
<1>5. strip' \in [Signers -> Seq(Point)]
  BY <1>0, <1>4 DEF Append1
<1>6. ASSUME NEW v \in Signers
      PROVE  IF v \in task'[t].active THEN Ascends(strip[v], v, task[t].at - 1)' ELSE Trimmed(v)'
  <2>1. task'[t].at - 1 = k.at /\ task'[t].active = k.active
    BY <1>0, <1>2
  <2>2. CASE v \in k.active
    BY <1>4, <2>1, <2>2 DEF Ascends
  <2>3. CASE v \notin k.active
    BY <1>4, <2>1, <2>3 DEF Ascends, Trimmed
  <2> QED BY <2>1, <2>2, <2>3
<1>7. TaskSound(task[t])'
  BY <1>0, <1>2, <1>6 DEF TaskSound, Warming
<1> QED BY <1>1, <1>5, <1>7, WarmupStep DEF SigningInv, SigningTyped

\* The next height, or the request for its validator set.
LEMMA AggregateStep == ASSUME SigningInv, NEW t \in TaskIds, Aggregate(t) PROVE SigningInv'
<1>0. PICK k \in WarmupTask : k = task[t] /\ k.pc = "aggregate" /\ TaskSound(k) /\ k.at <= k.to
  BY DEF SigningInv, SigningTyped, Aggregate
<1>1. warmup = t /\ \A u \in TaskIds \ {t} : task[u].pc = "done"
  BY <1>0, OnlyTask
<1>2. UNCHANGED <<signingHeight, warmup>>
  BY DEF Aggregate
<1>3. CASE task' = [task EXCEPT ![t].pc = "set"] /\ UNCHANGED strip
  <2>1. /\ task'[t].pc = "set" /\ task'[t].from = k.from /\ task'[t].to = k.to /\ task'[t].at = k.at
        /\ task'[t].active = k.active
        /\ \A u \in TaskIds \ {t} : task'[u] = task[u]
        /\ task' = [u \in TaskIds |-> task'[u]] /\ task'[t] \in WarmupTask
    BY <1>0, <1>3 DEF SigningInv, SigningTyped, WarmupTask, Warming
  <2>2. ASSUME NEW v \in Signers
        PROVE  IF v \in task'[t].active THEN Ascends(strip[v], v, task[t].at - 1)' ELSE Trimmed(v)'
    <3>1. IF v \in k.active THEN Ascends(strip[v], v, k.at - 1) ELSE Trimmed(v)
      BY <1>0 DEF TaskSound
    <3> QED BY <1>2, <1>3, <2>1, <3>1 DEF Ascends, Trimmed
  <2>3. TaskSound(task[t])'
    BY <1>0, <1>2, <2>1, <2>2 DEF TaskSound, Warming
  <2> QED BY <1>1, <1>2, <1>3, <2>1, <2>3, WarmupStep DEF SigningInv, SigningTyped
<1>4. CASE Append1(t, Readable(task[t].at)) /\ task' = [task EXCEPT ![t].at = @ + 1]
  <2>1. /\ task'[t].pc = "aggregate" /\ task'[t].from = k.from /\ task'[t].to = k.to /\ task'[t].at = k.at + 1
        /\ task'[t].active = k.active
        /\ \A u \in TaskIds \ {t} : task'[u] = task[u]
        /\ task' = [u \in TaskIds |-> task'[u]] /\ task'[t] \in WarmupTask
    <3>1. task \in [TaskIds -> WarmupTask]
      BY DEF SigningInv, SigningTyped
    <3>2. k.at \in Nat /\ task'[t].at = k.at + 1
      BY <1>0, <1>4, <3>1 DEF WarmupTask
    <3>3. /\ task'[t].pc = k.pc /\ task'[t].from = k.from /\ task'[t].to = k.to /\ task'[t].active = k.active
          /\ \A u \in TaskIds \ {t} : task'[u] = task[u]
          /\ task' = [u \in TaskIds |-> task'[u]]
      BY <1>0, <1>4, <3>1 DEF WarmupTask
    <3>4. task'[t] \in WarmupTask
      BY <1>0, <1>4, <3>1, <3>2 DEF WarmupTask, Warming
    <3> QED BY <1>0, <3>2, <3>3, <3>4
  <2>2. Readable(task[t].at) \in BOOLEAN
    BY DEF Readable
  <2> QED BY <1>0, <1>2, <1>4, <2>1, <2>2, AppendedStep
<1> QED BY <1>3, <1>4 DEF Aggregate

\* The set of the height arrives, or no endpoint has it.
LEMMA ReadSetStep == ASSUME SigningInv, NEW t \in TaskIds, ReadSet(t) PROVE SigningInv'
<1>0. PICK k \in WarmupTask : k = task[t] /\ k.pc = "set" /\ TaskSound(k) /\ k.at <= k.to
  BY DEF SigningInv, SigningTyped, ReadSet, TaskSound
<1>1. PICK known \in BOOLEAN : Append1(t, known)
  BY DEF ReadSet
<1>2. /\ task'[t].pc = "aggregate" /\ task'[t].from = k.from /\ task'[t].to = k.to /\ task'[t].at = k.at + 1
      /\ task'[t].active = k.active
      /\ \A u \in TaskIds \ {t} : task'[u] = task[u]
      /\ task' = [u \in TaskIds |-> task'[u]] /\ task'[t] \in WarmupTask
  <2>1. task' = [task EXCEPT ![t].pc = "aggregate", ![t].at = @ + 1] /\ task \in [TaskIds -> WarmupTask]
    BY DEF ReadSet, SigningInv, SigningTyped
  <2>2. k.at \in Nat /\ task'[t].at = k.at + 1
    BY <1>0, <2>1 DEF WarmupTask
  <2>3. /\ task'[t].pc = "aggregate" /\ task'[t].from = k.from /\ task'[t].to = k.to /\ task'[t].active = k.active
        /\ \A u \in TaskIds \ {t} : task'[u] = task[u]
        /\ task' = [u \in TaskIds |-> task'[u]]
    BY <1>0, <2>1 DEF WarmupTask
  <2>4. task'[t] \in WarmupTask
    BY <1>0, <2>1, <2>2 DEF WarmupTask, Warming
  <2> QED BY <2>2, <2>3, <2>4
<1>3. UNCHANGED <<signingHeight, warmup>>
  BY DEF ReadSet
<1> QED BY <1>0, <1>1, <1>2, <1>3, AppendedStep

\* The end of the task trims the strips it wrote and raises the height.
LEMMA TrimStep == ASSUME SigningInv, NEW t \in TaskIds, Trim(t) PROVE SigningInv'
<1>0. PICK k \in WarmupTask : k = task[t] /\ k.pc = "aggregate" /\ TaskSound(k) /\ k.at > k.to
  BY DEF SigningInv, SigningTyped, Trim
<1>1. warmup = t /\ \A u \in TaskIds \ {t} : task[u].pc = "done"
  BY <1>0, OnlyTask
<1>2. /\ {k.at, k.to, k.from, signingHeight} \subseteq Nat /\ k.at - 1 = k.to /\ k.to >= signingHeight
  BY <1>0 DEF TaskSound, Warming, WarmupTask, SigningInv, SigningTyped
<1>3. /\ strip' = [v \in Signers |-> IF v \in k.active THEN Newest(strip[v]) ELSE strip[v]]
      /\ signingHeight' = k.to /\ task' = [task EXCEPT ![t] = Done] /\ UNCHANGED warmup
  BY <1>0 DEF Trim
<1>4. ASSUME NEW v \in Signers
      PROVE  strip'[v] \in Seq(Point) /\ Ascends(strip'[v], v, k.to) /\ Len(strip'[v]) <= Points
  <2>1. strip[v] \in Seq(Point)
    BY DEF SigningInv, SigningTyped
  <2>2. CASE v \in k.active
    <3>1. Ascends(strip[v], v, k.to)
      BY <1>0, <1>2, <2>2 DEF TaskSound
    <3> QED BY <1>2, <1>3, <2>1, <2>2, <3>1, StripNewest
  <2>3. CASE v \notin k.active
    <3>1. Trimmed(v) /\ strip'[v] = strip[v]
      BY <1>0, <1>3, <2>3 DEF TaskSound
    <3>2. \A i \in 1..Len(strip[v]) : strip[v][i] \in Point
      BY <2>1, ElementOfSeq
    <3>3. \A i \in 1..Len(strip[v]) : strip[v][i].height \in Nat
      BY <3>2 DEF Point
    <3> QED BY <1>2, <2>1, <3>1, <3>3, SMTT(30) DEF Trimmed, Ascends
  <2> QED BY <2>2, <2>3
<1>5. strip' \in [Signers -> Seq(Point)]
  BY <1>3, <1>4
<1>6. \A v \in Signers : Trimmed(v)'
  BY <1>3, <1>4 DEF Trimmed, Ascends
<1>7. /\ task'[t] = Done /\ \A u \in TaskIds \ {t} : task'[u] = task[u]
      /\ task' = [u \in TaskIds |-> task'[u]]
  BY <1>3 DEF SigningInv, SigningTyped
<1>8. task'[t] \in WarmupTask /\ task'[t].pc = "done"
  BY <1>7 DEF WarmupTask, Done
<1>9. TaskSound(task[t])'
  BY <1>8 DEF TaskSound, Warming
<1> QED BY <1>1, <1>2, <1>3, <1>5, <1>6, <1>7, <1>8, <1>9, WarmupStep

\* The signing strips for any validators, chain, strip length and number of
\* tasks: at every await they ascend, tell the truth, and between warm-ups fit
\* the page and stay below the height the next warm-up starts after.
THEOREM StripsAreSound == SigningSpec => []StripSound
<1>1. SigningInit => SigningInv
  <2> SUFFICES ASSUME SigningInit PROVE SigningInv
    OBVIOUS
  <2>1. <<>> \in Seq(Point) /\ Len(<<>>) = 0 /\ Done \in WarmupTask /\ Done.pc = "done"
    BY DEF Done, WarmupTask
  <2>2. SigningTyped
    BY <2>1 DEF SigningInit, SigningTyped
  <2>3. \A v \in Signers : Trimmed(v)
    BY <2>1, ChainHeightsNat DEF SigningInit, Trimmed, Ascends
  <2>4. \A t \in TaskIds : task[t].pc = "done" /\ TaskSound(task[t])
    BY <2>1 DEF SigningInit, TaskSound, Warming
  <2> QED BY <2>2, <2>3, <2>4 DEF SigningInv
<1>2. SigningInv /\ [SigningNext]_signingVars => SigningInv'
  <2>1. SigningInv /\ SigningNext => SigningInv'
    BY RequestValidatorsStep, StartStep, CandidatesStep, ReadBlockStep, AggregateStep, ReadSetStep, TrimStep
       DEF SigningNext
  <2>2. SigningInv /\ UNCHANGED signingVars => SigningInv'
    BY DEF signingVars, SigningInv, SigningTyped, TaskSound, Trimmed, Ascends
  <2> QED BY <2>1, <2>2
<1>3. SigningInv => StripSound
  <2> SUFFICES ASSUME SigningInv, NEW v \in Signers
      PROVE /\ \A i \in DOMAIN strip[v] :
                 LET p == strip[v][i] IN
                 /\ i > 1 => strip[v][i - 1].height < p.height
                 /\ p.status # "unknown" => v \in SignersAt[p.height] /\ p.status = SignedAt[p.height][v]
            /\ (\A t \in TaskIds : task[t].pc = "done") =>
                 /\ Len(strip[v]) <= Points
                 /\ strip[v] # <<>> => strip[v][Len(strip[v])].height <= signingHeight
    BY DEF StripSound
  <2>1. strip[v] \in Seq(Point) /\ DOMAIN strip[v] = 1..Len(strip[v]) /\ Len(strip[v]) \in Nat
    BY LenProperties DEF SigningInv, SigningTyped
  <2>2. \E n : Ascends(strip[v], v, n)
    <3>1. CASE \A t \in TaskIds : task[t].pc = "done"
      BY <3>1 DEF SigningInv, Trimmed
    <3>2. ASSUME NEW t \in TaskIds, task[t].pc # "done" PROVE \E n : Ascends(strip[v], v, n)
      <4>1. task[t].pc \in Warming /\ TaskSound(task[t])
        BY <3>2 DEF SigningInv, SigningTyped, WarmupTask
      <4> QED BY <4>1 DEF TaskSound, Trimmed, Warming
    <3> QED BY <3>1, <3>2
  <2>3. (\A t \in TaskIds : task[t].pc = "done") =>
          /\ Len(strip[v]) <= Points
          /\ strip[v] # <<>> => strip[v][Len(strip[v])].height <= signingHeight
    <3>1. strip[v] # <<>> => Len(strip[v]) \in 1..Len(strip[v])
      BY <2>1, EmptySeq
    <3> QED BY <2>1, <3>1 DEF SigningInv, Trimmed, Ascends
  <2> QED BY <2>1, <2>2, <2>3 DEF Ascends
<1> QED BY <1>1, <1>2, <1>3, PTL DEF SigningSpec

-----------------------------------------------------------------------------
(* RequestCache: what the filter of the cache's entries returns.           *)

\* The equation of the recursive function in Kept, up to n.
KeptUpTo(e, I, n, F) ==
    F = [i \in 0..n |-> IF i = 0 THEN <<>> ELSE IF i \in I THEN Append(F[i - 1], e[i]) ELSE F[i - 1]]

\* The equation has a solution.
LEMMA KeptExists ==
    ASSUME NEW e, NEW I, NEW N \in Nat
    PROVE  \E F : KeptUpTo(e, I, N, F)
<1> DEFINE Bad == {n \in Nat : ~\E F : KeptUpTo(e, I, n, F)}
<1> SUFFICES Bad = {}
  OBVIOUS
<1> SUFFICES ASSUME Bad # {} PROVE FALSE
  OBVIOUS
<1>1. PICK n \in Bad : \A m \in Bad : n <= m
  BY LeastNat
<1>2. n # 0
  <2>1. PICK F : F = [i \in 0..0 |-> <<>>]
    OBVIOUS
  <2>2. KeptUpTo(e, I, 0, F)
    BY <2>1 DEF KeptUpTo
  <2> QED BY <2>2
<1>3. PICK F : KeptUpTo(e, I, n - 1, F)
  <2>1. n - 1 \in Nat /\ ~(n <= n - 1)
    BY <1>2
  <2> QED BY <1>1, <2>1
<1>4. PICK G : G = [i \in 0..n |-> IF i = 0 THEN <<>> ELSE IF i \in I THEN Append(F[i - 1], e[i]) ELSE F[i - 1]]
  OBVIOUS
<1>5. \A i \in 0..(n - 1) : G[i] = F[i]
  <2>1. \A i \in 0..(n - 1) : i \in 0..n
    OBVIOUS
  <2>2. \A i \in 0..(n - 1) : F[i] = IF i = 0 THEN <<>> ELSE IF i \in I THEN Append(F[i - 1], e[i]) ELSE F[i - 1]
    BY <1>3, Zenon DEF KeptUpTo
  <2> QED BY <1>4, <2>1, <2>2
<1>6. \A i \in 0..n : i # 0 => F[i - 1] = G[i - 1]
  BY <1>5
<1>7. KeptUpTo(e, I, n, G)
  BY <1>4, <1>6 DEF KeptUpTo
<1> QED BY <1>7

\* Kept returns elements at the positions I, no more of them than e has, and
\* fewer when a position is left out.
LEMMA KeptProperties ==
    ASSUME NEW S, NEW e \in Seq(S), NEW I
    PROVE  /\ Kept(e, I) \in Seq(S) /\ Len(Kept(e, I)) <= Len(e)
           /\ (\E k \in 1..Len(e) : k \notin I) => Len(Kept(e, I)) < Len(e)
           /\ \A j \in 1..Len(Kept(e, I)) : \E k \in 1..Len(e) : k \in I /\ Kept(e, I)[j] = e[k]
<1>1. PICK F : F = CHOOSE G : KeptUpTo(e, I, Len(e), G)
  OBVIOUS
<1>2. KeptUpTo(e, I, Len(e), F)
  BY <1>1, KeptExists, LenProperties
<1>3. Kept(e, I) = F[Len(e)]
  BY <1>1, Zenon DEF Kept, KeptUpTo
<1>4. \A i \in 0..Len(e) : F[i] = IF i = 0 THEN <<>> ELSE IF i \in I THEN Append(F[i - 1], e[i]) ELSE F[i - 1]
  BY <1>2, Zenon DEF KeptUpTo
<1> DEFINE Good(n) ==
             /\ F[n] \in Seq(S) /\ Len(F[n]) <= n
             /\ (\E k \in 1..n : k \notin I) => Len(F[n]) < n
             /\ \A j \in 1..Len(F[n]) : \E k \in 1..n : k \in I /\ F[n][j] = e[k]
           Bad == {n \in 0..Len(e) : ~Good(n)}
<1>5. Len(e) \in Nat /\ \A i \in 1..Len(e) : e[i] \in S
  BY LenProperties, ElementOfSeq
<1>6. Good(0)
  <2>1. F[0] = <<>>
    BY <1>4, <1>5
  <2>2. <<>> \in Seq(S) /\ Len(<<>>) = 0
    OBVIOUS
  <2> QED BY <2>1, <2>2
<1>7. ASSUME NEW n \in 1..Len(e), Good(n - 1) PROVE Good(n)
  <2>1. n \in 0..Len(e) /\ n # 0 /\ n \in Nat
    BY <1>5
  <2>2. PICK g \in Seq(S) : g = F[n - 1]
    BY <1>7
  <2>3. Len(g) \in Nat /\ Len(g) <= n - 1 /\ \A j \in 1..Len(g) : \E k \in 1..(n - 1) : k \in I /\ g[j] = e[k]
    BY <1>7, <2>2, LenProperties
  <2>4. \A k \in 1..n : k \in 1..(n - 1) \/ k = n
    BY <2>1
  <2>5. \A k \in 1..(n - 1) : k \in 1..n
    BY <2>1
  <2>6. CASE n \in I
    <3>1. F[n] = Append(g, e[n])
      BY <1>4, <2>1, <2>2, <2>6
    <3>2. e[n] \in S
      BY <1>5
    <3>a. PICK f : f = Append(g, e[n])
      OBVIOUS
    <3>b. f \in Seq(S) /\ Len(f) = Len(g) + 1 /\ f[Len(g) + 1] = e[n] /\ \A j \in 1..Len(g) : f[j] = g[j]
      BY <3>a, <3>2, AppendProperties
    <3>3. /\ f \in Seq(S) /\ f = F[n] /\ Len(f) = Len(g) + 1 /\ f[Len(g) + 1] = e[n]
          /\ \A j \in 1..Len(g) : f[j] = g[j]
      BY <3>1, <3>a, <3>b
    <3>4. Len(f) <= n
      BY <2>1, <2>3, <3>3
    <3>5. (\E k \in 1..n : k \notin I) => Len(f) < n
      <4>1. (\E k \in 1..(n - 1) : k \notin I) => Len(g) < n - 1
        BY <1>7, <2>2
      <4> QED BY <2>1, <2>3, <2>4, <2>6, <3>3, <4>1
    <3>6. ASSUME NEW j \in 1..Len(f) PROVE \E k \in 1..n : k \in I /\ f[j] = e[k]
      <4>1. CASE j = Len(g) + 1
        BY <2>1, <2>6, <3>3, <4>1
      <4>2. CASE j # Len(g) + 1
        <5>1. j \in 1..Len(g)
          BY <2>3, <3>3, <4>2
        <5> QED BY <2>3, <2>5, <3>3, <5>1
      <4> QED BY <4>1, <4>2
    <3> QED BY <3>3, <3>4, <3>5, <3>6
  <2>7. CASE n \notin I
    <3>1. F[n] = g
      BY <1>4, <2>1, <2>2, <2>7
    <3>2. Len(g) < n
      BY <2>1, <2>3
    <3> QED BY <2>1, <2>3, <2>5, <3>1, <3>2
  <2> QED BY <2>6, <2>7
<1>8. Bad = {}
  <2> SUFFICES ASSUME Bad # {} PROVE FALSE
    OBVIOUS
  <2>1. Bad \subseteq Nat
    BY <1>5
  <2>2. PICK n \in Bad : \A m \in Bad : n <= m
    BY <2>1, LeastNat
  <2>3. n # 0 /\ n \in 0..Len(e) /\ ~Good(n)
    BY <1>6, <2>2
  <2>4. n \in 1..Len(e) /\ n - 1 \in 0..Len(e) /\ ~(n <= n - 1)
    BY <1>5, <2>3
  <2>5. Good(n - 1)
    <3> SUFFICES ASSUME ~Good(n - 1) PROVE FALSE
      OBVIOUS
    <3>1. n - 1 \in Bad
      BY <2>4
    <3> HIDE DEF Bad
    <3> QED BY <2>2, <2>4, <3>1
  <2> HIDE DEF Good
  <2> QED BY <1>7, <2>3, <2>4, <2>5
<1>9. Good(Len(e))
  <2> SUFFICES ASSUME ~Good(Len(e)) PROVE FALSE
    OBVIOUS
  <2>1. Len(e) \in 0..Len(e)
    BY <1>5
  <2> HIDE DEF Good
  <2>2. Len(e) \in Bad
    BY <2>1
  <2> QED BY <1>8, <2>2
<1> QED BY <1>3, <1>9

-----------------------------------------------------------------------------
(* RequestCache.  A key in flight is led by exactly one call of one task,  *)
(* only the innermost call of a task may wait, and a result that a waiting *)
(* task has been given was loaded after it asked.                          *)

CachedValue == [key : Keys, expires : Nat, made : Nat]
CacheCall == [key : Keys, asked : Nat, role : {"lead", "wait"}, todo : Seq(Keys)]

CacheTyped ==
    /\ clock \in Nat
    /\ entries \in Seq(CachedValue)
    /\ inflight \in [Keys -> Tasks \cup {NoLeader}]
    /\ future \in [Tasks -> [state : {"pending", "value", "error", "cancelled"}, made : Nat]]
    /\ stack \in [Tasks -> Seq(CacheCall)]

EntriesSound ==
    /\ Len(entries) <= MaxEntries
    /\ \A i \in 1..Len(entries) : entries[i].expires = entries[i].made + Ttl[entries[i].key]

\* The calls s of the task t, when f says who leads.
CallsSound(s, t, f) ==
    /\ \A i \in 1..Len(s) : s[i].asked <= clock /\ (s[i].role = "lead" => f[s[i].key] = t)
    /\ \A i, j \in 1..Len(s) : s[i].role = "lead" /\ s[j].role = "lead" /\ s[i].key = s[j].key => i = j
    /\ \A i \in 1..Len(s) : i < Len(s) => s[i].role = "lead"

\* A key in flight is led by a call of its task.
Led(s, k) == \E i \in 1..Len(s) : s[i].key = k /\ s[i].role = "lead"

\* What a task that waits with its last call has, or will be given.
WaitSound(s, w, f) ==
    Len(s) > 0 /\ s[Len(s)].role = "wait" =>
        /\ w.state = "pending" => f[s[Len(s)].key] # NoLeader
        /\ w.state = "value" => w.made >= s[Len(s)].asked

CacheInv ==
    /\ CacheTyped /\ EntriesSound /\ FreshAnswers
    /\ \A t \in Tasks : CallsSound(stack[t], t, inflight) /\ WaitSound(stack[t], future[t], inflight)
    /\ \A k \in Keys : inflight[k] # NoLeader => Led(stack[inflight[k]], k)

\* Every loader reads keys of the cache.
LEMMA LoadsTyped == \A key \in Keys : loads(key) \in Seq(Keys)
<1> SUFFICES ASSUME NEW key \in Keys PROVE loads(key) \in Seq(Keys)
  OBVIOUS
<1>1. /\ <<"endpoint_candidates">> \in Seq(Keys) /\ <<"node_status", "transaction_search_window">> \in Seq(Keys)
      /\ <<"endpoint_candidates", "endpoint_provider_rpc_capabilities">> \in Seq(Keys)
      /\ <<"overview_rest">> \in Seq(Keys) /\ <<>> \in Seq(Keys)
  BY DEF Keys
<1> QED BY <1>1 DEF loads

\* The length of the calls a task is in, and their types.
LEMMA StackTyped ==
    ASSUME CacheTyped, NEW t \in Tasks
    PROVE  /\ stack[t] \in Seq(CacheCall) /\ Len(stack[t]) \in Nat
           /\ DOMAIN stack[t] = 1..Len(stack[t]) /\ (stack[t] # <<>> <=> Len(stack[t]) > 0)
           /\ \A i \in 1..Len(stack[t]) :
                /\ stack[t][i] \in CacheCall /\ stack[t][i].key \in Keys /\ stack[t][i].asked \in Nat
                /\ stack[t][i].role \in {"lead", "wait"} /\ stack[t][i].todo \in Seq(Keys)
<1>1. stack[t] \in Seq(CacheCall)
  BY DEF CacheTyped
<1>2. \A i \in 1..Len(stack[t]) : stack[t][i] \in CacheCall
  BY <1>1, ElementOfSeq
<1> QED BY <1>1, <1>2, LenProperties, EmptySeq, SMTT(30) DEF CacheCall

\* What the purge leaves is bounded, alive and as it was stored.
LEMMA LiveSound ==
    ASSUME CacheTyped, EntriesSound
    PROVE  /\ Live(entries) \in Seq(CachedValue) /\ Len(Live(entries)) <= MaxEntries
           /\ \A i \in 1..Len(Live(entries)) :
                LET x == Live(entries)[i] IN x.expires = x.made + Ttl[x.key] /\ x.expires > clock
<1>1. PICK I : I = {i \in DOMAIN entries : entries[i].expires > clock}
  OBVIOUS
<1>2. PICK e : e = Kept(entries, I)
  OBVIOUS
<1>3. /\ e \in Seq(CachedValue) /\ Len(e) <= Len(entries)
      /\ \A j \in 1..Len(e) : \E k \in 1..Len(entries) : k \in I /\ e[j] = entries[k]
  BY <1>2, KeptProperties DEF CacheTyped
<1>4. Len(e) \in Nat /\ Len(entries) \in Nat /\ MaxEntries \in Nat
  BY <1>3, LenProperties, CacheAssumption DEF CacheTyped
<1>5. Live(entries) = e
  BY <1>1, <1>2 DEF Live
<1>6. \A j \in 1..Len(e) : e[j].expires = e[j].made + Ttl[e[j].key] /\ e[j].expires > clock
  BY <1>1, <1>3 DEF EntriesSound
<1> QED BY <1>3, <1>4, <1>5, <1>6 DEF EntriesSound

\* Entries of a cache that is within its bound and as stored.
Stored(e) ==
    /\ e \in Seq(CachedValue) /\ Len(e) <= MaxEntries
    /\ \A i \in 1..Len(e) : e[i].expires = e[i].made + Ttl[e[i].key]

\* A hit moves the entry to the end.
LEMMA TouchedSound ==
    ASSUME NEW e, Stored(e), NEW key, Has(e, key)
    PROVE  /\ Stored(Touched(e, key))
           /\ \E i \in 1..Len(e) : EntryOf(e, key) = e[i] /\ e[i].key = key
<1>1. DOMAIN e = 1..Len(e) /\ Len(e) \in Nat
  BY LenProperties DEF Stored
<1>2. PICK n \in 1..Len(e) : EntryOf(e, key) = e[n] /\ e[n].key = key
  BY <1>1 DEF Has, EntryOf
<1>3. PICK w : w = Without(e, key)
  OBVIOUS
<1>4. /\ w \in Seq(CachedValue) /\ Len(w) < Len(e)
      /\ \A j \in 1..Len(w) : \E k \in 1..Len(e) : w[j] = e[k]
  <2>1. PICK I : I = {i \in DOMAIN e : e[i].key # key}
    OBVIOUS
  <2>2. n \notin I
    BY <1>2, <2>1
  <2>3. w = Kept(e, I)
    BY <1>3, <2>1 DEF Without
  <2>4. e \in Seq(CachedValue) /\ \E k \in 1..Len(e) : k \notin I
    BY <2>2 DEF Stored
  <2>5. /\ w \in Seq(CachedValue) /\ Len(w) < Len(e)
        /\ \A j \in 1..Len(w) : \E k \in 1..Len(e) : k \in I /\ w[j] = e[k]
    BY <2>3, <2>4, KeptProperties
  <2> QED BY <2>5
<1>5. e[n] \in CachedValue
  BY ElementOfSeq DEF Stored
<1>6. PICK a : a = Append(w, e[n])
  OBVIOUS
<1>7. a \in Seq(CachedValue) /\ Len(a) = Len(w) + 1 /\ a[Len(w) + 1] = e[n] /\ \A i \in 1..Len(w) : a[i] = w[i]
  BY <1>4, <1>5, <1>6, AppendProperties
<1>8. Len(w) \in Nat /\ MaxEntries \in Nat
  BY <1>4, LenProperties, CacheAssumption
<1>9. Len(a) <= MaxEntries
  BY <1>1, <1>4, <1>7, <1>8 DEF Stored
<1>10. ASSUME NEW i \in 1..Len(a) PROVE a[i].expires = a[i].made + Ttl[a[i].key]
  <2>1. \E k \in 1..Len(e) : a[i] = e[k]
    <3>1. CASE i = Len(w) + 1
      BY <1>7, <3>1
    <3>2. CASE i # Len(w) + 1
      <4>1. i \in 1..Len(w)
        BY <1>7, <1>8, <3>2
      <4> QED BY <1>4, <1>7, <4>1
    <3> QED BY <3>1, <3>2
  <2> QED BY <2>1 DEF Stored
<1> QED BY <1>2, <1>3, <1>6, <1>7, <1>9, <1>10 DEF Touched, Stored

\* A loaded value is stored last, and the oldest beyond the bound are dropped.
LEMMA StoreSound ==
    ASSUME CacheTyped, NEW e, Stored(e), NEW key \in Keys
    PROVE  Stored(Store(e, key))
<1>0. /\ clock \in Nat /\ MaxEntries \in Nat \ {0} /\ Ttl[key] \in Nat /\ Len(e) \in Nat
  BY CacheAssumption, LenProperties DEF CacheTyped, Stored
<1>1. PICK x : x = Entry(key, clock)
  OBVIOUS
<1>2. x \in CachedValue /\ x.expires = x.made + Ttl[x.key]
  BY <1>0, <1>1 DEF Entry, CachedValue
<1>3. PICK w : w = Without(e, key)
  OBVIOUS
<1>4. w \in Seq(CachedValue) /\ \A j \in 1..Len(w) : \E k \in 1..Len(e) : w[j] = e[k]
  <2>1. PICK I : I = {i \in DOMAIN e : e[i].key # key}
    OBVIOUS
  <2>2. w = Kept(e, I) /\ e \in Seq(CachedValue)
    BY <1>3, <2>1 DEF Without, Stored
  <2>3. w \in Seq(CachedValue) /\ \A j \in 1..Len(w) : \E k \in 1..Len(e) : k \in I /\ w[j] = e[k]
    BY <2>2, KeptProperties
  <2> QED BY <2>3
<1>5. PICK a : a = Append(w, x)
  OBVIOUS
<1>6. /\ a \in Seq(CachedValue) /\ Len(a) = Len(w) + 1 /\ a[Len(w) + 1] = x
      /\ \A i \in 1..Len(w) : a[i] = w[i]
  BY <1>2, <1>4, <1>5, AppendProperties
<1>7. Len(w) \in Nat /\ Len(a) \in Nat
  BY <1>4, <1>6, LenProperties
<1>8. ASSUME NEW i \in 1..Len(a) PROVE a[i] \in CachedValue /\ a[i].expires = a[i].made + Ttl[a[i].key]
  <2>1. CASE i = Len(w) + 1
    BY <1>2, <1>6, <2>1
  <2>2. CASE i # Len(w) + 1
    <3>1. i \in 1..Len(w)
      BY <1>6, <1>7, <2>2
    <3>2. \E k \in 1..Len(e) : a[i] = e[k]
      BY <1>4, <1>6, <3>1
    <3>3. \A k \in 1..Len(e) : e[k] \in CachedValue
      BY ElementOfSeq DEF Stored
    <3> QED BY <3>2, <3>3 DEF Stored
  <2> QED BY <2>1, <2>2
<1>9. PICK m \in Nat \ {0} : m = IF Len(a) > MaxEntries THEN Len(a) - MaxEntries + 1 ELSE 1
  BY <1>0, <1>7
<1>10. PICK q : q = SubSeq(a, m, Len(a))
  OBVIOUS
<1>11. /\ q \in Seq(CachedValue) /\ Len(q) = IF m <= Len(a) THEN Len(a) - m + 1 ELSE 0
       /\ \A i \in 1..(Len(a) - m + 1) : q[i] = a[m + i - 1]
  <2>1. \A i \in m..Len(a) : a[i] \in CachedValue
    BY <1>7, <1>8, <1>9
  <2> QED BY <1>7, <1>9, <1>10, <2>1, SubSeqProperties, SMTT(30)
<1>12. m <= Len(a) /\ Len(q) = Len(a) - m + 1 /\ Len(q) <= MaxEntries
  <2>1. m <= Len(a) /\ Len(a) - m + 1 <= MaxEntries
    BY <1>0, <1>6, <1>7, <1>9
  <2> QED BY <1>11, <2>1
<1>13. ASSUME NEW i \in 1..Len(q) PROVE q[i].expires = q[i].made + Ttl[q[i].key]
  <2>1. m + i - 1 \in 1..Len(a) /\ q[i] = a[m + i - 1]
    BY <1>7, <1>9, <1>11, <1>12
  <2> QED BY <1>8, <2>1
<1>14. Stored(q)
  BY <1>11, <1>12, <1>13 DEF Stored
<1> QED BY <1>1, <1>3, <1>5, <1>9, <1>10, <1>14 DEF Store

\* A call on top of leading calls.
LEMMA CallPushed ==
    ASSUME NEW s \in Seq(CacheCall), NEW t, NEW f, CallsSound(s, t, f),
           \A i \in 1..Len(s) : s[i].role = "lead",
           NEW c \in CacheCall, c.asked <= clock,
           c.role = "lead" => f[c.key] = t /\ ~Led(s, c.key)
    PROVE  /\ Append(s, c) \in Seq(CacheCall) /\ CallsSound(Append(s, c), t, f)
           /\ Len(Append(s, c)) = Len(s) + 1 /\ Append(s, c)[Len(s) + 1] = c
           /\ \A k : Led(s, k) => Led(Append(s, c), k)
           /\ c.role = "lead" => Led(Append(s, c), c.key)
<1>1. PICK a : a = Append(s, c)
  OBVIOUS
<1>2. a \in Seq(CacheCall) /\ Len(a) = Len(s) + 1 /\ a[Len(s) + 1] = c /\ \A i \in 1..Len(s) : a[i] = s[i]
  BY <1>1, AppendProperties
<1>3. Len(s) \in Nat
  BY LenProperties
<1>4. \A i \in 1..Len(a) : i \in 1..Len(s) \/ i = Len(s) + 1
  BY <1>2, <1>3
<1>5. \A i \in 1..Len(s) : i \in 1..Len(a) /\ i # Len(s) + 1
  BY <1>2, <1>3
<1>6. Len(s) + 1 \in 1..Len(a)
  BY <1>2, <1>3
<1>7. \A i \in 1..Len(a) : a[i].asked <= clock /\ (a[i].role = "lead" => f[a[i].key] = t)
  BY <1>2, <1>4 DEF CallsSound
<1>8. ASSUME NEW i \in 1..Len(a), NEW j \in 1..Len(a), a[i].role = "lead", a[j].role = "lead", a[i].key = a[j].key
      PROVE  i = j
  BY <1>2, <1>4, <1>8 DEF CallsSound, Led
<1>9. \A i \in 1..Len(a) : i < Len(a) => a[i].role = "lead"
  BY <1>2, <1>3, <1>4
<1>10. \A k : Led(s, k) => Led(a, k)
  BY <1>2, <1>5 DEF Led
<1>11. c.role = "lead" => Led(a, c.key)
  BY <1>2, <1>6 DEF Led
<1> QED BY <1>1, <1>2, <1>7, <1>8, <1>9, <1>10, <1>11 DEF CallsSound

\* The outer calls of a task, when f and g agree on the keys they lead.
LEMMA CallsPopped ==
    ASSUME NEW s \in Seq(CacheCall), NEW t, NEW f, NEW g, CallsSound(s, t, f), NEW n \in Nat, n < Len(s),
           \A i \in 1..n : g[s[i].key] = f[s[i].key]
    PROVE  /\ SubSeq(s, 1, n) \in Seq(CacheCall) /\ Len(SubSeq(s, 1, n)) = n
           /\ \A i \in 1..n : SubSeq(s, 1, n)[i] = s[i] /\ s[i].role = "lead"
           /\ CallsSound(SubSeq(s, 1, n), t, g)
<1>1. PICK a : a = SubSeq(s, 1, n)
  OBVIOUS
<1>2. Len(s) \in Nat /\ \A i \in 1..Len(s) : s[i] \in CacheCall
  BY LenProperties, ElementOfSeq
<1>3. \A i \in 1..n : i \in 1..Len(s) /\ i < Len(s)
  BY <1>2
<1>4. a \in Seq(CacheCall) /\ Len(a) = n /\ \A i \in 1..n : a[i] = s[i]
  <2>1. \A i \in 1..n : s[i] \in CacheCall
    BY <1>2, <1>3
  <2>2. /\ a \in Seq(CacheCall) /\ Len(a) = IF 1 <= n THEN n - 1 + 1 ELSE 0
        /\ \A i \in 1..(n - 1 + 1) : a[i] = s[1 + i - 1]
    BY <1>1, <2>1, SubSeqProperties
  <2>3. Len(a) = n
    BY <2>2
  <2>4. ASSUME NEW i \in 1..n PROVE a[i] = s[i]
    <3>1. i \in 1..(n - 1 + 1) /\ 1 + i - 1 = i
      OBVIOUS
    <3> QED BY <2>2, <3>1
  <2> QED BY <2>2, <2>3, <2>4
<1>5. \A i \in 1..n : s[i].role = "lead"
  BY <1>3 DEF CallsSound
<1>6. CallsSound(a, t, g)
  BY <1>3, <1>4, <1>5 DEF CallsSound
<1> QED BY <1>1, <1>4, <1>5, <1>6

\* No call, nothing led or waited for.
LEMMA NoCache == CacheInit => CacheInv
<1> SUFFICES ASSUME CacheInit PROVE CacheInv
  OBVIOUS
<1>1. <<>> \in Seq(CacheCall) /\ <<>> \in Seq(CachedValue) /\ Len(<<>>) = 0
  OBVIOUS
<1>2. CacheTyped
  <2>1. /\ clock \in Nat /\ entries \in Seq(CachedValue)
        /\ inflight \in [Keys -> Tasks \cup {NoLeader}]
        /\ stack \in [Tasks -> Seq(CacheCall)]
    BY <1>1 DEF CacheInit
  <2>2. future \in [Tasks -> [state : {"pending", "value", "error", "cancelled"}, made : Nat]]
    BY DEF CacheInit, Pending
  <2> QED BY <2>1, <2>2 DEF CacheTyped
<1>3. EntriesSound /\ FreshAnswers
  <2>1. answer.key = NoLeader
    BY DEF CacheInit, NoAnswer
  <2> QED BY <1>1, <2>1, CacheAssumption DEF CacheInit, EntriesSound, FreshAnswers
<1>4. \A t \in Tasks : CallsSound(stack[t], t, inflight) /\ WaitSound(stack[t], future[t], inflight)
  BY <1>1 DEF CacheInit, CallsSound, WaitSound
<1>5. \A k \in Keys : inflight[k] = NoLeader
  BY DEF CacheInit
<1> QED BY <1>2, <1>3, <1>4, <1>5 DEF CacheInv

\* The clock moves between two steps.
LEMMA TickStep == ASSUME CacheInv, CacheTick PROVE CacheInv'
<1>1. clock \in Nat /\ clock' = clock + 1 /\ answer' = NoAnswer /\ UNCHANGED <<entries, inflight, future, stack>>
  BY DEF CacheInv, CacheTyped, CacheTick
<1>2. CacheTyped' /\ EntriesSound' /\ FreshAnswers'
  <2>1. CacheTyped'
    BY <1>1 DEF CacheInv, CacheTyped
  <2>2. EntriesSound'
    BY <1>1 DEF CacheInv, EntriesSound
  <2>3. answer'.key = NoLeader
    BY <1>1 DEF NoAnswer
  <2> QED BY <2>1, <2>2, <2>3 DEF FreshAnswers
<1>3. ASSUME NEW t \in Tasks PROVE CallsSound(stack[t], t, inflight)' /\ WaitSound(stack[t], future[t], inflight)'
  <2>1. \A i \in 1..Len(stack[t]) : stack[t][i].asked \in Nat
    BY StackTyped DEF CacheInv
  <2> QED BY <1>1, <2>1 DEF CacheInv, CallsSound, WaitSound
<1> QED BY <1>1, <1>2, <1>3 DEF CacheInv, Led

\* A step of one task t, from what its calls, the leaders and the results are
\* after it.
LEMMA TaskMoves ==
    ASSUME CacheInv, NEW t \in Tasks, NEW s \in Seq(CacheCall), stack' = [stack EXCEPT ![t] = s],
           clock' = clock, Stored(entries'), FreshAnswers',
           inflight' \in [Keys -> Tasks \cup {NoLeader}],
           future' \in [Tasks -> [state : {"pending", "value", "error", "cancelled"}, made : Nat]],
           CallsSound(s, t, inflight'), WaitSound(s, future'[t], inflight'),
           \A u \in Tasks \ {t} : CallsSound(stack[u], u, inflight') /\ WaitSound(stack[u], future'[u], inflight'),
           \A k \in Keys : inflight'[k] # NoLeader => Led(IF inflight'[k] = t THEN s ELSE stack[inflight'[k]], k)
    PROVE  CacheInv'
<1>1. stack' \in [Tasks -> Seq(CacheCall)] /\ \A u \in Tasks : stack'[u] = IF u = t THEN s ELSE stack[u]
  BY DEF CacheInv, CacheTyped
<1>2. CacheTyped' /\ EntriesSound'
  BY <1>1 DEF CacheInv, CacheTyped, EntriesSound, Stored
<1>3. ASSUME NEW u \in Tasks PROVE CallsSound(stack[u], u, inflight)' /\ WaitSound(stack[u], future[u], inflight)'
  <2>1. CASE u = t
    BY <1>1, <2>1 DEF CallsSound, WaitSound
  <2>2. CASE u # t
    <3>1. u \in Tasks \ {t} /\ stack'[u] = stack[u]
      BY <1>1, <2>2
    <3> QED BY <3>1 DEF CallsSound, WaitSound
  <2> QED BY <2>1, <2>2
<1>4. ASSUME NEW k \in Keys, inflight'[k] # NoLeader PROVE Led(stack[inflight[k]], k)'
  <2>1. inflight'[k] \in Tasks
    BY <1>4
  <2> QED BY <1>1, <1>4, <2>1 DEF Led
<1> QED BY <1>2, <1>3, <1>4 DEF CacheInv

\* get_or_load's first critical section: a hit, a wait or the lead.
LEMMA GetStep ==
    ASSUME CacheInv, NEW t \in Tasks, NEW key \in Keys, NEW base \in Seq(CacheCall), Get(t, key, base),
           Len(base) = Len(stack[t]),
           \A i \in 1..Len(base) : /\ base[i].key = stack[t][i].key /\ base[i].asked = stack[t][i].asked
                                   /\ base[i].role = stack[t][i].role /\ base[i].role = "lead"
    PROVE  CacheInv'
<1>1. CallsSound(base, t, inflight) /\ \A k : Led(stack[t], k) => Led(base, k)
  BY SMTT(30) DEF CacheInv, CallsSound, Led
<1>2. PICK e : e = Live(entries)
  OBVIOUS
<1>3. Stored(e) /\ \A i \in 1..Len(e) : e[i].expires > clock
  BY <1>2, LiveSound DEF CacheInv, Stored
<1>4. /\ clock' = clock /\ clock \in Nat
      /\ inflight \in [Keys -> Tasks \cup {NoLeader}]
      /\ future \in [Tasks -> [state : {"pending", "value", "error", "cancelled"}, made : Nat]]
  BY DEF Get, CacheInv, CacheTyped
<1>5. \A u \in Tasks : CallsSound(stack[u], u, inflight) /\ WaitSound(stack[u], future[u], inflight)
  BY DEF CacheInv
<1>6. \A k \in Keys : inflight[k] # NoLeader => Led(IF inflight[k] = t THEN base ELSE stack[inflight[k]], k)
  BY <1>1 DEF CacheInv
<1>7. FreshAnswers' <=> (answer'.key # NoLeader =>
         answer'.made >= answer'.asked \/ answer'.made + Ttl[answer'.key] > answer'.at)
  BY DEF FreshAnswers
<1>8. Len(base) \in Nat
  BY LenProperties
<1>9. CASE Has(e, key) /\ stack' = [stack EXCEPT ![t] = base] /\ UNCHANGED <<inflight, future>>
           /\ entries' = Touched(e, key) /\ Answer(key, clock, EntryOf(e, key).made)
  <2>1. PICK n \in 1..Len(e) : EntryOf(e, key) = e[n] /\ e[n].key = key
    BY <1>3, <1>9, TouchedSound
  <2>2. Stored(entries')
    BY <1>3, <1>9, TouchedSound
  <2>3. e[n].made + Ttl[key] > clock
    BY <1>3, <2>1 DEF Stored
  <2>4. FreshAnswers'
    BY <1>7, <1>9, <2>1, <2>3 DEF Answer
  <2>5. WaitSound(base, future'[t], inflight')
    BY <1>8 DEF WaitSound
  <2> QED BY <1>1, <1>4, <1>5, <1>6, <1>9, <2>2, <2>4, <2>5, TaskMoves
<1>10. CASE /\ inflight[key] # NoLeader /\ entries' = e /\ answer' = NoAnswer /\ UNCHANGED inflight
            /\ stack' = [stack EXCEPT ![t] = Append(base, Call(key, "wait"))]
            /\ future' = [future EXCEPT ![t] = Pending]
  <2>1. PICK c : c = Call(key, "wait")
    OBVIOUS
  <2>2. c \in CacheCall /\ c.key = key /\ c.role = "wait" /\ c.asked <= clock
    BY <1>4, <2>1, LoadsTyped DEF Call, CacheCall
  <2>3. PICK s : s = Append(base, c)
    OBVIOUS
  <2>4. /\ s \in Seq(CacheCall) /\ CallsSound(s, t, inflight) /\ Len(s) = Len(base) + 1 /\ s[Len(s)] = c
        /\ \A k : Led(base, k) => Led(s, k)
    BY <1>1, <2>2, <2>3, CallPushed
  <2>5. /\ future' \in [Tasks -> [state : {"pending", "value", "error", "cancelled"}, made : Nat]]
        /\ future'[t].state = "pending" /\ \A u \in Tasks \ {t} : future'[u] = future[u]
    BY <1>4, <1>10 DEF Pending
  <2>6. WaitSound(s, future'[t], inflight')
    BY <1>10, <2>2, <2>4, <2>5 DEF WaitSound
  <2>7. FreshAnswers'
    BY <1>7, <1>10 DEF NoAnswer
  <2>8. \A k \in Keys : inflight'[k] # NoLeader => Led(IF inflight'[k] = t THEN s ELSE stack[inflight'[k]], k)
    BY <1>6, <1>10, <2>4
  <2>9. \A u \in Tasks \ {t} : CallsSound(stack[u], u, inflight') /\ WaitSound(stack[u], future'[u], inflight')
    BY <1>5, <1>10, <2>5
  <2> QED BY <1>3, <1>4, <1>10, <2>1, <2>3, <2>4, <2>5, <2>6, <2>7, <2>8, <2>9, TaskMoves
<1>11. CASE /\ inflight[key] = NoLeader /\ entries' = e /\ answer' = NoAnswer /\ UNCHANGED future
            /\ stack' = [stack EXCEPT ![t] = Append(base, Call(key, "lead"))]
            /\ inflight' = [inflight EXCEPT ![key] = t]
  <2>1. PICK c : c = Call(key, "lead")
    OBVIOUS
  <2>2. c \in CacheCall /\ c.key = key /\ c.role = "lead" /\ c.asked <= clock
    BY <1>4, <2>1, LoadsTyped DEF Call, CacheCall
  <2>3. /\ inflight' \in [Keys -> Tasks \cup {NoLeader}] /\ inflight'[key] = t
        /\ \A k \in Keys : k # key => inflight'[k] = inflight[k]
    BY <1>4, <1>11
  <2>4. ASSUME NEW u \in Tasks, NEW i \in 1..Len(stack[u]), stack[u][i].role = "lead"
        PROVE  stack[u][i].key \in Keys /\ stack[u][i].key # key
    <3>1. stack[u][i].key \in Keys /\ inflight[stack[u][i].key] = u
      BY <1>5, <2>4, StackTyped DEF CacheInv, CallsSound
    <3> QED BY <1>11, <3>1, CacheAssumption
  <2>5. CallsSound(base, t, inflight') /\ ~Led(base, key)
    BY <1>1, <2>3, <2>4 DEF CallsSound, Led
  <2>6. PICK s : s = Append(base, c)
    OBVIOUS
  <2>7. /\ s \in Seq(CacheCall) /\ CallsSound(s, t, inflight') /\ Len(s) = Len(base) + 1 /\ s[Len(s)] = c
        /\ \A k : Led(base, k) => Led(s, k)
        /\ Led(s, key)
    BY <2>2, <2>3, <2>5, <2>6, CallPushed
  <2>8. WaitSound(s, future'[t], inflight')
    BY <2>2, <2>7 DEF WaitSound
  <2>9. FreshAnswers'
    BY <1>7, <1>11 DEF NoAnswer
  <2>10. \A k \in Keys : inflight'[k] # NoLeader => Led(IF inflight'[k] = t THEN s ELSE stack[inflight'[k]], k)
    BY <1>6, <2>3, <2>7
  <2>11. ASSUME NEW u \in Tasks \ {t}
         PROVE  CallsSound(stack[u], u, inflight') /\ WaitSound(stack[u], future'[u], inflight')
    <3>1. \A i \in 1..Len(stack[u]) : stack[u][i].key \in Keys
      BY StackTyped DEF CacheInv
    <3>2. CallsSound(stack[u], u, inflight')
      BY <1>5, <2>3, <2>4 DEF CallsSound
    <3>3. Len(stack[u]) > 0 => stack[u][Len(stack[u])].key \in Keys
      BY <3>1, StackTyped DEF CacheInv
    <3>4. WaitSound(stack[u], future'[u], inflight')
      BY <1>5, <1>11, <2>3, <3>3, CacheAssumption DEF WaitSound
    <3> QED BY <3>2, <3>4
  <2> QED BY <1>3, <1>4, <1>11, <2>1, <2>3, <2>6, <2>7, <2>8, <2>9, <2>10, <2>11, TaskMoves
<1> QED BY <1>2, <1>9, <1>10, <1>11 DEF Get

\* A new request.
LEMMA RequestStep == ASSUME CacheInv, NEW t \in Tasks, NEW key \in Requested, Request(t, key) PROVE CacheInv'
<1>1. stack[t] = <<>> /\ Get(t, key, <<>>) /\ key \in Keys
  BY CacheAssumption DEF Request
<1>2. <<>> \in Seq(CacheCall) /\ Len(<<>>) = 0 /\ Len(stack[t]) = 0
  BY <1>1
<1>3. \A i \in 1..0 : FALSE
  OBVIOUS
<1> QED BY <1>1, <1>2, <1>3, GetStep

\* A loader reads its next key through the cache.
LEMMA LoadNestedStep == ASSUME CacheInv, NEW t \in Tasks, LoadNested(t) PROVE CacheInv'
<1>1. PICK s \in Seq(CacheCall) : s = stack[t] /\ Len(s) \in Nat /\ Len(s) > 0 /\ CallsSound(s, t, inflight)
  BY StackTyped DEF CacheInv, LoadNested, Leading
<1>2. PICK n \in Nat : n = Len(s) - 1
  BY <1>1
<1>3. PICK c \in CacheCall : c = s[Len(s)] /\ c.role = "lead" /\ c.todo # <<>>
  <2>1. s[Len(s)] \in CacheCall
    BY <1>1, ElementOfSeq
  <2> QED BY <1>1, <2>1 DEF LoadNested, Leading, Top
<1>4. PICK d : d = [c EXCEPT !.todo = Tail(@)]
  OBVIOUS
<1>5. d \in CacheCall /\ d.key = c.key /\ d.asked = c.asked /\ d.role = c.role /\ Head(c.todo) \in Keys
  <2>1. c.todo \in Seq(Keys)
    BY DEF CacheCall
  <2>2. Tail(c.todo) \in Seq(Keys) /\ Head(c.todo) \in Keys
    BY <1>3, <2>1, HeadTailProperties
  <2> QED BY <1>4, <2>2 DEF CacheCall
<1>6. PICK o : o = SubSeq(s, 1, n)
  OBVIOUS
<1>7. o \in Seq(CacheCall) /\ Len(o) = n /\ \A i \in 1..n : o[i] = s[i] /\ s[i].role = "lead"
  BY <1>1, <1>2, <1>6, CallsPopped
<1>8. PICK b : b = Append(o, d)
  OBVIOUS
<1>9. b \in Seq(CacheCall) /\ Len(b) = n + 1 /\ b[n + 1] = d /\ \A i \in 1..n : b[i] = o[i]
  BY <1>5, <1>7, <1>8, AppendProperties
<1>10. Len(b) = Len(s) /\ \A i \in 1..Len(b) : i \in 1..n \/ i = n + 1
  BY <1>1, <1>2, <1>9
<1>11. ASSUME NEW i \in 1..Len(b)
       PROVE  /\ b[i].key = s[i].key /\ b[i].asked = s[i].asked /\ b[i].role = s[i].role /\ b[i].role = "lead"
  <2>1. CASE i \in 1..n
    BY <1>7, <1>9, <2>1
  <2>2. CASE i = n + 1
    BY <1>1, <1>2, <1>3, <1>5, <1>9, <2>2
  <2> QED BY <1>10, <2>1, <2>2
<1>12. Get(t, Head(c.todo), b)
  BY <1>1, <1>2, <1>3, <1>4, <1>6, <1>8 DEF LoadNested, Top, Pop
<1> QED BY <1>1, <1>5, <1>9, <1>10, <1>11, <1>12, GetStep

\* The loader returns: its key is free, and whoever waits for it has the value.
LEMMA LoadSucceedsStep == ASSUME CacheInv, NEW t \in Tasks, LoadSucceeds(t) PROVE CacheInv'
<1>1. PICK s \in Seq(CacheCall) : s = stack[t] /\ Len(s) \in Nat /\ Len(s) > 0 /\ CallsSound(s, t, inflight)
  BY StackTyped DEF CacheInv, LoadSucceeds, Leading
<1>2. PICK n \in Nat : n = Len(s) - 1
  BY <1>1
<1>3. PICK c \in CacheCall : c = s[Len(s)] /\ c.role = "lead" /\ c = Top(t)
  <2>1. s[Len(s)] \in CacheCall
    BY <1>1, ElementOfSeq
  <2> QED BY <1>1, <2>1 DEF LoadSucceeds, Leading, Top
<1>4. PICK key \in Keys : key = c.key
  BY DEF CacheCall
<1>5. PICK o : o = SubSeq(s, 1, n)
  OBVIOUS
<1>6. /\ entries' = Store(entries, key) /\ inflight' = [inflight EXCEPT ![key] = NoLeader]
      /\ Resolve(key, [state |-> "value", made |-> clock]) /\ Answer(key, c.asked, clock)
      /\ stack' = [stack EXCEPT ![t] = o] /\ clock' = clock /\ clock \in Nat
      /\ inflight \in [Keys -> Tasks \cup {NoLeader}]
      /\ future \in [Tasks -> [state : {"pending", "value", "error", "cancelled"}, made : Nat]]
  BY <1>1, <1>2, <1>3, <1>4, <1>5 DEF LoadSucceeds, Pop, CacheInv, CacheTyped
<1>7. /\ inflight' \in [Keys -> Tasks \cup {NoLeader}] /\ inflight'[key] = NoLeader
      /\ \A k \in Keys : k # key => inflight'[k] = inflight[k]
  BY <1>6
<1>8. Stored(entries')
  <2>1. CacheTyped /\ Stored(entries)
    BY DEF CacheInv, CacheTyped, EntriesSound, Stored
  <2> QED BY <1>6, <2>1, StoreSound
<1>9. Len(s) \in 1..Len(s) /\ c.asked \in Nat /\ c.asked <= clock /\ inflight[key] = t
  <2>1. Len(s) \in 1..Len(s)
    BY <1>1
  <2>2. c.asked \in Nat
    BY DEF CacheCall
  <2> QED BY <1>1, <1>3, <1>4, <2>1, <2>2 DEF CallsSound
<1>10. FreshAnswers'
  <2>1. answer' = [key |-> key, made |-> clock, asked |-> c.asked, at |-> clock]
    BY <1>6 DEF Answer
  <2>2. answer'.made = clock /\ answer'.asked = c.asked
    BY <2>1
  <2>3. answer'.made >= answer'.asked
    BY <1>6, <1>9, <2>2
  <2> QED BY <2>3 DEF FreshAnswers
<1>11. \A i \in 1..n : i \in 1..Len(s) /\ i < Len(s) /\ s[i].role = "lead" /\ s[i].key # key /\ s[i].key \in Keys
  <2> SUFFICES ASSUME NEW i \in 1..n
               PROVE  i \in 1..Len(s) /\ i < Len(s) /\ s[i].role = "lead" /\ s[i].key # key /\ s[i].key \in Keys
    OBVIOUS
  <2>1. i \in 1..Len(s) /\ i < Len(s) /\ i # Len(s)
    BY <1>1, <1>2
  <2>2. s[i].role = "lead" /\ s[i].key # key
    <3>1. s[i].role = "lead"
      BY <1>1, <2>1 DEF CallsSound
    <3>2. s[Len(s)].role = "lead" /\ s[Len(s)].key = key /\ Len(s) \in 1..Len(s)
      BY <1>3, <1>4, <1>9
    <3> QED BY <1>1, <2>1, <3>1, <3>2 DEF CallsSound
  <2> QED BY <1>1, <2>1, <2>2, StackTyped DEF CacheInv
<1>12. /\ o \in Seq(CacheCall) /\ Len(o) = n /\ CallsSound(o, t, inflight')
       /\ \A i \in 1..n : o[i] = s[i] /\ s[i].role = "lead"
  <2>1. \A i \in 1..n : inflight'[s[i].key] = inflight[s[i].key]
    BY <1>7, <1>11
  <2>2. n < Len(s)
    BY <1>1, <1>2
  <2>3. PICK g : g = inflight'
    OBVIOUS
  <2>4. CallsSound(s, t, inflight)
    BY <1>1
  <2>5. o \in Seq(CacheCall) /\ Len(o) = n /\ \A i \in 1..n : o[i] = s[i] /\ s[i].role = "lead"
    BY <1>5, <2>2, <2>4, CallsPopped
  <2>6. \A i \in 1..n : g[s[i].key] = inflight[s[i].key]
    BY <2>1, <2>3
  <2>7. \A i \in 1..n : i \in 1..Len(s)
    BY <1>11
  <2>8. CallsSound(o, t, g)
    BY <2>4, <2>5, <2>6, <2>7 DEF CallsSound
  <2> QED BY <2>3, <2>5, <2>8
<1>13. WaitSound(o, future'[t], inflight')
  <2>1. Len(o) > 0 => Len(o) \in 1..n
    BY <1>12
  <2> QED BY <1>12, <2>1 DEF WaitSound
<1>14. /\ future' \in [Tasks -> [state : {"pending", "value", "error", "cancelled"}, made : Nat]]
       /\ \A u \in Tasks : future'[u] = IF stack[u] # <<>> /\ Top(u).key = key /\ Top(u).role = "wait"
                                          THEN [state |-> "value", made |-> clock] ELSE future[u]
  <2>1. [state |-> "value", made |-> clock] \in [state : {"pending", "value", "error", "cancelled"}, made : Nat]
    BY <1>6
  <2> QED BY <1>6, <2>1 DEF Resolve
<1>15. ASSUME NEW u \in Tasks \ {t}
       PROVE  CallsSound(stack[u], u, inflight') /\ WaitSound(stack[u], future'[u], inflight')
  <2>1. PICK r \in Seq(CacheCall) : r = stack[u] /\ CallsSound(r, u, inflight) /\ WaitSound(r, future[u], inflight)
    BY StackTyped DEF CacheInv
  <2>2. Len(r) \in Nat /\ (r # <<>> <=> Len(r) > 0) /\ \A i \in 1..Len(r) : r[i].key \in Keys /\ r[i].asked \in Nat
    BY <2>1, StackTyped DEF CacheInv
  <2>3. \A i \in 1..Len(r) : r[i].role = "lead" => inflight'[r[i].key] = u
    BY <1>7, <1>9, <2>1, <2>2 DEF CallsSound
  <2>4. CallsSound(r, u, inflight')
    BY <2>1, <2>3 DEF CallsSound
  <2>5. ASSUME Len(r) > 0, r[Len(r)].role = "wait"
        PROVE  /\ future'[u].state = "pending" => inflight'[r[Len(r)].key] # NoLeader
               /\ future'[u].state = "value" => future'[u].made >= r[Len(r)].asked
    <3>1. Len(r) \in 1..Len(r) /\ Top(u) = r[Len(r)] /\ stack[u] # <<>>
      BY <2>1, <2>2, <2>5 DEF Top
    <3>2. CASE r[Len(r)].key = key
      <4>1. future'[u] = [state |-> "value", made |-> clock]
        BY <1>14, <2>5, <3>1, <3>2
      <4>2. future'[u].state = "value" /\ future'[u].made = clock
        BY <4>1
      <4>3. r[Len(r)].asked <= clock
        BY <2>1, <3>1 DEF CallsSound
      <4> QED BY <1>6, <2>2, <3>1, <4>2, <4>3
    <3>3. CASE r[Len(r)].key # key
      <4>1. future'[u] = future[u]
        BY <1>14, <3>1, <3>3
      <4>2. inflight'[r[Len(r)].key] = inflight[r[Len(r)].key]
        BY <1>7, <2>2, <3>1, <3>3
      <4> QED BY <2>1, <2>5, <4>1, <4>2 DEF WaitSound
    <3> QED BY <3>2, <3>3
  <2> QED BY <2>1, <2>4, <2>5 DEF WaitSound
<1>16. ASSUME NEW k \in Keys, inflight'[k] # NoLeader
       PROVE  Led(IF inflight'[k] = t THEN o ELSE stack[inflight'[k]], k)
  <2>1. k # key /\ inflight'[k] = inflight[k] /\ Led(stack[inflight[k]], k)
    BY <1>7, <1>16 DEF CacheInv
  <2>2. CASE inflight[k] = t
    <3>1. PICK i \in 1..Len(s) : s[i].key = k /\ s[i].role = "lead"
      BY <1>1, <2>1, <2>2 DEF Led
    <3>2. i \in 1..n
      <4>1. i # Len(s)
        BY <1>3, <1>4, <2>1, <3>1
      <4> QED BY <1>1, <1>2, <4>1
    <3> QED BY <1>12, <2>1, <2>2, <3>1, <3>2 DEF Led
  <2> QED BY <2>1, <2>2
<1> QED BY <1>6, <1>7, <1>8, <1>10, <1>12, <1>13, <1>14, <1>15, <1>16, TaskMoves

\* An exception that leaves keep calls of the task: the keys of the others are
\* free, and whoever waits for them has the error.
LEMMA FailsStep ==
    ASSUME CacheInv, NEW t \in Tasks, NEW keep \in Nat, keep < Len(stack[t]),
           NEW how \in {"error", "cancelled"}, Fails(t, keep, how)
    PROVE  CacheInv'
<1>1. /\ stack[t] \in Seq(CacheCall) /\ Len(stack[t]) \in Nat /\ CallsSound(stack[t], t, inflight)
      /\ \A i \in 1..Len(stack[t]) : stack[t][i].key \in Keys
  BY StackTyped DEF CacheInv
<1>2. PICK s \in Seq(CacheCall) : s = stack[t]
  BY <1>1
<1>3. PICK G : G = GivenUp(t, keep)
  OBVIOUS
<1>4. /\ inflight' = [k \in Keys |-> IF k \in G THEN NoLeader ELSE inflight[k]]
      /\ future' = [w \in Tasks |->
           IF stack[w] # <<>> /\ Top(w).role = "wait" /\ Top(w).key \in G
             THEN [state |-> how, made |-> 0] ELSE future[w]]
      /\ stack' = [stack EXCEPT ![t] = SubSeq(s, 1, keep)]
      /\ answer' = NoAnswer /\ entries' = entries /\ clock' = clock
  BY <1>2, <1>3 DEF Fails
<1>5. \A k : k \in G <=> \E i \in (keep + 1)..Len(s) : s[i].role = "lead" /\ s[i].key = k
  BY <1>2, <1>3 DEF GivenUp
<1>6. \A k \in G : inflight[k] = t
  <2> SUFFICES ASSUME NEW k \in G PROVE inflight[k] = t
    OBVIOUS
  <2>1. PICK i \in (keep + 1)..Len(s) : s[i].role = "lead" /\ s[i].key = k
    BY <1>5
  <2>2. i \in 1..Len(s)
    BY <1>1, <1>2
  <2> QED BY <1>1, <1>2, <2>1, <2>2 DEF CallsSound
<1>7. /\ inflight \in [Keys -> Tasks \cup {NoLeader}]
      /\ inflight' \in [Keys -> Tasks \cup {NoLeader}]
      /\ \A k \in Keys : inflight'[k] = IF k \in G THEN NoLeader ELSE inflight[k]
  BY <1>4 DEF CacheInv, CacheTyped
<1>8. /\ future' \in [Tasks -> [state : {"pending", "value", "error", "cancelled"}, made : Nat]]
      /\ \A w \in Tasks : future'[w] = IF stack[w] # <<>> /\ Top(w).role = "wait" /\ Top(w).key \in G
                                         THEN [state |-> how, made |-> 0] ELSE future[w]
  <2>1. [state |-> how, made |-> 0] \in [state : {"pending", "value", "error", "cancelled"}, made : Nat]
    OBVIOUS
  <2>2. future \in [Tasks -> [state : {"pending", "value", "error", "cancelled"}, made : Nat]]
    BY DEF CacheInv, CacheTyped
  <2> QED BY <1>4, <2>1, <2>2
<1>9. ASSUME NEW i \in 1..keep PROVE i \in 1..Len(s) /\ s[i].role = "lead" /\ s[i].key \notin G
  <2>1. i \in 1..Len(s) /\ i < Len(s)
    BY <1>1, <1>2
  <2>2. s[i].role = "lead"
    BY <1>1, <1>2, <2>1 DEF CallsSound
  <2>3. ASSUME NEW j \in (keep + 1)..Len(s), s[j].role = "lead", s[j].key = s[i].key PROVE FALSE
    <3>1. j \in 1..Len(s) /\ j # i
      BY <1>1, <1>2
    <3> QED BY <1>1, <1>2, <2>1, <2>2, <2>3, <3>1 DEF CallsSound
  <2> QED BY <1>5, <2>1, <2>2, <2>3
<1>10. PICK g : g = inflight'
  OBVIOUS
<1>11. \A i \in 1..keep : g[s[i].key] = inflight[s[i].key]
  BY <1>1, <1>2, <1>7, <1>9, <1>10
<1>12. PICK o : o = SubSeq(s, 1, keep)
  OBVIOUS
<1>13. o \in Seq(CacheCall) /\ Len(o) = keep /\ CallsSound(o, t, g) /\ \A i \in 1..keep : o[i] = s[i] /\ s[i].role = "lead"
  <2>1. keep < Len(s) /\ CallsSound(s, t, inflight)
    BY <1>1, <1>2
  <2>2. o \in Seq(CacheCall) /\ Len(o) = keep /\ \A i \in 1..keep : o[i] = s[i] /\ s[i].role = "lead"
    BY <1>12, <2>1, CallsPopped
  <2>3. \A i \in 1..keep : i \in 1..Len(s)
    BY <1>9
  <2>4. \A i \in 1..keep : o[i].asked <= clock /\ g[o[i].key] = t
    BY <1>11, <2>1, <2>2, <2>3 DEF CallsSound
  <2>5. \A i, j \in 1..keep : o[i].key = o[j].key => i = j
    BY <2>1, <2>2, <2>3 DEF CallsSound
  <2> QED BY <2>2, <2>4, <2>5 DEF CallsSound
<1>14. WaitSound(o, future'[t], inflight')
  <2>1. Len(o) > 0 => Len(o) \in 1..keep
    BY <1>13
  <2> QED BY <1>13, <2>1 DEF WaitSound
<1>15. ASSUME NEW u \in Tasks \ {t}
       PROVE  CallsSound(stack[u], u, inflight') /\ WaitSound(stack[u], future'[u], inflight')
  <2>1. PICK r \in Seq(CacheCall) : r = stack[u] /\ CallsSound(r, u, inflight) /\ WaitSound(r, future[u], inflight)
    BY StackTyped DEF CacheInv
  <2>2. Len(r) \in Nat /\ (r # <<>> <=> Len(r) > 0) /\ \A i \in 1..Len(r) : r[i].key \in Keys
    BY <2>1, StackTyped DEF CacheInv
  <2>3. \A i \in 1..Len(r) : r[i].role = "lead" => inflight'[r[i].key] = u
    BY <1>6, <1>7, <2>1, <2>2 DEF CallsSound
  <2>4. CallsSound(r, u, inflight')
    BY <2>1, <2>3 DEF CallsSound
  <2>5. ASSUME Len(r) > 0, r[Len(r)].role = "wait"
        PROVE  /\ future'[u].state = "pending" => inflight'[r[Len(r)].key] # NoLeader
               /\ future'[u].state = "value" => future'[u].made >= r[Len(r)].asked
    <3>1. Len(r) \in 1..Len(r) /\ Top(u) = r[Len(r)] /\ stack[u] # <<>>
      BY <2>1, <2>2, <2>5 DEF Top
    <3>2. CASE r[Len(r)].key \in G
      <4>1. future'[u] = [state |-> how, made |-> 0]
        BY <1>8, <2>5, <3>1, <3>2
      <4>2. future'[u].state \in {"error", "cancelled"}
        BY <4>1
      <4> QED BY <4>2
    <3>3. CASE r[Len(r)].key \notin G
      <4>1. future'[u] = future[u]
        BY <1>8, <3>1, <3>3
      <4>2. inflight'[r[Len(r)].key] = inflight[r[Len(r)].key]
        BY <1>7, <2>2, <3>1, <3>3
      <4> QED BY <2>1, <2>5, <4>1, <4>2 DEF WaitSound
    <3> QED BY <3>2, <3>3
  <2> QED BY <2>1, <2>4, <2>5 DEF WaitSound
<1>16. ASSUME NEW k \in Keys, inflight'[k] # NoLeader
       PROVE  Led(IF inflight'[k] = t THEN o ELSE stack[inflight'[k]], k)
  <2>1. k \notin G /\ inflight'[k] = inflight[k] /\ Led(stack[inflight[k]], k)
    BY <1>7, <1>16 DEF CacheInv
  <2>2. CASE inflight[k] = t
    <3>1. PICK i \in 1..Len(s) : s[i].key = k /\ s[i].role = "lead"
      BY <1>2, <2>1, <2>2 DEF Led
    <3>2. i \in 1..keep
      <4>1. i \notin (keep + 1)..Len(s)
        BY <1>5, <2>1, <3>1
      <4> QED BY <1>1, <1>2, <4>1
    <3> QED BY <1>13, <2>1, <2>2, <3>1, <3>2 DEF Led
  <2> QED BY <2>1, <2>2
<1>17. Stored(entries') /\ FreshAnswers'
  <2>1. answer'.key = NoLeader
    BY <1>4 DEF NoAnswer
  <2> QED BY <1>4, <2>1 DEF FreshAnswers, Stored, CacheInv, CacheTyped, EntriesSound
<1>18. CallsSound(o, t, inflight') /\ stack' = [stack EXCEPT ![t] = o] /\ clock' = clock
  BY <1>4, <1>10, <1>12, <1>13
<1> QED BY <1>7, <1>8, <1>13, <1>14, <1>15, <1>16, <1>17, <1>18, TaskMoves

\* The innermost loader that survives a failed read is one of the outer calls.
LEMMA SurvivorBelow ==
    ASSUME CacheInv, NEW t \in Tasks, stack[t] # <<>>
    PROVE  Survivor(t) \in Nat /\ Survivor(t) < Len(stack[t])
<1>1. Len(stack[t]) \in Nat /\ Len(stack[t]) > 0
  BY StackTyped DEF CacheInv
<1>2. PICK below : below = {i \in 1..(Len(stack[t]) - 1) : stack[t][i].key \in survives}
  OBVIOUS
<1>3. \A i \in below : i \in Nat /\ i >= 1 /\ i < Len(stack[t])
  BY <1>1, <1>2
<1>4. CASE below = {}
  BY <1>1, <1>2, <1>4 DEF Survivor
<1>5. CASE below # {}
  <2>1. PICK T : T = {n \in Nat : \A i \in below : i <= n}
    OBVIOUS
  <2>2. Len(stack[t]) \in T
    BY <1>1, <1>3, <2>1
  <2>3. PICK n \in T : \A m \in T : n <= m
    BY <2>1, <2>2, LeastNat
  <2>4. n \in Nat /\ \A i \in below : i <= n
    BY <2>1
  <2>5. n \in below
    <3> SUFFICES ASSUME n \notin below PROVE FALSE
      OBVIOUS
    <3>1. \A i \in below : i <= n - 1 /\ i >= 1
      BY <1>3, <2>4
    <3>2. n - 1 \in Nat
      BY <1>5, <1>3, <2>4, <3>1
    <3>3. n - 1 \in T
      BY <2>1, <3>1, <3>2
    <3> QED BY <2>3, <2>4, <3>3
  <2>6. Survivor(t) = CHOOSE i \in below : \A j \in below : j <= i
    BY <1>2, <1>5 DEF Survivor
  <2>7. Survivor(t) \in below
    BY <2>4, <2>5, <2>6
  <2> QED BY <1>3, <2>7
<1> QED BY <1>4, <1>5

\* A waiting task goes on with the value its leader gave it.
LEMMA WakeStep == ASSUME CacheInv, NEW t \in Tasks, Wake(t) PROVE CacheInv'
<1>1. stack[t] # <<>> /\ Top(t).role = "wait" /\ future[t].state # "pending"
  BY DEF Wake
<1>2. CASE future[t].state # "value"
  <2>1. future[t].state \in {"error", "cancelled"}
    <3>1. future[t] \in [state : {"pending", "value", "error", "cancelled"}, made : Nat]
      BY DEF CacheInv, CacheTyped
    <3> QED BY <1>1, <1>2, <3>1
  <2>2. Len(stack[t]) > 0
    BY <1>1, StackTyped DEF CacheInv
  <2>3. PICK keep : keep = (IF future[t].state = "error" THEN Survivor(t) ELSE 0)
    OBVIOUS
  <2>4. keep \in Nat /\ keep < Len(stack[t])
    BY <1>1, <2>2, <2>3, SurvivorBelow
  <2>5. Fails(t, keep, future[t].state)
    BY <1>2, <2>3 DEF Wake
  <2> QED BY <2>1, <2>4, <2>5, FailsStep
<1>3. CASE future[t].state = "value"
  <2>1. PICK s \in Seq(CacheCall) : /\ s = stack[t] /\ Len(s) \in Nat /\ Len(s) > 0 /\ CallsSound(s, t, inflight)
                                    /\ WaitSound(s, future[t], inflight)
    BY <1>1, StackTyped DEF CacheInv
  <2>a. Len(s) - 1 \in Nat
    BY <2>1
  <2>2. PICK n \in Nat : n = Len(s) - 1
    BY <2>a
  <2>3. PICK o : o = SubSeq(s, 1, n)
    OBVIOUS
  <2>4. /\ Answer(Top(t).key, Top(t).asked, future[t].made) /\ stack' = [stack EXCEPT ![t] = o]
        /\ UNCHANGED <<clock, entries, inflight, future>>
    BY <1>3, <2>1, <2>2, <2>3 DEF Wake, Pop
  <2>5. Top(t) = s[Len(s)] /\ future[t].made >= s[Len(s)].asked
    BY <1>1, <1>3, <2>1 DEF Top, WaitSound
  <2>6. FreshAnswers'
    <3>1. answer'.made = future[t].made /\ answer'.asked = Top(t).asked
      BY <2>4 DEF Answer
    <3> QED BY <2>5, <3>1 DEF FreshAnswers
  <2>7. o \in Seq(CacheCall) /\ Len(o) = n /\ CallsSound(o, t, inflight) /\ \A i \in 1..n : o[i] = s[i] /\ s[i].role = "lead"
    <3>1. n < Len(s)
      BY <2>1, <2>2
    <3> QED BY <2>1, <2>3, <3>1, CallsPopped
  <2>8. WaitSound(o, future'[t], inflight')
    <3>1. Len(o) > 0 => Len(o) \in 1..n
      BY <2>7
    <3> QED BY <2>7, <3>1 DEF WaitSound
  <2>9. ASSUME NEW k \in Keys, inflight'[k] # NoLeader
        PROVE  Led(IF inflight'[k] = t THEN o ELSE stack[inflight'[k]], k)
    <3>1. inflight'[k] = inflight[k] /\ Led(stack[inflight[k]], k)
      BY <2>4, <2>9 DEF CacheInv
    <3>2. CASE inflight[k] = t
      <4>1. PICK i \in 1..Len(s) : s[i].key = k /\ s[i].role = "lead"
        BY <2>1, <3>1, <3>2 DEF Led
      <4>2. i # Len(s)
        BY <1>1, <2>5, <4>1
      <4>3. i \in 1..n
        BY <2>1, <2>2, <4>2
      <4> QED BY <2>7, <3>1, <3>2, <4>1, <4>3 DEF Led
    <3> QED BY <3>1, <3>2
  <2>10. /\ Stored(entries') /\ inflight' \in [Keys -> Tasks \cup {NoLeader}]
         /\ future' \in [Tasks -> [state : {"pending", "value", "error", "cancelled"}, made : Nat]] /\ clock' = clock
    BY <2>4 DEF Stored, CacheInv, CacheTyped, EntriesSound
  <2>11. /\ CallsSound(o, t, inflight')
         /\ \A u \in Tasks \ {t} : CallsSound(stack[u], u, inflight') /\ WaitSound(stack[u], future'[u], inflight')
    BY <2>4, <2>7 DEF CacheInv
  <2> QED BY <2>4, <2>6, <2>7, <2>8, <2>9, <2>10, <2>11, TaskMoves
<1> QED BY <1>2, <1>3

\* Every step of the cache keeps its invariant.
LEMMA CacheStep == CacheInv /\ [CacheNext]_cacheVars => CacheInv'
<1>1. ASSUME CacheInv, NEW t \in Tasks, LoadFails(t) \/ Cancel(t) PROVE CacheInv'
  <2>1. stack[t] # <<>> /\ Len(stack[t]) > 0
    BY <1>1, StackTyped DEF LoadFails, Cancel, Leading, CacheInv
  <2>2. CASE LoadFails(t)
    <3>1. Fails(t, Survivor(t), "error")
      BY <2>2 DEF LoadFails
    <3> QED BY <1>1, <2>1, <3>1, SurvivorBelow, FailsStep
  <2>3. CASE Cancel(t)
    <3>1. Fails(t, 0, "cancelled")
      BY <2>3 DEF Cancel
    <3> QED BY <1>1, <2>1, <3>1, FailsStep
  <2> QED BY <1>1, <2>2, <2>3
<1>2. CacheInv /\ UNCHANGED cacheVars => CacheInv'
  BY DEF cacheVars, CacheInv, CacheTyped, EntriesSound, FreshAnswers, CallsSound, WaitSound, Led
<1>3. CacheInv /\ CacheNext => CacheInv'
  BY <1>1, TickStep, RequestStep, LoadNestedStep, LoadSucceedsStep, WakeStep DEF CacheNext, TaskStep
<1> QED BY <1>2, <1>3

\* The shared request cache, for any number of tasks, any time to live, any
\* size and any failures and cancellations: no key is loaded twice at a time, a
\* key in flight is being loaded, no task waits for a load that nobody runs, and
\* the cache is bounded.
THEOREM CacheSingleFlight == CacheSpec => []SingleFlight
<1>1. CacheInv => SingleFlight
  <2> SUFFICES ASSUME CacheInv PROVE SingleFlight
    OBVIOUS
  <2>1. ASSUME NEW k \in Keys, inflight[k] # NoLeader
        PROVE  \E i \in DOMAIN stack[inflight[k]] :
                  stack[inflight[k]][i].key = k /\ stack[inflight[k]][i].role = "lead"
    <3>1. inflight[k] \in Tasks /\ Led(stack[inflight[k]], k)
      BY <2>1 DEF CacheInv, CacheTyped
    <3>2. DOMAIN stack[inflight[k]] = 1..Len(stack[inflight[k]])
      BY <3>1, StackTyped DEF CacheInv
    <3> QED BY <3>1, <3>2 DEF Led
  <2>2. ASSUME NEW t \in Tasks, stack[t] # <<>>, Top(t).role = "wait", future[t].state = "pending"
        PROVE  inflight[Top(t).key] # NoLeader
    BY <2>2, StackTyped DEF CacheInv, WaitSound, Top
  <2>3. ASSUME NEW t \in Tasks, NEW i \in DOMAIN stack[t], stack[t][i].role = "lead"
        PROVE  /\ inflight[stack[t][i].key] = t
               /\ \A j \in DOMAIN stack[t] :
                     stack[t][j].role = "lead" /\ stack[t][j].key = stack[t][i].key => j = i
    <3>1. DOMAIN stack[t] = 1..Len(stack[t]) /\ CallsSound(stack[t], t, inflight)
      BY StackTyped DEF CacheInv
    <3> QED BY <2>3, <3>1 DEF CallsSound
  <2> QED BY <2>1, <2>2, <2>3 DEF SingleFlight, CacheInv, EntriesSound
<1> QED BY <1>1, NoCache, CacheStep, PTL DEF CacheSpec

\* No request is answered with a value that had expired when it was served,
\* unless it was loaded after the request asked.
THEOREM CacheAnswersFresh == CacheSpec => []FreshAnswers
<1>1. CacheInv => FreshAnswers
  BY DEF CacheInv
<1> QED BY <1>1, NoCache, CacheStep, PTL DEF CacheSpec

-----------------------------------------------------------------------------
(* RowOrder.  Rows are pairs of numbers, and the order is total.           *)

\* Below is a strict total order on rows.
LEMMA RowsOrdered ==
    /\ \A x \in Nat \X Nat : ~Below(x, x)
    /\ \A x, y \in Nat \X Nat : x = y \/ Below(x, y) \/ Below(y, x)
    /\ \A x, y, z \in Nat \X Nat : Below(x, y) /\ Below(y, z) => Below(x, z)
  BY DEF Below

\* The rows above x are among the rows.
LEMMA AboveFinite ==
    ASSUME NEW S, IsFiniteSet(S), NEW x
    PROVE  IsFiniteSet(Above(S, x)) /\ Cardinality(Above(S, x)) \in Nat /\ Above(S, x) \subseteq S
<1>1. Above(S, x) \in SUBSET S
  BY DEF Above
<1>2. IsFiniteSet(Above(S, x))
  BY <1>1, FS_Subset
<1> QED BY <1>1, <1>2, FS_CardinalityType

\* A lower row has more rows above it.
LEMMA FewerAbove ==
    ASSUME NEW S, S \subseteq Nat \X Nat, IsFiniteSet(S), NEW x \in S, NEW y \in S, Below(x, y)
    PROVE  Cardinality(Above(S, y)) < Cardinality(Above(S, x))
<1>1. PICK A, B : A = Above(S, y) /\ B = Above(S, x)
  OBVIOUS
<1>2. IsFiniteSet(A) /\ IsFiniteSet(B) /\ Cardinality(A) \in Nat /\ Cardinality(B) \in Nat
  BY <1>1, AboveFinite
<1>3. \A z \in S : Below(y, z) => Below(x, z)
  BY RowsOrdered
<1>4. ~Below(y, y)
  BY RowsOrdered
<1>5. A \in SUBSET B /\ y \in B /\ y \notin A
  BY <1>1, <1>3, <1>4 DEF Above
<1>6. Cardinality(A) <= Cardinality(B) /\ Cardinality(A) # Cardinality(B)
  BY <1>2, <1>5, FS_Subset
<1> QED BY <1>1, <1>2, <1>6

\* There is a row at every place.
LEMMA RowAtPlace ==
    ASSUME NEW S, S \subseteq Nat \X Nat, IsFiniteSet(S), NEW k \in Nat, k < Cardinality(S)
    PROVE  \E x \in S : Cardinality(Above(S, x)) = k
<1>1. PICK R : R = {p \in S \X S : Below(p[2], p[1])}
  OBVIOUS
<1>2. \A x, y \in S : <<x, y>> \in R <=> Below(y, x)
  BY <1>1
<1>3. \A x \in S : <<x, x>> \notin R
  BY <1>2, RowsOrdered
<1>4. \A x, y \in S : x = y \/ <<x, y>> \in R \/ <<y, x>> \in R
  BY <1>2, RowsOrdered
<1>5. \A x, y, z \in S : <<x, y>> \in R /\ <<y, z>> \in R => <<x, z>> \in R
  BY <1>2, RowsOrdered
<1>6. PICK e \in S : Before(S, R, e) = k
  BY <1>3, <1>4, <1>5, PlaceExists
<1>7. {d \in S : <<d, e>> \in R} = Above(S, e)
  BY <1>2 DEF Above
<1> QED BY <1>6, <1>7 DEF Before

\* NewestFirst puts each row after the rows above it.
LEMMA NewestFirstPlaces ==
    ASSUME NEW S, S \subseteq Nat \X Nat, IsFiniteSet(S)
    PROVE  /\ Cardinality(S) \in Nat
           /\ NewestFirst(S) \in Seq(S) /\ Len(NewestFirst(S)) = Cardinality(S)
           /\ DOMAIN NewestFirst(S) = 1..Cardinality(S)
           /\ \A i \in 1..Cardinality(S) :
                NewestFirst(S)[i] \in S /\ Cardinality(Above(S, NewestFirst(S)[i])) = i - 1
           /\ \A x \in S : LET i == Cardinality(Above(S, x)) + 1
                           IN  i \in 1..Cardinality(S) /\ NewestFirst(S)[i] = x
<1>1. PICK n \in Nat : n = Cardinality(S)
  BY FS_CardinalityType
<1>2. PICK s : s = NewestFirst(S)
  OBVIOUS
<1>3. s = [i \in 1..n |-> CHOOSE x \in S : Cardinality(Above(S, x)) = i - 1]
  BY <1>1, <1>2 DEF NewestFirst
<1>4. ASSUME NEW i \in 1..n PROVE s[i] \in S /\ Cardinality(Above(S, s[i])) = i - 1
  <2>1. i - 1 \in Nat /\ i - 1 < n
    BY <1>1
  <2>2. \E x \in S : Cardinality(Above(S, x)) = i - 1
    BY <1>1, <2>1, RowAtPlace
  <2>3. s[i] = CHOOSE x \in S : Cardinality(Above(S, x)) = i - 1
    BY <1>3
  <2> QED BY <2>2, <2>3
<1>5. DOMAIN s = 1..n
  BY <1>3
<1>6. s \in Seq(S) /\ Len(s) = n
  <2>1. s \in [1..n -> S]
    BY <1>3, <1>4
  <2> QED BY <1>1, <2>1
<1>7. ASSUME NEW x \in S
      PROVE  Cardinality(Above(S, x)) + 1 \in 1..n /\ s[Cardinality(Above(S, x)) + 1] = x
  <2>1. PICK k \in Nat : k = Cardinality(Above(S, x))
    BY AboveFinite
  <2>2. k < n
    <3>1. Above(S, x) \in SUBSET S /\ x \notin Above(S, x)
      BY RowsOrdered DEF Above
    <3>2. k <= n /\ k # n
      BY <1>1, <2>1, <3>1, FS_Subset
    <3> QED BY <1>1, <3>2
  <2>3. k + 1 \in 1..n /\ (k + 1) - 1 = k
    BY <1>1, <2>2
  <2>4. s[k + 1] \in S /\ Cardinality(Above(S, s[k + 1])) = k
    BY <1>4, <2>3
  <2>5. ~Below(x, s[k + 1]) /\ ~Below(s[k + 1], x)
    BY <2>1, <2>4, FewerAbove
  <2>6. s[k + 1] = x
    BY <2>4, <2>5, RowsOrdered
  <2> QED BY <2>1, <2>3, <2>6
<1> QED BY <1>1, <1>2, <1>4, <1>5, <1>6, <1>7

\* It descends strictly.
LEMMA NewestFirstDescends ==
    ASSUME NEW S, S \subseteq Nat \X Nat, IsFiniteSet(S),
           NEW i \in 1..Cardinality(S), NEW j \in 1..Cardinality(S), i < j
    PROVE  Below(NewestFirst(S)[j], NewestFirst(S)[i])
<1>1. PICK x, y : x = NewestFirst(S)[i] /\ y = NewestFirst(S)[j]
  OBVIOUS
<1>2. /\ x \in S /\ y \in S /\ Cardinality(S) \in Nat
      /\ Cardinality(Above(S, x)) = i - 1 /\ Cardinality(Above(S, y)) = j - 1
  BY <1>1, NewestFirstPlaces
<1>3. x # y
  BY <1>2
<1>4. ~Below(x, y)
  <2> SUFFICES ASSUME Below(x, y) PROVE FALSE
    OBVIOUS
  <2>1. Cardinality(Above(S, y)) < Cardinality(Above(S, x))
    BY <1>2, FewerAbove
  <2> QED BY <1>2, <2>1
<1> QED BY <1>1, <1>2, <1>3, <1>4, RowsOrdered

\* Finite sets that have nothing in common add up.
LEMMA DisjointAdd ==
    ASSUME NEW A, IsFiniteSet(A), NEW B, IsFiniteSet(B), A \cap B = {}
    PROVE  IsFiniteSet(A \cup B) /\ Cardinality(A \cup B) = Cardinality(A) + Cardinality(B)
<1>1. Cardinality(A \cap B) = 0
  BY FS_EmptySet
<1>2. Cardinality(A) \in Nat /\ Cardinality(B) \in Nat
  BY FS_CardinalityType
<1>3. IsFiniteSet(A \cup B) /\ Cardinality(A \cup B) = Cardinality(A) + Cardinality(B) - Cardinality(A \cap B)
  BY FS_Union
<1> QED BY <1>1, <1>2, <1>3

\* Rows of finitely many heights, finitely many in each.
LEMMA GroupedRows ==
    ASSUME NEW H, H \subseteq Nat, IsFiniteSet(H), NEW F,
           \A h \in H : F[h] \subseteq Nat /\ IsFiniteSet(F[h]),
           NEW R, \A x \in R : \E h \in H : x \in {h} \X F[h]
    PROVE  R \subseteq Nat \X Nat /\ IsFiniteSet(R)
<1> DEFINE f == [h \in H |-> {h} \X F[h]]
           S == {{h} \X F[h] : h \in H}
<1>1. f \in Surjection(H, S)
  <2>1. f \in [H -> S]
    OBVIOUS
  <2>2. \A s \in S : \E h \in H : f[h] = s
    OBVIOUS
  <2> QED BY <2>1, <2>2 DEF Surjection
<1>2. IsFiniteSet(S)
  <2> HIDE DEF f, S
  <2> QED BY <1>1, FS_Surjection
<1>3. ASSUME NEW T \in S PROVE IsFiniteSet(T) /\ T \subseteq Nat \X Nat
  <2>1. PICK h \in H : T = {h} \X F[h]
    OBVIOUS
  <2>2. IsFiniteSet({h}) /\ IsFiniteSet(F[h])
    BY FS_Singleton
  <2>3. IsFiniteSet(T)
    BY <2>1, <2>2, FS_Product
  <2>4. h \in Nat /\ F[h] \subseteq Nat
    OBVIOUS
  <2>5. T \subseteq Nat \X Nat
    BY <2>1, <2>4
  <2> QED BY <2>3, <2>5
<1>4. IsFiniteSet(UNION S) /\ UNION S \subseteq Nat \X Nat
  <2> HIDE DEF S
  <2> QED BY <1>2, <1>3, FS_UNION
<1>5. R \in SUBSET UNION S
  OBVIOUS
<1> HIDE DEF f, S
<1>6. IsFiniteSet(R)
  BY <1>4, <1>5, FS_Subset
<1> QED BY <1>4, <1>5, <1>6

\* The elements a + 1 to b of a sequence.
LEMMA Slice ==
    ASSUME NEW T, NEW s \in Seq(T), NEW a \in Nat, NEW b \in Nat, a <= b, b <= Len(s),
           NEW q, q = SubSeq(s, a + 1, b)
    PROVE  q \in Seq(T) /\ Len(q) = b - a /\ \A i \in 1..(b - a) : q[i] = s[a + i]
<1>1. Len(s) \in Nat /\ a + 1 \in Int /\ \A i \in (a + 1)..b : s[i] \in T
  OBVIOUS
<1>2. /\ q \in Seq(T) /\ Len(q) = IF a + 1 <= b THEN b - (a + 1) + 1 ELSE 0
      /\ \A i \in 1..(b - (a + 1) + 1) : q[i] = s[(a + 1) + i - 1]
  BY <1>1, SubSeqProperties
<1>3. b - (a + 1) + 1 = b - a
  OBVIOUS
<1>4. \A i \in 1..(b - a) : (a + 1) + i - 1 = a + i
  OBVIOUS
<1>5. \A i \in 1..(b - a) : q[i] = s[a + i]
  BY <1>2, <1>3, <1>4
<1>6. Len(q) = b - a
  BY <1>2
<1> QED BY <1>2, <1>5, <1>6

\* Both parts of a concatenation.
LEMMA Joined ==
    ASSUME NEW T, NEW s \in Seq(T), NEW r \in Seq(T), NEW q, q = s \o r
    PROVE  /\ q \in Seq(T) /\ Len(q) = Len(s) + Len(r)
           /\ \A i \in 1..Len(s) : q[i] = s[i]
           /\ \A i \in 1..Len(r) : q[Len(s) + i] = r[i]
<1>1. PICK a \in Nat, b \in Nat : a = Len(s) /\ b = Len(r)
  OBVIOUS
<1>2. /\ q \in Seq(T) /\ Len(q) = a + b
      /\ \A i \in 1..(a + b) : q[i] = IF i <= a THEN s[i] ELSE r[i - a]
  BY <1>1, ConcatProperties
<1>3. \A i \in 1..a : q[i] = s[i]
  BY <1>2
<1>4. ASSUME NEW i \in 1..b PROVE q[a + i] = r[i]
  <2>1. a + i \in 1..(a + b) /\ ~(a + i <= a) /\ (a + i) - a = i
    OBVIOUS
  <2> QED BY <1>2, <2>1
<1> QED BY <1>1, <1>2, <1>3, <1>4

-----------------------------------------------------------------------------
(* CosmosHistory.  A cursor stands for the number of rows before it.       *)

NumRows(u) == Cardinality(TxsOf(1, u))
WindowRows(u) == Cardinality(TxsOf(Lower(u), u))
TopHeight == Len(TxsAt)

\* The transactions of a range of heights are finitely many rows.
LEMMA TxsMember ==
    ASSUME NEW a \in Nat \ {0}, NEW b \in 0..TopHeight
    PROVE  /\ TxsOf(a, b) \subseteq Nat \X Nat /\ IsFiniteSet(TxsOf(a, b))
           /\ Cardinality(TxsOf(a, b)) \in Nat
           /\ \A x \in TxsOf(a, b) : x[1] \in a..b
           /\ \A x : x \in TxsOf(a, b) <=>
                \E h \in a..b : x \in {h} \X (1..TxsAt[h])
<1>1. TopHeight \in Nat /\ \A h \in 1..TopHeight : TxsAt[h] \in Nat
  BY HistoryAssumption DEF TopHeight
<1>2. PICK F : F = [h \in 1..TopHeight |-> 1..TxsAt[h]]
  OBVIOUS
<1>3. a..b \subseteq 1..TopHeight /\ a..b \subseteq Nat
  BY <1>1
<1>4. IsFiniteSet(a..b)
  BY <1>1, FS_Interval
<1>5. \A h \in a..b : F[h] \subseteq Nat /\ IsFiniteSet(F[h])
  <2> TAKE h \in a..b
  <2>1. PICK n \in Nat : n = TxsAt[h]
    BY <1>1, <1>3
  <2>2. F[h] = 1..n /\ 1 \in Int /\ n \in Int
    BY <1>2, <1>3, <2>1
  <2>3. IsFiniteSet(1..n) /\ 1..n \subseteq Nat
    BY <2>2, FS_Interval
  <2> QED BY <2>2, <2>3
<1>6. \A h \in a..b : F[h] = 1..TxsAt[h]
  BY <1>2, <1>3
<1>7. PICK R : R = TxsOf(a, b)
  OBVIOUS
<1>8. \A x \in R : \E h \in a..b : x \in {h} \X F[h]
  BY <1>6, <1>7 DEF TxsOf
<1>9. R \subseteq Nat \X Nat /\ IsFiniteSet(R)
  BY <1>3, <1>4, <1>5, <1>8, GroupedRows
<1>10. \A x : x \in TxsOf(a, b) <=> \E h \in a..b : x \in {h} \X (1..TxsAt[h])
  BY DEF TxsOf
<1>11. \A x \in TxsOf(a, b) : x[1] \in a..b
  BY <1>10
<1> QED BY <1>7, <1>9, <1>10, <1>11, FS_CardinalityType

\* A window ends where it should and leaves out lower heights only.
LEMMA LowerIn ==
    ASSUME NEW u \in 1..TopHeight
    PROVE  Lower(u) \in 1..u /\ Lower(u) - 1 \in 0..TopHeight /\ Lower(u) - 1 < u /\ TopHeight \in Nat
  BY HistoryAssumption DEF Lower, TopHeight

\* The rows up to a height are its window and the rows below the window.
LEMMA WindowSplits ==
    ASSUME NEW u \in 1..TopHeight
    PROVE  /\ NumRows(u) = WindowRows(u) + NumRows(Lower(u) - 1)
           /\ {NumRows(u), WindowRows(u), NumRows(Lower(u) - 1)} \subseteq Nat
           /\ Lower(u) = 1 => NumRows(u) = WindowRows(u)
<1>1. PICK l : l = Lower(u)
  OBVIOUS
<1>2. l \in 1..u /\ l - 1 \in 0..TopHeight /\ TopHeight \in Nat
  BY <1>1, LowerIn
<1>3. PICK A, W, B : A = TxsOf(1, u) /\ W = TxsOf(l, u) /\ B = TxsOf(1, l - 1)
  OBVIOUS
<1>4. /\ IsFiniteSet(A) /\ IsFiniteSet(W) /\ IsFiniteSet(B)
      /\ {Cardinality(A), Cardinality(W), Cardinality(B)} \subseteq Nat
      /\ \A x \in W : x[1] \in l..u
      /\ \A x \in B : x[1] \in 1..(l - 1)
  BY <1>2, <1>3, TxsMember
<1>5. \A h : h \in 1..u <=> h \in l..u \/ h \in 1..(l - 1)
  BY <1>2
<1>6. A = W \cup B
  BY <1>3, <1>5 DEF TxsOf
<1>7. W \cap B = {}
  BY <1>2, <1>4
<1>8. Cardinality(A) = Cardinality(W) + Cardinality(B)
  BY <1>4, <1>6, <1>7, DisjointAdd
<1>9. l = 1 => Cardinality(A) = Cardinality(W)
  BY <1>3
<1> QED BY <1>1, <1>3, <1>4, <1>8, <1>9 DEF NumRows, WindowRows

\* A window's rows, in the list of the rows up to a height not below it.
LEMMA WindowWithin ==
    ASSUME NEW v \in 1..TopHeight, NEW u \in 1..v, NEW j \in 1..WindowRows(u)
    PROVE  /\ NumRows(v) - NumRows(u) + j \in 1..NumRows(v)
           /\ Descending(1, v)[NumRows(v) - NumRows(u) + j] = Descending(Lower(u), u)[j]
<1>1. u \in 1..TopHeight /\ TopHeight \in Nat /\ v \in 0..TopHeight /\ u \in 0..TopHeight
  BY LowerIn
<1>2. PICK A, U, W : A = TxsOf(1, v) /\ U = TxsOf(1, u) /\ W = TxsOf(Lower(u), u)
  OBVIOUS
<1>3. Lower(u) \in 1..u /\ Lower(u) \in Nat \ {0}
  BY <1>1, LowerIn
<1>4. /\ IsFiniteSet(A) /\ IsFiniteSet(U) /\ IsFiniteSet(W)
      /\ A \subseteq Nat \X Nat /\ U \subseteq Nat \X Nat /\ W \subseteq Nat \X Nat
      /\ \A x \in W : x[1] \in Lower(u)..u
  BY <1>1, <1>2, <1>3, TxsMember
<1>5. W \subseteq U /\ U \subseteq A
  <2>1. Lower(u)..u \subseteq 1..u /\ 1..u \subseteq 1..v
    BY <1>1, <1>3
  <2> QED BY <1>2, <2>1 DEF TxsOf
<1>6. \A y \in U : y \in W \/ y[1] < Lower(u)
  <2>1. ASSUME NEW y \in U PROVE y \in W \/ y[1] < Lower(u)
    <3>1. PICK h \in 1..u : y \in {h} \X (1..TxsAt[h])
      BY <1>2 DEF TxsOf
    <3>2. h \in Lower(u)..u \/ h < Lower(u)
      BY <1>1, <1>3
    <3> QED BY <1>2, <3>1, <3>2 DEF TxsOf
  <2> QED BY <2>1
<1>7. \A y \in A : y \in U \/ u < y[1]
  <2>1. ASSUME NEW y \in A PROVE y \in U \/ u < y[1]
    <3>1. PICK h \in 1..v : y \in {h} \X (1..TxsAt[h])
      BY <1>2 DEF TxsOf
    <3>2. h \in 1..u \/ u < h
      BY <1>1
    <3> QED BY <1>2, <3>1, <3>2 DEF TxsOf
  <2> QED BY <2>1
<1>8. /\ Cardinality(A) \in Nat /\ Cardinality(U) \in Nat /\ Cardinality(W) = WindowRows(u)
      /\ NumRows(v) = Cardinality(A) /\ NumRows(u) = Cardinality(U)
  BY <1>2, <1>4, FS_CardinalityType DEF NumRows, WindowRows
<1>9. PICK x : x = NewestFirst(W)[j]
  OBVIOUS
<1>10. x \in W /\ Cardinality(Above(W, x)) = j - 1
  BY <1>4, <1>8, <1>9, NewestFirstPlaces
<1>11. Above(A, x) = (A \ U) \cup Above(W, x)
  <2>1. x[1] \in Lower(u)..u /\ x \in Nat \X Nat
    BY <1>4, <1>10
  <2>2. ASSUME NEW y \in A PROVE Below(x, y) <=> y \notin U \/ (y \in W /\ Below(x, y))
    <3>1. y \in Nat \X Nat
      BY <1>4
    <3>2. CASE y \in W
      BY <1>5, <3>2
    <3>3. CASE y \in U /\ y \notin W
      <4>1. y[1] < x[1]
        BY <1>1, <1>3, <1>6, <2>1, <3>1, <3>3
      <4> QED BY <2>1, <3>1, <3>3, <4>1 DEF Below
    <3>4. CASE y \notin U
      <4>1. x[1] < y[1]
        BY <1>1, <1>3, <1>7, <2>1, <3>1, <3>4
      <4> QED BY <3>4, <4>1 DEF Below
    <3> QED BY <3>2, <3>3, <3>4
  <2> QED BY <1>5, <2>2 DEF Above
<1>12. PICK k : k = NumRows(v) - NumRows(u) + j
  OBVIOUS
<1>13. Cardinality(Above(A, x)) = k - 1
  <2>1. IsFiniteSet(A \ U) /\ Cardinality(A \ U) = Cardinality(A) - Cardinality(U)
    <3>1. A \cap U = U
      BY <1>5
    <3> QED BY <1>4, <3>1, FS_Difference
  <2>2. IsFiniteSet(Above(W, x)) /\ Above(W, x) \subseteq W /\ (A \ U) \cap Above(W, x) = {}
    BY <1>4, <1>5, AboveFinite
  <2>3. Cardinality((A \ U) \cup Above(W, x)) = Cardinality(A \ U) + Cardinality(Above(W, x))
    BY <2>1, <2>2, DisjointAdd
  <2>4. j \in Int
    OBVIOUS
  <2> QED BY <1>8, <1>10, <1>11, <1>12, <2>1, <2>3, <2>4
<1>14. k \in Int /\ (k - 1) + 1 = k
  BY <1>8, <1>12
<1>15. k \in 1..Cardinality(A) /\ NewestFirst(A)[k] = x
  <2>1. x \in A
    BY <1>5, <1>10
  <2>2. PICK i : i = Cardinality(Above(A, x)) + 1
    OBVIOUS
  <2>3. i \in 1..Cardinality(A) /\ NewestFirst(A)[i] = x
    BY <1>4, <2>1, <2>2, NewestFirstPlaces
  <2>4. i = k
    BY <1>13, <1>14, <2>2
  <2> QED BY <2>3, <2>4
<1> QED BY <1>2, <1>8, <1>9, <1>12, <1>15 DEF Descending

\* A cursor that the walk may hold: its page begins within its window.
CursorOK(c) ==
    /\ c.upper \in 1..TopHeight /\ c.page \in Nat \ {0}
    /\ (c.page - 1) * PageRows <= WindowRows(c.upper)

\* The rows up to height v that come before the cursor c.
Passed(v, c) == NumRows(v) - NumRows(c.upper) + (c.page - 1) * PageRows

\* The reader who began at start has seen the rows before the kth, and no
\* others.
ShownTo(start, s, k) ==
    /\ Len(s) = k - (start.page - 1) * PageRows
    /\ \A i \in 1..Len(s) : s[i] = Descending(1, start.upper)[i + (start.page - 1) * PageRows]

RequestSound(r) ==
    r.busy =>
      /\ r.anchor \in 1..TopHeight /\ CursorOK(r.start) /\ CursorOK(r.at)
      /\ r.at.upper <= r.start.upper
      /\ ~misled => ShownTo(r.start, shown, Passed(r.start.upper, r.at))

PageSound(p) ==
    p.state = "available" =>
      /\ p.anchor \in 1..TopHeight /\ CursorOK(p.start)
      /\ p.newer # NoCursor => CursorOK(p.newer)
      /\ p.older # NoCursor => CursorOK(p.older) /\ p.older.upper <= p.start.upper
      /\ ~misled => ShownTo(p.start, shown,
                      IF p.older = NoCursor THEN NumRows(p.start.upper)
                      ELSE Passed(p.start.upper, p.older))

HistoryInv ==
    /\ tip \in 1..TopHeight /\ shown \in Seq(Nat \X Nat) /\ misled \in BOOLEAN
    /\ DOMAIN req = {"busy", "anchor", "start", "at", "hop", "live"}
    /\ RequestSound(req) /\ PageSound(page)

\* The lists of a window and of all heights up to it have their rows.
LEMMA WindowDescends ==
    ASSUME NEW u \in 1..TopHeight
    PROVE  /\ Descending(Lower(u), u) \in Seq(Nat \X Nat)
           /\ Len(Descending(Lower(u), u)) = WindowRows(u)
           /\ Descending(1, u) \in Seq(Nat \X Nat)
           /\ Len(Descending(1, u)) = NumRows(u)
<1>1. Lower(u) \in Nat \ {0} /\ u \in 0..TopHeight /\ 1 \in Nat \ {0}
  BY LowerIn
<1>2. ASSUME NEW a \in Nat \ {0}
      PROVE  /\ Descending(a, u) \in Seq(Nat \X Nat)
             /\ Len(Descending(a, u)) = Cardinality(TxsOf(a, u))
  <2>1. PICK S : S = TxsOf(a, u)
    OBVIOUS
  <2>2. S \subseteq Nat \X Nat /\ IsFiniteSet(S)
    BY <1>1, <2>1, TxsMember
  <2>3. PICK s : s = NewestFirst(S)
    OBVIOUS
  <2>4. s \in Seq(S) /\ Len(s) = Cardinality(S)
    BY <2>2, <2>3, NewestFirstPlaces
  <2>5. s \in Seq(Nat \X Nat)
    BY <2>2, <2>4
  <2> QED BY <2>1, <2>3, <2>4, <2>5 DEF Descending
<1> QED BY <1>1, <1>2 DEF WindowRows, NumRows

\* Pages are counted from the first.
LEMMA PagesAdd ==
    ASSUME NEW n \in Nat \ {0}
    PROVE  /\ PageRows \in Nat \ {0} /\ (n - 1) * PageRows \in Nat
           /\ n * PageRows = (n - 1) * PageRows + PageRows
           /\ (1 - 1) * PageRows = 0
<1>1. PageRows \in Nat \ {0} /\ n - 1 \in Nat
  BY HistoryAssumption
<1>2. n * PageRows = (n - 1) * PageRows + PageRows
  BY <1>1
<1>3. (n - 1) * PageRows \in Nat
  BY <1>1
<1> QED BY <1>1, <1>2, <1>3

\* A page of a window: its rows are those at its places.
LEMMA PageRowsOf ==
    ASSUME NEW c, CursorOK(c), NEW P, P = PageOf(Descending(Lower(c.upper), c.upper), c.page)
    PROVE  /\ P \in Seq(Nat \X Nat)
           /\ Len(P) = (IF c.page * PageRows < WindowRows(c.upper) THEN c.page * PageRows
                        ELSE WindowRows(c.upper)) - (c.page - 1) * PageRows
           /\ \A i \in 1..Len(P) :
                P[i] = Descending(Lower(c.upper), c.upper)[(c.page - 1) * PageRows + i]
<1>1. PICK D, w, n : D = Descending(Lower(c.upper), c.upper) /\ w = WindowRows(c.upper) /\ n = c.page
  OBVIOUS
<1>2. D \in Seq(Nat \X Nat) /\ Len(D) = w /\ w \in Nat /\ n \in Nat \ {0}
  BY <1>1, WindowDescends, WindowSplits DEF CursorOK
<1>3. PICK m \in Nat, q \in Nat : m = (n - 1) * PageRows /\ q = n * PageRows /\ q > m
  <2>1. PICK m \in Nat : m = (n - 1) * PageRows
    BY <1>2, PagesAdd
  <2>2. PICK q : q = n * PageRows
    OBVIOUS
  <2>3. q = m + PageRows /\ PageRows \in Nat \ {0}
    BY <1>2, <2>1, <2>2, PagesAdd
  <2> QED BY <2>1, <2>2, <2>3
<1>4. m <= w
  BY <1>1, <1>3 DEF CursorOK
<1>5. PICK e \in Nat : e = (IF q < w THEN q ELSE w) /\ m <= e /\ e <= w
  BY <1>2, <1>3, <1>4
<1>6. P = SubSeq(D, m + 1, e)
  BY <1>1, <1>2, <1>3, <1>5 DEF PageOf
<1>7. P \in Seq(Nat \X Nat) /\ Len(P) = e - m /\ \A i \in 1..(e - m) : P[i] = D[m + i]
  <2>1. PICK T : T = Nat \X Nat
    OBVIOUS
  <2>2. D \in Seq(T) /\ m \in Nat /\ e \in Nat /\ m <= e /\ e <= Len(D)
    BY <1>2, <1>3, <1>5, <2>1
  <2>3. P \in Seq(T) /\ Len(P) = e - m /\ \A i \in 1..(e - m) : P[i] = D[m + i]
    BY <1>6, <2>2, Slice
  <2> QED BY <2>1, <2>3
<1> QED BY <1>1, <1>3, <1>5, <1>7

\* A set of endpoints that is not empty has one that is asked first.
LEMMA FirstAsked ==
    ASSUME NEW es, es \subseteq Endpoints, es # {}
    PROVE  FirstOf(es) \in es
<1>1. es \subseteq Nat
  BY HistoryAssumption
<1>2. \E e \in es : \A f \in es \ {e} : AskedBefore(e, f)
  <2>1. PICK T : T = {e \in es : ~Suspected(e)}
    OBVIOUS
  <2>2. CASE T # {}
    <3>1. PICK e \in T : \A f \in T : e <= f
      BY <1>1, <2>1, <2>2, LeastNat
    <3>2. \A f \in es \ {e} : AskedBefore(e, f)
      BY <1>1, <2>1, <3>1 DEF AskedBefore, Suspected
    <3> QED BY <2>1, <3>2
  <2>3. CASE T = {}
    <3>1. PICK e \in es : \A f \in es : e <= f
      BY <1>1, LeastNat
    <3>2. \A f \in es \ {e} : AskedBefore(e, f)
      BY <1>1, <2>1, <2>3, <3>1 DEF AskedBefore, Suspected
    <3> QED BY <3>2
  <2> QED BY <2>2, <2>3
<1> QED BY <1>2 DEF FirstOf

\* An index that is behind shows a part of the window.
LEMMA ShowsPart ==
    ASSUME tip \in Nat, NEW reply \in [Endpoints -> Replies], NEW e \in Endpoints,
           NEW u \in 1..TopHeight, NEW D, D = Shows(reply, e, u)
    PROVE  D \in Seq(Nat \X Nat) /\ Len(D) \in Nat /\ Len(D) <= WindowRows(u)
<1>1. WindowRows(u) \in Nat /\ Lower(u) \in Nat \ {0} /\ u \in 0..TopHeight /\ u \in Int
  BY WindowSplits, LowerIn
<1>2. CASE e \notin Indexed
  <2>1. D = <<>>
    BY <1>2 DEF Shows
  <2>2. PICK T : T = Nat \X Nat
    OBVIOUS
  <2>3. D \in Seq(T) /\ Len(D) = 0
    BY <2>1
  <2> QED BY <1>1, <2>2, <2>3
<1>3. CASE e \in Indexed
  <2>1. PICK k \in Nat : k = reply[e].lag
    <3>1. reply[e] \in Replies
      OBVIOUS
    <3>2. reply[e].lag \in 0..MaxLag \/ reply[e].lag \in {0}
      BY <3>1 DEF Replies
    <3>3. MaxLag \in Nat
      BY HistoryAssumption
    <3>4. reply[e].lag \in Nat
      BY <3>2, <3>3
    <3> QED BY <3>4
  <2>2. PICK t \in Int : t = (IF u <= tip - k THEN u ELSE tip - k) /\ t <= u
    <3>1. tip - k \in Int
      OBVIOUS
    <3>2. PICK t : t = (IF u <= tip - k THEN u ELSE tip - k)
      OBVIOUS
    <3>3. t \in Int /\ t <= u
      BY <1>1, <3>1, <3>2
    <3> QED BY <3>2, <3>3
  <2>3. PICK l, S, W : l = Lower(u) /\ S = TxsOf(l, t) /\ W = TxsOf(l, u)
    OBVIOUS
  <2>4. D = NewestFirst(S)
    BY <1>3, <2>1, <2>2, <2>3 DEF Shows, Descending
  <2>5. W \subseteq Nat \X Nat /\ IsFiniteSet(W) /\ Cardinality(W) = WindowRows(u)
    BY <1>1, <2>3, TxsMember DEF WindowRows
  <2>6. l..t \subseteq l..u
    BY <1>1, <2>2, <2>3
  <2>7. S \subseteq W
    BY <2>3, <2>6 DEF TxsOf
  <2>8. S \subseteq Nat \X Nat /\ IsFiniteSet(S) /\ Cardinality(S) <= Cardinality(W)
    BY <2>5, <2>7, FS_Subset
  <2>9. D \in Seq(S) /\ Len(D) = Cardinality(S)
    BY <2>4, <2>8, NewestFirstPlaces
  <2>10. Cardinality(S) \in Nat
    BY <2>8, FS_CardinalityType
  <2>11. D \in Seq(Nat \X Nat)
    BY <2>8, <2>9
  <2> QED BY <2>5, <2>8, <2>9, <2>10, <2>11
<1> QED BY <1>2, <1>3

\* A full page ends within its list.
LEMMA PageWithin ==
    ASSUME NEW T, NEW D \in Seq(T), NEW n \in Nat \ {0}, NEW P, P = PageOf(D, n)
    PROVE  P \in Seq(T) /\ (Len(P) = PageRows => n * PageRows <= Len(D))
<1>1. PICK m \in Nat, q \in Nat :
        m = (n - 1) * PageRows /\ q = n * PageRows /\ q = m + PageRows /\ PageRows \in Nat \ {0}
  <2>1. (n - 1) * PageRows \in Nat /\ n * PageRows = (n - 1) * PageRows + PageRows /\ PageRows \in Nat \ {0}
    BY PagesAdd
  <2> QED BY <2>1
<1>2. PICK e \in Nat : e = (IF q < Len(D) THEN q ELSE Len(D)) /\ e <= Len(D)
  OBVIOUS
<1>3. P = SubSeq(D, m + 1, e)
  BY <1>1, <1>2 DEF PageOf
<1>4. m + 1 \in Int /\ \A i \in (m + 1)..e : D[i] \in T
  BY <1>1, <1>2
<1>5. P \in Seq(T) /\ Len(P) = (IF m + 1 <= e THEN e - (m + 1) + 1 ELSE 0)
  BY <1>3, <1>4, SubSeqProperties
<1> QED BY <1>1, <1>2, <1>5

\* What a search returns: rows, of which there are more in the window only if
\* its page is full; and the page of the window itself, with the window's total
\* or none, unless the search misleads.
LEMMA SearchReturns ==
    ASSUME tip \in Nat, NEW reply \in [Endpoints -> Replies], NEW c, CursorOK(c),
           NEW r, r = Search(reply, c.upper, c.page),
           NEW P, P = PageOf(Descending(Lower(c.upper), c.upper), c.page)
    PROVE  /\ r.state \in {"available", "indexing_unavailable", "error"}
           /\ r.rows \in Seq(Nat \X Nat)
           /\ MoreInWindow(c, r) => c.page * PageRows <= WindowRows(c.upper)
           /\ r.state = "available" /\ ~Misleads(reply, c.upper, c.page) =>
                r.rows = P /\ r.total \in {-1, WindowRows(c.upper)}
           /\ r.state # "available" => r.rows = <<>>
<1>1. PICK found, empty : /\ found = Found(reply, c.upper, c.page)
                          /\ empty = Empty(reply, c.upper, c.page)
  OBVIOUS
<1>2. c.upper \in 1..TopHeight /\ c.page \in Nat \ {0} /\ WindowRows(c.upper) \in Nat
  BY WindowSplits DEF CursorOK
<1>3. CASE found # {}
  <2>1. PICK e : e = FirstOf(found)
    OBVIOUS
  <2>2. e \in found /\ e \in Endpoints
    BY <1>1, <1>3, <2>1, FirstAsked DEF Found
  <2>3. PICK D : D = Shows(reply, e, c.upper)
    OBVIOUS
  <2>4. D \in Seq(Nat \X Nat) /\ Len(D) \in Nat /\ Len(D) <= WindowRows(c.upper)
    BY <1>2, <2>2, <2>3, ShowsPart
  <2>5. /\ r.state = "available" /\ r.rows = PageOf(D, c.page)
        /\ r.total = -1 \/ r.total = Len(D)
    BY <1>1, <1>3, <2>1, <2>3 DEF Search, RowsFrom
  <2>6. r.rows \in Seq(Nat \X Nat) /\ (Len(r.rows) = PageRows => c.page * PageRows <= Len(D))
    <3>1. PICK T : T = Nat \X Nat
      OBVIOUS
    <3>2. D \in Seq(T)
      BY <2>4, <3>1
    <3>3. r.rows \in Seq(T) /\ (Len(r.rows) = PageRows => c.page * PageRows <= Len(D))
      BY <1>2, <2>5, <3>2, PageWithin
    <3> QED BY <3>1, <3>3
  <2>7. PICK q \in Nat : q = c.page * PageRows
    <3>1. (c.page - 1) * PageRows \in Nat /\ c.page * PageRows = (c.page - 1) * PageRows + PageRows
          /\ PageRows \in Nat
      BY <1>2, PagesAdd
    <3>2. c.page * PageRows \in Nat
      BY <3>1
    <3> QED BY <3>2
  <2>8. MoreInWindow(c, r) => q <= WindowRows(c.upper)
    <3>1. MoreInWindow(c, r) => IF r.total >= 0 THEN q < r.total ELSE Len(r.rows) = PageRows
      BY <2>7 DEF MoreInWindow
    <3> QED BY <1>2, <2>4, <2>5, <2>6, <2>7, <3>1
  <2>9. ASSUME ~Misleads(reply, c.upper, c.page) PROVE r.rows = P /\ r.total \in {-1, WindowRows(c.upper)}
    <3>1. D = Descending(Lower(c.upper), c.upper)
      BY <1>1, <1>3, <2>1, <2>3, <2>9 DEF Misleads
    <3>2. Len(D) = WindowRows(c.upper)
      BY <1>2, <3>1, WindowDescends
    <3> QED BY <2>5, <3>1, <3>2
  <2> QED BY <2>5, <2>6, <2>7, <2>8, <2>9
<1>4. CASE found = {}
  <2>1. /\ r.state \in {"available", "indexing_unavailable", "error"}
        /\ r.rows = <<>> /\ r.total = -1
    BY <1>1, <1>4 DEF Search
  <2>2. ~MoreInWindow(c, r)
    BY <2>1 DEF MoreInWindow
  <2>3. ~Misleads(reply, c.upper, c.page) => P = <<>>
    BY <1>1, <1>4 DEF Misleads
  <2>4. r.rows \in Seq(Nat \X Nat)
    <3>1. PICK T : T = Nat \X Nat
      OBVIOUS
    <3>2. r.rows \in Seq(T)
      BY <2>1
    <3> QED BY <3>1, <3>2
  <2> QED BY <2>1, <2>2, <2>3, <2>4
<1> QED BY <1>3, <1>4

\* The cursor of the window below: the rows before it are those of the window
\* and those before the window.
LEMMA NextWindow ==
    ASSUME NEW c, CursorOK(c), Lower(c.upper) > 1, NEW d, d = Cursor(Lower(c.upper) - 1, 1)
    PROVE  /\ CursorOK(d) /\ d.upper <= c.upper /\ d # NoCursor
           /\ \A v \in 1..TopHeight :
                Passed(v, d) = NumRows(v) - NumRows(c.upper) + WindowRows(c.upper)
<1>1. PICK u, l : u = c.upper /\ l = Lower(u)
  OBVIOUS
<1>2. u \in 1..TopHeight /\ l \in 1..u /\ TopHeight \in Nat /\ l > 1
  BY <1>1, LowerIn DEF CursorOK
<1>3. d.upper = l - 1 /\ d.page = 1
  BY <1>1 DEF Cursor
<1>4. l - 1 \in 1..TopHeight /\ l - 1 <= u /\ l - 1 # 0
  BY <1>2
<1>5. WindowRows(l - 1) \in Nat /\ (1 - 1) * PageRows = 0
  BY <1>4, WindowSplits, PagesAdd
<1>6. CursorOK(d)
  BY <1>3, <1>4, <1>5 DEF CursorOK
<1>7. d # NoCursor
  BY <1>3, <1>4 DEF NoCursor
<1>8. /\ NumRows(u) = WindowRows(u) + NumRows(l - 1)
      /\ NumRows(u) \in Nat /\ WindowRows(u) \in Nat /\ NumRows(l - 1) \in Nat
  BY <1>1, <1>2, WindowSplits
<1>9. ASSUME NEW v \in 1..TopHeight
      PROVE  Passed(v, d) = NumRows(v) - NumRows(u) + WindowRows(u)
  <2>1. NumRows(v) \in Nat
    BY WindowSplits
  <2>2. Passed(v, d) = NumRows(v) - NumRows(l - 1) + 0
    BY <1>3, <1>5 DEF Passed
  <2> QED BY <1>8, <2>1, <2>2
<1> QED BY <1>1, <1>3, <1>4, <1>6, <1>7, <1>9

\* The cursor of the next page: the rows before it are those of this page and
\* those before this page.
LEMMA OlderPlace ==
    ASSUME NEW c, CursorOK(c), NEW r,
           NEW P, P = PageOf(Descending(Lower(c.upper), c.upper), c.page),
           MoreInWindow(c, r) => c.page * PageRows <= WindowRows(c.upper),
           NEW o, o = OlderCursor(c, r)
    PROVE  /\ o # NoCursor => CursorOK(o) /\ o.upper <= c.upper
           /\ r.rows = P /\ r.total \in {-1, WindowRows(c.upper)} => \A v \in 1..TopHeight :
                IF o = NoCursor THEN Passed(v, c) + Len(P) = NumRows(v)
                ELSE Passed(v, o) = Passed(v, c) + Len(P)
<1>1. PICK u, n, w : u = c.upper /\ n = c.page /\ w = WindowRows(u)
  OBVIOUS
<1>2. u \in 1..TopHeight /\ n \in Nat \ {0} /\ TopHeight \in Nat
  BY <1>1, LowerIn DEF CursorOK
<1>3. w \in Nat /\ NumRows(u) \in Nat
  BY <1>1, <1>2, WindowSplits
<1>4. PICK m \in Nat : m = (n - 1) * PageRows
  BY <1>2, PagesAdd
<1>5. PICK q \in Nat : q = n * PageRows /\ q = m + PageRows
  <2>1. n * PageRows = m + PageRows /\ PageRows \in Nat
    BY <1>2, <1>4, PagesAdd
  <2> QED BY <2>1
<1>6. PageRows \in Nat \ {0} /\ m <= w
  BY <1>1, <1>4, PagesAdd DEF CursorOK
<1>7. P \in Seq(Nat \X Nat) /\ Len(P) = (IF q < w THEN q ELSE w) - m
  BY <1>1, <1>4, <1>5, PageRowsOf
<1>8. PICK L \in Nat : L = Len(P)
  BY <1>7
<1>9. \A v \in 1..TopHeight : NumRows(v) \in Nat /\ Passed(v, c) = NumRows(v) - NumRows(u) + m
  BY <1>1, <1>4, WindowSplits DEF Passed
<1>10. P = <<>> <=> L = 0
  BY <1>7, <1>8
<1>11. CASE MoreInWindow(c, r)
  <2>1. q <= w
    BY <1>1, <1>5, <1>11
  <2>2. L = PageRows
    BY <1>3, <1>5, <1>6, <1>7, <1>8, <2>1
  <2>3. o = Cursor(u, n + 1)
    BY <1>1, <1>11 DEF OlderCursor
  <2>4. o.upper = u /\ o.page = n + 1 /\ (n + 1) - 1 = n
    BY <1>2, <2>3 DEF Cursor
  <2>5. (o.page - 1) * PageRows = q
    BY <1>5, <2>4
  <2>6. CursorOK(o)
    BY <1>1, <1>2, <2>1, <2>4, <2>5 DEF CursorOK
  <2>7. o # NoCursor
    BY <1>2, <2>4 DEF NoCursor
  <2>8. \A v \in 1..TopHeight : Passed(v, o) = NumRows(v) - NumRows(u) + q
    BY <2>4, <2>5 DEF Passed
  <2>9. \A v \in 1..TopHeight : Passed(v, o) = Passed(v, c) + Len(P)
    BY <1>3, <1>5, <1>8, <1>9, <2>2, <2>8
  <2> QED BY <1>1, <1>2, <2>4, <2>6, <2>7, <2>9
<1>12. CASE ~MoreInWindow(c, r)
  <2>1. ASSUME r.rows = P, r.total \in {-1, w} PROVE L = w - m
    <3>1. CASE P = <<>>
      BY <1>3, <1>5, <1>6, <1>7, <1>8, <1>10, <3>1
    <3>2. CASE P # <<>> /\ n >= MaxPage
      <4>1. MaxPage \in Nat /\ MaxPage * PageRows <= n * PageRows
        BY <1>2, <1>6, <3>2, HistoryAssumption
      <4>2. w <= MaxPage * PageRows
        <5>1. u \in DOMAIN TxsAt
          BY <1>2, HistoryAssumption DEF TopHeight
        <5> QED BY <1>1, <5>1, HistoryAssumption DEF WindowRows
      <4>3. w <= q
        <5>1. PICK z \in Nat : z = MaxPage * PageRows
          BY <1>6, <4>1
        <5> QED BY <1>3, <1>5, <4>1, <4>2, <5>1
      <4> QED BY <1>3, <1>5, <1>7, <1>8, <4>3
    <3>3. CASE P # <<>> /\ n < MaxPage
      <4>1. ~IF r.total >= 0 THEN q < r.total ELSE Len(r.rows) = PageRows
        BY <1>1, <1>5, <1>12, <2>1, <3>3 DEF MoreInWindow
      <4> QED BY <1>1, <1>3, <1>5, <1>6, <1>7, <1>8, <2>1, <4>1
    <3>4. MaxPage \in Nat
      BY HistoryAssumption
    <3> QED BY <1>2, <3>1, <3>2, <3>3, <3>4
  <2>2. CASE Lower(u) > 1
    <3>1. o = Cursor(Lower(u) - 1, 1)
      BY <1>1, <1>12, <2>2 DEF OlderCursor
    <3>2. /\ CursorOK(o) /\ o.upper <= c.upper /\ o # NoCursor
          /\ \A v \in 1..TopHeight : Passed(v, o) = NumRows(v) - NumRows(u) + w
      BY <1>1, <2>2, <3>1, NextWindow
    <3>3. ASSUME r.rows = P, r.total \in {-1, w}, NEW v \in 1..TopHeight PROVE Passed(v, o) = Passed(v, c) + Len(P)
      <4>1. L = w - m
        BY <2>1, <3>3
      <4>2. NumRows(v) \in Nat /\ Passed(v, c) = NumRows(v) - NumRows(u) + m
        BY <1>9
      <4> QED BY <1>3, <1>8, <3>2, <4>1, <4>2
    <3> QED BY <1>1, <3>2, <3>3
  <2>3. CASE ~(Lower(u) > 1)
    <3>1. o = NoCursor
      BY <1>1, <1>12, <2>3 DEF OlderCursor
    <3>2. Lower(u) = 1
      BY <1>2, <2>3, LowerIn
    <3>3. NumRows(u) = w
      BY <1>1, <1>2, <3>2, WindowSplits
    <3>4. ASSUME r.rows = P, r.total \in {-1, w}, NEW v \in 1..TopHeight PROVE Passed(v, c) + Len(P) = NumRows(v)
      <4>1. L = w - m
        BY <2>1, <3>4
      <4>2. NumRows(v) \in Nat /\ Passed(v, c) = NumRows(v) - NumRows(u) + m
        BY <1>9
      <4> QED BY <1>3, <1>8, <3>3, <4>1, <4>2
    <3> QED BY <1>1, <3>1, <3>4
  <2> QED BY <2>2, <2>3
<1> QED BY <1>11, <1>12

\* One more page is shown.
LEMMA ShownMore ==
    ASSUME NEW b, CursorOK(b), NEW c, CursorOK(c), c.upper <= b.upper,
           NEW s \in Seq(Nat \X Nat), ShownTo(b, s, Passed(b.upper, c)),
           NEW P, P = PageOf(Descending(Lower(c.upper), c.upper), c.page)
    PROVE  s \o P \in Seq(Nat \X Nat) /\ ShownTo(b, s \o P, Passed(b.upper, c) + Len(P))
<1>1. PICK u, v, n, w, k : /\ u = c.upper /\ v = b.upper /\ n = c.page /\ w = WindowRows(u)
                           /\ k = (b.page - 1) * PageRows
  OBVIOUS
<1>2. u \in 1..TopHeight /\ v \in 1..TopHeight /\ u \in 1..v /\ n \in Nat \ {0} /\ b.page \in Nat \ {0}
      /\ TopHeight \in Nat
  BY <1>1, LowerIn DEF CursorOK
<1>3. w \in Nat /\ NumRows(u) \in Nat /\ NumRows(v) \in Nat /\ k \in Nat
  BY <1>1, <1>2, WindowSplits, PagesAdd
<1>4. PICK m \in Nat, q \in Nat : m = (n - 1) * PageRows /\ q = n * PageRows
  <2>1. (n - 1) * PageRows \in Nat
    BY <1>2, PagesAdd
  <2>2. n * PageRows = (n - 1) * PageRows + PageRows /\ PageRows \in Nat
    BY <1>2, PagesAdd
  <2>3. n * PageRows \in Nat
    BY <2>1, <2>2
  <2> QED BY <2>1, <2>3
<1>5. PICK D, A : D = Descending(Lower(u), u) /\ A = Descending(1, v)
  OBVIOUS
<1>6. /\ P \in Seq(Nat \X Nat) /\ Len(P) = (IF q < w THEN q ELSE w) - m
      /\ \A i \in 1..Len(P) : P[i] = D[m + i]
  BY <1>1, <1>4, <1>5, PageRowsOf
<1>7. PICK L \in Nat : L = Len(P) /\ m + L <= w
  BY <1>3, <1>4, <1>6
<1>8. PICK z \in Nat : z = Len(s)
  OBVIOUS
<1>9. /\ z = (NumRows(v) - NumRows(u) + m) - k
      /\ \A i \in 1..z : s[i] = A[i + k]
  BY <1>1, <1>4, <1>5, <1>8 DEF ShownTo, Passed
<1>10. PICK t : t = s \o P
  OBVIOUS
<1>11. /\ t \in Seq(Nat \X Nat) /\ Len(t) = z + L
       /\ \A i \in 1..z : t[i] = s[i]
       /\ \A i \in 1..L : t[z + i] = P[i]
  <2>1. PICK T : T = Nat \X Nat
    OBVIOUS
  <2>2. s \in Seq(T) /\ P \in Seq(T) /\ Len(s) = z /\ Len(P) = L
    BY <1>6, <1>7, <1>8, <2>1
  <2>3. /\ t \in Seq(T) /\ Len(t) = Len(s) + Len(P)
        /\ \A i \in 1..Len(s) : t[i] = s[i]
        /\ \A i \in 1..Len(P) : t[Len(s) + i] = P[i]
    <3>1. s \in Seq(T) /\ P \in Seq(T)
      BY <2>2
    <3> QED BY <1>10, <3>1, Joined
  <2> QED BY <2>1, <2>2, <2>3
<1>12. ASSUME NEW i \in 1..L PROVE t[z + i] = A[(z + i) + k]
  <2>1. m + i \in 1..w
    BY <1>3, <1>7
  <2>2. A[NumRows(v) - NumRows(u) + (m + i)] = D[m + i]
    BY <1>1, <1>2, <1>5, <2>1, WindowWithin
  <2>3. NumRows(v) - NumRows(u) + (m + i) = (z + i) + k
    BY <1>3, <1>9
  <2> QED BY <1>6, <1>7, <1>11, <2>2, <2>3
<1>13. ASSUME NEW j \in 1..Len(t) PROVE t[j] = A[j + k]
  <2>1. CASE j <= z
    <3>1. j \in 1..z
      BY <1>7, <1>8, <1>11, <2>1
    <3>2. t[j] = s[j] /\ s[j] = A[j + k]
      BY <1>9, <1>11, <3>1
    <3> QED BY <3>2
  <2>2. CASE ~(j <= z)
    <3>1. j - z \in 1..L /\ z + (j - z) = j
      BY <1>7, <1>8, <1>11, <2>2
    <3>2. t[z + (j - z)] = A[(z + (j - z)) + k]
      BY <1>12, <3>1
    <3> QED BY <3>1, <3>2
  <2> QED BY <2>1, <2>2
<1>14. Len(t) = (Passed(b.upper, c) + Len(P)) - k
  <2>1. Passed(b.upper, c) = NumRows(v) - NumRows(u) + m
    BY <1>1, <1>4 DEF Passed
  <2> QED BY <1>3, <1>7, <1>8, <1>9, <1>11, <2>1
<1> QED BY <1>1, <1>5, <1>10, <1>11, <1>13, <1>14 DEF ShownTo

\* A newer page, where there is one.
LEMMA NewerPlace ==
    ASSUME NEW anchor \in 1..TopHeight, NEW c, CursorOK(c), NEW d, d = NewerCursor(anchor, c),
           d # NoCursor
    PROVE  CursorOK(d)
<1>1. PICK u, n : u = c.upper /\ n = c.page
  OBVIOUS
<1>2. u \in 1..TopHeight /\ n \in Nat \ {0} /\ TopHeight \in Nat /\ HistoryWindow \in Nat \ {0}
  BY <1>1, LowerIn, HistoryAssumption DEF CursorOK
<1>3. CASE n > 1
  <2>1. d = Cursor(u, n - 1)
    BY <1>1, <1>3 DEF NewerCursor
  <2>2. d.upper = u /\ d.page = n - 1
    BY <2>1 DEF Cursor
  <2>3. n - 1 \in Nat \ {0} /\ PageRows \in Nat
    BY <1>2, <1>3, PagesAdd
  <2>4. ((n - 1) - 1) * PageRows <= (n - 1) * PageRows /\ ((n - 1) - 1) * PageRows \in Nat
    <3>1. /\ (n - 1) * PageRows = ((n - 1) - 1) * PageRows + PageRows
          /\ ((n - 1) - 1) * PageRows \in Nat
      BY <2>3, PagesAdd
    <3> QED BY <2>3, <3>1
  <2>5. (n - 1) * PageRows <= WindowRows(u) /\ WindowRows(u) \in Nat
    BY <1>1, <1>2, WindowSplits DEF CursorOK
  <2>6. (n - 1) * PageRows \in Nat
    BY <1>2, PagesAdd
  <2>7. ((n - 1) - 1) * PageRows <= WindowRows(u)
    BY <2>4, <2>5, <2>6
  <2> QED BY <1>2, <2>2, <2>3, <2>7 DEF CursorOK
<1>4. CASE ~(n > 1)
  <2>1. d = Cursor(u + HistoryWindow, 1) /\ ~(u + HistoryWindow >= anchor)
    BY <1>1, <1>4 DEF NewerCursor
  <2>2. d.upper = u + HistoryWindow /\ d.page = 1 /\ u + HistoryWindow \in 1..TopHeight
    BY <1>2, <2>1 DEF Cursor
  <2>3. WindowRows(u + HistoryWindow) \in Nat /\ (1 - 1) * PageRows = 0
    BY <2>2, WindowSplits, PagesAdd
  <2> QED BY <2>2, <2>3 DEF CursorOK
<1> QED BY <1>3, <1>4

\* A walk that begins has passed what comes before its first page.
LEMMA WalkBegins ==
    ASSUME NEW c, CursorOK(c)
    PROVE  ShownTo(c, <<>>, Passed(c.upper, c))
<1>1. NumRows(c.upper) \in Nat /\ (c.page - 1) * PageRows \in Nat
  BY WindowSplits, PagesAdd DEF CursorOK
<1>2. Passed(c.upper, c) = (c.page - 1) * PageRows
  BY <1>1 DEF Passed
<1>3. Passed(c.upper, c) - (c.page - 1) * PageRows = 0
  BY <1>1, <1>2
<1> QED BY <1>3 DEF ShownTo

\* A window's first page begins at its first row.
LEMMA FirstPage ==
    ASSUME NEW h \in 1..TopHeight
    PROVE  CursorOK(Cursor(h, 1))
<1>1. WindowRows(h) \in Nat /\ (1 - 1) * PageRows = 0
  BY WindowSplits, PagesAdd
<1>2. Cursor(h, 1).upper = h /\ Cursor(h, 1).page = 1
  BY DEF Cursor
<1> QED BY <1>1, <1>2 DEF CursorOK

\* Before the first page nothing is shown.
LEMMA NoRows == <<>> \in Seq(Nat \X Nat)
<1>1. PICK T : T = Nat \X Nat
  OBVIOUS
<1>2. <<>> \in Seq(T)
  OBVIOUS
<1> QED BY <1>1, <1>2

\* No request and no page yet.
LEMMA HistoryInitInv == HistoryInit => HistoryInv
<1> SUFFICES ASSUME HistoryInit PROVE HistoryInv
  OBVIOUS
<1>1. tip \in 1..TopHeight
  BY HistoryAssumption DEF HistoryInit, TopHeight
<1>2. shown \in Seq(Nat \X Nat) /\ misled \in BOOLEAN
  BY NoRows DEF HistoryInit
<1>3. DOMAIN req = {"busy", "anchor", "start", "at", "hop", "live"} /\ RequestSound(req)
  BY DEF HistoryInit, RequestSound, Quiet
<1>4. PageSound(page)
  BY DEF HistoryInit, PageSound, Blank
<1> QED BY <1>1, <1>2, <1>3, <1>4 DEF HistoryInv

\* A request is made; the reader stays where he is, or starts anew.
LEMMA OpenLiveStep == ASSUME HistoryInv, OpenLive PROVE HistoryInv'
<1>1. PICK c : c = Cursor(tip, 1)
  OBVIOUS
<1>2. CursorOK(c) /\ tip \in 1..TopHeight
  BY <1>1, FirstPage DEF HistoryInv
<1>3. /\ req' = [busy |-> TRUE, anchor |-> tip, start |-> c, at |-> c, hop |-> 1, live |-> TRUE]
      /\ page' = Blank /\ shown' = <<>> /\ misled' = FALSE /\ tip' = tip
  BY <1>1 DEF OpenLive, AskPage
<1>4. ShownTo(c, <<>>, Passed(c.upper, c)) /\ c.upper <= c.upper
  BY <1>2, WalkBegins, LowerIn DEF CursorOK
<1>5. RequestSound(req)'
  BY <1>2, <1>3, <1>4 DEF RequestSound
<1>6. PageSound(page)'
  BY <1>3 DEF PageSound, Blank
<1>7. shown' \in Seq(Nat \X Nat) /\ misled' \in BOOLEAN
  BY <1>3, NoRows
<1>8. DOMAIN req' = {"busy", "anchor", "start", "at", "hop", "live"}
  BY <1>3
<1> QED BY <1>2, <1>3, <1>5, <1>6, <1>7, <1>8 DEF HistoryInv

\* The reader asks for the page that its older cursor names.
LEMMA FollowOlderStep == ASSUME HistoryInv, FollowOlder PROVE HistoryInv'
<1>1. /\ req' = [busy |-> TRUE, anchor |-> page.anchor, start |-> page.start, at |-> page.older,
                 hop |-> 1, live |-> FALSE]
      /\ page.state = "available" /\ page.older # NoCursor
      /\ page' = page /\ shown' = shown /\ misled' = misled /\ tip' = tip
  BY DEF FollowOlder, AskPage
<1>2. /\ page.anchor \in 1..TopHeight /\ CursorOK(page.start)
      /\ CursorOK(page.older) /\ page.older.upper <= page.start.upper
      /\ ~misled => ShownTo(page.start, shown, Passed(page.start.upper, page.older))
  BY <1>1 DEF HistoryInv, PageSound
<1>3. RequestSound(req)'
  BY <1>1, <1>2 DEF RequestSound
<1>4. PageSound(page)'
  BY <1>1 DEF HistoryInv, PageSound
<1> QED BY <1>1, <1>3, <1>4 DEF HistoryInv

\* The reader goes back to a newer page, and starts over from there.
LEMMA FollowNewerStep == ASSUME HistoryInv, FollowNewer PROVE HistoryInv'
<1>1. /\ page.state = "available" /\ ~req.busy
      /\ page' = Blank /\ shown' = <<>> /\ misled' = FALSE
  BY DEF FollowNewer
<1>2. PageSound(page)'
  BY <1>1 DEF PageSound, Blank
<1>0. shown' \in Seq(Nat \X Nat) /\ misled' \in BOOLEAN
  BY <1>1, NoRows
<1>3. CASE page.newer = NoCursor
  <2>1. tip' = tip /\ req' = req
    BY <1>3 DEF FollowNewer
  <2>2. RequestSound(req)'
    BY <1>1, <2>1 DEF RequestSound
  <2> QED BY <1>0, <1>2, <2>1, <2>2 DEF HistoryInv
<1>4. CASE page.newer # NoCursor
  <2>1. PICK c : c = page.newer
    OBVIOUS
  <2>2. /\ tip' = tip
        /\ req' = [busy |-> TRUE, anchor |-> page.anchor, start |-> c, at |-> c, hop |-> 1, live |-> FALSE]
    BY <1>4, <2>1 DEF FollowNewer, AskPage
  <2>3. page.anchor \in 1..TopHeight /\ CursorOK(c)
    BY <1>1, <1>4, <2>1 DEF HistoryInv, PageSound
  <2>4. ShownTo(c, <<>>, Passed(c.upper, c)) /\ c.upper <= c.upper
    BY <2>3, WalkBegins, LowerIn DEF CursorOK
  <2>5. RequestSound(req)'
    BY <1>1, <2>2, <2>3, <2>4 DEF RequestSound
  <2>6. DOMAIN req' = {"busy", "anchor", "start", "at", "hop", "live"}
    BY <2>2
  <2> QED BY <1>0, <1>2, <2>2, <2>5, <2>6 DEF HistoryInv
<1> QED BY <1>3, <1>4

\* A window is searched: an error, an empty window on the way, or a page.
LEMMA SearchWindowStep == ASSUME HistoryInv, SearchWindow PROVE HistoryInv'
<1>1. PICK reply, c, r :
        /\ reply \in [Endpoints -> Replies] /\ c = req.at /\ r = Search(reply, c.upper, c.page) /\ tip' = tip /\ req.busy
        /\ misled' = (misled \/ (r.state = "available" /\ Misleads(reply, c.upper, c.page)))
        /\ IF r.state = "error" THEN req' = Quiet /\ UNCHANGED <<page, shown>>
           ELSE IF /\ r.state = "available" /\ r.rows = <<>>
                   /\ Lower(c.upper) > 1 /\ req.hop < EmptyHops
             THEN /\ req' = [req EXCEPT !.at = Cursor(Lower(c.upper) - 1, 1), !.hop = @ + 1]
                  /\ UNCHANGED <<page, shown>>
             ELSE /\ req' = Quiet
                  /\ shown' = shown \o r.rows
                  /\ page' = [state |-> r.state, anchor |-> req.anchor,
                       start |-> req.start, at |-> c,
                       older |-> IF r.state = "available" THEN OlderCursor(c, r) ELSE NoCursor,
                       newer |-> IF req.live THEN NoCursor ELSE NewerCursor(req.anchor, c)]
  BY DEF SearchWindow
<1>2. PICK b, P : b = req.start /\ P = PageOf(Descending(Lower(c.upper), c.upper), c.page)
  OBVIOUS
<1>3. /\ req.anchor \in 1..TopHeight /\ CursorOK(b) /\ CursorOK(c) /\ c.upper <= b.upper
      /\ ~misled => ShownTo(b, shown, Passed(b.upper, c))
      /\ DOMAIN req = {"busy", "anchor", "start", "at", "hop", "live"}
      /\ tip \in 1..TopHeight /\ shown \in Seq(Nat \X Nat) /\ misled \in BOOLEAN
  BY <1>1, <1>2 DEF HistoryInv, RequestSound
<1>4. /\ r.state \in {"available", "indexing_unavailable", "error"}
      /\ r.rows \in Seq(Nat \X Nat)
      /\ MoreInWindow(c, r) => c.page * PageRows <= WindowRows(c.upper)
      /\ r.state = "available" /\ ~Misleads(reply, c.upper, c.page) =>
           r.rows = P /\ r.total \in {-1, WindowRows(c.upper)}
      /\ r.state # "available" => r.rows = <<>>
  <2>1. r = Search(reply, c.upper, c.page) /\ reply \in [Endpoints -> Replies]
    BY <1>1
  <2>2. tip \in Nat
    <3>1. TopHeight \in Nat
      BY HistoryAssumption DEF TopHeight
    <3> QED BY <1>3, <3>1
  <2> QED BY <1>2, <1>3, <2>1, <2>2, SearchReturns
<1>5. b.upper \in 1..TopHeight
  BY <1>3 DEF CursorOK
<1>6. misled' \in BOOLEAN /\ (~misled' => ~misled)
  BY <1>1, <1>3
<1>7. ~misled' /\ r.state = "available" => r.rows = P /\ r.total \in {-1, WindowRows(c.upper)}
  BY <1>1, <1>4
<1>8. ASSUME page' = page, shown' = shown PROVE PageSound(page)'
  BY <1>6, <1>8 DEF HistoryInv, PageSound
<1>9. PICK o : o = OlderCursor(c, r)
  OBVIOUS
<1>10. /\ o # NoCursor => CursorOK(o) /\ o.upper <= c.upper
       /\ r.rows = P /\ r.total \in {-1, WindowRows(c.upper)} => \A v \in 1..TopHeight :
                IF o = NoCursor THEN Passed(v, c) + Len(P) = NumRows(v)
                ELSE Passed(v, o) = Passed(v, c) + Len(P)
  BY <1>2, <1>3, <1>4, <1>9, OlderPlace
<1>11. c.upper \in Nat /\ b.upper \in Nat /\ (o # NoCursor => o.upper \in Nat)
  <2>1. TopHeight \in Nat
    BY <1>5, LowerIn
  <2> QED BY <1>3, <1>10, <2>1 DEF CursorOK
<1>12. o # NoCursor => CursorOK(o) /\ o.upper <= b.upper
  BY <1>3, <1>10, <1>11
<1>13. CASE r.state = "error"
  <2>1. req' = Quiet /\ page' = page /\ shown' = shown
    BY <1>1, <1>13
  <2>2. RequestSound(req)' /\ DOMAIN req' = {"busy", "anchor", "start", "at", "hop", "live"}
    BY <2>1 DEF RequestSound, Quiet
  <2> QED BY <1>1, <1>3, <1>6, <1>8, <2>1, <2>2 DEF HistoryInv
<1>14. CASE r.state = "available" /\ r.rows = <<>> /\ Lower(c.upper) > 1 /\ req.hop < EmptyHops
  <2>1. /\ req' = [req EXCEPT !.at = Cursor(Lower(c.upper) - 1, 1), !.hop = @ + 1]
        /\ page' = page /\ shown' = shown
    BY <1>1, <1>14
  <2>2. o = Cursor(Lower(c.upper) - 1, 1)
    BY <1>9, <1>14 DEF OlderCursor, MoreInWindow
  <2>3. /\ req'.at = o /\ req'.start = b /\ req'.anchor = req.anchor /\ req'.busy = req.busy
        /\ DOMAIN req' = {"busy", "anchor", "start", "at", "hop", "live"}
    BY <1>2, <1>3, <2>1, <2>2
  <2>4. o # NoCursor
    BY <1>3, <1>14, <2>2, NextWindow
  <2>5. ASSUME ~misled' PROVE ShownTo(b, shown, Passed(b.upper, o))
    <3>1. P = <<>> /\ r.total \in {-1, WindowRows(c.upper)}
      BY <1>7, <1>14, <2>5
    <3>2. Passed(b.upper, o) = Passed(b.upper, c) + 0
      BY <1>5, <1>10, <1>14, <2>4, <3>1
    <3>3. Passed(b.upper, c) \in Int
      <4>1. NumRows(b.upper) \in Nat /\ NumRows(c.upper) \in Nat /\ (c.page - 1) * PageRows \in Nat
        BY <1>3, <1>5, WindowSplits, PagesAdd DEF CursorOK
      <4> QED BY <4>1 DEF Passed
    <3> QED BY <1>3, <1>6, <2>5, <3>2, <3>3
  <2>6. RequestSound(req)'
    BY <1>3, <1>12, <2>1, <2>3, <2>4, <2>5 DEF RequestSound
  <2> QED BY <1>1, <1>3, <1>6, <1>8, <2>1, <2>3, <2>6 DEF HistoryInv
<1>15. CASE /\ r.state # "error"
            /\ ~(r.state = "available" /\ r.rows = <<>> /\ Lower(c.upper) > 1 /\ req.hop < EmptyHops)
  <2>1. /\ req' = Quiet /\ shown' = shown \o r.rows
        /\ page'.state = r.state /\ page'.anchor = req.anchor /\ page'.start = b
        /\ r.state = "available" => page'.older = o
        /\ page'.newer = NoCursor \/ page'.newer = NewerCursor(req.anchor, c)
    BY <1>1, <1>2, <1>9, <1>15
  <2>2. RequestSound(req)' /\ DOMAIN req' = {"busy", "anchor", "start", "at", "hop", "live"}
    BY <2>1 DEF RequestSound, Quiet
  <2>4. shown' \in Seq(Nat \X Nat)
    <3>1. PICK T : T = Nat \X Nat
      OBVIOUS
    <3>2. shown \in Seq(T) /\ r.rows \in Seq(T)
      BY <1>3, <1>4, <3>1
    <3>4. shown' \in Seq(T)
      BY <2>1, <3>2
    <3> QED BY <3>1, <3>4
  <2>5. ASSUME ~misled', r.state = "available"
        PROVE  ShownTo(b, shown', IF o = NoCursor THEN NumRows(b.upper) ELSE Passed(b.upper, o))
    <3>1. r.rows = P /\ r.total \in {-1, WindowRows(c.upper)}
      BY <1>7, <2>5
    <3>2. ShownTo(b, shown, Passed(b.upper, c))
      BY <1>3, <1>6, <2>5
    <3>3. ShownTo(b, shown \o P, Passed(b.upper, c) + Len(P))
      BY <1>2, <1>3, <3>2, ShownMore
    <3>4. Passed(b.upper, c) + Len(P) = IF o = NoCursor THEN NumRows(b.upper) ELSE Passed(b.upper, o)
      BY <1>5, <1>10, <3>1
    <3> QED BY <2>1, <3>1, <3>3, <3>4
  <2>6. page'.newer # NoCursor => CursorOK(page'.newer)
    BY <1>3, <2>1, NewerPlace
  <2>7. PageSound(page)'
    BY <1>3, <1>12, <2>1, <2>5, <2>6 DEF PageSound
  <2> QED BY <1>1, <1>3, <1>6, <2>2, <2>4, <2>7 DEF HistoryInv
<1> QED BY <1>13, <1>14, <1>15

\* Every step of the reader, the endpoints and the chain keeps the invariant.
LEMMA HistoryStep == HistoryInv /\ [HistoryNext]_historyVars => HistoryInv'
<1> SUFFICES ASSUME HistoryInv, [HistoryNext]_historyVars PROVE HistoryInv'
  OBVIOUS
<1>1. ASSUME UNCHANGED <<page, req, shown, misled>>, tip' \in 1..TopHeight PROVE HistoryInv'
  BY <1>1 DEF HistoryInv, RequestSound, PageSound
<1>2. CASE UNCHANGED historyVars
  BY <1>1, <1>2 DEF historyVars, HistoryInv
<1>3. CASE NewBlock
  <2>1. tip + 1 \in 1..TopHeight
    BY <1>3, HistoryAssumption DEF NewBlock, HistoryInv, TopHeight
  <2> QED BY <1>1, <1>3, <2>1 DEF NewBlock
<1>4. CASE TimePasses
  BY <1>1, <1>4 DEF TimePasses, HistoryInv
<1> QED BY <1>2, <1>3, <1>4, OpenLiveStep, FollowOlderStep, FollowNewerStep, SearchWindowStep
        DEF HistoryNext

\* Following older cursors from the first page shows every transaction below it
\* once, newest first, down to the end of the history, for any chain, page and
\* window sizes, endpoints, lags and order of their answers, unless an answer
\* came from an index that was behind its window or every endpoint that has the
\* rows withheld them (_transaction_history_uncached).
THEOREM HistoryIsComplete == HistorySpec => []HistoryComplete
<1>1. ASSUME HistoryInv PROVE HistoryComplete
  <2> SUFFICES ASSUME page.state = "available", ~misled,
                      NEW A, A = Descending(1, page.start.upper),
                      NEW B, B = SubSeq(A, (page.start.page - 1) * PageRows + 1, Len(A))
               PROVE  IsPrefix(shown, B) /\ (page.older = NoCursor => shown = B)
    BY DEF HistoryComplete
  <2>1. PICK b, o, k : b = page.start /\ o = page.older /\ k = (b.page - 1) * PageRows
    OBVIOUS
  <2>2. /\ CursorOK(b) /\ (o # NoCursor => CursorOK(o) /\ o.upper <= b.upper)
        /\ ShownTo(b, shown, IF o = NoCursor THEN NumRows(b.upper) ELSE Passed(b.upper, o))
        /\ shown \in Seq(Nat \X Nat)
    BY <1>1, <2>1 DEF HistoryInv, PageSound
  <2>3. b.upper \in 1..TopHeight /\ b.page \in Nat \ {0}
    BY <2>2 DEF CursorOK
  <2>4. PICK n \in Nat : n = NumRows(b.upper) /\ Len(A) = n /\ A \in Seq(Nat \X Nat)
    BY <2>1, <2>3, WindowSplits, WindowDescends
  <2>5. k \in Nat /\ k <= n
    <3>1. k \in Nat /\ k <= WindowRows(b.upper)
      BY <2>1, <2>2, <2>3, PagesAdd DEF CursorOK
    <3>2. n = WindowRows(b.upper) + NumRows(Lower(b.upper) - 1) /\ WindowRows(b.upper) \in Nat
          /\ NumRows(Lower(b.upper) - 1) \in Nat
      BY <2>3, <2>4, WindowSplits
    <3> QED BY <3>1, <3>2
  <2>6. B \in Seq(Nat \X Nat) /\ Len(B) = n - k /\ \A i \in 1..(n - k) : B[i] = A[k + i]
    <3>1. PICK T : T = Nat \X Nat
      OBVIOUS
    <3>2. A \in Seq(T) /\ n <= Len(A)
      BY <2>4, <3>1
    <3>3. B = SubSeq(A, k + 1, n) /\ k <= n /\ k \in Nat /\ n \in Nat
      BY <2>1, <2>4, <2>5
    <3>4. B \in Seq(T) /\ Len(B) = n - k /\ \A i \in 1..(n - k) : B[i] = A[k + i]
      BY ONLY <3>2, <3>3, Slice
    <3> QED BY <3>1, <3>4
  <2>7. PICK z \in Nat : z = Len(shown)
    BY <2>2
  <2>8. \A i \in 1..z : shown[i] = A[i + k]
    BY <2>1, <2>2, <2>7 DEF ShownTo
  <2>9. z <= n - k
    <3>1. CASE o = NoCursor
      BY <2>1, <2>2, <2>4, <2>5, <2>7, <3>1 DEF ShownTo
    <3>2. CASE o # NoCursor
      <4>1. z = Passed(b.upper, o) - k
        BY <2>1, <2>2, <2>7, <3>2 DEF ShownTo
      <4>2. o.upper \in 1..TopHeight /\ (o.page - 1) * PageRows <= WindowRows(o.upper)
            /\ (o.page - 1) * PageRows \in Nat
        BY <2>2, <3>2, PagesAdd DEF CursorOK
      <4>3. /\ NumRows(o.upper) = WindowRows(o.upper) + NumRows(Lower(o.upper) - 1)
            /\ NumRows(o.upper) \in Nat /\ WindowRows(o.upper) \in Nat
            /\ NumRows(Lower(o.upper) - 1) \in Nat
        BY <4>2, WindowSplits
      <4>4. Passed(b.upper, o) = n - NumRows(o.upper) + (o.page - 1) * PageRows
        BY <2>4 DEF Passed
      <4> QED BY <2>5, <4>1, <4>2, <4>3, <4>4
    <3> QED BY <3>1, <3>2
  <2>10. \A i \in 1..z : shown[i] = B[i]
    <3>1. \A i \in 1..z : i \in 1..(n - k) /\ i + k = k + i
      BY <2>5, <2>9
    <3> QED BY <2>6, <2>8, <3>1
  <2>11. SubSeq(shown, 1, z) = SubSeq(B, 1, z)
    BY <2>2, <2>6, <2>7, <2>9, <2>10
  <2>12. ASSUME o = NoCursor PROVE shown = B
    <3>1. z = n - k
      BY <2>1, <2>2, <2>4, <2>5, <2>7, <2>12 DEF ShownTo
    <3>2. PICK T : T = Nat \X Nat
      OBVIOUS
    <3>3. shown \in Seq(T) /\ B \in Seq(T)
      BY <2>2, <2>6, <3>2
    <3>4. Len(shown) = Len(B) /\ \A i \in 1..Len(shown) : shown[i] = B[i]
      BY <2>6, <2>7, <2>10, <3>1
    <3> QED BY <3>3, <3>4, SeqEqual
  <2> QED BY <2>1, <2>5, <2>6, <2>7, <2>9, <2>11, <2>12 DEF IsPrefix
<1> QED BY <1>1, HistoryInitInv, HistoryStep, PTL DEF HistorySpec

-----------------------------------------------------------------------------
(* ApiReads.  The databases that the writers leave behind grow, except for *)
(* the parsed heights.                                                     *)

\* The covered range is stored and ends at the checkpoint.
CoverageOK(d) ==
    d.calls # NoCoverage =>
      /\ d.calls.from >= 1 /\ d.calls.from <= d.calls.through
      /\ d.calls.from..d.calls.through \subseteq d.stored
      /\ d.calls.through = Checkpoint(d)

Databases ==
    [stored : SUBSET Heights, parsed : SUBSET Heights, catalog : SUBSET Heights,
     calls : [from : Nat, through : Nat], gov : 0..Len(Proposals), meta : Nat]

Committed(d) == d \in Databases /\ d.stored # {} /\ d.parsed \subseteq d.stored /\ CoverageOK(d)

\* No height, counted item or covered range that is committed is lost.
Grows(d, e) ==
    /\ d.stored \subseteq e.stored /\ d.catalog \subseteq e.catalog
    /\ e.gov \in {d.gov, d.gov + 1}
    /\ d.calls # NoCoverage =>
         /\ e.calls # NoCoverage
         /\ e.calls.from <= d.calls.from /\ d.calls.through <= e.calls.through

\* What every commit but that of IndexOlder keeps: the parsed heights, and which
\* heights up to the checkpoint are stored.
Unfilled(d, e) == \A x \in e.stored \ d.stored : x > Checkpoint(d)
Keeps(d, e) == d.parsed \subseteq e.parsed /\ Unfilled(d, e)

\* The greatest element of a set is its maximum.
LEMMA MaxIs ==
    ASSUME NEW S, S \subseteq Nat, NEW m \in S, \A x \in S : x <= m
    PROVE  Max(S) = m
<1>1. \A y \in S : m >= y
  OBVIOUS
<1>2. Max(S) \in S /\ \A y \in S : Max(S) >= y
  BY <1>1, Zenon DEF Max
<1>3. PICK w : w = Max(S)
  OBVIOUS
<1>4. w \in Nat /\ m \in Nat /\ w >= m /\ w <= m
  BY <1>2, <1>3
<1>5. w = m
  BY <1>4
<1> QED BY <1>3, <1>5

\* The heights of the chain.
LEMMA HeightsAre == Len(SetAt) \in Nat \ {0} /\ Heights = 1..Len(SetAt)
BY ReadsAssumption, LenProperties, EmptySeq DEF Heights

\* A database has a newest height.
LEMMA CheckpointStored ==
    ASSUME NEW d, d.stored \subseteq Heights, d.stored # {}
    PROVE  /\ Checkpoint(d) \in d.stored /\ IsFiniteSet(d.stored) /\ Checkpoint(d) \in Nat
           /\ \A x \in d.stored : x <= Checkpoint(d)
<1>1. IsFiniteSet(Heights) /\ Heights \subseteq Nat
  BY HeightsAre, FS_Interval
<1>2. IsFiniteSet(d.stored)
  BY <1>1, FS_Subset
<1>3. PICK m \in d.stored : \A x \in d.stored : x <= m
  BY <1>1, <1>2, GreatestNat
<1>4. Max(d.stored) = m
  BY <1>1, <1>3, MaxIs
<1> QED BY <1>1, <1>2, <1>3, <1>4 DEF Checkpoint

\* An absent state row is 0 in both fields.
LEMMA NoCoverageFields == NoCoverage \in [from : Nat, through : Nat] /\ NoCoverage.from = 0 /\ NoCoverage.through = 0
  BY DEF NoCoverage

\* One stored height, covered or not.
LEMMA ReadsInitCommitted == ReadsInit => Committed(db)
<1> SUFFICES ASSUME ReadsInit PROVE Committed(db)
  OBVIOUS
<1>1. PICK h, calls, parsed : h \in Heights /\ calls \in BOOLEAN /\
        db = [stored |-> {h}, parsed |-> IF parsed THEN {h} ELSE {},
              catalog |-> IF parsed THEN {h} ELSE {},
              calls |-> IF calls THEN [from |-> h, through |-> h] ELSE NoCoverage,
              gov |-> 0, meta |-> 0]
  BY DEF ReadsInit
<1>2. h \in Nat /\ h >= 1 /\ Len(Proposals) \in Nat
  BY <1>1, HeightsAre, ReadsAssumption
<1>3. /\ db.stored = {h} /\ db.parsed \subseteq {h} /\ db.calls \in {NoCoverage, [from |-> h, through |-> h]}
      /\ db \in Databases
  BY <1>1, <1>2, NoCoverageFields DEF Databases
<1>4. Checkpoint(db) = h
  <2>1. {h} \subseteq Nat /\ h \in {h} /\ \A x \in {h} : x <= h
    BY <1>2
  <2>2. Max({h}) = h
    BY <2>1, MaxIs
  <2> QED BY <1>3, <2>2 DEF Checkpoint
<1>5. h..h = {h}
  BY <1>2
<1>6. CoverageOK(db)
  BY <1>2, <1>3, <1>4, <1>5 DEF CoverageOK
<1> QED BY <1>3, <1>6 DEF Committed

Commits == IndexHeight \/ IndexOlder \/ IndexCalls \/ PublishMetadata \/ PublishGovernance

\* The fields of a database after a height is written.
LEMMA WrittenFields ==
    ASSUME NEW d \in Databases, NEW h \in Heights, NEW parsed, NEW e, e = Written(d, h, parsed)
    PROVE  /\ e \in Databases
           /\ e.stored = d.stored \cup {h} /\ d.catalog \subseteq e.catalog
           /\ parsed => d.parsed \subseteq e.parsed
           /\ d.parsed \ {h} \subseteq e.parsed /\ e.parsed \subseteq d.parsed \cup {h}
           /\ e.calls = d.calls /\ e.gov = d.gov /\ e.meta = d.meta
  BY DEF Written, Databases

\* Every transaction of a writer takes a database to a greater one, and only
\* IndexOlder fills in heights, or takes rows away.
LEMMA CommitGrows ==
    ASSUME Committed(db), Commits
    PROVE  /\ Committed(db') /\ Grows(db, db')
           /\ IndexOlder \/ (Keeps(db, db') /\ UNCHANGED <<read, walk>>)
<1>1. PICK d, m : d = db /\ m = Checkpoint(d)
  OBVIOUS
<1>2. d \in Databases /\ d.stored # {} /\ d.parsed \subseteq d.stored /\ CoverageOK(d)
  BY <1>1 DEF Committed
<1>a. d.stored \subseteq Heights
  BY <1>2 DEF Databases
<1>3. m \in d.stored /\ m \in Nat /\ \A x \in d.stored : x <= m
  BY <1>1, <1>2, <1>a, CheckpointStored
<1>4. Heights \subseteq Nat /\ Len(Proposals) \in Nat
  BY HeightsAre, ReadsAssumption
<1>5. /\ d.stored \subseteq Heights /\ d.calls \in [from : Nat, through : Nat]
      /\ d.gov \in Nat /\ d.meta \in Nat /\ d.calls.from \in Nat /\ d.calls.through \in Nat
  BY <1>2, <1>4 DEF Databases
<1>6. CASE IndexHeight
  <2>1. PICK h : h = m + 1 /\ h \in Heights
    BY <1>1, <1>6 DEF IndexHeight
  <2>2. PICK c : c = Extended(d.calls, h)
    OBVIOUS
  <2>3. PICK parsed : db' = [Written(d, h, parsed) EXCEPT !.calls = c] /\ UNCHANGED <<read, walk>>
    BY <1>1, <1>6, <2>1, <2>2 DEF IndexHeight, Commit
  <2>a. PICK w : w = Written(d, h, parsed)
    OBVIOUS
  <2>b. /\ w \in Databases /\ w.stored = d.stored \cup {h} /\ d.catalog \subseteq w.catalog
        /\ d.parsed \ {h} \subseteq w.parsed /\ w.parsed \subseteq d.parsed \cup {h}
        /\ w.gov = d.gov /\ w.meta = d.meta
    BY <1>2, <2>1, <2>a, WrittenFields
  <2>c. c = (IF d.calls = NoCoverage THEN NoCoverage ELSE [from |-> d.calls.from, through |-> h])
    BY <2>2 DEF Extended
  <2>6. c \in [from : Nat, through : Nat]
    BY <1>4, <1>5, <2>1, <2>c, NoCoverageFields
  <2>d. db' = [w EXCEPT !.calls = c]
    BY <2>3, <2>a
  <2>4. /\ db'.stored = d.stored \cup {h} /\ db'.calls = c /\ db'.gov = d.gov
        /\ d.catalog \subseteq db'.catalog /\ db'.parsed = w.parsed /\ db' \in Databases
    BY <2>6, <2>b, <2>d DEF Databases
  <2>8. Checkpoint(db') = h
    <3>0. \A x \in d.stored : x \in Nat /\ x <= m
      BY <1>3, <1>4, <1>5
    <3>1. \A x \in db'.stored : x <= h /\ x \in Nat
      BY <1>3, <2>1, <2>4, <3>0
    <3> QED BY <2>4, <3>1, MaxIs DEF Checkpoint
  <2>e. Keeps(db, db') /\ db'.stored # {} /\ db'.parsed \subseteq db'.stored
    <3>1. h > m /\ h \notin d.stored
      BY <1>3, <2>1
    <3>2. Unfilled(db, db')
      BY <1>1, <2>4, <3>1 DEF Unfilled
    <3>3. h \notin d.parsed
      BY <1>2, <3>1
    <3>4. Keeps(db, db')
      BY <1>1, <2>4, <2>b, <3>2, <3>3 DEF Keeps
    <3> QED BY <1>2, <2>4, <2>b, <3>4
  <2>9. CASE d.calls = NoCoverage
    <3>1. c = NoCoverage
      BY <2>c, <2>9
    <3>2. CoverageOK(db')
      BY <2>4, <3>1 DEF CoverageOK
    <3>3. Grows(db, db')
      BY <1>1, <1>5, <2>4, <2>9 DEF Grows
    <3> QED BY <2>3, <2>4, <2>e, <3>2, <3>3 DEF Committed
  <2>10. CASE d.calls # NoCoverage
    <3>1. c.from = d.calls.from /\ c.through = h /\ d.calls.through = m
          /\ d.calls.from >= 1 /\ d.calls.from <= m /\ d.calls.from..m \subseteq d.stored
      BY <1>1, <1>2, <2>c, <2>10 DEF CoverageOK
    <3>2. c # NoCoverage
      BY <1>5, <3>1, NoCoverageFields
    <3>3. \A x \in c.from..h : x \in d.calls.from..m \/ x = h
      BY <1>3, <1>5, <2>1, <3>1
    <3>4. c.from..h \subseteq db'.stored
      BY <2>4, <3>1, <3>3
    <3>5. c.from <= h /\ c.from >= 1 /\ d.calls.through <= h /\ c.from <= d.calls.from
      BY <1>3, <1>5, <2>1, <3>1
    <3>6. CoverageOK(db')
      BY <2>4, <2>8, <3>1, <3>4, <3>5 DEF CoverageOK
    <3>7. Grows(db, db')
      BY <1>1, <2>4, <3>1, <3>2, <3>5 DEF Grows
    <3> QED BY <2>3, <2>4, <2>e, <3>6, <3>7 DEF Committed
  <2> QED BY <2>9, <2>10
<1>7. CASE IndexOlder
  <2>1. PICK h, parsed : h \in Heights /\ h <= m /\ db' = Written(d, h, parsed)
    BY <1>1, <1>7 DEF IndexOlder
  <2>2. /\ db'.stored = d.stored \cup {h} /\ db'.calls = d.calls /\ db'.gov = d.gov
        /\ d.catalog \subseteq db'.catalog /\ db' \in Databases /\ db'.parsed \subseteq d.parsed \cup {h}
    BY <1>2, <2>1, WrittenFields
  <2>4. Checkpoint(db') = m
    <3>1. \A x \in db'.stored : x <= m /\ x \in Nat
      BY <1>3, <1>4, <1>5, <2>1, <2>2
    <3> QED BY <1>3, <2>2, <3>1, MaxIs DEF Checkpoint
  <2>5. CoverageOK(db')
    BY <1>1, <1>2, <2>2, <2>4 DEF CoverageOK
  <2>6. Grows(db, db')
    BY <1>1, <1>5, <2>2 DEF Grows
  <2> QED BY <1>2, <1>7, <2>2, <2>5, <2>6 DEF Committed
<1>8. CASE IndexCalls
  <2>1. PICK from \in d.stored :
          /\ from..m \subseteq d.stored /\ (d.calls = NoCoverage \/ from < d.calls.from)
          /\ db' = [d EXCEPT !.calls = [from |-> from, through |-> m]] /\ UNCHANGED <<read, walk>>
    BY <1>1, <1>8 DEF IndexCalls, Commit
  <2>2. PICK c : c = [from |-> from, through |-> m]
    OBVIOUS
  <2>4. from \in Nat /\ from >= 1 /\ from <= m /\ c.from = from /\ c.through = m
        /\ c \in [from : Nat, through : Nat]
    BY <1>3, <1>5, <2>1, <2>2, HeightsAre
  <2>3. /\ db'.stored = d.stored /\ db'.calls = c /\ db'.gov = d.gov /\ db' \in Databases
        /\ db'.catalog = d.catalog /\ db'.parsed = d.parsed
    BY <1>2, <2>1, <2>2, <2>4 DEF Databases
  <2>6. Checkpoint(db') = m
    BY <1>1, <2>3 DEF Checkpoint
  <2>7. CoverageOK(db')
    BY <2>1, <2>3, <2>4, <2>6 DEF CoverageOK
  <2>8. c # NoCoverage
    BY <2>4, NoCoverageFields
  <2>9. d.calls # NoCoverage => c.from <= d.calls.from /\ d.calls.through <= c.through
    BY <1>1, <1>2, <1>3, <1>5, <2>1, <2>4 DEF CoverageOK
  <2>10. Grows(db, db') /\ Keeps(db, db')
    BY <1>1, <2>3, <2>8, <2>9 DEF Grows, Keeps, Unfilled
  <2> QED BY <1>2, <2>1, <2>3, <2>7, <2>10 DEF Committed
<1>9. CASE PublishMetadata \/ PublishGovernance
  <2>1. \/ d.meta < MaxMetadata /\ db' = [d EXCEPT !.meta = @ + 1]
        \/ d.gov < Len(Proposals) /\ db' = [d EXCEPT !.gov = @ + 1]
    BY <1>1, <1>9 DEF PublishMetadata, PublishGovernance, Commit
  <2>2. UNCHANGED <<read, walk>>
    BY <1>9 DEF PublishMetadata, PublishGovernance, Commit
  <2>3. /\ db'.stored = d.stored /\ db'.calls = d.calls /\ db'.gov \in {d.gov, d.gov + 1}
        /\ db'.catalog = d.catalog /\ db'.parsed = d.parsed
    BY <1>2, <2>1 DEF Databases
  <2>4. db' \in Databases
    BY <1>2, <1>4, <1>5, <2>1 DEF Databases
  <2>5. Checkpoint(db') = m
    BY <1>1, <2>3 DEF Checkpoint
  <2>6. CoverageOK(db')
    BY <1>1, <1>2, <2>3, <2>5 DEF CoverageOK
  <2>7. Grows(db, db') /\ Keeps(db, db')
    BY <1>1, <1>5, <2>3 DEF Grows, Keeps, Unfilled
  <2> QED BY <1>2, <2>2, <2>3, <2>4, <2>6, <2>7 DEF Committed
<1> QED BY <1>6, <1>7, <1>8, <1>9 DEF Commits

\* The lesser of two numbers.
LEMMA MinTwo ==
    ASSUME NEW a \in Nat, NEW b \in Nat
    PROVE  Min({a, b}) = IF a <= b THEN a ELSE b
<1>1. PICK m \in {a, b} : m = (IF a <= b THEN a ELSE b) /\ \A y \in {a, b} : m <= y
  OBVIOUS
<1>2. Min({a, b}) \in {a, b} /\ \A y \in {a, b} : Min({a, b}) <= y
  BY <1>1, Zenon DEF Min
<1>3. PICK w : w = Min({a, b})
  OBVIOUS
<1>4. w \in Nat /\ m \in Nat /\ w <= m /\ m <= w
  BY <1>1, <1>2, <1>3
<1> QED BY <1>1, <1>3, <1>4

-----------------------------------------------------------------------------
(* Lists.                                                                  *)

\* The rows of stored heights, in each a part of its transactions.
LEMMA HeightRows ==
    ASSUME NEW H, H \subseteq Heights, NEW F, \A h \in Heights : F[h] \subseteq 1..TxAt[h],
           NEW R, \A x \in R : \E h \in H : x \in {h} \X F[h]
    PROVE  R \subseteq Nat \X Nat /\ IsFiniteSet(R)
<1>1. IsFiniteSet(Heights) /\ Heights \subseteq Nat
  BY HeightsAre, FS_Interval
<1>2. IsFiniteSet(H) /\ H \subseteq Nat
  BY <1>1, FS_Subset
<1>3. ASSUME NEW h \in H PROVE F[h] \subseteq Nat /\ IsFiniteSet(F[h])
  <2>1. PICK n \in Nat : n = TxAt[h]
    BY ReadsAssumption
  <2>2. IsFiniteSet(1..n) /\ 1..n \subseteq Nat
    BY FS_Interval
  <2>3. F[h] \subseteq 1..n
    BY <2>1
  <2> QED BY <2>2, <2>3, FS_Subset
<1>4. H \subseteq Nat
  BY <1>2
<1>5. IsFiniteSet(H)
  BY <1>2
<1>6. \A h \in H : F[h] \subseteq Nat /\ IsFiniteSet(F[h])
  BY <1>3
<1>7. \A x \in R : \E h \in H : x \in {h} \X F[h]
  OBVIOUS
<1> QED BY ONLY <1>4, <1>5, <1>6, <1>7, GroupedRows

\* A list has finitely many rows.
LEMMA ListedFinite ==
    ASSUME NEW d, Committed(d), NEW kind \in Lists
    PROVE  Listed(kind, d) \subseteq Nat \X Nat /\ IsFiniteSet(Listed(kind, d))
<1>1. d.stored \subseteq Heights /\ d.parsed \subseteq Heights /\ d.gov \in 0..Len(Proposals)
  BY DEF Committed, Databases
<1>2. IsFiniteSet(Heights) /\ Heights \subseteq Nat
  BY HeightsAre, FS_Interval
<1>3. IsFiniteSet({0})
  BY FS_Singleton
<1>4. PICK R : R = Listed(kind, d)
  OBVIOUS
<1>5. CASE kind = "blocks"
  <2>1. R = d.stored \X {0}
    BY <1>4, <1>5 DEF Listed, AllBlocks
  <2>2. IsFiniteSet(d.stored) /\ d.stored \subseteq Nat
    BY <1>1, <1>2, FS_Subset
  <2>3. IsFiniteSet(R)
    BY <1>3, <2>1, <2>2, FS_Product
  <2> QED BY <1>4, <2>1, <2>2, <2>3
<1>6. CASE kind = "transactions"
  <2>1. PICK F : F = [h \in Heights |-> 1..TxAt[h]]
    OBVIOUS
  <2>2. \A h \in Heights : F[h] = 1..TxAt[h]
    BY <2>1
  <2>3. R = UNION {{h} \X (1..TxAt[h]) : h \in d.stored}
    BY <1>4, <1>6 DEF Listed, AllTransactions
  <2>4. \A x \in R : \E h \in d.stored : x \in {h} \X F[h]
    BY <1>1, <2>2, <2>3
  <2>5. \A h \in Heights : F[h] \subseteq 1..TxAt[h]
    BY <2>2
  <2>6. R \subseteq Nat \X Nat /\ IsFiniteSet(R)
    BY ONLY <1>1, <2>4, <2>5, HeightRows
  <2> QED BY <1>4, <2>6
<1>7. CASE kind = "account"
  <2>1. \A x \in R : \E h \in d.parsed : x \in {h} \X OwnAt[h]
    BY <1>4, <1>7 DEF Listed, AllAccountTransactions
  <2>2. \A h \in Heights : OwnAt[h] \subseteq 1..TxAt[h]
    BY ReadsAssumption
  <2>3. R \subseteq Nat \X Nat /\ IsFiniteSet(R)
    BY ONLY <1>1, <2>1, <2>2, HeightRows
  <2> QED BY <1>4, <2>3
<1>8. CASE kind = "calls"
  <2>1. PICK H : H = d.parsed \cap (d.calls.from..d.calls.through) \cap (d.calls.from..d.calls.through)
    OBVIOUS
  <2>2. \A x \in R : \E h \in H : x \in {h} \X CallsAt[h]
    BY <1>4, <1>8, <2>1 DEF Listed, AllCalls, CallRows
  <2>3. \A h \in Heights : CallsAt[h] \subseteq 1..TxAt[h]
    BY ReadsAssumption
  <2>4. H \subseteq Heights
    BY <1>1, <2>1
  <2>5. R \subseteq Nat \X Nat /\ IsFiniteSet(R)
    BY ONLY <2>2, <2>3, <2>4, HeightRows
  <2> QED BY <1>4, <2>5
<1>9. CASE kind = "proposals"
  <2>1. CASE d.gov = 0
    <3>1. R = {}
      BY <1>4, <1>9, <2>1 DEF Listed, AllProposals
    <3> QED BY <1>4, <3>1, FS_EmptySet
  <2>2. CASE d.gov # 0
    <3>1. PICK n \in Nat : n = Proposals[d.gov]
      BY <1>1, <2>2, ReadsAssumption
    <3>2. R = (1..n) \X {0}
      BY <1>4, <1>9, <2>2, <3>1 DEF Listed, AllProposals
    <3>3. IsFiniteSet(1..n) /\ 1..n \subseteq Nat
      BY FS_Interval
    <3>4. IsFiniteSet(R)
      BY <1>3, <3>2, <3>3, FS_Product
    <3> QED BY <1>4, <3>2, <3>3, <3>4
  <2> QED BY <2>1, <2>2
<1> QED BY <1>5, <1>6, <1>7, <1>8, <1>9 DEF Lists

\* No list loses a row while the parsed heights stay.
LEMMA ListedGrows ==
    ASSUME NEW d, Committed(d), NEW e, Committed(e), Grows(d, e), Keeps(d, e),
           NEW kind \in Lists
    PROVE  Listed(kind, d) \subseteq Listed(kind, e)
<1>1. d.stored \subseteq e.stored /\ d.parsed \subseteq e.parsed /\ d.parsed \subseteq Heights
  BY DEF Grows, Keeps, Committed, Databases
<1>2. CASE kind = "blocks"
  BY <1>1, <1>2 DEF Listed, AllBlocks
<1>3. CASE kind = "transactions"
  BY <1>1, <1>3 DEF Listed, AllTransactions
<1>4. CASE kind = "account"
  BY <1>1, <1>4 DEF Listed, AllAccountTransactions
<1>5. CASE kind = "calls"
  <2>1. PICK A, B : /\ A = d.parsed \cap (d.calls.from..d.calls.through) \cap (d.calls.from..d.calls.through)
                    /\ B = e.parsed \cap (e.calls.from..e.calls.through) \cap (e.calls.from..e.calls.through)
    OBVIOUS
  <2>2. /\ d.calls.from \in Nat /\ d.calls.through \in Nat
        /\ e.calls.from \in Nat /\ e.calls.through \in Nat
    BY DEF Committed, Databases
  <2>3. A \subseteq B
    <3>1. CASE d.calls = NoCoverage
      <4>1. d.calls.from = 0 /\ d.calls.through = 0
        BY <3>1, NoCoverageFields
      <4>2. A = {}
        BY <1>1, <2>1, <4>1, HeightsAre
      <4> QED BY <4>2
    <3>2. CASE d.calls # NoCoverage
      <4>1. e.calls.from <= d.calls.from /\ d.calls.through <= e.calls.through
        BY <3>2 DEF Grows
      <4>2. d.calls.from..d.calls.through \subseteq e.calls.from..e.calls.through
        BY <2>2, <4>1
      <4> QED BY <1>1, <2>1, <4>2
    <3> QED BY <3>1, <3>2
  <2>4. /\ Listed(kind, d) = UNION {{h} \X CallsAt[h] : h \in A}
        /\ Listed(kind, e) = UNION {{h} \X CallsAt[h] : h \in B}
    BY <1>5, <2>1 DEF Listed, AllCalls, CallRows
  <2> QED BY <2>3, <2>4
<1>6. CASE kind = "proposals"
  <2>1. CASE d.gov = 0
    BY <1>6, <2>1 DEF Listed, AllProposals
  <2>2. CASE e.gov = d.gov
    BY <1>6, <2>2 DEF Listed, AllProposals
  <2>3. CASE d.gov # 0 /\ e.gov = d.gov + 1
    <3>0. /\ Len(Proposals) \in Nat /\ DOMAIN Proposals = 1..Len(Proposals)
          /\ \A s \in 1..Len(Proposals) : Proposals[s] \in Nat
          /\ \A s \in 1..Len(Proposals) : s > 1 => Proposals[s - 1] <= Proposals[s]
      BY ReadsAssumption
    <3>a. d.gov \in 0..Len(Proposals) /\ e.gov \in 0..Len(Proposals)
      BY DEF Committed, Databases
    <3>1. d.gov \in 1..Len(Proposals) /\ e.gov \in 1..Len(Proposals)
          /\ e.gov > 1 /\ e.gov - 1 = d.gov
      BY <2>3, <3>0, <3>a
    <3>2. Proposals[d.gov] \in Nat /\ Proposals[e.gov] \in Nat /\ Proposals[d.gov] <= Proposals[e.gov]
      BY <3>0, <3>1
    <3>3. 1..Proposals[d.gov] \subseteq 1..Proposals[e.gov]
      BY <3>2
    <3>4. /\ Listed(kind, d) = (1..Proposals[d.gov]) \X {0}
          /\ Listed(kind, e) = (1..Proposals[e.gov]) \X {0}
      BY <1>6, <3>1 DEF Listed, AllProposals
    <3> QED BY <3>3, <3>4
  <2> QED BY <2>1, <2>2, <2>3 DEF Grows
<1> QED BY <1>2, <1>3, <1>4, <1>5, <1>6 DEF Lists

-----------------------------------------------------------------------------
(* Pages.                                                                  *)

\* Rows from the newest to the oldest, none twice.
Descends(s) == \A i \in 1..(Len(s) - 1) : Below(s[i + 1], s[i])

\* What a walk has of its list: every row it started with is still listed and
\* is shown or comes after the cursor, which is the last row shown.
WalkSound(w, d) ==
    /\ w \in [state : {"idle", "running", "done"}, kind : Lists \cup {"none"},
              cursor : {<<>>} \cup (Nat \X Nat), shown : Seq(Nat \X Nat), base : SUBSET (Nat \X Nat)]
    /\ Descends(w.shown)
    /\ w.state = "running" =>
         /\ w.kind \in Lists /\ w.base \subseteq Listed(w.kind, d)
         /\ IF w.cursor = <<>> THEN w.shown = <<>>
            ELSE /\ w.shown # <<>> /\ w.shown[Len(w.shown)] = w.cursor
                 /\ \A x \in w.base : Below(x, w.cursor) \/ \E i \in 1..Len(w.shown) : w.shown[i] = x
    /\ w.state = "done" => \A x \in w.base : \E i \in 1..Len(w.shown) : w.shown[i] = x

PagesInv == Committed(db) /\ WalkSound(walk, db)

\* A row is not the empty cursor.
LEMMA RowIsNoEnd == \A x \in Nat \X Nat : x # <<>>
<1> SUFFICES ASSUME NEW a \in Nat, NEW b \in Nat PROVE <<a, b>> # <<>>
  OBVIOUS
<1>1. Len(<<a, b>>) = 2 /\ Len(<<>>) = 0
  OBVIOUS
<1> QED BY <1>1

\* One page of the rows S: the newest of them, and the cursor is the last row
\* shown exactly if rows are left.
SoundPage(S, more, next) ==
    /\ more \in Seq(S) /\ Descends(more)
    /\ next = <<>> => \A x \in S : \E i \in 1..Len(more) : more[i] = x
    /\ next # <<>> => /\ next \in S /\ Len(more) >= 1 /\ more[Len(more)] = next
                      /\ \A x \in S : Below(x, next) \/ \E i \in 1..Len(more) : more[i] = x

\* LIMIT limit + 1 on the newest rows gives such a page.
LEMMA PageOfRows ==
    ASSUME NEW S, S \subseteq Nat \X Nat, IsFiniteSet(S),
           NEW rows, rows = SubSeq(NewestFirst(S), 1, Min({Limit + 1, Len(NewestFirst(S))})),
           NEW more, more = SubSeq(rows, 1, Min({Limit, Len(rows)})),
           NEW next, next = CursorOf(rows)
    PROVE  SoundPage(S, more, next)
<1>1. Limit \in Nat /\ Limit >= 1
  BY ReadsAssumption
<1>2. PICK q : q = NewestFirst(S)
  OBVIOUS
<1>3. PICK n \in Nat : n = Cardinality(S)
  BY FS_CardinalityType
<1>4. /\ q \in Seq(S) /\ Len(q) = n
      /\ \A i \in 1..n : q[i] \in S
      /\ \A x \in S : \E i \in 1..n : q[i] = x
  <2>1. /\ q \in Seq(S) /\ Len(q) = n
        /\ \A i \in 1..n : q[i] \in S
        /\ \A x \in S : LET i == Cardinality(Above(S, x)) + 1 IN i \in 1..n /\ q[i] = x
    BY <1>2, <1>3, NewestFirstPlaces
  <2> QED BY <2>1
<1>5. \A i, j \in 1..n : i < j => Below(q[j], q[i])
  BY <1>2, <1>3, NewestFirstDescends
<1>5a. PICK m : m = Min({Limit + 1, n})
  OBVIOUS
<1>6. m \in Nat /\ m <= n /\ (m = n \/ m = Limit + 1) /\ (n <= Limit => m = n) /\ (n > Limit => m = Limit + 1)
  <2>1. Limit + 1 \in Nat /\ n \in Nat
    BY <1>1
  <2>2. m = IF Limit + 1 <= n THEN Limit + 1 ELSE n
    BY ONLY <1>5a, <2>1, MinTwo
  <2> QED BY ONLY <1>1, <2>1, <2>2
<1>7. rows \in Seq(S) /\ Len(rows) = m /\ \A i \in 1..m : rows[i] = q[i]
  <2>1. 0 <= m /\ m <= Len(q) /\ 0 \in Nat /\ m \in Nat
    BY <1>1, <1>4, <1>6
  <2>2. rows = SubSeq(q, 0 + 1, m)
    BY <1>2, <1>4, <1>5a
  <2>3. rows \in Seq(S) /\ Len(rows) = m - 0 /\ \A i \in 1..(m - 0) : rows[i] = q[0 + i]
    BY ONLY <1>4, <2>1, <2>2, Slice
  <2> QED BY ONLY <1>6, <2>3
<1>7a. PICK k : k = Min({Limit, m})
  OBVIOUS
<1>8. k \in Nat /\ k <= m /\ k <= n /\ (n <= Limit => k = n) /\ (n > Limit => k = Limit)
  <2>1. Limit \in Nat /\ m \in Nat /\ n \in Nat
    BY <1>1, <1>6
  <2>2. k = IF Limit <= m THEN Limit ELSE m
    BY ONLY <1>7a, <2>1, MinTwo
  <2> QED BY ONLY <1>6, <2>1, <2>2
<1>9. more \in Seq(S) /\ Len(more) = k /\ \A i \in 1..k : more[i] = q[i]
  <2>1. 0 <= k /\ k <= Len(rows) /\ 0 \in Nat /\ k \in Nat
    BY <1>7, <1>8
  <2>2. more = SubSeq(rows, 0 + 1, k)
    <3>1. Len(rows) = m
      BY <1>7
    <3>2. Min({Limit, Len(rows)}) = k
      BY ONLY <3>1, <1>7a, Zenon
    <3>3. more = SubSeq(rows, 1, k)
      BY <3>2, Zenon
    <3>4. 0 + 1 = 1
      OBVIOUS
    <3> QED BY ONLY <3>3, <3>4
  <2>3. more \in Seq(S) /\ Len(more) = k - 0 /\ \A i \in 1..(k - 0) : more[i] = rows[0 + i]
    BY ONLY <1>7, <2>1, <2>2, Slice
  <2>4. \A i \in 1..k : i \in 1..m
    BY ONLY <1>6, <1>8
  <2> QED BY ONLY <1>7, <1>8, <2>3, <2>4
<1>10. k <= n
  BY <1>8
<1>11. Descends(more)
  <2> SUFFICES ASSUME NEW i \in 1..(k - 1) PROVE Below(more[i + 1], more[i])
    BY <1>9 DEF Descends
  <2>1. i \in 1..k /\ i + 1 \in 1..k /\ i \in 1..n /\ i + 1 \in 1..n /\ i < i + 1
    BY <1>8, <1>10
  <2>2. Below(q[i + 1], q[i])
    BY <1>5, <2>1
  <2> QED BY <1>9, <2>1, <2>2
<1>12. CASE n <= Limit
  <2>1. m = n /\ k = n
    BY <1>6, <1>8, <1>12
  <2>2. next = <<>>
    BY <1>1, <1>7, <1>12, <2>1 DEF CursorOf
  <2>3. ASSUME NEW x \in S PROVE \E i \in 1..Len(more) : more[i] = x
    <3>1. PICK i \in 1..n : q[i] = x
      BY <1>4
    <3>2. more[i] = x /\ i \in 1..Len(more)
      BY <1>9, <2>1, <3>1
    <3> QED BY <3>2
  <2> QED BY <1>9, <1>11, <2>2, <2>3 DEF SoundPage
<1>13. CASE n > Limit
  <2>1. m = Limit + 1 /\ k = Limit
    BY <1>6, <1>8, <1>13
  <2>2. next = rows[Limit]
    BY <1>1, <1>7, <1>13, <2>1 DEF CursorOf
  <2>3. Limit \in 1..m /\ Limit \in 1..n /\ Limit \in 1..k
    BY <1>1, <1>13, <2>1
  <2>4. next = q[Limit] /\ next \in S
    BY <1>4, <1>7, <2>2, <2>3
  <2>5. next # <<>>
    BY <2>4, RowIsNoEnd
  <2>6. more[Len(more)] = next /\ Len(more) >= 1
    BY <1>1, <1>9, <2>1, <2>3, <2>4
  <2>7. ASSUME NEW x \in S PROVE Below(x, next) \/ \E i \in 1..Len(more) : more[i] = x
    <3>1. PICK i \in 1..n : q[i] = x
      BY <1>4
    <3>2. CASE i <= Limit
      <4>1. i \in 1..k
        BY <1>1, <2>1, <3>2
      <4>2. more[i] = x
        BY <1>9, <3>1, <4>1
      <4> QED BY <1>9, <4>1, <4>2
    <3>3. CASE i > Limit
      <4>1. Below(q[i], q[Limit])
        BY <1>1, <1>5, <2>3, <3>3
      <4> QED BY <2>4, <3>1, <4>1
    <3>4. i <= Limit \/ i > Limit
      BY ONLY <1>1, i \in 1..n, n \in Nat
    <3> QED BY <3>2, <3>3, <3>4
  <2> QED BY <1>9, <1>11, <2>4, <2>5, <2>6, <2>7 DEF SoundPage
<1>14. n <= Limit \/ n > Limit
  BY ONLY <1>1, n \in Nat
<1> QED BY <1>12, <1>13, <1>14

\* A page continues a walk.
LEMMA NextPageSound ==
    ASSUME PagesInv, NextPage
    PROVE  WalkSound(walk', db)
<1>1. PICK w, d : w = walk /\ d = db
  OBVIOUS
<1>2. PICK T : T = Nat \X Nat
  OBVIOUS
<1>3. /\ w \in [state : {"idle", "running", "done"}, kind : Lists \cup {"none"},
                cursor : {<<>>} \cup T, shown : Seq(T), base : SUBSET T]
      /\ Committed(d) /\ Descends(w.shown) /\ w.state = "running"
      /\ w.kind \in Lists /\ w.base \subseteq Listed(w.kind, d)
      /\ w.cursor = <<>> => w.shown = <<>>
      /\ w.cursor # <<>> =>
           /\ w.shown # <<>> /\ w.shown[Len(w.shown)] = w.cursor
           /\ \A x \in w.base : Below(x, w.cursor) \/ \E i \in 1..Len(w.shown) : w.shown[i] = x
  BY <1>1, <1>2 DEF PagesInv, WalkSound, NextPage
<1>4. PICK S : S = {x \in Listed(w.kind, d) : w.cursor = <<>> \/ Below(x, w.cursor)}
  OBVIOUS
<1>5. PICK rows : rows = SubSeq(NewestFirst(S), 1, Min({Limit + 1, Len(NewestFirst(S))}))
  OBVIOUS
<1>6. PICK more : more = SubSeq(rows, 1, Min({Limit, Len(rows)}))
  OBVIOUS
<1>7. PICK next : next = CursorOf(rows)
  OBVIOUS
<1>8. PICK all : all = w.shown \o more
  OBVIOUS
<1>9. walk' = [w EXCEPT !.shown = all, !.cursor = next,
                        !.state = IF next = <<>> THEN "done" ELSE "running"]
  <2>1. Rows(w.kind, d, w.cursor) = rows
    BY <1>4, <1>5 DEF Rows
  <2> QED BY <1>1, <1>6, <1>7, <1>8, <2>1 DEF NextPage
<1>10. /\ walk'.shown = all /\ walk'.cursor = next /\ walk'.kind = w.kind /\ walk'.base = w.base
       /\ walk'.state = IF next = <<>> THEN "done" ELSE "running"
  BY <1>3, <1>9
<1>11. S \subseteq Listed(w.kind, d) /\ S \subseteq T /\ IsFiniteSet(S)
  <2>1. Listed(w.kind, d) \subseteq Nat \X Nat /\ IsFiniteSet(Listed(w.kind, d))
    BY <1>3, ListedFinite
  <2>2. S \in SUBSET Listed(w.kind, d)
    BY <1>4
  <2>3. IsFiniteSet(S)
    BY <2>1, <2>2, FS_Subset
  <2> QED BY <1>2, <2>1, <2>2, <2>3
<1>12. /\ more \in Seq(S) /\ Descends(more)
       /\ next = <<>> => \A x \in S : \E i \in 1..Len(more) : more[i] = x
       /\ next # <<>> => /\ next \in S /\ Len(more) >= 1 /\ more[Len(more)] = next
                         /\ \A x \in S : Below(x, next) \/ \E i \in 1..Len(more) : more[i] = x
  <2>1. S \subseteq Nat \X Nat /\ IsFiniteSet(S)
    BY <1>2, <1>11
  <2>2. S \subseteq Nat \X Nat
    BY <2>1
  <2>3. IsFiniteSet(S)
    BY <2>1
  <2>4. SoundPage(S, more, next)
    BY ONLY <2>2, <2>3, <1>5, <1>6, <1>7, PageOfRows, Zenon
  <2> QED BY <2>4 DEF SoundPage
<1>13. more \in Seq(T) /\ w.shown \in Seq(T)
  BY <1>3, <1>11, <1>12
<1>14. PICK a \in Nat, b \in Nat : a = Len(w.shown) /\ b = Len(more)
  BY <1>13
<1>15. PICK s : s = w.shown
  OBVIOUS
<1>16. /\ all \in Seq(T) /\ Len(all) = a + b
       /\ \A i \in 1..a : all[i] = s[i]
       /\ \A i \in 1..b : all[a + i] = more[i]
  BY <1>8, <1>13, <1>14, <1>15, Joined
<1>17. Descends(all)
  <2> SUFFICES ASSUME NEW i \in 1..(a + b - 1) PROVE Below(all[i + 1], all[i])
    BY <1>16 DEF Descends
  <2>1. CASE i < a
    <3>1. i \in 1..a /\ i + 1 \in 1..a /\ i \in 1..(Len(s) - 1)
      BY <1>14, <1>15, <2>1
    <3>2. Below(s[i + 1], s[i])
      BY <1>3, <1>15, <3>1 DEF Descends
    <3> QED BY <1>16, <3>1, <3>2
  <2>2. CASE i > a
    <3>1. PICK j \in 1..(b - 1) : i = a + j
      <4>1. i - a \in 1..(b - 1) /\ i = a + (i - a)
        BY <1>14, <2>2
      <4> QED BY <4>1
    <3>2. j \in 1..b /\ j + 1 \in 1..b /\ i + 1 = a + (j + 1)
      BY ONLY <3>1, a \in Nat, b \in Nat
    <3>4. j \in 1..(Len(more) - 1)
      BY <1>14
    <3>3. Below(more[j + 1], more[j])
      BY <1>12, <3>4 DEF Descends
    <3> QED BY <1>16, <3>1, <3>2, <3>3
  <2>3. CASE i = a
    <3>1. a \in 1..a /\ 1 \in 1..b /\ i + 1 = a + 1
      BY <1>14, <2>3
    <3>2. all[i] = s[a] /\ all[i + 1] = more[1]
      BY <1>16, <2>3, <3>1
    <3>3. w.cursor # <<>>
      <4> SUFFICES ASSUME w.cursor = <<>> PROVE FALSE
        OBVIOUS
      <4>1. Len(w.shown) = 0
        BY <1>3
      <4> QED BY <1>14, <3>1, <4>1
    <3>4. s[a] = w.cursor
      BY <1>3, <1>14, <1>15, <3>3
    <3>5. more[1] \in S
      BY <1>12, <1>14, <3>1
    <3>6. Below(more[1], w.cursor)
      BY <1>4, <3>3, <3>5
    <3> QED BY <3>2, <3>4, <3>6
  <2> QED BY <1>14, <2>1, <2>2, <2>3
<1>18. ASSUME NEW x \in w.base PROVE x \in S \/ \E i \in 1..(a + b) : all[i] = x
  <2>1. x \in Listed(w.kind, d)
    BY <1>3
  <2>2. CASE w.cursor = <<>> \/ Below(x, w.cursor)
    BY <1>4, <2>1, <2>2
  <2>3. CASE w.cursor # <<>> /\ ~Below(x, w.cursor)
    <3>1. PICK i \in 1..a : s[i] = x
      BY <1>3, <1>14, <1>15, <2>3
    <3>2. all[i] = x /\ i \in 1..(a + b)
      BY <1>14, <1>16, <3>1
    <3> QED BY <3>2
  <2> QED BY <2>2, <2>3
<1>19. ASSUME NEW x, \E i \in 1..Len(more) : more[i] = x PROVE \E i \in 1..(a + b) : all[i] = x
  <2>1. PICK i \in 1..b : more[i] = x
    BY <1>14, <1>19
  <2>2. all[a + i] = x /\ a + i \in 1..(a + b)
    BY <1>14, <1>16, <2>1
  <2> QED BY <2>2
<1>20. CASE next = <<>>
  <2>1. ASSUME NEW x \in w.base PROVE \E i \in 1..(a + b) : all[i] = x
    BY <1>12, <1>18, <1>19, <1>20
  <2>2. walk' \in [state : {"idle", "running", "done"}, kind : Lists \cup {"none"},
                   cursor : {<<>>} \cup T, shown : Seq(T), base : SUBSET T]
    BY <1>3, <1>9, <1>16, <1>20
  <2>3. walk'.state = "done" /\ walk'.shown = all /\ walk'.base = w.base
    BY <1>10, <1>20
  <2> QED BY <1>2, <1>16, <1>17, <2>1, <2>2, <2>3 DEF WalkSound
<1>21. CASE next # <<>>
  <2>1. next \in T /\ Len(more) >= 1 /\ more[Len(more)] = next
    BY <1>11, <1>12, <1>21
  <2>2. walk' \in [state : {"idle", "running", "done"}, kind : Lists \cup {"none"},
                   cursor : {<<>>} \cup T, shown : Seq(T), base : SUBSET T]
    BY <1>3, <1>9, <1>16, <1>21, <2>1
  <2>3. ASSUME NEW x \in w.base PROVE Below(x, next) \/ \E i \in 1..(a + b) : all[i] = x
    BY <1>12, <1>18, <1>19, <1>21
  <2>4. b \in 1..b /\ a + b >= 1
    BY <1>14, <2>1
  <2>5. all[a + b] = next
    BY <1>14, <1>16, <2>1, <2>4
  <2>6. Len(all) >= 1 /\ all # <<>> /\ all[Len(all)] = next
    BY <1>16, <2>4, <2>5
  <2>7. /\ walk'.state = "running" /\ walk'.shown = all /\ walk'.base = w.base /\ walk'.kind = w.kind
        /\ walk'.cursor = next
    BY <1>10, <1>21
  <2>8. /\ walk' \in [state : {"idle", "running", "done"}, kind : Lists \cup {"none"},
                      cursor : {<<>>} \cup (Nat \X Nat), shown : Seq(Nat \X Nat), base : SUBSET (Nat \X Nat)]
        /\ Descends(walk'.shown) /\ walk'.kind \in Lists /\ walk'.base \subseteq Listed(walk'.kind, db)
        /\ walk'.cursor # <<>> /\ walk'.shown # <<>> /\ walk'.shown[Len(walk'.shown)] = walk'.cursor
    BY <1>1, <1>2, <1>3, <1>17, <1>21, <2>2, <2>6, <2>7
  <2>9. \A x \in walk'.base : Below(x, walk'.cursor) \/ \E i \in 1..Len(walk'.shown) : walk'.shown[i] = x
    BY <1>16, <2>3, <2>7
  <2>10. walk'.state = "running"
    BY <2>7
  <2> QED BY ONLY <2>8, <2>9, <2>10 DEF WalkSound
<1> QED BY <1>20, <1>21

\* A commit that keeps the parsed heights takes nothing from a walk.
LEMMA WalkKept ==
    ASSUME NEW w, NEW d, NEW e, WalkSound(w, d), Committed(d), Committed(e), Grows(d, e), Keeps(d, e)
    PROVE  WalkSound(w, e)
<1>1. w.state = "running" => w.kind \in Lists /\ w.base \subseteq Listed(w.kind, d)
  BY DEF WalkSound
<1>2. w.state = "running" => w.base \subseteq Listed(w.kind, e)
  BY <1>1, ListedGrows
<1> QED BY <1>2 DEF WalkSound

\* Another one takes from its base the rows that are gone.
LEMMA WalkShrinks ==
    ASSUME NEW w, NEW d, NEW e, WalkSound(w, d),
           NEW v, v = IF w.state = "running" THEN [w EXCEPT !.base = @ \cap Listed(w.kind, e)] ELSE w
    PROVE  WalkSound(v, e)
<1>1. CASE w.state # "running"
  BY <1>1 DEF WalkSound
<1>2. CASE w.state = "running"
  <2>1. PICK T : T = Nat \X Nat
    OBVIOUS
  <2>2. w \in [state : {"idle", "running", "done"}, kind : Lists \cup {"none"},
                cursor : {<<>>} \cup T, shown : Seq(T), base : SUBSET T]
    BY <2>1 DEF WalkSound
  <2>3. PICK B : B = w.base \cap Listed(w.kind, e)
    OBVIOUS
  <2>4. v = [w EXCEPT !.base = B] /\ B \subseteq w.base /\ B \subseteq T
    BY <1>2, <2>2, <2>3
  <2>5. /\ v \in [state : {"idle", "running", "done"}, kind : Lists \cup {"none"},
                   cursor : {<<>>} \cup T, shown : Seq(T), base : SUBSET T]
        /\ v.state = "running" /\ v.kind = w.kind /\ v.cursor = w.cursor /\ v.shown = w.shown /\ v.base = B
    BY <1>2, <2>2, <2>4
  <2>6. /\ Descends(w.shown) /\ w.kind \in Lists
        /\ IF w.cursor = <<>> THEN w.shown = <<>>
           ELSE /\ w.shown # <<>> /\ w.shown[Len(w.shown)] = w.cursor
                /\ \A x \in w.base : Below(x, w.cursor) \/ \E i \in 1..Len(w.shown) : w.shown[i] = x
    BY <1>2 DEF WalkSound
  <2>7. B \subseteq Listed(w.kind, e)
    BY <2>3
  <2>8. /\ Descends(v.shown) /\ v.kind \in Lists /\ v.base \subseteq Listed(v.kind, e)
        /\ IF v.cursor = <<>> THEN v.shown = <<>>
           ELSE /\ v.shown # <<>> /\ v.shown[Len(v.shown)] = v.cursor
                /\ \A x \in v.base : Below(x, v.cursor) \/ \E i \in 1..Len(v.shown) : v.shown[i] = x
    BY <2>4, <2>5, <2>6, <2>7
  <2> QED BY ONLY <2>1, <2>5, <2>8 DEF WalkSound
<1> QED BY <1>1, <1>2

\* Without a walk, and at the start of one, nothing is shown.
LEMMA ListBegins ==
    /\ \A d : WalkSound(NoWalk, d)
    /\ \A d : Committed(d) => \A kind \in Lists :
         WalkSound([state |-> "running", kind |-> kind, cursor |-> <<>>, shown |-> <<>>,
                    base |-> Listed(kind, d)], d)
<1>1. PICK T : T = Nat \X Nat
  OBVIOUS
<1>2. <<>> \in Seq(T) /\ Len(<<>>) = 0
  OBVIOUS
<1>3. Descends(<<>>)
  BY <1>2 DEF Descends
<1>4. ASSUME NEW d PROVE WalkSound(NoWalk, d)
  <2>1. /\ NoWalk \in [state : {"idle", "running", "done"}, kind : Lists \cup {"none"},
                       cursor : {<<>>} \cup T, shown : Seq(T), base : SUBSET T]
        /\ NoWalk.state = "idle" /\ NoWalk.shown = <<>>
    BY <1>2 DEF NoWalk
  <2> QED BY <1>1, <1>3, <2>1 DEF WalkSound
<1>5. ASSUME NEW d, Committed(d), NEW kind \in Lists
      PROVE  WalkSound([state |-> "running", kind |-> kind, cursor |-> <<>>, shown |-> <<>>,
                        base |-> Listed(kind, d)], d)
  <2>1. PICK B : B = Listed(kind, d) /\ B \subseteq T
    BY <1>1, <1>5, ListedFinite
  <2>2. PICK w : w = [state |-> "running", kind |-> kind, cursor |-> <<>>, shown |-> <<>>, base |-> B]
    OBVIOUS
  <2>3. /\ w \in [state : {"idle", "running", "done"}, kind : Lists \cup {"none"},
                  cursor : {<<>>} \cup T, shown : Seq(T), base : SUBSET T]
        /\ w.state = "running" /\ w.shown = <<>> /\ w.kind = kind /\ w.base = B /\ w.cursor = <<>>
    BY <1>2, <2>1, <2>2
  <2>4. WalkSound(w, d)
    BY <1>1, <1>3, <2>1, <2>3 DEF WalkSound
  <2> QED BY <2>1, <2>2, <2>4
<1> QED BY <1>4, <1>5

\* Every step of the writers and the client keeps the invariant of walks.
LEMMA PagesStep == PagesInv /\ [ReadsNext]_readsVars => PagesInv'
<1> SUFFICES ASSUME PagesInv, [ReadsNext]_readsVars PROVE PagesInv'
  OBVIOUS
<1>1. Committed(db) /\ WalkSound(walk, db)
  BY DEF PagesInv
<1>2. CASE Commits
  <2>1. Committed(db') /\ Grows(db, db')
    BY <1>1, <1>2, CommitGrows
  <2>2. CASE Keeps(db, db') /\ walk' = walk
    <3>1. WalkSound(walk, db')
      BY <1>1, <2>1, <2>2, WalkKept
    <3> QED BY <2>1, <2>2, <3>1 DEF PagesInv
  <2>3. CASE IndexOlder
    <3>1. walk' = IF walk.state = "running" THEN [walk EXCEPT !.base = @ \cap Listed(walk.kind, db')]
                  ELSE walk
      BY <2>3 DEF IndexOlder
    <3>2. WalkSound(walk', db')
      BY <1>1, <3>1, WalkShrinks
    <3> QED BY <2>1, <3>2 DEF PagesInv
  <2> QED BY <1>1, <1>2, <2>2, <2>3, CommitGrows
<1>3. ASSUME NEW kind, NEW arg, Ask(kind, arg) PROVE PagesInv'
  <2>1. db' = db /\ walk' = NoWalk
    BY <1>3 DEF Ask
  <2> QED BY <1>1, <2>1, ListBegins DEF PagesInv
<1>4. CASE Statement \/ UNCHANGED readsVars
  <2>1. db' = db /\ walk' = walk
    BY <1>4 DEF Statement, readsVars
  <2> QED BY <1>1, <2>1 DEF PagesInv
<1>5. ASSUME NEW kind \in Lists, Walk(kind) PROVE PagesInv'
  <2>1. db' = db /\ walk' = [state |-> "running", kind |-> kind, cursor |-> <<>>, shown |-> <<>>,
                             base |-> Listed(kind, db)]
    BY <1>5 DEF Walk
  <2>2. WalkSound(walk', db)
    BY <1>1, <2>1, ListBegins
  <2> QED BY <1>1, <2>1, <2>2 DEF PagesInv
<1>6. CASE NextPage
  <2>1. db' = db
    BY <1>6 DEF NextPage
  <2> QED BY <1>1, <1>6, <2>1, NextPageSound DEF PagesInv
<1> QED BY <1>2, <1>3, <1>4, <1>5, <1>6 DEF ReadsNext, Commits

\* Whatever the chain, the page size and the order of the commits, a client
\* that follows the cursors of a list to its end has seen every row that was
\* there from when it began, newest first and none twice; only a height that is
\* indexed again takes rows away (PagesComplete).
THEOREM PagesAreComplete == ReadsSpec => []PagesComplete
<1>1. ReadsInit => PagesInv
  <2> SUFFICES ASSUME ReadsInit PROVE PagesInv
    OBVIOUS
  <2>1. walk = NoWalk
    BY DEF ReadsInit
  <2>2. WalkSound(walk, db)
    BY <2>1, ListBegins
  <2> QED BY <2>2, ReadsInitCommitted DEF PagesInv
<1>2. PagesInv => PagesComplete
  <2> SUFFICES ASSUME PagesInv PROVE PagesComplete
    OBVIOUS
  <2>1. Descends(walk.shown) /\ (walk.state = "done" => \A x \in walk.base : \E i \in 1..Len(walk.shown) : walk.shown[i] = x)
    BY DEF PagesInv, WalkSound
  <2>2. PICK T : T = Nat \X Nat
    OBVIOUS
  <2>3. walk.shown \in Seq(T)
    BY <2>2 DEF PagesInv, WalkSound
  <2>4. DOMAIN walk.shown = 1..Len(walk.shown)
    BY <2>3
  <2>5. ASSUME walk.state = "done", NEW x \in walk.base PROVE x \in ToSet(walk.shown)
    <3>1. PICK i \in DOMAIN walk.shown : walk.shown[i] = x
      BY <2>1, <2>4, <2>5
    <3> QED BY <3>1 DEF ToSet
  <2> QED BY <2>1, <2>5 DEF PagesComplete, Descends
<1> QED BY <1>1, <1>2, PagesStep, PTL DEF ReadsSpec

-----------------------------------------------------------------------------
(* Reads.  What a read has heard so far: under REPEATABLE READ it is what  *)
(* its snapshot says, otherwise what every later commit keeps true.        *)

Heard(kind, arg, g, d, f) ==
    /\ kind = "block" => /\ Len(g) >= 1 => arg \in d.stored
                         /\ Len(g) >= 2 => g[2] = SetAt[arg]
    /\ kind = "validators" /\ Len(g) >= 1 =>
         /\ g[1].height \in d.stored
         /\ ~f => g[1].blocks = Cardinality(Recent(d, g[1].height))
    /\ kind = "validator" /\ Len(g) >= 2 =>
         \E h \in d.stored : g[2] = [height |-> h, status |-> Activity(arg, h)]
    /\ kind = "calls" /\ Len(g) >= 2 => g[2] = Source(d) /\ Complete(Source(d))
    /\ kind = "metadata" => \A i \in 2..Len(g) : g[i] = d.meta
    /\ kind = "proposal" =>
         /\ Len(g) >= 1 => g[1] = d.gov /\ d.gov # 0
         /\ Len(g) >= 2 => g[2] = [snapshot |-> d.gov, votes |-> Votes[d.gov]]
    /\ kind = "catalog" /\ Len(g) >= 1 => g[1] \subseteq Catalog(d)
    /\ kind = "top" /\ Len(g) >= 1 => g[1] = Catalog(d)
    /\ kind = "namespaces" => /\ Len(g) >= 1 => g[1] = Catalog(d)
                              /\ Len(g) >= 2 => g[2] = Namespaces(2, d)
    /\ kind = "applications" /\ Len(g) >= 1 =>
         g[1] = Source(d) /\ Complete(Source(d)) /\ Covers(Source(d), Checkpoint(d))
    /\ kind = "tokens" => /\ Len(g) >= 1 => g[1] = Source(d)
                          /\ \A i \in 2..Len(g) : g[i] = d.meta
                          /\ Len(g) >= 3 => Covers(Source(d), d.calls.through)
    /\ kind = "nft" /\ Len(g) >= 1 => g[1] = Source(d) /\ Complete(Source(d))

IsResults(g) == \E S : g \in Seq(S)

\* The next statement keeps what was heard, or ends the read as it should.
Sound(kind, arg, h, d, f) ==
    /\ Outcome(kind, h) = "running" => Heard(kind, arg, h, d, f) /\ Len(h) < FetchOf[kind].statements
    /\ Outcome(kind, h) = "answered" => Coherent(kind, arg, h, d, f)
    /\ Outcome(kind, h) = "refused" => kind = "signing"

\* How many statements each fetch runs.
LEMMA StatementsOf ==
    /\ Kinds = {"block", "validators", "validator", "signing", "calls", "metadata", "proposal",
                "catalog", "top", "namespaces", "applications", "tokens", "nft"}
    /\ \A k \in {"block", "validator", "signing", "calls", "proposal", "namespaces"} :
         FetchOf[k].statements = 3
    /\ \A k \in {"validators", "catalog", "top", "applications", "nft"} : FetchOf[k].statements = 2
    /\ \A k \in {"metadata", "tokens"} : FetchOf[k].statements = 4
<1> USE DEF FetchOf, Fetch
<1>1. /\ FetchOf["block"] = Fetch(3, FALSE) /\ FetchOf["validator"] = Fetch(3, FALSE)
      /\ FetchOf["signing"] = Fetch(3, FALSE) /\ FetchOf["calls"] = Fetch(3, TRUE)
      /\ FetchOf["proposal"] = Fetch(3, TRUE) /\ FetchOf["namespaces"] = Fetch(3, TRUE)
  BY DEF fetch_block_detail, fetch_validator_detail, fetch_validator_signing_history,
         fetch_realm_calls, fetch_governance_proposal_detail, fetch_top_realm_namespaces
<1>2. /\ FetchOf["validators"] = Fetch(2, FALSE) /\ FetchOf["catalog"] = Fetch(2, FALSE)
      /\ FetchOf["top"] = Fetch(2, TRUE) /\ FetchOf["applications"] = Fetch(2, TRUE)
      /\ FetchOf["nft"] = Fetch(2, TRUE)
  BY DEF fetch_active_validators, fetch_realm_catalog, fetch_top_realms,
         fetch_top_realm_applications, fetch_nft_activity
<1>3. FetchOf["metadata"] = Fetch(4, TRUE) /\ FetchOf["tokens"] = Fetch(4, TRUE)
  BY DEF fetch_realm_metadata, fetch_token_candidates
<1>4. Kinds = {"block", "validators", "validator", "signing", "calls", "metadata", "proposal",
               "catalog", "top", "namespaces", "applications", "tokens", "nft"}
  BY DEF Kinds
<1> HIDE DEF FetchOf, Fetch
<1>6. \A k \in {"block", "validator", "signing", "calls", "proposal", "namespaces"} :
        FetchOf[k].statements = 3
  BY <1>1 DEF Fetch
<1>7. \A k \in {"validators", "catalog", "top", "applications", "nft"} : FetchOf[k].statements = 2
  BY <1>2 DEF Fetch
<1>8. \A k \in {"metadata", "tokens"} : FetchOf[k].statements = 4
  BY <1>3 DEF Fetch
<1> QED BY <1>4, <1>6, <1>7, <1>8

\* A stored height is among the newest ones up to itself.
LEMMA RecentHas ==
    ASSUME NEW d, Committed(d), NEW h \in d.stored
    PROVE  /\ h \in Recent(d, h) /\ IsFiniteSet(Recent(d, h)) /\ Recent(d, h) \subseteq Nat
           /\ \A x \in Recent(d, h) : x <= h
<1>1. d.stored \subseteq Heights /\ d.stored # {}
  BY DEF Committed, Databases
<1>2. IsFiniteSet(d.stored) /\ d.stored \subseteq Nat
  BY <1>1, CheckpointStored, HeightsAre
<1>3. {y \in d.stored : h <= y /\ y <= h} = {h}
  BY <1>2
<1>4. Cardinality({y \in d.stored : h <= y /\ y <= h}) = 1
  BY <1>3, FS_Singleton
<1>5. Window \in Nat \ {0}
  BY ReadsAssumption
<1>6. h <= h /\ 1 <= Window
  BY <1>2, <1>5
<1>7. h \in Recent(d, h)
  BY <1>4, <1>6 DEF Recent
<1>8. Recent(d, h) \in SUBSET d.stored /\ \A x \in Recent(d, h) : x <= h
  BY DEF Recent
<1>9. IsFiniteSet(Recent(d, h))
  BY <1>2, <1>8, FS_Subset
<1> QED BY <1>2, <1>7, <1>8, <1>9

\* The parsed calls of a range inside the coverage are all there.
LEMMA CoveredRows ==
    ASSUME NEW d, Committed(d), d.calls # NoCoverage, NEW from \in Int, NEW through \in Int,
           from >= d.calls.from, through <= d.calls.through
    PROVE  /\ AllCallsOf(CallRows(d, from, through), from, through, d)
           /\ CallRows(d, from, through) = CallsOf(from, through, d)
<1>1. d.calls.from..d.calls.through \subseteq d.stored /\ d.calls.from \in Nat /\ d.calls.through \in Nat
  BY DEF Committed, Databases, CoverageOK
<1>2. from..through \subseteq d.calls.from..d.calls.through
  BY <1>1
<1>3. d.parsed \cap (from..through) \cap (d.calls.from..d.calls.through) = (from..through) \cap d.parsed
  BY <1>2
<1>4. CallRows(d, from, through) = CallsOf(from, through, d)
  BY <1>3 DEF CallRows, CallsOf
<1> QED BY <1>1, <1>2, <1>4 DEF AllCallsOf

\* The latest of the calls of a range, by height and then index.
LEMMA LatestCall ==
    ASSUME NEW d, NEW from \in Nat \ {0}, NEW through \in Nat, through <= Len(SetAt),
           NEW y \in CallsOf(from, through, d)
    PROVE  \E x \in CallsOf(from, through, d) :
             \A z \in CallsOf(from, through, d) : z = x \/ Below(z, x)
<1> DEFINE C == CallsOf(from, through, d)
           H == {h \in (from..through) \cap d.parsed : CallsAt[h] # {}}
<1>1. from..through \subseteq Heights /\ IsFiniteSet(from..through)
  BY HeightsAre, FS_Interval
<1>2. \A h \in from..through : CallsAt[h] \subseteq 1..TxAt[h] /\ TxAt[h] \in Nat
  BY <1>1, ReadsAssumption
<1>3. \A z : z \in C <=> \E h \in (from..through) \cap d.parsed : \E i \in CallsAt[h] : z = <<h, i>>
  BY DEF CallsOf
<1>4. PICK h0 \in (from..through) \cap d.parsed : \E i \in CallsAt[h0] : y = <<h0, i>>
  BY <1>3
<1>5. H # {} /\ H \subseteq Nat /\ IsFiniteSet(H)
  <2>1. H \subseteq from..through
    OBVIOUS
  <2>2. h0 \in H
    BY <1>4
  <2> QED BY <1>1, <2>1, <2>2, FS_Subset
<1>6. PICK m \in H : \A h \in H : h <= m
  BY <1>5, GreatestNat
<1>7. PICK i \in CallsAt[m] : \A j \in CallsAt[m] : j <= i
  <2>1. CallsAt[m] # {} /\ m \in from..through
    BY <1>6
  <2>2. CallsAt[m] \subseteq 1..TxAt[m] /\ TxAt[m] \in Nat
    BY <1>2, <2>1
  <2>3. IsFiniteSet(1..TxAt[m])
    <3>1. PICK t \in Nat : t = TxAt[m]
      BY <2>2
    <3>2. IsFiniteSet(1..t)
      BY FS_Interval
    <3> QED BY <3>1, <3>2
  <2>4. IsFiniteSet(CallsAt[m]) /\ CallsAt[m] \subseteq Nat
    BY <2>2, <2>3, FS_Subset
  <2> QED BY <2>1, <2>4, GreatestNat
<1>8. <<m, i>> \in C
  BY <1>3, <1>6, <1>7
<1>9. ASSUME NEW z \in C PROVE z = <<m, i>> \/ Below(z, <<m, i>>)
  <2>1. PICK h \in (from..through) \cap d.parsed : \E j \in CallsAt[h] : z = <<h, j>>
    BY <1>3, <1>9
  <2>2. PICK j \in CallsAt[h] : z = <<h, j>>
    BY <2>1
  <2>3. h \in H /\ h \in Int /\ m \in Int
    BY <2>2
  <2>4. h < m \/ h = m
    BY <1>6, <2>3
  <2>5. CASE h < m
    BY <2>2, <2>5 DEF Below
  <2>6. CASE h = m
    <3>1. j <= i /\ j \in Int /\ i \in Int
      BY <1>2, <1>6, <1>7, <2>6
    <3>2. j = i \/ j < i
      BY <3>1
    <3> QED BY <2>2, <2>6, <3>2 DEF Below
  <2> QED BY <2>4, <2>5, <2>6
<1> QED BY <1>8, <1>9

\* One more result.
LEMMA OneMore ==
    ASSUME NEW g, IsResults(g), NEW r
    PROVE  /\ IsResults(Append(g, r)) /\ Len(g) \in Nat /\ Len(Append(g, r)) = Len(g) + 1
           /\ Append(g, r)[Len(g) + 1] = r /\ \A i \in 1..Len(g) : Append(g, r)[i] = g[i]
<1>1. PICK S : g \in Seq(S)
  BY DEF IsResults
<1>2. g \in Seq(S \cup {r}) /\ r \in S \cup {r}
  BY <1>1
<1>3. Append(g, r) \in Seq(S \cup {r})
  BY <1>2
<1> QED BY <1>2, <1>3, AppendProperties DEF IsResults

\* The source row of a database.
LEMMA SourceOf ==
    ASSUME NEW d, Committed(d)
    PROVE  /\ Source(d).from = d.calls.from /\ Source(d).through = d.calls.through
           /\ Source(d).indexed = Checkpoint(d)
           /\ d.calls.from \in Nat /\ d.calls.through \in Nat /\ Checkpoint(d) \in Nat
           /\ Checkpoint(d) <= Len(SetAt)
           /\ Source(d).from # 0 =>
                d.calls # NoCoverage /\ d.calls.through = Checkpoint(d) /\ d.calls.from >= 1
<1>1. /\ Source(d).from = d.calls.from /\ Source(d).through = d.calls.through
      /\ Source(d).indexed = Checkpoint(d)
  BY DEF Source
<1>2. d.calls.from \in Nat /\ d.calls.through \in Nat /\ d.stored \subseteq Heights /\ d.stored # {}
  BY DEF Committed, Databases
<1>3. Checkpoint(d) \in Nat /\ Checkpoint(d) <= Len(SetAt)
  BY <1>2, CheckpointStored, HeightsAre
<1>4. ASSUME Source(d).from # 0
      PROVE  d.calls # NoCoverage /\ d.calls.through = Checkpoint(d) /\ d.calls.from >= 1
  <2>1. d.calls # NoCoverage
    BY <1>1, <1>4, NoCoverageFields
  <2> QED BY <2>1 DEF Committed, CoverageOK
<1> QED BY <1>1, <1>2, <1>3, <1>4

\* fetch_block_detail: a stored block stays, with its commit and transactions.
LEMMA BlockSoundly ==
    ASSUME NEW d, Committed(d), NEW f, NEW arg, NEW g, IsResults(g), Len(g) < 3, Heard("block", arg, g, d, f)
    PROVE  Sound("block", arg, Append(g, Result("block", arg, g, d)), d, f)
<1>1. PICK r : r = BlockDetail(Len(g) + 1, d, arg)
  OBVIOUS
<1>2. PICK h : h = Append(g, Result("block", arg, g, d)) /\ r = Result("block", arg, g, d)
  BY <1>1 DEF Result
<1>3. PICK n \in Nat : n = Len(g) /\ n < 3 /\ Len(h) = n + 1 /\ h[n + 1] = r /\ \A i \in 1..n : h[i] = g[i]
  BY <1>2, OneMore
<1>4. FetchOf["block"].statements = 3
  BY StatementsOf
<1>5. Enough("block", h) <=> n = 2
  BY <1>3, <1>4 DEF Enough
<1>6. Outcome("block", h) = IF h[1] = {} THEN "not_found" ELSE IF Enough("block", h) THEN "answered" ELSE "running"
  BY DEF Outcome, get_block_detail, Exists
<1>7. CASE n = 0
  <2>1. r = d.stored \cap {arg} /\ h[1] = r /\ Len(h) = 1
    BY <1>1, <1>3, <1>7 DEF BlockDetail
  <2>2. Outcome("block", h) = IF arg \notin d.stored THEN "not_found" ELSE "running"
    BY <1>5, <1>6, <1>7, <2>1
  <2>3. arg \in d.stored => Heard("block", arg, h, d, f)
    BY <2>1 DEF Heard
  <2> QED BY <1>2, <1>4, <2>1, <2>2, <2>3 DEF Sound
<1>8. CASE n = 1
  <2>1. arg \in d.stored
    BY <1>3, <1>8 DEF Heard
  <2>2. r = SetAt[arg] /\ h[2] = r /\ Len(h) = 2
    BY <1>1, <1>3, <1>8, <2>1 DEF BlockDetail
  <2>3. Outcome("block", h) = "not_found" \/ Outcome("block", h) = "running"
    BY <1>5, <1>6, <1>8
  <2>4. Heard("block", arg, h, d, f)
    BY <2>1, <2>2 DEF Heard
  <2> QED BY <1>2, <1>4, <2>2, <2>3, <2>4 DEF Sound
<1>9. CASE n = 2
  <2>1. arg \in d.stored /\ g[2] = SetAt[arg]
    BY <1>3, <1>9 DEF Heard
  <2>2. r = TxAt[arg] /\ h[3] = r /\ h[2] = g[2]
    BY <1>1, <1>3, <1>9, <2>1 DEF BlockDetail
  <2>3. Coherent("block", arg, h, d, f)
    BY <2>1, <2>2 DEF Coherent
  <2> QED BY <1>2, <1>5, <1>6, <1>9, <2>3 DEF Sound
<1> QED BY <1>3, <1>7, <1>8, <1>9

\* fetch_active_validators: the height shown is stored, and counts among the
\* heights its set is ranked over.
LEMMA ValidatorsSoundly ==
    ASSUME NEW d, Committed(d), NEW f, NEW arg, NEW g, IsResults(g), Len(g) < 2, Heard("validators", arg, g, d, f)
    PROVE  Sound("validators", arg, Append(g, Result("validators", arg, g, d)), d, f)
<1>1. PICK r : r = ActiveValidators(Len(g) + 1, d, g)
  OBVIOUS
<1>2. PICK h : h = Append(g, Result("validators", arg, g, d)) /\ r = Result("validators", arg, g, d)
  BY <1>1 DEF Result
<1>3. PICK n \in Nat : n = Len(g) /\ n < 2 /\ Len(h) = n + 1 /\ h[n + 1] = r /\ \A i \in 1..n : h[i] = g[i]
  BY <1>2, OneMore
<1>4. FetchOf["validators"].statements = 2
  BY StatementsOf
<1>5. Enough("validators", h) <=> n = 1
  BY <1>3, <1>4 DEF Enough
<1>6. Outcome("validators", h) = IF Enough("validators", h) THEN "answered" ELSE "running"
  BY DEF Outcome
<1>7. CASE n = 0
  <2>1. PICK c, b : c = Checkpoint(d) /\ b = Cardinality(Recent(d, c))
    OBVIOUS
  <2>2. r = [height |-> c, blocks |-> b] /\ h[1] = r /\ Len(h) = 1
    BY <1>1, <1>3, <1>7, <2>1 DEF ActiveValidators
  <2>3. c \in d.stored /\ h[1].height = c /\ h[1].blocks = b
    BY <2>1, <2>2, CheckpointStored DEF Committed, Databases
  <2>4. Heard("validators", arg, h, d, f)
    BY <2>1, <2>3 DEF Heard
  <2> QED BY <1>2, <1>4, <1>5, <1>6, <1>7, <2>2, <2>4 DEF Sound
<1>8. CASE n = 1
  <2>1. PICK x \in d.stored : /\ x = g[1].height /\ h[1] = g[1]
                              /\ ~f => h[1].blocks = Cardinality(Recent(d, x))
    BY <1>3, <1>8 DEF Heard
  <2>2. r = [v \in SetAt[x] |-> Cardinality({y \in Recent(d, x) : v \in SetAt[y]})] /\ h[2] = r
    <3>1. r = ActiveValidators(2, d, g)
      BY <1>1, <1>3, <1>8
    <3>2. r = [v \in SetAt[g[1].height] |-> Cardinality({y \in Recent(d, g[1].height) : v \in SetAt[y]})]
      BY <3>1 DEF ActiveValidators
    <3>3. g[1].height = x
      BY <2>1
    <3>4. r = [v \in SetAt[x] |-> Cardinality({y \in Recent(d, x) : v \in SetAt[y]})]
      BY <3>2, <3>3, Zenon
    <3>5. h[2] = r
      BY <1>3, <1>8
    <3> QED BY <3>4, <3>5, Zenon
  <2>3. ASSUME NEW v \in SetAt[x] PROVE r[v] > 0 /\ (~f => r[v] <= h[1].blocks)
    <3>1. PICK S : S = {y \in Recent(d, x) : v \in SetAt[y]}
      OBVIOUS
    <3>2. S \subseteq Recent(d, x) /\ x \in S
      BY <2>1, <3>1, RecentHas
    <3>3. IsFiniteSet(S) /\ S # {} /\ Cardinality(S) <= Cardinality(Recent(d, x))
      BY <2>1, <3>2, RecentHas, FS_Subset
    <3>4. Cardinality(S) \in Nat /\ Cardinality(S) # 0
      BY <3>3, FS_CardinalityType, FS_EmptySet
    <3>5. r[v] = Cardinality(S)
      BY <2>2, <3>1
    <3>6. PICK a, b : a = Cardinality(S) /\ b = Cardinality(Recent(d, x))
      OBVIOUS
    <3>7. a \in Nat /\ a # 0 /\ a <= b /\ r[v] = a
      BY <3>3, <3>4, <3>5, <3>6
    <3>8. ~f => h[1].blocks = b
      BY <2>1, <3>6, Zenon
    <3>9. r[v] > 0
      BY <3>7
    <3>10. ~f => r[v] <= h[1].blocks
      BY ONLY <3>7, <3>8
    <3> QED BY <3>9, <3>10
  <2>4. /\ DOMAIN h[2] = SetAt[h[1].height]
        /\ \A v \in DOMAIN h[2] : h[2][v] > 0 /\ (~f => h[2][v] <= h[1].blocks)
    <3>2. DOMAIN r = SetAt[x]
      BY <2>2
    <3>3. h[1].height = x
      BY <2>1, Zenon
    <3>1. DOMAIN h[2] = SetAt[x] /\ h[1].height = x /\ h[2] = r
      BY <2>2, <3>2, <3>3, Zenon
    <3> QED BY <2>3, <3>1
  <2>5. Coherent("validators", arg, h, d, f)
    BY <2>4 DEF Coherent
  <2> QED BY <1>2, <1>5, <1>6, <1>8, <2>5 DEF Sound
<1> QED BY <1>3, <1>7, <1>8

\* fetch_validator_detail: the history ends at the height of the set.
LEMMA ValidatorSoundly ==
    ASSUME NEW d, Committed(d), NEW f, NEW arg, NEW g, IsResults(g), Len(g) < 3, Heard("validator", arg, g, d, f)
    PROVE  Sound("validator", arg, Append(g, Result("validator", arg, g, d)), d, f)
<1>1. PICK r : r = ValidatorDetail(Len(g) + 1, d, arg, g)
  OBVIOUS
<1>2. PICK h : h = Append(g, Result("validator", arg, g, d)) /\ r = Result("validator", arg, g, d)
  BY <1>1 DEF Result
<1>3. PICK n \in Nat : n = Len(g) /\ n < 3 /\ Len(h) = n + 1 /\ h[n + 1] = r /\ \A i \in 1..n : h[i] = g[i]
  BY <1>2, OneMore
<1>4. FetchOf["validator"].statements = 3
  BY StatementsOf
<1>5. Enough("validator", h) <=> n = 2
  BY <1>3, <1>4 DEF Enough
<1>6. Outcome("validator", h) = IF h[1] = {} THEN "not_found" ELSE IF Enough("validator", h) THEN "answered" ELSE "running"
  BY DEF Outcome, get_validator_detail, Exists
<1>7. CASE n = 0
  <2>1. Len(h) = 1
    BY <1>3, <1>7
  <2>2. Outcome("validator", h) = "not_found" \/ Outcome("validator", h) = "running"
    BY <1>5, <1>6, <1>7
  <2>3. Heard("validator", arg, h, d, f)
    BY <2>1 DEF Heard
  <2> QED BY <1>2, <1>4, <2>1, <2>2, <2>3 DEF Sound
<1>8. CASE n = 1
  <2>1. r = [height |-> Checkpoint(d), status |-> Activity(arg, Checkpoint(d))] /\ h[2] = r /\ Len(h) = 2
    BY <1>1, <1>3, <1>8 DEF ValidatorDetail
  <2>2. Checkpoint(d) \in d.stored
    BY CheckpointStored DEF Committed, Databases
  <2>3. Heard("validator", arg, h, d, f)
    BY <2>1, <2>2 DEF Heard
  <2>4. Outcome("validator", h) = "not_found" \/ Outcome("validator", h) = "running"
    BY <1>5, <1>6, <1>8
  <2> QED BY <1>2, <1>4, <2>1, <2>3, <2>4 DEF Sound
<1>9. CASE n = 2
  <2>1. PICK x \in d.stored : g[2] = [height |-> x, status |-> Activity(arg, x)]
    BY <1>3, <1>9 DEF Heard
  <2>2. g[2].height = x /\ g[2].status = Activity(arg, x) /\ h[2] = g[2]
    BY <1>3, <1>9, <2>1
  <2>3. r = [y \in Recent(d, x) |-> Activity(arg, y)] /\ h[3] = r
    BY <1>1, <1>3, <1>9, <2>2 DEF ValidatorDetail
  <2>4. DOMAIN h[3] = Recent(d, x) /\ h[3][x] = Activity(arg, x)
    BY <2>3, RecentHas
  <2>5. Max(DOMAIN h[3]) = x
    <3>1. x \in Recent(d, x) /\ Recent(d, x) \subseteq Nat /\ \A y \in Recent(d, x) : y <= x
      BY RecentHas
    <3>2. Max(Recent(d, x)) = x
      BY <3>1, MaxIs
    <3> QED BY <2>4, <3>2
  <2>6. Coherent("validator", arg, h, d, f)
    BY <2>2, <2>4, <2>5 DEF Coherent
  <2> QED BY <1>2, <1>5, <1>6, <1>9, <2>6 DEF Sound
<1> QED BY <1>3, <1>7, <1>8, <1>9

\* fetch_validator_signing_history: the handler refuses a matrix of another axis.
LEMMA SigningSoundly ==
    ASSUME NEW d, Committed(d), NEW f, NEW arg, NEW g, IsResults(g), Len(g) < 3, Heard("signing", arg, g, d, f)
    PROVE  Sound("signing", arg, Append(g, Result("signing", arg, g, d)), d, f)
<1>1. PICK r : r = SigningHistory(Len(g) + 1, d, g)
  OBVIOUS
<1>2. PICK h : h = Append(g, Result("signing", arg, g, d)) /\ r = Result("signing", arg, g, d)
  BY <1>1 DEF Result
<1>3. PICK n \in Nat : n = Len(g) /\ n < 3 /\ Len(h) = n + 1 /\ h[n + 1] = r /\ \A i \in 1..n : h[i] = g[i]
  BY <1>2, OneMore
<1>4. FetchOf["signing"].statements = 3
  BY StatementsOf
<1>5. Enough("signing", h) <=> n = 2
  BY <1>3, <1>4 DEF Enough
<1>6. Outcome("signing", h) = IF get_validator_signing_history(h) = "answered" /\ ~Enough("signing", h)
                             THEN "running" ELSE get_validator_signing_history(h)
  BY DEF Outcome
<1>7. CASE n # 2
  <2>1. Heard("signing", arg, h, d, f) /\ Len(h) < 3
    BY <1>3, <1>7 DEF Heard
  <2>2. get_validator_signing_history(h) = "answered"
    BY <1>3, <1>7 DEF get_validator_signing_history
  <2> QED BY <1>2, <1>4, <1>5, <1>6, <1>7, <2>1, <2>2 DEF Sound
<1>8. CASE n = 2
  <2>0. PICK a, m : a = Recent(d, g[1].height) /\ m = SetAt[g[1].height]
    OBVIOUS
  <2>1. r = [axis |-> a, members |-> m] /\ h[3] = r
    BY <1>1, <1>3, <1>8, <2>0 DEF SigningHistory
  <2>2. h[3].axis = a /\ h[3].members = m
    BY <2>1
  <2>3. Outcome("signing", h) = "answered" => h[2] = a /\ h[1].members = m
    BY <1>3, <1>5, <1>6, <1>8, <2>2 DEF get_validator_signing_history
  <2>4. Outcome("signing", h) = "answered" => Coherent("signing", arg, h, d, f)
    BY <2>1, <2>3 DEF Coherent
  <2>5. Outcome("signing", h) # "running"
    BY <1>5, <1>6, <1>8 DEF get_validator_signing_history
  <2> QED BY <1>2, <2>4, <2>5 DEF Sound
<1> QED BY <1>7, <1>8

\* fetch_realm_calls: the page has the calls of the complete range of its source.
LEMMA CallsSoundly ==
    ASSUME NEW d, Committed(d), NEW f, NEW arg, NEW g, IsResults(g), Len(g) < 3, Heard("calls", arg, g, d, f)
    PROVE  Sound("calls", arg, Append(g, Result("calls", arg, g, d)), d, f)
<1>1. PICK r : r = RealmCalls(Len(g) + 1, d, g)
  OBVIOUS
<1>2. PICK h : h = Append(g, Result("calls", arg, g, d)) /\ r = Result("calls", arg, g, d)
  BY <1>1 DEF Result
<1>3. PICK n \in Nat : n = Len(g) /\ n < 3 /\ Len(h) = n + 1 /\ h[n + 1] = r /\ \A i \in 1..n : h[i] = g[i]
  BY <1>2, OneMore
<1>4. FetchOf["calls"].statements = 3
  BY StatementsOf
<1>5. Enough("calls", h) <=> n = 2
  BY <1>3, <1>4 DEF Enough
<1>6. Outcome("calls", h) = IF get_realm_calls(h) = "answered" /\ ~Enough("calls", h)
                             THEN "running" ELSE get_realm_calls(h)
  BY DEF Outcome
<1>7. CASE n = 0
  <2>1. Len(h) = 1
    BY <1>3, <1>7
  <2>2. get_realm_calls(h) \in {"not_found", "answered"}
    BY <2>1 DEF get_realm_calls
  <2>3. Outcome("calls", h) \in {"not_found", "running"}
    BY <1>5, <1>6, <1>7, <2>2
  <2>4. Heard("calls", arg, h, d, f)
    BY <2>1 DEF Heard
  <2> QED BY <1>2, <1>4, <2>1, <2>3, <2>4 DEF Sound
<1>8. CASE n = 1
  <2>1. r = Source(d) /\ h[2] = r /\ Len(h) = 2
    BY <1>1, <1>3, <1>8 DEF RealmCalls
  <2>2. get_realm_calls(h) \in {"not_found", "unavailable"} \/ (get_realm_calls(h) = "answered" /\ Complete(Source(d)))
    BY <2>1 DEF get_realm_calls
  <2>3. Outcome("calls", h) \in {"not_found", "unavailable"} \/ (Outcome("calls", h) = "running" /\ Complete(Source(d)))
    BY <1>5, <1>6, <1>8, <2>2
  <2>4. Complete(Source(d)) => Heard("calls", arg, h, d, f)
    BY <2>1 DEF Heard
  <2> QED BY <1>2, <1>4, <2>1, <2>3, <2>4 DEF Sound
<1>9. CASE n = 2
  <2>1. g[2] = Source(d) /\ Complete(Source(d)) /\ h[2] = g[2] /\ Len(h) = 3
    BY <1>3, <1>9 DEF Heard
  <2>2. PICK a, b : a = d.calls.from /\ b = d.calls.through
    OBVIOUS
  <2>3. a \in Nat /\ b \in Nat /\ h[2].from = a /\ h[2].through = b /\ d.calls # NoCoverage
    BY <2>1, <2>2, SourceOf DEF Complete
  <2>4. r = CallRows(d, a, b) /\ h[3] = r
    BY <1>1, <1>3, <1>9, <2>1, <2>3 DEF RealmCalls
  <2>5. AllCallsOf(CallRows(d, a, b), a, b, d) /\ CallRows(d, a, b) = CallsOf(a, b, d)
    BY <2>2, <2>3, CoveredRows
  <2>6. Coherent("calls", arg, h, d, f)
    BY <2>3, <2>4, <2>5 DEF Coherent
  <2>7. \A x \in h[3] : ~(x[1] < a \/ b < x[1])
    <3>1. \A x \in CallsOf(a, b, d) : x[1] \in a..b
      BY DEF CallsOf
    <3> QED BY <2>3, <2>4, <2>5, <3>1
  <2>8. get_realm_calls(h) \in {"not_found", "unavailable", "answered"}
    BY <2>3, <2>7 DEF get_realm_calls
  <2>9. Outcome("calls", h) \in {"not_found", "unavailable", "answered"}
    BY <1>5, <1>6, <1>9, <2>8
  <2> QED BY <1>2, <2>6, <2>9 DEF Sound
<1> QED BY <1>3, <1>7, <1>8, <1>9

\* fetch_realm_metadata: the files and imports are those of the snapshot shown.
LEMMA MetadataSoundly ==
    ASSUME NEW d, Committed(d), NEW f, NEW arg, NEW g, IsResults(g), Len(g) < 4, Heard("metadata", arg, g, d, f)
    PROVE  Sound("metadata", arg, Append(g, Result("metadata", arg, g, d)), d, f)
<1>1. PICK r : r = RealmMetadata(Len(g) + 1, d)
  OBVIOUS
<1>2. PICK h : h = Append(g, Result("metadata", arg, g, d)) /\ r = Result("metadata", arg, g, d)
  BY <1>1 DEF Result
<1>3. PICK n \in Nat : n = Len(g) /\ n < 4 /\ Len(h) = n + 1 /\ h[n + 1] = r /\ \A i \in 1..n : h[i] = g[i]
  BY <1>2, OneMore
<1>4. FetchOf["metadata"].statements = 4
  BY StatementsOf
<1>5. Enough("metadata", h) <=> n = 3
  BY <1>3, <1>4 DEF Enough
<1>6. Outcome("metadata", h) = IF get_realm_metadata(h) = "answered" /\ ~Enough("metadata", h)
                             THEN "running" ELSE get_realm_metadata(h)
  BY DEF Outcome
<1>7. get_realm_metadata(h) \in {"not_found", "answered"}
  BY DEF get_realm_metadata
<1>8. n \in {1, 2, 3} => r = d.meta
  BY <1>1, <1>3 DEF RealmMetadata
<1>9. ASSUME NEW i \in 2..Len(h) PROVE h[i] = d.meta
  <2>1. CASE i = n + 1
    <3>1. n \in {1, 2, 3}
      BY <1>3, <2>1
    <3> QED BY <1>3, <1>8, <2>1, <3>1
  <2>2. CASE i # n + 1
    <3>1. i \in 2..Len(g) /\ i \in 1..n
      BY <1>3, <2>2
    <3>2. g[i] = d.meta
      BY <3>1 DEF Heard
    <3> QED BY <1>3, <3>1, <3>2
  <2> QED BY <2>1, <2>2
<1>10. Heard("metadata", arg, h, d, f)
  BY <1>9 DEF Heard
<1>11. CASE n < 3
  <2>1. Outcome("metadata", h) \in {"not_found", "running"} /\ Len(h) < 4
    BY <1>3, <1>5, <1>6, <1>7, <1>11
  <2> QED BY <1>2, <1>4, <1>10, <2>1 DEF Sound
<1>12. CASE n = 3
  <2>1. h[2] = d.meta /\ h[3] = d.meta /\ h[4] = d.meta
    BY <1>3, <1>9, <1>12
  <2>2. Coherent("metadata", arg, h, d, f)
    BY <2>1 DEF Coherent
  <2>3. Outcome("metadata", h) \in {"not_found", "answered"}
    BY <1>5, <1>6, <1>7, <1>12
  <2> QED BY <1>2, <2>2, <2>3 DEF Sound
<1> QED BY <1>3, <1>11, <1>12

\* fetch_governance_proposal_detail: the proposal and its votes are those of the
\* snapshot shown.
LEMMA ProposalSoundly ==
    ASSUME NEW d, Committed(d), NEW f, NEW arg, NEW g, IsResults(g), Len(g) < 3, Heard("proposal", arg, g, d, f)
    PROVE  Sound("proposal", arg, Append(g, Result("proposal", arg, g, d)), d, f)
<1>1. PICK r : r = ProposalDetail(Len(g) + 1, d)
  OBVIOUS
<1>2. PICK h : h = Append(g, Result("proposal", arg, g, d)) /\ r = Result("proposal", arg, g, d)
  BY <1>1 DEF Result
<1>3. PICK n \in Nat : n = Len(g) /\ n < 3 /\ Len(h) = n + 1 /\ h[n + 1] = r /\ \A i \in 1..n : h[i] = g[i]
  BY <1>2, OneMore
<1>4. FetchOf["proposal"].statements = 3
  BY StatementsOf
<1>5. Enough("proposal", h) <=> n = 2
  BY <1>3, <1>4 DEF Enough
<1>6. Outcome("proposal", h) = IF get_governance_proposal(h) = "answered" /\ ~Enough("proposal", h)
                             THEN "running" ELSE get_governance_proposal(h)
  BY DEF Outcome
<1>7. PICK p : p = [snapshot |-> d.gov, votes |-> Votes[d.gov]]
  OBVIOUS
<1>8. p.snapshot = d.gov /\ p.votes = Votes[d.gov] /\ NoProposal.snapshot = 0
  BY <1>7 DEF NoProposal
<1>9. CASE n = 0
  <2>1. r = d.gov /\ h[1] = r /\ Len(h) = 1
    BY <1>1, <1>3, <1>9 DEF ProposalDetail
  <2>2. get_governance_proposal(h) = IF d.gov = 0 THEN "not_found" ELSE "answered"
    BY <2>1 DEF get_governance_proposal
  <2>3. Outcome("proposal", h) = IF d.gov = 0 THEN "not_found" ELSE "running"
    BY <1>5, <1>6, <1>9, <2>2
  <2>4. d.gov # 0 => Heard("proposal", arg, h, d, f)
    BY <2>1 DEF Heard
  <2> QED BY <1>2, <1>4, <2>1, <2>3, <2>4 DEF Sound
<1>10. CASE n = 1
  <2>1. g[1] = d.gov /\ d.gov # 0 /\ h[1] = g[1] /\ h[2] = r /\ Len(h) = 2
    BY <1>3, <1>10 DEF Heard
  <2>2. r = p \/ r = NoProposal
    BY <1>1, <1>3, <1>7, <1>10 DEF ProposalDetail
  <2>3. get_governance_proposal(h) = "not_found" \/ (get_governance_proposal(h) = "answered" /\ r = p)
    BY <2>1, <2>2 DEF get_governance_proposal
  <2>4. Outcome("proposal", h) = "not_found" \/ (Outcome("proposal", h) = "running" /\ r = p)
    BY <1>5, <1>6, <1>10, <2>3
  <2>5. r = p => Heard("proposal", arg, h, d, f)
    BY <1>7, <2>1 DEF Heard
  <2> QED BY <1>2, <1>4, <2>1, <2>4, <2>5 DEF Sound
<1>11. CASE n = 2
  <2>1. g[1] = d.gov /\ d.gov # 0 /\ g[2] = p /\ h[1] = g[1] /\ h[2] = g[2] /\ h[3] = r /\ Len(h) = 3
    BY <1>3, <1>7, <1>11 DEF Heard
  <2>2. r = p
    BY <1>1, <1>3, <1>7, <1>11 DEF ProposalDetail
  <2>3. p # NoProposal
    BY <1>8, <2>1
  <2>4. get_governance_proposal(h) = "answered"
    BY <2>1, <2>2, <2>3 DEF get_governance_proposal
  <2>5. Coherent("proposal", arg, h, d, f)
    BY <1>8, <2>1, <2>2 DEF Coherent
  <2> QED BY <1>2, <1>5, <1>6, <1>11, <2>4, <2>5 DEF Sound
<1> QED BY <1>3, <1>9, <1>10, <1>11

\* fetch_realm_catalog: an item that was counted is not lost.
LEMMA CatalogSoundly ==
    ASSUME NEW d, Committed(d), NEW f, NEW arg, NEW g, IsResults(g), Len(g) < 2, Heard("catalog", arg, g, d, f)
    PROVE  Sound("catalog", arg, Append(g, Result("catalog", arg, g, d)), d, f)
<1>1. PICK r : r = Catalog(d)
  OBVIOUS
<1>2. PICK h : h = Append(g, Result("catalog", arg, g, d)) /\ r = Result("catalog", arg, g, d)
  BY <1>1 DEF Result, RealmCatalog
<1>3. PICK n \in Nat : n = Len(g) /\ n < 2 /\ Len(h) = n + 1 /\ h[n + 1] = r /\ \A i \in 1..n : h[i] = g[i]
  BY <1>2, OneMore
<1>4. FetchOf["catalog"].statements = 2
  BY StatementsOf
<1>5. Enough("catalog", h) <=> n = 1
  BY <1>3, <1>4 DEF Enough
<1>6. Outcome("catalog", h) = IF Enough("catalog", h) THEN "answered" ELSE "running"
  BY DEF Outcome
<1>7. CASE n = 0
  <2>1. r = Catalog(d) /\ h[1] = r /\ Len(h) = 1
    BY <1>1, <1>3, <1>7
  <2>2. Outcome("catalog", h) = "running"
    BY <1>5, <1>6, <1>7
  <2>3. Heard("catalog", arg, h, d, f)
    BY <2>1 DEF Heard
  <2> QED BY <1>2, <1>4, <2>1, <2>2, <2>3 DEF Sound
<1>8. CASE n = 1
  <2>1. g[1] \subseteq Catalog(d) /\ h[1] = g[1] /\ h[2] = r /\ r = Catalog(d)
    BY <1>1, <1>3, <1>8 DEF Heard
  <2>2. Coherent("catalog", arg, h, d, f)
    BY <2>1 DEF Coherent
  <2>3. Outcome("catalog", h) = "answered"
    BY <1>5, <1>6, <1>8
  <2> QED BY <1>2, <2>2, <2>3 DEF Sound
<1> QED BY <1>3, <1>7, <1>8

\* fetch_top_realms: the summary and the ranking are of one snapshot.
LEMMA TopSoundly ==
    ASSUME NEW d, Committed(d), NEW f, NEW arg, NEW g, IsResults(g), Len(g) < 2, Heard("top", arg, g, d, f)
    PROVE  Sound("top", arg, Append(g, Result("top", arg, g, d)), d, f)
<1>1. PICK r : r = Catalog(d)
  OBVIOUS
<1>2. PICK h : h = Append(g, Result("top", arg, g, d)) /\ r = Result("top", arg, g, d)
  BY <1>1 DEF Result, TopRealms
<1>3. PICK n \in Nat : n = Len(g) /\ n < 2 /\ Len(h) = n + 1 /\ h[n + 1] = r /\ \A i \in 1..n : h[i] = g[i]
  BY <1>2, OneMore
<1>4. FetchOf["top"].statements = 2
  BY StatementsOf
<1>5. Enough("top", h) <=> n = 1
  BY <1>3, <1>4 DEF Enough
<1>6. Outcome("top", h) = IF Enough("top", h) THEN "answered" ELSE "running"
  BY DEF Outcome
<1>7. CASE n = 0
  <2>1. r = Catalog(d) /\ h[1] = r /\ Len(h) = 1
    BY <1>1, <1>3, <1>7
  <2>2. Outcome("top", h) = "running"
    BY <1>5, <1>6, <1>7
  <2>3. Heard("top", arg, h, d, f)
    BY <2>1 DEF Heard
  <2> QED BY <1>2, <1>4, <2>1, <2>2, <2>3 DEF Sound
<1>8. CASE n = 1
  <2>1. g[1] = Catalog(d) /\ h[1] = g[1] /\ h[2] = r /\ r = Catalog(d)
    BY <1>1, <1>3, <1>8 DEF Heard
  <2>2. Coherent("top", arg, h, d, f)
    BY <2>1 DEF Coherent
  <2>3. Outcome("top", h) = "answered"
    BY <1>5, <1>6, <1>8
  <2> QED BY <1>2, <2>2, <2>3 DEF Sound
<1> QED BY <1>3, <1>7, <1>8

\* fetch_top_realm_namespaces: aggregates and members are of one snapshot.
LEMMA NamespacesSoundly ==
    ASSUME NEW d, Committed(d), NEW f, NEW arg, NEW g, IsResults(g), Len(g) < 3, Heard("namespaces", arg, g, d, f)
    PROVE  Sound("namespaces", arg, Append(g, Result("namespaces", arg, g, d)), d, f)
<1>1. PICK r : r = Namespaces(Len(g) + 1, d)
  OBVIOUS
<1>2. PICK h : h = Append(g, Result("namespaces", arg, g, d)) /\ r = Result("namespaces", arg, g, d)
  BY <1>1 DEF Result
<1>3. PICK n \in Nat : n = Len(g) /\ n < 3 /\ Len(h) = n + 1 /\ h[n + 1] = r /\ \A i \in 1..n : h[i] = g[i]
  BY <1>2, OneMore
<1>4. FetchOf["namespaces"].statements = 3
  BY StatementsOf
<1>5. Enough("namespaces", h) <=> n = 2
  BY <1>3, <1>4 DEF Enough
<1>6. Outcome("namespaces", h) = IF get_top_realm_namespaces(h) = "answered" /\ ~Enough("namespaces", h)
                             THEN "running" ELSE get_top_realm_namespaces(h)
  BY DEF Outcome
<1>7. CASE n = 0
  <2>1. r = Catalog(d) /\ h[1] = r /\ Len(h) = 1
    BY <1>1, <1>3, <1>7 DEF Namespaces
  <2>2. get_top_realm_namespaces(h) = "answered"
    BY <2>1 DEF get_top_realm_namespaces
  <2>3. Heard("namespaces", arg, h, d, f)
    BY <2>1 DEF Heard
  <2> QED BY <1>2, <1>4, <1>5, <1>6, <1>7, <2>1, <2>2, <2>3 DEF Sound
<1>8. CASE n = 1
  <2>1. r = Namespaces(2, d) /\ h[1] = g[1] /\ h[2] = r /\ Len(h) = 2
    BY <1>1, <1>3, <1>8
  <2>2. g[1] = Catalog(d)
    BY <1>3, <1>8 DEF Heard
  <2>3. get_top_realm_namespaces(h) = "answered"
    BY <2>1 DEF get_top_realm_namespaces
  <2>4. Heard("namespaces", arg, h, d, f)
    BY <2>1, <2>2 DEF Heard
  <2> QED BY <1>2, <1>4, <1>5, <1>6, <1>8, <2>1, <2>3, <2>4 DEF Sound
<1>9. CASE n = 2
  <2>1. g[1] = Catalog(d) /\ g[2] = Namespaces(2, d) /\ h[1] = g[1] /\ h[2] = g[2] /\ h[3] = r
    BY <1>3, <1>9 DEF Heard
  <2>2. r = UNION {{x} \X CallsAt[x] : x \in Catalog(d)} /\ r = Namespaces(2, d)
    BY <1>1, <1>3, <1>9 DEF Namespaces
  <2>3. Catalog(d) = {x[1] : x \in r}
    <3>1. ASSUME NEW y \in Catalog(d) PROVE \E x \in r : x[1] = y
      <4>1. PICK i : i \in CallsAt[y]
        BY DEF Catalog
      <4>2. <<y, i>> \in r
        BY <2>2, <4>1
      <4> QED BY <4>2
    <3>2. \A x \in r : x[1] \in Catalog(d)
      BY <2>2
    <3> QED BY <3>1, <3>2
  <2>4. Coherent("namespaces", arg, h, d, f)
    BY <2>1, <2>3 DEF Coherent
  <2>5. get_top_realm_namespaces(h) = "answered"
    BY <2>1, <2>2 DEF get_top_realm_namespaces
  <2> QED BY <1>2, <1>5, <1>6, <1>9, <2>4, <2>5 DEF Sound
<1> QED BY <1>3, <1>7, <1>8, <1>9

\* fetch_top_realm_applications: the ranked window lies inside the coverage.
LEMMA ApplicationsSoundly ==
    ASSUME NEW d, Committed(d), NEW f, NEW arg, NEW g, IsResults(g), Len(g) < 2, Heard("applications", arg, g, d, f)
    PROVE  Sound("applications", arg, Append(g, Result("applications", arg, g, d)), d, f)
<1>1. PICK r : r = Applications(Len(g) + 1, d, g)
  OBVIOUS
<1>2. PICK h : h = Append(g, Result("applications", arg, g, d)) /\ r = Result("applications", arg, g, d)
  BY <1>1 DEF Result
<1>3. PICK n \in Nat : n = Len(g) /\ n < 2 /\ Len(h) = n + 1 /\ h[n + 1] = r /\ \A i \in 1..n : h[i] = g[i]
  BY <1>2, OneMore
<1>4. FetchOf["applications"].statements = 2
  BY StatementsOf
<1>5. Enough("applications", h) <=> n = 1
  BY <1>3, <1>4 DEF Enough
<1>6. Outcome("applications", h) = IF get_top_realm_applications(h) = "answered" /\ ~Enough("applications", h)
                             THEN "running" ELSE get_top_realm_applications(h)
  BY DEF Outcome
<1>7. PICK a, b, c : a = d.calls.from /\ b = d.calls.through /\ c = Checkpoint(d)
  OBVIOUS
<1>8. /\ Source(d).from = a /\ Source(d).through = b /\ Source(d).indexed = c
      /\ a \in Nat /\ b \in Nat /\ c \in Nat /\ Span \in Nat
      /\ a # 0 => d.calls # NoCoverage /\ b = c
  BY <1>7, SourceOf, ReadsAssumption
<1>9. CASE n = 0
  <2>1. r = Source(d) /\ h[1] = r /\ Len(h) = 1
    BY <1>1, <1>3, <1>9 DEF Applications
  <2>2. \/ get_top_realm_applications(h) = "unavailable"
        \/ get_top_realm_applications(h) = "answered" /\ Complete(Source(d)) /\ Covers(Source(d), Checkpoint(d))
    BY <1>7, <1>8, <2>1 DEF get_top_realm_applications
  <2>3. \/ Outcome("applications", h) = "unavailable"
        \/ Outcome("applications", h) = "running" /\ Complete(Source(d)) /\ Covers(Source(d), Checkpoint(d))
    BY <1>5, <1>6, <1>9, <2>2
  <2>4. Complete(Source(d)) /\ Covers(Source(d), Checkpoint(d)) => Heard("applications", arg, h, d, f)
    BY <2>1 DEF Heard
  <2> QED BY <1>2, <1>4, <2>1, <2>3, <2>4 DEF Sound
<1>10. CASE n = 1
  <2>1. g[1] = Source(d) /\ Complete(Source(d)) /\ Covers(Source(d), Checkpoint(d)) /\ h[1] = g[1] /\ h[2] = r
    BY <1>3, <1>10 DEF Heard
  <2>2. a > 0 /\ a <= c - Span /\ d.calls # NoCoverage /\ b = c
    BY <1>7, <1>8, <2>1 DEF Covers
  <2>3. r = CallRows(d, c - Span, c)
    BY <1>1, <1>3, <1>8, <1>10, <2>1 DEF Applications
  <2>4. AllCallsOf(CallRows(d, c - Span, c), c - Span, c, d)
    <3>1. c - Span \in Int /\ c \in Int /\ c - Span >= d.calls.from /\ c <= d.calls.through
      BY <1>7, <1>8, <2>2
    <3> QED BY <2>2, <3>1, CoveredRows
  <2>5. Coherent("applications", arg, h, d, f)
    BY <1>8, <2>1, <2>3, <2>4 DEF Coherent
  <2>6. Outcome("applications", h) \in {"unavailable", "answered"}
    BY <1>5, <1>6, <1>10 DEF get_top_realm_applications
  <2> QED BY <1>2, <2>5, <2>6 DEF Sound
<1> QED BY <1>3, <1>9, <1>10

\* fetch_token_candidates: the files are those of the candidates, the activity
\* that of the window.
LEMMA TokensSoundly ==
    ASSUME NEW d, Committed(d), NEW f, NEW arg, NEW g, IsResults(g), Len(g) < 4, Heard("tokens", arg, g, d, f)
    PROVE  Sound("tokens", arg, Append(g, Result("tokens", arg, g, d)), d, f)
<1>1. PICK r : r = Tokens(Len(g) + 1, d, g)
  OBVIOUS
<1>2. PICK h : h = Append(g, Result("tokens", arg, g, d)) /\ r = Result("tokens", arg, g, d)
  BY <1>1 DEF Result
<1>3. PICK n \in Nat : n = Len(g) /\ n < 4 /\ Len(h) = n + 1 /\ h[n + 1] = r /\ \A i \in 1..n : h[i] = g[i]
  BY <1>2, OneMore
<1>4. FetchOf["tokens"].statements = 4
  BY StatementsOf
<1>5. Enough("tokens", h) <=> n = 3 \/ (n = 1 /\ h[2] = 0) \/ (n = 2 /\ ~Covers(h[1], h[1].through))
  BY <1>3, <1>4 DEF Enough
<1>6. Outcome("tokens", h) = IF get_tokens(h) = "answered" /\ ~Enough("tokens", h)
                             THEN "running" ELSE get_tokens(h)
  BY DEF Outcome
<1>7. PICK a, b : a = d.calls.from /\ b = d.calls.through
  OBVIOUS
<1>8. /\ Source(d).from = a /\ Source(d).through = b
      /\ a \in Nat /\ b \in Nat /\ Span \in Nat /\ (a # 0 => d.calls # NoCoverage)
  BY <1>7, SourceOf, ReadsAssumption
<1>9. CASE n = 0
  <2>1. r = Source(d) /\ h[1] = r /\ Len(h) = 1
    BY <1>1, <1>3, <1>9 DEF Tokens
  <2>2. get_tokens(h) = "answered"
    BY <2>1 DEF get_tokens
  <2>3. Heard("tokens", arg, h, d, f)
    BY <2>1 DEF Heard
  <2> QED BY <1>2, <1>4, <1>5, <1>6, <1>9, <2>1, <2>2, <2>3 DEF Sound
<1>10. CASE n = 1
  <2>1. r = d.meta /\ h[2] = r /\ Len(h) = 2 /\ h[1] = g[1]
    BY <1>1, <1>3, <1>10 DEF Tokens
  <2>2. g[1] = Source(d)
    BY <1>3, <1>10 DEF Heard
  <2>3. get_tokens(h) = "answered"
    BY <2>1 DEF get_tokens
  <2>4. Heard("tokens", arg, h, d, f)
    BY <2>1, <2>2 DEF Heard
  <2>5. Coherent("tokens", arg, h, d, f)
    BY <2>1 DEF Coherent
  <2> QED BY <1>2, <1>4, <1>6, <2>1, <2>3, <2>4, <2>5 DEF Sound
<1>11. CASE n = 2
  <2>1. r = d.meta /\ h[3] = r /\ Len(h) = 3 /\ h[1] = g[1] /\ h[2] = g[2]
    BY <1>1, <1>3, <1>11 DEF Tokens
  <2>2. g[1] = Source(d) /\ g[2] = d.meta
    BY <1>3, <1>11 DEF Heard
  <2>3. get_tokens(h) = "answered"
    BY <2>1, <2>2 DEF get_tokens
  <2>4. h[1].through = b
    BY <1>8, <2>1, <2>2
  <2>5. Covers(Source(d), d.calls.through) => Heard("tokens", arg, h, d, f)
    BY <2>1, <2>2 DEF Heard
  <2>6. Coherent("tokens", arg, h, d, f)
    BY <2>1, <2>2 DEF Coherent
  <2>7. Outcome("tokens", h) = "running" => Covers(Source(d), d.calls.through)
    BY <1>5, <1>6, <1>7, <1>11, <2>1, <2>2, <2>3, <2>4
  <2>8. Outcome("tokens", h) # "refused"
    BY <1>6, <2>3
  <2> QED BY <1>2, <1>4, <2>1, <2>5, <2>6, <2>7, <2>8 DEF Sound
<1>12. CASE n = 3
  <2>1. h[4] = r /\ Len(h) = 4 /\ h[1] = g[1] /\ h[2] = g[2] /\ h[3] = g[3]
    BY <1>3, <1>12
  <2>2. g[1] = Source(d) /\ g[2] = d.meta /\ g[3] = d.meta /\ Covers(Source(d), b)
    BY <1>3, <1>7, <1>12 DEF Heard
  <2>3. a > 0 /\ a <= b - Span /\ d.calls # NoCoverage
    BY <1>8, <2>2 DEF Covers
  <2>4. r = CallRows(d, b - Span, b)
    BY <1>1, <1>3, <1>8, <1>12, <2>2 DEF Tokens
  <2>5. AllCallsOf(CallRows(d, b - Span, b), b - Span, b, d)
    <3>1. b - Span \in Int /\ b \in Int /\ b - Span >= d.calls.from /\ b <= d.calls.through
      BY <1>7, <1>8, <2>3
    <3> QED BY <2>3, <3>1, CoveredRows
  <2>6. Coherent("tokens", arg, h, d, f)
    BY <1>8, <2>1, <2>2, <2>4, <2>5 DEF Coherent
  <2>7. get_tokens(h) = "answered"
    BY <2>1, <2>2 DEF get_tokens
  <2>8. Outcome("tokens", h) = "answered"
    BY <1>5, <1>6, <1>12, <2>7
  <2> QED BY <1>2, <2>6, <2>8 DEF Sound
<1> QED BY <1>3, <1>9, <1>10, <1>11, <1>12

\* fetch_nft_activity: the latest call of the covered range is the latest of all
\* from there to the checkpoint.
LEMMA NftSoundly ==
    ASSUME NEW d, Committed(d), NEW f, NEW arg, NEW g, IsResults(g), Len(g) < 2, Heard("nft", arg, g, d, f)
    PROVE  Sound("nft", arg, Append(g, Result("nft", arg, g, d)), d, f)
<1>1. PICK r : r = NftActivity(Len(g) + 1, d, g)
  OBVIOUS
<1>2. PICK h : h = Append(g, Result("nft", arg, g, d)) /\ r = Result("nft", arg, g, d)
  BY <1>1 DEF Result
<1>3. PICK n \in Nat : n = Len(g) /\ n < 2 /\ Len(h) = n + 1 /\ h[n + 1] = r /\ \A i \in 1..n : h[i] = g[i]
  BY <1>2, OneMore
<1>4. FetchOf["nft"].statements = 2
  BY StatementsOf
<1>5. Enough("nft", h) <=> n = 1 \/ ~Complete(h[1])
  BY <1>3, <1>4 DEF Enough
<1>6. Outcome("nft", h) = IF Enough("nft", h) THEN "answered" ELSE "running"
  BY DEF Outcome
<1>7. PICK a, b : a = d.calls.from /\ b = d.calls.through
  OBVIOUS
<1>8. /\ Source(d).from = a /\ Source(d).through = b /\ a \in Nat /\ b \in Nat
      /\ Complete(Source(d)) => a >= 1 /\ d.calls # NoCoverage /\ Source(d).indexed = b /\ b <= Len(SetAt)
  BY <1>7, SourceOf DEF Complete
<1>9. CASE n = 0
  <2>1. r = Source(d) /\ h[1] = r /\ Len(h) = 1
    BY <1>1, <1>3, <1>9 DEF NftActivity
  <2>2. Complete(Source(d)) => Heard("nft", arg, h, d, f)
    BY <2>1 DEF Heard
  <2>3. Coherent("nft", arg, h, d, f)
    BY <2>1 DEF Coherent
  <2>4. Outcome("nft", h) = "running" => Complete(Source(d))
    BY <1>5, <1>6, <2>1
  <2>5. Outcome("nft", h) # "refused"
    BY <1>6
  <2> QED BY <1>2, <1>4, <2>1, <2>2, <2>3, <2>4, <2>5 DEF Sound
<1>10. CASE n = 1
  <2>1. g[1] = Source(d) /\ Complete(Source(d)) /\ h[1] = g[1] /\ h[2] = r
    BY <1>3, <1>10 DEF Heard
  <2>2. PICK C : C = CallsOf(a, b, d) /\ C = CallRows(d, a, b)
    BY <1>7, <1>8, <2>1, CoveredRows
  <2>3. r = {x \in C : \A y \in C : y = x \/ Below(y, x)}
    BY <1>1, <1>3, <1>8, <1>10, <2>1, <2>2 DEF NftActivity
  <2>4. ASSUME NEW y \in C PROVE \E x \in r : x = y \/ Below(y, x)
    <3>1. PICK x \in C : \A z \in C : z = x \/ Below(z, x)
      <4>1. a \in Nat \ {0} /\ b \in Nat /\ b <= Len(SetAt) /\ y \in CallsOf(a, b, d)
        BY <1>8, <2>1, <2>2, <2>4
      <4>2. \E x \in CallsOf(a, b, d) : \A z \in CallsOf(a, b, d) : z = x \/ Below(z, x)
        BY ONLY <4>1, LatestCall
      <4> QED BY <2>2, <4>2
    <3>2. x \in r
      BY <2>3, <3>1
    <3> QED BY <3>1, <3>2
  <2>5. h[1].from = a /\ h[1].indexed = b
    BY <1>8, <2>1
  <2>6. Coherent("nft", arg, h, d, f)
    BY <2>1, <2>2, <2>4, <2>5 DEF Coherent
  <2>7. Outcome("nft", h) = "answered"
    BY <1>5, <1>6, <1>10
  <2> QED BY <1>2, <2>6, <2>7 DEF Sound
<1> QED BY <1>3, <1>9, <1>10

\* The reads that ask each time what is committed.
LEMMA IsolatedOf ==
    \A k \in Kinds : FetchOf[k].isolated \/ k \in {"block", "validators", "validator", "signing", "catalog"}
<1> USE DEF FetchOf, Fetch
<1>1. /\ FetchOf["calls"].isolated /\ FetchOf["proposal"].isolated /\ FetchOf["namespaces"].isolated
      /\ FetchOf["top"].isolated /\ FetchOf["applications"].isolated /\ FetchOf["nft"].isolated
      /\ FetchOf["metadata"].isolated /\ FetchOf["tokens"].isolated
  BY DEF fetch_realm_calls, fetch_governance_proposal_detail, fetch_top_realm_namespaces,
         fetch_top_realms, fetch_top_realm_applications, fetch_nft_activity,
         fetch_realm_metadata, fetch_token_candidates
<1> HIDE DEF FetchOf, Fetch
<1> QED BY <1>1, StatementsOf

\* A statement of any read.
LEMMA ReadSoundly ==
    ASSUME NEW d, Committed(d), NEW f, NEW kind \in Kinds, NEW arg, NEW g, IsResults(g),
           Len(g) < FetchOf[kind].statements, Heard(kind, arg, g, d, f)
    PROVE  Sound(kind, arg, Append(g, Result(kind, arg, g, d)), d, f)
<1>1. CASE kind = "block"
  BY <1>1, StatementsOf, BlockSoundly
<1>2. CASE kind = "validators"
  BY <1>2, StatementsOf, ValidatorsSoundly
<1>3. CASE kind = "validator"
  BY <1>3, StatementsOf, ValidatorSoundly
<1>4. CASE kind = "signing"
  BY <1>4, StatementsOf, SigningSoundly
<1>5. CASE kind = "calls"
  BY <1>5, StatementsOf, CallsSoundly
<1>6. CASE kind = "metadata"
  BY <1>6, StatementsOf, MetadataSoundly
<1>7. CASE kind = "proposal"
  BY <1>7, StatementsOf, ProposalSoundly
<1>8. CASE kind = "catalog"
  BY <1>8, StatementsOf, CatalogSoundly
<1>9. CASE kind = "top"
  BY <1>9, StatementsOf, TopSoundly
<1>10. CASE kind = "namespaces"
  BY <1>10, StatementsOf, NamespacesSoundly
<1>11. CASE kind = "applications"
  BY <1>11, StatementsOf, ApplicationsSoundly
<1>12. CASE kind = "tokens"
  BY <1>12, StatementsOf, TokensSoundly
<1>13. CASE kind = "nft"
  BY <1>13, StatementsOf, NftSoundly
<1>14. kind \in {"block", "validators", "validator", "signing", "calls", "metadata", "proposal",
                 "catalog", "top", "namespaces", "applications", "tokens", "nft"}
  BY StatementsOf
<1> QED BY <1>1, <1>2, <1>3, <1>4, <1>5, <1>6, <1>7, <1>8, <1>9, <1>10, <1>11, <1>12, <1>13, <1>14

\* The newest heights up to a stored one stay the same unless one is filled in.
LEMMA RecentKept ==
    ASSUME NEW d, Committed(d), NEW e, Committed(e), Grows(d, e), Unfilled(d, e), NEW h \in d.stored
    PROVE  Recent(e, h) = Recent(d, h)
<1>1. /\ d.stored \subseteq e.stored /\ d.stored \subseteq Heights /\ e.stored \subseteq Heights
      /\ Heights \subseteq Nat
  BY HeightsAre DEF Committed, Databases, Grows
<1>2. h <= Checkpoint(d) /\ Checkpoint(d) \in Nat
  BY <1>1, CheckpointStored
<1>3. \A y \in e.stored : y <= h => y \in d.stored
  BY <1>1, <1>2 DEF Unfilled
<1>4. \A x : {y \in e.stored : x <= y /\ y <= h} = {y \in d.stored : x <= y /\ y <= h}
  BY <1>1, <1>3
<1> QED BY <1>1, <1>3, <1>4 DEF Recent

\* A read that asks each time what is committed keeps what it has heard, unless
\* a height below the checkpoint is filled in, which is noted.
LEMMA HeardKept ==
    ASSUME NEW d, Committed(d), NEW e, Committed(e), Grows(d, e), NEW kind, NEW arg, NEW g,
           NEW f, Heard(kind, arg, g, d, f), NEW n, n \/ (n = f /\ Unfilled(d, e)),
           kind \in {"block", "validators", "validator", "signing", "catalog"}
    PROVE  Heard(kind, arg, g, e, n)
<1>1. d.stored \subseteq e.stored /\ d.catalog \subseteq e.catalog
  BY DEF Grows
<1>2. Catalog(d) \subseteq Catalog(e)
  BY <1>1 DEF Catalog
<1>3. CASE kind = "block"
  BY <1>1, <1>3 DEF Heard
<1>4. CASE kind = "validators"
  <2>1. SUFFICES ASSUME Len(g) >= 1
                 PROVE  g[1].height \in e.stored /\ (~n => g[1].blocks = Cardinality(Recent(e, g[1].height)))
    BY <1>4 DEF Heard
  <2>2. g[1].height \in d.stored /\ (~f => g[1].blocks = Cardinality(Recent(d, g[1].height)))
    BY <1>4, <2>1 DEF Heard
  <2>3. ASSUME ~n PROVE g[1].blocks = Cardinality(Recent(e, g[1].height))
    <3>1. ~f /\ Unfilled(d, e)
      BY <2>3
    <3>2. Recent(e, g[1].height) = Recent(d, g[1].height)
      BY <2>2, <3>1, RecentKept
    <3> QED BY <2>2, <3>1, <3>2
  <2> QED BY <1>1, <2>2, <2>3
<1>5. CASE kind = "validator"
  BY <1>1, <1>5 DEF Heard
<1>6. CASE kind = "signing"
  BY <1>6 DEF Heard
<1>7. CASE kind = "catalog"
  BY <1>2, <1>7 DEF Heard
<1> QED BY <1>3, <1>4, <1>5, <1>6, <1>7

\* Before its first statement a read has heard nothing.
LEMMA NothingHeard == \A kind, arg, d, f : Heard(kind, arg, <<>>, d, f)
<1>1. Len(<<>>) = 0
  OBVIOUS
<1> QED BY <1>1 DEF Heard

\* The answer of a read without snapshot is not compared with one.
LEMMA CoherentAlone ==
    ASSUME NEW kind \in {"block", "validators", "validator", "signing", "catalog"},
           NEW arg, NEW g, NEW d, NEW f, Coherent(kind, arg, g, d, f), NEW e
    PROVE  Coherent(kind, arg, g, e, f)
<1>1. CASE kind = "block"
  BY <1>1 DEF Coherent
<1>2. CASE kind = "validators"
  BY <1>2 DEF Coherent
<1>3. CASE kind = "validator"
  BY <1>3 DEF Coherent
<1>4. CASE kind = "signing"
  BY <1>4 DEF Coherent
<1>5. CASE kind = "catalog"
  BY <1>5 DEF Coherent
<1> QED BY <1>1, <1>2, <1>3, <1>4, <1>5

\* A read that runs has heard what its snapshot, or the database, says.
ReadSound(q, d) ==
    /\ q = [state |-> q.state, kind |-> q.kind, arg |-> q.arg, snap |-> q.snap, got |-> q.got,
            filled |-> q.filled]
    /\ q.filled \in BOOLEAN
    /\ q.state = "running" =>
         /\ q.kind \in Kinds /\ IsResults(q.got) /\ Len(q.got) < FetchOf[q.kind].statements
         /\ IF FetchOf[q.kind].isolated
              THEN q.got # <<>> => Committed(q.snap) /\ Heard(q.kind, q.arg, q.got, q.snap, q.filled)
              ELSE Heard(q.kind, q.arg, q.got, d, q.filled)
    /\ q.state = "refused" => q.kind = "signing"
    /\ q.state = "answered" => Coherent(q.kind, q.arg, q.got, q.snap, q.filled)

ReadsInv == Committed(db) /\ ReadSound(read, db)

\* The next statement of the read under way.
LEMMA StatementSound ==
    ASSUME ReadsInv, Statement
    PROVE  ReadSound(read', db)
<1>1. PICK q, d : q = read /\ d = db
  OBVIOUS
<1>2. PICK kind, arg, g, iso, f :
        /\ kind = q.kind /\ arg = q.arg /\ g = q.got /\ iso = FetchOf[q.kind].isolated
        /\ f = q.filled
  OBVIOUS
<1>3. PICK seen : seen = IF iso /\ g # <<>> THEN q.snap ELSE d
  OBVIOUS
<1>4. PICK h : h = Append(g, Result(kind, arg, g, seen))
  OBVIOUS
<1>5. PICK out : out = Outcome(kind, h)
  OBVIOUS
<1>6. PICK snap : snap = IF iso /\ out \in {"running", "answered"} THEN seen ELSE NoSnap
  OBVIOUS
<1>7. /\ q = [state |-> q.state, kind |-> q.kind, arg |-> q.arg, snap |-> q.snap, got |-> q.got,
              filled |-> q.filled]
      /\ Committed(d) /\ q.state = "running" /\ kind \in Kinds /\ IsResults(g) /\ f \in BOOLEAN
      /\ Len(g) < FetchOf[kind].statements
      /\ iso /\ g # <<>> => Committed(q.snap) /\ Heard(kind, arg, g, q.snap, f)
      /\ ~iso => Heard(kind, arg, g, d, f)
  BY <1>1, <1>2 DEF ReadsInv, ReadSound, Statement
<1>8. read' = [q EXCEPT !.got = h, !.state = out, !.snap = snap]
  BY <1>1, <1>2, <1>3, <1>4, <1>5, <1>6 DEF Statement
<1>9. Committed(seen) /\ Heard(kind, arg, g, seen, f)
  <2>1. CASE iso /\ g # <<>>
    BY <1>3, <1>7, <2>1
  <2>2. CASE iso /\ g = <<>>
    BY <1>3, <1>7, <2>2, NothingHeard
  <2>3. CASE ~iso
    BY <1>3, <1>7, <2>3
  <2> QED BY <2>1, <2>2, <2>3
<1>10. Sound(kind, arg, h, seen, f)
  BY <1>4, <1>7, <1>9, ReadSoundly
<1>11. IsResults(h)
  BY <1>4, <1>7, OneMore
<1>12. read' = [state |-> out, kind |-> kind, arg |-> arg, snap |-> snap, got |-> h, filled |-> f]
  BY <1>2, <1>7, <1>8
<1>13. /\ read'.state = out /\ read'.kind = kind /\ read'.arg = arg /\ read'.snap = snap
       /\ read'.got = h /\ read'.filled = f
  BY <1>12
<1>14. out = "running" => Heard(kind, arg, h, seen, f) /\ Len(h) < FetchOf[kind].statements
  BY <1>5, <1>10 DEF Sound
<1>15. (out = "answered" => Coherent(kind, arg, h, seen, f)) /\ (out = "refused" => kind = "signing")
  BY <1>5, <1>10 DEF Sound
<1>16. out = "running" /\ iso => Committed(snap) /\ Heard(kind, arg, h, snap, f)
  BY <1>6, <1>9, <1>14
<1>17. out = "running" /\ ~iso => Heard(kind, arg, h, db, f)
  BY <1>1, <1>3, <1>14
<1>18. iso = FetchOf[kind].isolated
  BY <1>2
<1>19. read'.state = "running" =>
         /\ read'.kind \in Kinds /\ IsResults(read'.got) /\ Len(read'.got) < FetchOf[read'.kind].statements
         /\ IF FetchOf[read'.kind].isolated
              THEN read'.got # <<>> =>
                     Committed(read'.snap) /\ Heard(read'.kind, read'.arg, read'.got, read'.snap, read'.filled)
              ELSE Heard(read'.kind, read'.arg, read'.got, db, read'.filled)
  BY ONLY <1>7, <1>11, <1>13, <1>14, <1>16, <1>17, <1>18
<1>20. read' = [state |-> read'.state, kind |-> read'.kind, arg |-> read'.arg, snap |-> read'.snap,
                got |-> read'.got, filled |-> read'.filled]
  BY ONLY <1>12, <1>13
<1>21. ASSUME out = "answered" PROVE Coherent(kind, arg, h, snap, f)
  <2>1. CASE iso
    BY <1>6, <1>15, <1>21, <2>1
  <2>2. CASE ~iso
    <3>1. kind \in {"block", "validators", "validator", "signing", "catalog"}
      BY <1>7, <1>18, <2>2, IsolatedOf
    <3> QED BY <1>15, <1>21, <3>1, CoherentAlone
  <2> QED BY <2>1, <2>2
<1>22. read'.filled \in BOOLEAN
  BY <1>7, <1>13
<1> QED BY ONLY <1>13, <1>15, <1>19, <1>20, <1>21, <1>22 DEF ReadSound

\* A commit takes nothing from a read, as long as no height is filled in.
LEMMA ReadKept ==
    ASSUME NEW q, NEW d, NEW e, ReadSound(q, d), Committed(d), Committed(e), Grows(d, e),
           Unfilled(d, e) \/ q.state # "running"
    PROVE  ReadSound(q, e)
<1>1. CASE q.state # "running"
  BY <1>1 DEF ReadSound
<1>2. CASE q.state = "running" /\ FetchOf[q.kind].isolated
  BY <1>2 DEF ReadSound
<1>3. CASE q.state = "running" /\ ~FetchOf[q.kind].isolated
  <2>1. q.kind \in Kinds /\ Heard(q.kind, q.arg, q.got, d, q.filled)
    BY <1>3 DEF ReadSound
  <2>2. q.kind \in {"block", "validators", "validator", "signing", "catalog"}
    BY <1>3, <2>1, IsolatedOf
  <2>3. Unfilled(d, e)
    BY <1>3
  <2>4. Heard(q.kind, q.arg, q.got, e, q.filled)
    BY <2>1, <2>2, <2>3, HeardKept
  <2> QED BY <1>3, <2>4 DEF ReadSound
<1> QED BY <1>1, <1>2, <1>3

\* What is heard is less once a height is filled in.
LEMMA HeardLess ==
    ASSUME NEW kind, NEW arg, NEW g, NEW d, NEW f, Heard(kind, arg, g, d, f)
    PROVE  Heard(kind, arg, g, d, TRUE)
  BY DEF Heard

\* A read goes on after IndexOlder.
LEMMA OlderRead ==
    ASSUME ReadSound(read, db), Committed(db), Committed(db'), Grows(db, db'), IndexOlder
    PROVE  ReadSound(read', db')
<1>1. PICK h, parsed :
        /\ h \in Heights
        /\ db' = Written(db, h, parsed)
        /\ read' = [read EXCEPT !.filled = @ \/ (read.state = "running" /\ h \notin db.stored)]
  BY DEF IndexOlder
<1>2. PICK q, f : q = read /\ f = (q.filled \/ (q.state = "running" /\ h \notin db.stored))
  OBVIOUS
<1>3. /\ q = [state |-> q.state, kind |-> q.kind, arg |-> q.arg, snap |-> q.snap, got |-> q.got,
              filled |-> q.filled]
      /\ q.filled \in BOOLEAN
  BY <1>2 DEF ReadSound
<1>4. read' = [state |-> q.state, kind |-> q.kind, arg |-> q.arg, snap |-> q.snap, got |-> q.got,
               filled |-> f]
  BY <1>1, <1>2, <1>3
<1>5. CASE q.state # "running" \/ h \in db.stored
  <2>1. f = q.filled
    BY <1>2, <1>3, <1>5
  <2>2. read' = q
    BY <1>3, <1>4, <2>1
  <2>3. Unfilled(db, db') \/ q.state # "running"
    <3>0. db \in Databases
      BY DEF Committed
    <3>2. db'.stored = db.stored \cup {h}
      BY <1>1, <3>0, WrittenFields
    <3>1. h \in db.stored => db'.stored = db.stored
      BY <3>2
    <3> QED BY <1>5, <3>1 DEF Unfilled
  <2> QED BY <1>2, <2>2, <2>3, ReadKept
<1>6. CASE q.state = "running" /\ h \notin db.stored
  <2>1. f = TRUE
    BY <1>2, <1>6
  <2>2. /\ read'.state = "running" /\ read'.kind = q.kind /\ read'.arg = q.arg /\ read'.snap = q.snap
        /\ read'.got = q.got /\ read'.filled = TRUE
    BY <1>4, <1>6, <2>1
  <2>3. /\ q.kind \in Kinds /\ IsResults(q.got) /\ Len(q.got) < FetchOf[q.kind].statements
        /\ IF FetchOf[q.kind].isolated
             THEN q.got # <<>> => Committed(q.snap) /\ Heard(q.kind, q.arg, q.got, q.snap, q.filled)
             ELSE Heard(q.kind, q.arg, q.got, db, q.filled)
    BY <1>2, <1>6 DEF ReadSound
  <2>4. ASSUME ~FetchOf[q.kind].isolated PROVE Heard(q.kind, q.arg, q.got, db', TRUE)
    <3>1. q.kind \in {"block", "validators", "validator", "signing", "catalog"}
      BY <2>3, <2>4, IsolatedOf
    <3>2. Heard(q.kind, q.arg, q.got, db, q.filled)
      BY <2>3, <2>4
    <3>3. TRUE \/ (TRUE = q.filled /\ Unfilled(db, db'))
      OBVIOUS
    <3> QED BY <3>1, <3>2, <3>3, HeardKept
  <2>5. FetchOf[q.kind].isolated /\ q.got # <<>> => Committed(q.snap) /\ Heard(q.kind, q.arg, q.got, q.snap, TRUE)
    BY <2>3, HeardLess
  <2>6. read' = [state |-> read'.state, kind |-> read'.kind, arg |-> read'.arg, snap |-> read'.snap,
                 got |-> read'.got, filled |-> read'.filled]
    BY ONLY <1>4, <2>1, <2>2, <1>6
  <2> QED BY <2>2, <2>3, <2>4, <2>5, <2>6 DEF ReadSound
<1> QED BY <1>5, <1>6

\* Without a read, and at the start of one.
LEMMA ReadBegins ==
    /\ \A d : ReadSound(NoRead, d)
    /\ \A d : \A kind \in Kinds : \A arg :
         ReadSound([NoRead EXCEPT !.state = "running", !.kind = kind, !.arg = arg], d)
<1>1. ASSUME NEW d PROVE ReadSound(NoRead, d)
  <2>1. PICK q : q = [state |-> "idle", kind |-> "none", arg |-> 0, snap |-> NoSnap, got |-> <<>>,
                      filled |-> FALSE]
    OBVIOUS
  <2>2. /\ q = [state |-> q.state, kind |-> q.kind, arg |-> q.arg, snap |-> q.snap, got |-> q.got,
                filled |-> q.filled]
        /\ q.state = "idle" /\ q.filled = FALSE
    BY <2>1
  <2>3. ReadSound(q, d)
    BY <2>2 DEF ReadSound
  <2> QED BY <2>1, <2>3 DEF NoRead
<1>2. ASSUME NEW d, NEW kind \in Kinds, NEW arg
      PROVE  ReadSound([NoRead EXCEPT !.state = "running", !.kind = kind, !.arg = arg], d)
  <2>0. [NoRead EXCEPT !.state = "running", !.kind = kind, !.arg = arg] =
          [state |-> "running", kind |-> kind, arg |-> arg, snap |-> NoSnap, got |-> <<>>, filled |-> FALSE]
    <3>1. PICK q : q = [state |-> "idle", kind |-> "none", arg |-> 0, snap |-> NoSnap, got |-> <<>>,
                        filled |-> FALSE]
      OBVIOUS
    <3>2. NoRead = q
      BY <3>1 DEF NoRead
    <3>3. PICK a, z, g, b : a = 0 /\ z = NoSnap /\ g = <<>> /\ b = FALSE
      OBVIOUS
    <3>4. [q EXCEPT !.state = "running", !.kind = kind, !.arg = arg] =
            [state |-> "running", kind |-> kind, arg |-> arg, snap |-> z, got |-> g, filled |-> b]
      <4>1. q = [state |-> "idle", kind |-> "none", arg |-> a, snap |-> z, got |-> g, filled |-> b]
        BY <3>1, <3>3
      <4>2. PICK p : p = [q EXCEPT !.state = "running"]
        OBVIOUS
      <4>3. p = [state |-> "running", kind |-> "none", arg |-> a, snap |-> z, got |-> g, filled |-> b]
        BY <4>1, <4>2
      <4>4. PICK o : o = [p EXCEPT !.kind = kind]
        OBVIOUS
      <4>5. o = [state |-> "running", kind |-> kind, arg |-> a, snap |-> z, got |-> g, filled |-> b]
        BY <4>3, <4>4
      <4>6. [o EXCEPT !.arg = arg] =
              [state |-> "running", kind |-> kind, arg |-> arg, snap |-> z, got |-> g, filled |-> b]
        BY <4>5
      <4>7. [q EXCEPT !.state = "running", !.kind = kind, !.arg = arg] = [o EXCEPT !.arg = arg]
        BY <4>2, <4>4
      <4> QED BY <4>6, <4>7
    <3> QED BY <3>2, <3>3, <3>4
  <2>1. PICK q : q = [state |-> "running", kind |-> kind, arg |-> arg, snap |-> NoSnap, got |-> <<>>,
                      filled |-> FALSE]
    OBVIOUS
  <2>2. /\ q = [state |-> q.state, kind |-> q.kind, arg |-> q.arg, snap |-> q.snap, got |-> q.got,
                filled |-> q.filled]
        /\ q.state = "running" /\ q.kind = kind /\ q.arg = arg /\ q.got = <<>> /\ q.filled = FALSE
    BY <2>1
  <2>3. IsResults(<<>>) /\ Len(<<>>) = 0
    <3>1. <<>> \in Seq(Nat) /\ Len(<<>>) = 0
      OBVIOUS
    <3> QED BY <3>1 DEF IsResults
  <2>4. FetchOf[kind].statements \in {2, 3, 4}
    BY StatementsOf
  <2>5. Heard(kind, arg, <<>>, d, FALSE)
    BY NothingHeard
  <2>6. ReadSound(q, d)
    <3>1. /\ q.kind \in Kinds /\ IsResults(q.got) /\ Len(q.got) < FetchOf[q.kind].statements
          /\ Heard(q.kind, q.arg, q.got, d, q.filled) /\ q.filled \in BOOLEAN
          /\ q.state # "refused" /\ q.state # "answered" /\ ~(q.got # <<>>)
      <4>1. q.kind \in Kinds /\ Len(q.got) < FetchOf[q.kind].statements
        BY <2>2, <2>3, <2>4
      <4>2. Heard(q.kind, q.arg, q.got, d, q.filled) /\ IsResults(q.got)
        BY <2>2, <2>3, <2>5, Zenon
      <4> QED BY <2>2, <4>1, <4>2
    <3> QED BY <2>2, <3>1 DEF ReadSound
  <2> QED BY <2>0, <2>1, <2>6
<1> QED BY <1>1, <1>2

\* Every step of the writers and the client keeps the invariant of reads.
LEMMA ReadsStep == ReadsInv /\ [ReadsNext]_readsVars => ReadsInv'
<1> SUFFICES ASSUME ReadsInv, [ReadsNext]_readsVars PROVE ReadsInv'
  OBVIOUS
<1>1. Committed(db) /\ ReadSound(read, db)
  BY DEF ReadsInv
<1>2. CASE Commits
  <2>1. Committed(db') /\ Grows(db, db')
    BY <1>1, <1>2, CommitGrows
  <2>2. CASE Keeps(db, db') /\ read' = read
    <3>1. ReadSound(read, db')
      BY <1>1, <2>1, <2>2, ReadKept DEF Keeps
    <3> QED BY <2>1, <2>2, <3>1 DEF ReadsInv
  <2>3. CASE IndexOlder
    <3>1. ReadSound(read', db')
      BY <1>1, <2>1, <2>3, OlderRead
    <3> QED BY <2>1, <3>1 DEF ReadsInv
  <2> QED BY <1>1, <1>2, <2>2, <2>3, CommitGrows
<1>3. ASSUME NEW kind \in Kinds, NEW arg, Ask(kind, arg) PROVE ReadsInv'
  <2>1. db' = db /\ read' = [NoRead EXCEPT !.state = "running", !.kind = kind, !.arg = arg]
    BY <1>3 DEF Ask
  <2>2. ReadSound(read', db)
    BY <2>1, ReadBegins
  <2> QED BY <1>1, <2>1, <2>2 DEF ReadsInv
<1>4. CASE Statement
  <2>1. db' = db
    BY <1>4 DEF Statement
  <2> QED BY <1>1, <1>4, <2>1, StatementSound DEF ReadsInv
<1>5. ASSUME NEW kind, Walk(kind) PROVE ReadsInv'
  <2>1. db' = db /\ read' = NoRead
    BY <1>5 DEF Walk
  <2> QED BY <1>1, <2>1, ReadBegins DEF ReadsInv
<1>6. CASE NextPage \/ UNCHANGED readsVars
  <2>1. db' = db /\ read' = read
    BY <1>6 DEF NextPage, readsVars
  <2> QED BY <1>1, <2>1 DEF ReadsInv
<1> QED BY <1>2, <1>3, <1>4, <1>5, <1>6 DEF ReadsNext, Commits

\* Whatever is committed between the statements of a read, on any chain: what
\* an answer says fits together, and only a signing matrix is ever refused as
\* malformed (ReadsCoherent).
THEOREM ReadsAreCoherent == ReadsSpec => []ReadsCoherent
<1>1. ReadsInit => ReadsInv
  <2> SUFFICES ASSUME ReadsInit PROVE ReadsInv
    OBVIOUS
  <2>1. read = NoRead
    BY DEF ReadsInit
  <2> QED BY <2>1, ReadsInitCommitted, ReadBegins DEF ReadsInv
<1>2. ReadsInv => ReadsCoherent
  BY DEF ReadsInv, ReadSound, ReadsCoherent
<1> QED BY <1>1, <1>2, ReadsStep, PTL DEF ReadsSpec
=============================================================================

---------------------------- MODULE IndexerProofs ---------------------------
(***************************************************************************)
(* Proofs about Indexer and IndexRange for any number of processes,        *)
(* endpoints, histories, heights and faults.                               *)
(***************************************************************************)
EXTENDS IndexRange, TLAPS

InCycle == PC \ {"down", "acquire", "loop", "anchor", "recheck", "sleep"}
Using == {"head", "select", "fetch", "begin", "commit"}

(* The inductive invariant of one process p against stored blocks B and    *)
(* checkpoint c.  What the properties leave out and induction needs:       *)
(* nothing is activated outside the loop over heights; an endpoint that is *)
(* activated and can still serve the height is the one in use; a fetched   *)
(* block continues the expected hash; the checkpoint a transaction has     *)
(* read is not ahead of the stored one.                                    *)
Extends(p, B) ==
    p.pc \in InCycle =>
        \/ p.expected = None /\ p.height >= 1
        \/ /\ p.height - 1 \in DOMAIN B
           /\ B[p.height - 1].hash = p.expected

OneInUse(p) ==
    /\ p.pc \notin Using => p.activated = {}
    /\ \A e \in p.activated :
          p.latest[e] - 1 >= p.height => p.active = e /\ p.selId = e
    /\ p.pc \in {"fetch", "begin", "commit"} =>
          /\ p.active \in p.activated
          /\ p.latest[p.active] - 1 >= p.height

Fetched(p) ==
    p.pc \in {"begin", "commit"} =>
        /\ p.block \in Block /\ p.height <= MaxHeight
        /\ p.expected # None => p.block.parent = p.expected

SeenNotAhead(p, c) == p.pc = "commit" => p.seen <= c

ProcOK(p, B, c) == Extends(p, B) /\ OneInUse(p) /\ Fetched(p) /\ SeenNotAhead(p, c)

ProcInv == TypeOK /\ \A w \in Writers : ProcOK(ix[w], blocks, checkpoint)

(* Why a process has a hash to extend: as long as no lock session died,    *)
(* whoever is past the lock holds it, so that nobody commits between the   *)
(* two reads of a process that finds no anchor.                            *)
Anchored(w) ==
    LET p == ix[w] IN
    /\ p.pc \in InCycle /\ p.expected = None =>
          \/ p.height = StartHeight
          \/ audit.lost /\ p.height - 1 \in DOMAIN blocks
    /\ ~audit.lost =>
          /\ p.pc \notin {"down", "acquire"} => lockHolder = w
          /\ p.pc = "recheck" => checkpoint = NoRow

\* With what the processes keep true of the rows of the chain.
IInv ==
    /\ ProcInv /\ \A w \in Writers : Anchored(w)
    /\ NoGaps /\ ChainLinked /\ CoverageExact

-----------------------------------------------------------------------------
\* A process outside a cycle satisfies the invariant whatever is stored.
LEMMA FreshOK ==
    ASSUME NEW pc \in {"down", "acquire", "loop", "sleep"}, NEW stop \in BOOLEAN,
           NEW selId \in Endpoints \cup {None},
           NEW B, NEW c
    PROVE  Fresh(pc, stop, selId) \in Process /\ ProcOK(Fresh(pc, stop, selId), B, c)
<1> DEFINE q == Fresh(pc, stop, selId)
<1>1. q \in Process
  BY HeightAssumption, IndexerAssumption DEF Fresh, Process, PC, Latest, Tip, Heights, NoRow
<1>2. ProcOK(q, B, c)
  BY DEF Fresh, ProcOK, Extends, OneInUse, Fetched, SeenNotAhead, InCycle, Using
<1> QED BY <1>1, <1>2

\* A step of one process that leaves the chain's rows alone.
LEMMA ProcessStep ==
    ASSUME ProcInv, NEW w \in Writers, NEW q \in Process,
           ix' = [ix EXCEPT ![w] = q],
           ProcOK(q, blocks, checkpoint),
           UNCHANGED chainVars,
           selected' \in Endpoints \cup {None},
           lockHolder' \in Writers \cup {None},
           faults' \in 0..MaxFaults, audit' = audit
    PROVE  ProcInv'
<1>1. TypeOK'
  BY DEF ProcInv, TypeOK, StoreTypeOK, chainVars
<1>3. ASSUME NEW v \in Writers PROVE ProcOK(ix[v], blocks, checkpoint)'
  <2>1. CASE v = w
    BY <2>1 DEF ProcInv, TypeOK, chainVars
  <2>2. CASE v # w
    <3>1. ix'[v] = ix[v]
      BY <2>2 DEF ProcInv, TypeOK
    <3> QED BY <3>1 DEF ProcInv, chainVars
  <2> QED BY <2>1, <2>2
<1> QED BY <1>1, <1>3 DEF ProcInv

\* Leaving the process closes its lock session.
LEMMA ExitStep ==
    ASSUME ProcInv, NEW w \in Writers, Exit(w), UNCHANGED storeVars,
           faults' \in 0..MaxFaults, audit' = audit
    PROVE  ProcInv'
<1> DEFINE q == Fresh("down", ix[w].stop, None)
<1>1. q \in Process /\ ProcOK(q, blocks, checkpoint)
  BY FreshOK DEF ProcInv, TypeOK, Process
<1>2. ix' = [ix EXCEPT ![w] = q]
  BY DEF Exit
<1>3. UNCHANGED chainVars /\ selected' \in Endpoints \cup {None}
  BY DEF storeVars, chainVars, ProcInv, TypeOK, StoreTypeOK
<1>4. lockHolder' \in Writers \cup {None}
  BY DEF Exit, ProcInv, TypeOK
<1> HIDE DEF q
<1> QED BY <1>1, <1>2, <1>3, <1>4, ProcessStep

\* Leaving the cycle drops everything that belongs to it.
LEMMA LeaveCycleStep ==
    ASSUME ProcInv, NEW w \in Writers, NEW pc \in {"loop", "sleep"}, LeaveCycle(w, pc),
           UNCHANGED storeVars, lockHolder' = lockHolder,
           faults' \in 0..MaxFaults, audit' = audit
    PROVE  ProcInv'
<1> DEFINE q == Fresh(pc, ix[w].stop, ix[w].selId)
<1>1. q \in Process /\ ProcOK(q, blocks, checkpoint)
  <2>1. ix[w].stop \in BOOLEAN /\ ix[w].selId \in Endpoints \cup {None}
    BY DEF ProcInv, TypeOK, Process
  <2> QED BY <2>1, FreshOK
<1>2. ix' = [ix EXCEPT ![w] = q]
  BY DEF LeaveCycle
<1>3. UNCHANGED chainVars /\ selected' \in Endpoints \cup {None}
  BY DEF storeVars, chainVars, ProcInv, TypeOK, StoreTypeOK
<1>4. lockHolder' \in Writers \cup {None}
  BY DEF ProcInv, TypeOK
<1> HIDE DEF q
<1> QED BY <1>1, <1>2, <1>3, <1>4, ProcessStep

-----------------------------------------------------------------------------
(* The steps that write no height, one lemma for each phase of a process.  *)

\* Starting, giving up, and the head of the loop preserve the invariant.
LEMMA LoopSteps ==
    ASSUME ProcInv, NEW w \in Writers,
           Start(w) \/ AcquireLock(w) \/ BeginCycle(w) \/ Wake(w) \/ Operated(w)
    PROVE  ProcInv'
<1> USE DEF ProcInv, TypeOK
<1>0. faults \in 0..MaxFaults /\ lockHolder \in Writers \cup {None} /\ ix[w] \in Process
  OBVIOUS
<1>1. ASSUME NEW pc \in {"acquire", "loop", "anchor"}, ix' = [ix EXCEPT ![w].pc = pc],
             ix[w].pc \in {"down", "acquire", "loop"},
             UNCHANGED <<storeVars, faults, audit>>, lockHolder' \in Writers \cup {None}
      PROVE  ProcInv'
  <2> DEFINE q == [ix[w] EXCEPT !.pc = pc]
  <2>1. q \in Process
    BY <1>0 DEF Process, PC
  <2>2. ProcOK(q, blocks, checkpoint)
    <3>1. ProcOK(ix[w], blocks, checkpoint)
      OBVIOUS
    <3>2. q.pc = pc /\ q.activated = ix[w].activated
      BY <1>0 DEF Process
    <3>3. ix[w].activated = {}
      BY <1>1, <3>1 DEF ProcOK, OneInUse, Using
    <3> QED BY <3>2, <3>3
              DEF ProcOK, Extends, OneInUse, Fetched, SeenNotAhead, InCycle, Using
  <2>3. ix' = [ix EXCEPT ![w] = q]
    BY <1>1
  <2>4. UNCHANGED chainVars /\ selected' \in Endpoints \cup {None} /\ faults' \in 0..MaxFaults
        /\ audit' = audit
    BY <1>0, <1>1 DEF storeVars, chainVars, StoreTypeOK
  <2> HIDE DEF q, ProcInv
  <2> QED BY <1>1, <2>1, <2>2, <2>3, <2>4, ProcessStep
<1>2. CASE Start(w)
  BY <1>0, <1>1, <1>2 DEF Start
<1>3. CASE AcquireLock(w)
  <2>1. CASE ix[w].stop \/ lockHolder # None
    BY <1>0, <1>3, <2>1, ExitStep DEF AcquireLock
  <2>2. CASE ~(ix[w].stop \/ lockHolder # None)
    BY <1>0, <1>1, <1>3, <2>2 DEF AcquireLock
  <2> QED BY <2>1, <2>2
<1>4. CASE BeginCycle(w)
  <2>1. CASE ix[w].stop \/ lockHolder # w
    BY <1>0, <1>4, <2>1, ExitStep DEF BeginCycle
  <2>2. CASE ~(ix[w].stop \/ lockHolder # w)
    BY <1>0, <1>1, <1>4, <2>2 DEF BeginCycle
  <2> QED BY <2>1, <2>2
<1>5. CASE Wake(w)
  <2>1. CASE ix[w].stop
    BY <1>0, <1>5, <2>1, ExitStep DEF Wake
  <2>2. CASE ~ix[w].stop
    BY <1>0, <1>5, <2>2, LeaveCycleStep DEF Wake
  <2> QED BY <2>1, <2>2
<1>6. CASE Operated(w)
  <2>1. PICK q : /\ q \in {Fresh("acquire", FALSE, None), Fresh("down", TRUE, None)}
                 /\ ix' = [ix EXCEPT ![w] = q]
    BY <1>6 DEF Operated, OperatorStart, StartLimitHit
  <2>2. q \in Process /\ ProcOK(q, blocks, checkpoint)
    BY <2>1, FreshOK
  <2>3. UNCHANGED chainVars /\ selected' \in Endpoints \cup {None}
        /\ faults' \in 0..MaxFaults /\ audit' = audit
        /\ lockHolder' \in Writers \cup {None}
    BY <1>0, <1>6 DEF Operated, OperatorStart, StartLimitHit, storeVars, chainVars, StoreTypeOK
  <2> HIDE DEF ProcInv, TypeOK
  <2> QED BY <2>1, <2>2, <2>3, ProcessStep
<1> QED BY <1>2, <1>3, <1>4, <1>5, <1>6

\* ReadAnchor takes the hash to extend from the store, ReadCheckpoint only
\* the height.
LEMMA ReadAnchorStep ==
    ASSUME ProcInv, NEW w \in Writers, ReadAnchor(w) \/ ReadCheckpoint(w)
    PROVE  ProcInv'
<1>0. /\ faults \in 0..MaxFaults /\ lockHolder \in Writers \cup {None}
      /\ ix[w] \in Process /\ ix[w].pc \in {"anchor", "recheck"} /\ checkpoint \in Heights
      /\ ProcOK(ix[w], blocks, checkpoint) /\ ix[w].activated = {}
  BY DEF ProcInv, TypeOK, StoreTypeOK, ReadAnchor, ReadCheckpoint, ProcOK, OneInUse, Using
<1>1. CASE ReadAnchor(w) /\ checkpoint # NoRow /\ checkpoint \notin DOMAIN blocks
  BY <1>0, <1>1, ExitStep DEF ReadAnchor
<1>2. ASSUME NEW q \in Process, ix' = [ix EXCEPT ![w] = q], ProcOK(q, blocks, checkpoint),
             UNCHANGED <<storeVars, lockHolder, faults, audit>>
      PROVE  ProcInv'
  <2>1. UNCHANGED chainVars /\ selected' \in Endpoints \cup {None}
    BY <1>2 DEF storeVars, chainVars, ProcInv, TypeOK, StoreTypeOK
  <2> QED BY <1>0, <1>2, <2>1, ProcessStep
<1>3. CASE ReadAnchor(w) /\ checkpoint = NoRow
  <2> DEFINE q == [ix[w] EXCEPT !.pc = "recheck"]
  <2>1. ix' = [ix EXCEPT ![w] = q] /\ UNCHANGED <<storeVars, lockHolder, faults, audit>>
    BY <1>3 DEF ReadAnchor
  <2>2. q \in Process /\ q.pc = "recheck" /\ q.activated = {}
    BY <1>0 DEF Process, PC
  <2>3. ProcOK(q, blocks, checkpoint)
    BY <2>2 DEF ProcOK, Extends, OneInUse, Fetched, SeenNotAhead, InCycle, Using
  <2> HIDE DEF q
  <2> QED BY <1>2, <2>1, <2>2, <2>3
<1>4. ASSUME NEW h \in 0..(MaxHeight + 1), NEW x \in Hashes \cup {None},
             \/ x = None /\ h >= 1
             \/ h - 1 \in DOMAIN blocks /\ blocks[h - 1].hash = x,
             ix' = [ix EXCEPT ![w] = [ix[w] EXCEPT !.pc = "probe", !.height = h, !.expected = x]],
             UNCHANGED <<storeVars, lockHolder, faults, audit>>
      PROVE  ProcInv'
  <2> DEFINE q == [ix[w] EXCEPT !.pc = "probe", !.height = h, !.expected = x]
  <2>1. q \in Process
    BY <1>0, <1>4 DEF Process, PC
  <2>2. q.pc = "probe" /\ q.height = h /\ q.expected = x /\ q.activated = {}
    BY <1>0 DEF Process
  <2>3. ProcOK(q, blocks, checkpoint)
    BY <1>4, <2>2 DEF ProcOK, Extends, OneInUse, Fetched, SeenNotAhead, InCycle, Using
  <2>4. ix' = [ix EXCEPT ![w] = q]
    BY <1>4
  <2> HIDE DEF q
  <2> QED BY <1>2, <1>4, <2>1, <2>3, <2>4
<1>5. CASE ReadAnchor(w) /\ checkpoint # NoRow /\ checkpoint \in DOMAIN blocks
  <2>1. checkpoint + 1 \in 0..(MaxHeight + 1) /\ (checkpoint + 1) - 1 = checkpoint
    BY <1>0, HeightAssumption DEF Heights
  <2>2. blocks[checkpoint].hash \in Hashes \cup {None}
    BY <1>5 DEF ProcInv, TypeOK, StoreTypeOK, Block
  <2>3. /\ ix' = [ix EXCEPT ![w] = [ix[w] EXCEPT !.pc = "probe", !.height = checkpoint + 1,
                                                 !.expected = blocks[checkpoint].hash]]
        /\ UNCHANGED <<storeVars, lockHolder, faults, audit>>
    BY <1>5 DEF ReadAnchor
  <2> QED BY <1>4, <1>5, <2>1, <2>2, <2>3
<1>6. CASE ReadCheckpoint(w)
  <2> DEFINE h == IF checkpoint = NoRow THEN StartHeight ELSE checkpoint + 1
  <2>1. h \in 0..(MaxHeight + 1) /\ h >= 1
    BY <1>0, HeightAssumption DEF Heights, NoRow
  <2>2. /\ ix' = [ix EXCEPT ![w] = [ix[w] EXCEPT !.pc = "probe", !.height = h,
                                                 !.expected = None]]
        /\ UNCHANGED <<storeVars, lockHolder, faults, audit>>
    BY <1>6 DEF ReadCheckpoint
  <2> HIDE DEF h
  <2> QED BY <1>4, <2>1, <2>2
<1> QED BY <1>1, <1>3, <1>5, <1>6

\* The three outcomes of a probe round.
LEMMA ProbeSteps ==
    ASSUME ProcInv, NEW w \in Writers, NEW r \in ProbeReports,
           \/ ProbeAllRejected(w, r)
           \/ ProbeCaughtUp(w, r)
           \/ \E p \in Latest : ProbePlan(w, r, p)
    PROVE  ProcInv'
<1>0. /\ ix[w] \in Process /\ ix[w].pc = "probe"
      /\ ProcOK(ix[w], blocks, checkpoint)
      /\ UNCHANGED chainVars /\ selected' \in Endpoints \cup {None}
      /\ lockHolder' \in Writers \cup {None} /\ faults' \in 0..MaxFaults /\ audit' = audit
  <2>1. faults \in Nat /\ MaxFaults \in Nat /\ faults <= MaxFaults
    BY IndexerAssumption DEF ProcInv, TypeOK
  <2>2. Charged(r)
    BY DEF ProbeAllRejected, ProbeCaughtUp, ProbePlan
  <2>3. faults' \in 0..MaxFaults
    BY <2>1, <2>2 DEF Charged
  <2> QED BY <2>3 DEF ProcInv, TypeOK, StoreTypeOK, ProbeAllRejected, ProbeCaughtUp, ProbePlan,
                  storeVars, chainVars
<1>1. \A S : Kept(r, S) \in [Endpoints -> Latest]
  BY HeightAssumption, IndexerAssumption DEF Kept, ProbeReports, Latest, Tip
<1>2. CASE ProbeAllRejected(w, r)
  <2> DEFINE q == Fresh("sleep", ix[w].stop, None)
  <2>1. q \in Process /\ ProcOK(q, blocks, checkpoint)
    BY <1>0, FreshOK DEF Process
  <2>2. ix' = [ix EXCEPT ![w] = q]
    BY <1>2 DEF ProbeAllRejected
  <2> HIDE DEF q
  <2> QED BY <1>0, <2>1, <2>2, ProcessStep
<1>3. ASSUME NEW q \in Process, q.pc \in {"idle", "head"},
             q.height = ix[w].height, q.expected = ix[w].expected,
             q.activated = ix[w].activated, ix' = [ix EXCEPT ![w] = q]
      PROVE  ProcInv'
  <2>1. ix[w].activated = {}
    BY <1>0 DEF ProcOK, OneInUse, Using
  <2>2. ProcOK(q, blocks, checkpoint)
    BY <1>0, <1>3, <2>1
       DEF ProcOK, Extends, OneInUse, Fetched, SeenNotAhead, InCycle, Using, PC
  <2> QED BY <1>0, <1>3, <2>2, ProcessStep
<1>4. CASE ProbeCaughtUp(w, r)
  <2> DEFINE q == [ix[w] EXCEPT !.pc = "idle", !.selId = None,
                                !.latest = Kept(r, Candidates(w, r))]
  <2>1. q \in Process
    BY <1>0, <1>1 DEF Process, PC
  <2>2. /\ q.pc = "idle" /\ q.height = ix[w].height /\ q.expected = ix[w].expected
        /\ q.activated = ix[w].activated
    BY <1>0 DEF Process
  <2>3. ix' = [ix EXCEPT ![w] = q]
    BY <1>4 DEF ProbeCaughtUp
  <2> HIDE DEF q
  <2> QED BY <1>3, <2>1, <2>2, <2>3
<1>5. CASE \E p \in Latest : ProbePlan(w, r, p)
  <2>1. PICK p \in Latest : ProbePlan(w, r, p)
    BY <1>5
  <2> DEFINE q == [ix[w] EXCEPT !.pc = "head", !.selId = None, !.planned = p,
                                !.latest = Kept(r, Usable(w, r))]
  <2>2. q \in Process
    BY <1>0, <1>1 DEF Process, PC
  <2>3. /\ q.pc = "head" /\ q.height = ix[w].height /\ q.expected = ix[w].expected
        /\ q.activated = ix[w].activated
    BY <1>0 DEF Process
  <2>4. ix' = [ix EXCEPT ![w] = q]
    BY <2>1 DEF ProbePlan
  <2> HIDE DEF q
  <2> QED BY <1>3, <2>2, <2>3, <2>4
<1> QED BY <1>2, <1>4, <1>5

\* Rejecting the endpoint in use, or one that was not activated.
LEMMA RejectStep ==
    ASSUME ProcInv, NEW w \in Writers, NEW e \in Endpoints, NEW pc \in {"idle", "select"},
           Reject(w, e, pc), UNCHANGED <<chainVars, lockHolder, faults, audit>>,
           ix[w].pc \in {"idle", "select", "fetch"},
           pc = "idle" <=> ix[w].pc = "idle",
           \A d \in ix[w].activated :
              d # e => ~(ix[w].latest[d] - 1 >= ix[w].height)
    PROVE  ProcInv'
<1> DEFINE l == [ix[w].latest EXCEPT ![e] = 0]
           i == IF selected = e THEN None ELSE ix[w].selId
           q == [ix[w] EXCEPT !.pc = pc, !.active = None, !.latest = l, !.selId = i]
<1>0. /\ ix[w] \in Process /\ ProcOK(ix[w], blocks, checkpoint)
      /\ selected' \in Endpoints \cup {None}
      /\ lockHolder' \in Writers \cup {None} /\ faults' \in 0..MaxFaults /\ audit' = audit
  BY DEF ProcInv, TypeOK, StoreTypeOK, Reject, Deselect
<1>1. ix' = [ix EXCEPT ![w] = q]
  BY DEF Reject
<1>2. q \in Process
  <2>1. 0 \in Latest
    BY HeightAssumption, IndexerAssumption DEF Latest, Tip
  <2>2. l \in [Endpoints -> Latest]
    BY <1>0, <2>1 DEF Process
  <2>3. i \in Endpoints \cup {None}
    BY <1>0 DEF Process
  <2> HIDE DEF l, i
  <2> QED BY <1>0, <2>2, <2>3 DEF Process, PC
<1>3. /\ q.pc = pc /\ q.height = ix[w].height /\ q.expected = ix[w].expected
      /\ q.activated = ix[w].activated
      /\ q.latest = l
  <2> HIDE DEF l, i
  <2> QED BY <1>0 DEF Process
<1>4. Extends(q, blocks)
  BY <1>0, <1>3 DEF ProcOK, Extends, InCycle, PC
<1>5. OneInUse(q)
  <2>1. pc \notin Using => q.activated = {}
    BY <1>0, <1>3 DEF ProcOK, OneInUse, Using
  <2>2. ASSUME NEW d \in q.activated PROVE ~(q.latest[d] - 1 >= q.height)
    <3>1. d \in Endpoints /\ ix[w].latest \in [Endpoints -> Latest]
          /\ ix[w].height \in 0..(MaxHeight + 1)
      BY <1>0, <1>3, <2>2 DEF Process
    <3>2. CASE d = e
      BY <1>3, <3>1, <3>2, HeightAssumption
    <3>3. CASE d # e
      BY <1>3, <3>1, <3>3, <2>2
    <3> QED BY <3>2, <3>3
  <2> QED BY <1>3, <2>1, <2>2 DEF OneInUse
<1>6. Fetched(q) /\ SeenNotAhead(q, checkpoint)
  BY <1>3 DEF Fetched, SeenNotAhead
<1> HIDE DEF q
<1> QED BY <1>0, <1>1, <1>2, <1>4, <1>5, <1>6, ProcessStep DEF ProcOK

\* The caught-up branch.
LEMMA IdleSteps ==
    ASSUME ProcInv, NEW w \in Writers,
           \/ IdleAllFailed(w)
           \/ \E e \in Endpoints, f \in Forks \cup {None} : IdleActivate(w, e, f)
    PROVE  ProcInv'
<1>0. ix[w] \in Process /\ ProcOK(ix[w], blocks, checkpoint) /\ ix[w].pc = "idle"
  BY DEF ProcInv, TypeOK, IdleAllFailed, IdleActivate
<1>1. CASE IdleAllFailed(w)
  BY <1>1, LeaveCycleStep DEF IdleAllFailed, ProcInv, TypeOK
<1>2. CASE \E e \in Endpoints, f \in Forks \cup {None} : IdleActivate(w, e, f)
  <2>1. PICK e \in Endpoints, f \in Forks \cup {None} : IdleActivate(w, e, f)
    BY <1>2
  <2>2. CASE Proven(w, f)
    <3> DEFINE q == Fresh("sleep", ix[w].stop, e)
    <3>1. q \in Process /\ ProcOK(q, blocks, checkpoint)
      BY <1>0, FreshOK DEF Process
    <3>2. ix' = [ix EXCEPT ![w] = q] /\ selected' = e
      BY <2>1, <2>2 DEF IdleActivate, Select
    <3>3. UNCHANGED chainVars /\ lockHolder' \in Writers \cup {None}
          /\ faults' \in 0..MaxFaults /\ audit' = audit
      BY <2>1 DEF IdleActivate, ProcInv, TypeOK
    <3> HIDE DEF q
    <3> QED BY <3>1, <3>2, <3>3, ProcessStep
  <2>3. CASE ~Proven(w, f)
    <3>1. ix[w].activated = {}
      BY <1>0 DEF ProcOK, OneInUse, Using
    <3> QED BY <1>0, <2>1, <2>3, <3>1, RejectStep DEF IdleActivate
  <2> QED BY <2>2, <2>3
<1> QED BY <1>1, <1>2

\* The head of the loop over heights, and the end of the candidates.
LEMMA HeadSteps ==
    ASSUME ProcInv, NEW w \in Writers, NextHeight(w) \/ AllFailed(w)
    PROVE  ProcInv'
<1>0. /\ ix[w] \in Process /\ ProcOK(ix[w], blocks, checkpoint)
      /\ faults \in 0..MaxFaults /\ lockHolder \in Writers \cup {None}
  BY DEF ProcInv, TypeOK
<1>1. CASE AllFailed(w)
  BY <1>0, <1>1, LeaveCycleStep DEF AllFailed
<1>2. CASE NextHeight(w) /\ (ix[w].stop \/ ix[w].height > ix[w].planned)
  BY <1>0, <1>2, LeaveCycleStep DEF NextHeight
<1>3. CASE NextHeight(w) /\ ~(ix[w].stop \/ ix[w].height > ix[w].planned)
  <2> DEFINE q == [ix[w] EXCEPT !.pc = "select"]
  <2>1. q \in Process
    BY <1>0 DEF Process, PC
  <2>2. /\ q.pc = "select" /\ q.height = ix[w].height /\ q.expected = ix[w].expected
        /\ q.activated = ix[w].activated /\ q.active = ix[w].active
        /\ q.selId = ix[w].selId /\ q.latest = ix[w].latest
    BY <1>0 DEF Process
  <2>3. ProcOK(q, blocks, checkpoint)
    BY <1>0, <1>3, <2>2
       DEF NextHeight, ProcOK, Extends, OneInUse, Fetched, SeenNotAhead, InCycle, Using, PC
  <2>4. ix' = [ix EXCEPT ![w] = q]
    BY <1>3 DEF NextHeight
  <2>5. UNCHANGED chainVars /\ selected' \in Endpoints \cup {None}
        /\ lockHolder' \in Writers \cup {None} /\ faults' \in 0..MaxFaults /\ audit' = audit
    BY <1>0, <1>3 DEF NextHeight, storeVars, chainVars, ProcInv, TypeOK, StoreTypeOK
  <2> HIDE DEF q
  <2> QED BY <2>1, <2>3, <2>4, <2>5, ProcessStep
<1> QED BY <1>1, <1>2, <1>3

\* Taking an endpoint into use, anew or again.
LEMMA SelectSteps ==
    ASSUME ProcInv, NEW w \in Writers, NEW e \in Endpoints,
           Reuse(w, e) \/ \E f \in Forks \cup {None} : Activate(w, e, f)
    PROVE  ProcInv'
<1>0. /\ ix[w] \in Process /\ ProcOK(ix[w], blocks, checkpoint) /\ ix[w].pc = "select"
      /\ UNCHANGED chainVars /\ lockHolder' \in Writers \cup {None}
      /\ faults' \in 0..MaxFaults /\ audit' = audit /\ selected \in Endpoints \cup {None}
      /\ e \in Turn(w)
  BY DEF ProcInv, TypeOK, StoreTypeOK, Reuse, Activate, storeVars, chainVars
<1>1. ix[w].latest[e] - 1 >= ix[w].height
  BY <1>0 DEF Turn, Eligible
<1>2. ASSUME NEW d \in ix[w].activated, ix[w].latest[d] - 1 >= ix[w].height
      PROVE  d = e
  <2>1. ix[w].active = d /\ d \in Endpoints
    BY <1>0, <1>2 DEF ProcOK, OneInUse, Process
  <2>2. ix[w].active \in Eligible(w)
    BY <1>2, <2>1 DEF Eligible
  <2> QED BY <1>0, <2>1, <2>2 DEF Turn
<1>3. ASSUME NEW q \in Process, ix' = [ix EXCEPT ![w] = q], q.pc = "fetch",
             q.active = e, q.selId = e, q.activated = ix[w].activated \cup {e},
             q.height = ix[w].height, q.expected = ix[w].expected,
             q.latest = ix[w].latest, selected' \in Endpoints \cup {None}
      PROVE  ProcInv'
  <2>1. Extends(q, blocks)
    BY <1>0, <1>3 DEF ProcOK, Extends, InCycle, PC
  <2>2. OneInUse(q)
    BY <1>1, <1>2, <1>3 DEF OneInUse, Using
  <2>3. Fetched(q) /\ SeenNotAhead(q, checkpoint)
    BY <1>3 DEF Fetched, SeenNotAhead
  <2> QED BY <1>0, <1>3, <2>1, <2>2, <2>3, ProcessStep DEF ProcOK
<1>4. CASE Reuse(w, e)
  <2> DEFINE q == [ix[w] EXCEPT !.pc = "fetch", !.active = e]
  <2>1. e \in ix[w].activated /\ ix[w].selId = e
    BY <1>0, <1>1, <1>4 DEF Reuse, ProcOK, OneInUse
  <2>2. q \in Process
    BY <1>0 DEF Process, PC
  <2>3. /\ q.pc = "fetch" /\ q.active = e /\ q.selId = e
        /\ q.activated = ix[w].activated \cup {e}
        /\ q.height = ix[w].height /\ q.expected = ix[w].expected
        /\ q.latest = ix[w].latest
    BY <1>0, <2>1 DEF Process
  <2>4. ix' = [ix EXCEPT ![w] = q] /\ selected' = selected
    BY <1>4 DEF Reuse, storeVars
  <2> HIDE DEF q
  <2> QED BY <1>0, <1>3, <2>2, <2>3, <2>4
<1>5. CASE \E f \in Forks \cup {None} : Activate(w, e, f)
  <2>1. PICK f \in Forks \cup {None} : Activate(w, e, f)
    BY <1>5
  <2>2. CASE Proven(w, f)
    <3> DEFINE a == ix[w].activated \cup {e}
               q == [ix[w] EXCEPT !.pc = "fetch", !.active = e, !.selId = e,
                                  !.activated = a]
    <3>1. a \in SUBSET Endpoints
      BY <1>0 DEF Process
    <3>2. ix' = [ix EXCEPT ![w] = q] /\ selected' = e
      BY <2>1, <2>2 DEF Activate, Select
    <3> HIDE DEF a
    <3>3. q \in Process
      BY <1>0, <3>1 DEF Process, PC
    <3>4. /\ q.pc = "fetch" /\ q.active = e /\ q.selId = e /\ q.activated = a
          /\ q.height = ix[w].height /\ q.expected = ix[w].expected
          /\ q.latest = ix[w].latest
      BY <1>0 DEF Process
    <3> HIDE DEF q
    <3> QED BY <1>3, <3>2, <3>3, <3>4 DEF a
  <2>3. CASE ~Proven(w, f)
    <3>1. \A d \in ix[w].activated : d # e => ~(ix[w].latest[d] - 1 >= ix[w].height)
      BY <1>2
    <3> QED BY <1>0, <2>1, <2>3, <3>1, RejectStep DEF Activate
  <2> QED BY <2>2, <2>3
<1> QED BY <1>4, <1>5

\* A fetched block continues the hash the process expects.
LEMMA FetchStep ==
    ASSUME ProcInv, NEW w \in Writers, NEW f \in Forks \cup {None}, Fetch(w, f)
    PROVE  ProcInv'
<1>0. /\ ix[w] \in Process /\ ProcOK(ix[w], blocks, checkpoint) /\ ix[w].pc = "fetch"
      /\ UNCHANGED chainVars /\ lockHolder' \in Writers \cup {None}
      /\ faults' \in 0..MaxFaults /\ audit' = audit /\ selected \in Endpoints \cup {None}
  BY DEF ProcInv, TypeOK, StoreTypeOK, Fetch
<1>1. /\ ix[w].active \in Endpoints
      /\ ix[w].latest[ix[w].active] - 1 >= ix[w].height
      /\ \A d \in ix[w].activated :
            d # ix[w].active => ~(ix[w].latest[d] - 1 >= ix[w].height)
  BY <1>0 DEF ProcOK, OneInUse, Process
<1>2. CASE f # None /\ ix[w].height <= MaxHeight /\ Continues(w, f)
  <2> DEFINE h == ix[w].height
             b == [hash |-> HashAt[f][h], parent |-> HashAt[f][h - 1]]
             q == [ix[w] EXCEPT !.pc = "begin", !.block = b]
  <2>1. h \in Heights /\ h - 1 \in Heights
    <3>1. h \in 0..(MaxHeight + 1)
      BY <1>0 DEF Process
    <3>2. h \in Heights
      BY <1>2, <3>1, HeightAssumption DEF Heights
    <3>3. h >= 1 \/ h - 1 \in DOMAIN blocks
      BY <1>0 DEF ProcOK, Extends, InCycle, PC
    <3>4. h - 1 \in Heights
      BY <3>2, <3>3, HeightAssumption DEF Heights, ProcInv, TypeOK, StoreTypeOK
    <3> QED BY <3>2, <3>4
  <2>2. b \in Block /\ (ix[w].expected # None => b.parent = ix[w].expected)
    BY <1>2, <2>1, IndexerAssumption DEF Block, Continues
  <2>3. ix' = [ix EXCEPT ![w] = q] /\ selected' = selected
    BY <1>2 DEF Fetch
  <2> HIDE DEF b
  <2>4. q \in Process
    BY <1>0, <2>2 DEF Process, PC
  <2>5. /\ q.pc = "begin" /\ q.height = ix[w].height /\ q.expected = ix[w].expected
        /\ q.activated = ix[w].activated /\ q.active = ix[w].active
        /\ q.selId = ix[w].selId /\ q.latest = ix[w].latest /\ q.block = b
    BY <1>0 DEF Process
  <2>6. Extends(q, blocks)
    BY <1>0, <2>5 DEF ProcOK, Extends, InCycle, PC
  <2>7. OneInUse(q)
    BY <1>0, <2>5 DEF ProcOK, OneInUse, Using
  <2>8. Fetched(q) /\ SeenNotAhead(q, checkpoint)
    BY <1>2, <2>2, <2>5 DEF Fetched, SeenNotAhead
  <2> HIDE DEF q
  <2> QED BY <1>0, <2>3, <2>4, <2>6, <2>7, <2>8, ProcessStep DEF ProcOK
<1>3. CASE ~(f # None /\ ix[w].height <= MaxHeight /\ Continues(w, f))
  BY <1>0, <1>1, <1>3, RejectStep DEF Fetch
<1> QED BY <1>2, <1>3

\* The transaction's first statement reads the checkpoint.
LEMMA BeginWriteStep ==
    ASSUME ProcInv, NEW w \in Writers, BeginWrite(w)
    PROVE  ProcInv'
<1>0. /\ ix[w] \in Process /\ ProcOK(ix[w], blocks, checkpoint) /\ ix[w].pc = "begin"
      /\ UNCHANGED chainVars /\ lockHolder \in Writers \cup {None}
      /\ faults' \in 0..MaxFaults /\ audit' = audit /\ selected' \in Endpoints \cup {None}
      /\ checkpoint \in Heights /\ UNCHANGED storeVars
  BY DEF ProcInv, TypeOK, StoreTypeOK, BeginWrite, storeVars, chainVars
<1>1. CASE Skips(ix[w].height, checkpoint)
  BY <1>0, <1>1, ExitStep DEF BeginWrite
<1>2. CASE ~Skips(ix[w].height, checkpoint)
  <2> DEFINE q == [ix[w] EXCEPT !.pc = "commit", !.seen = checkpoint]
  <2>1. ix' = [ix EXCEPT ![w] = q] /\ lockHolder' = lockHolder
    BY <1>2 DEF BeginWrite
  <2>2. q \in Process
    BY <1>0 DEF Process, PC
  <2>3. /\ q.pc = "commit" /\ q.height = ix[w].height /\ q.expected = ix[w].expected
        /\ q.activated = ix[w].activated /\ q.active = ix[w].active
        /\ q.selId = ix[w].selId /\ q.latest = ix[w].latest
        /\ q.block = ix[w].block /\ q.seen = checkpoint
    BY <1>0 DEF Process
  <2>4. Extends(q, blocks)
    BY <1>0, <2>3 DEF ProcOK, Extends, InCycle, PC
  <2>5. OneInUse(q) /\ Fetched(q)
    BY <1>0, <2>3 DEF ProcOK, OneInUse, Fetched, Using
  <2>6. SeenNotAhead(q, checkpoint)
    BY <1>0, <2>3 DEF SeenNotAhead, Heights
  <2> HIDE DEF q
  <2> QED BY <1>0, <2>1, <2>2, <2>4, <2>5, <2>6, ProcessStep DEF ProcOK
<1> QED BY <1>1, <1>2

-----------------------------------------------------------------------------
(* The steps that write a height.                                          *)

\* What a transaction of write_height does to the store: it adds at most its
\* own height and changes nothing that was there.
LEMMA PersistGrows ==
    ASSUME StoreTypeOK, NEW h \in Heights, NEW b \in Block, NEW seen \in Heights, NEW tip,
           Persist(h, b, seen, tip)
    PROVE  /\ StoreTypeOK' /\ DOMAIN blocks \subseteq DOMAIN blocks'
           /\ \A x \in DOMAIN blocks : blocks'[x] = blocks[x]
           /\ checkpoint' \in Heights /\ checkpoint <= checkpoint'
           /\ h \in DOMAIN blocks' /\ blocks'[h].hash = b.hash
<1>1. /\ ~Conflicts(h, b) /\ blocks' = Upserted(h, b) /\ calls' = AdvancedCalls(h, seen)
      /\ checkpoint' = IF Advances(h, seen) THEN Greatest(checkpoint, h) ELSE checkpoint
      /\ selected' = selected
  BY DEF Persist, Refused
<1>2. /\ DOMAIN blocks' = DOMAIN blocks \cup {h}
      /\ \A x \in DOMAIN blocks' : blocks'[x] = IF x \in DOMAIN blocks THEN blocks[x] ELSE b
      /\ blocks' = [x \in DOMAIN blocks' |-> blocks'[x]]
  BY <1>1 DEF Upserted
<1>3. checkpoint' \in Heights /\ checkpoint <= checkpoint'
  BY <1>1 DEF StoreTypeOK, Greatest, Heights
<1>4. calls' \in [from : Heights, through : Heights]
  BY <1>1 DEF StoreTypeOK, AdvancedCalls
<1>5. blocks' \in [DOMAIN blocks' -> Block] /\ DOMAIN blocks' \subseteq Heights
  BY <1>2 DEF StoreTypeOK
<1>6. StoreTypeOK'
  BY <1>1, <1>3, <1>4, <1>5 DEF StoreTypeOK
<1>7. blocks'[h].hash = b.hash
  BY <1>1, <1>2 DEF Conflicts
<1> QED BY <1>2, <1>3, <1>6, <1>7

\* The height, the block and the checkpoint a process writes with.
LEMMA CommitReady ==
    ASSUME ProcInv, NEW w \in Writers, ix[w].pc = "commit"
    PROVE  /\ ix[w].height \in Heights /\ ix[w].height >= 1
           /\ ix[w].block \in Block
           /\ ix[w].seen \in Heights /\ ix[w].seen <= checkpoint
<1>0. ix[w] \in Process /\ ProcOK(ix[w], blocks, checkpoint) /\ StoreTypeOK
  BY DEF ProcInv, TypeOK
<1>1. /\ ix[w].block \in Block /\ ix[w].seen \in Heights /\ ix[w].seen <= checkpoint
      /\ ix[w].height >= 1 \/ ix[w].height - 1 \in DOMAIN blocks
      /\ ix[w].height \in 0..(MaxHeight + 1) /\ ix[w].height <= MaxHeight
  BY <1>0 DEF ProcOK, Fetched, Extends, SeenNotAhead, InCycle, PC, Process
<1>2. ix[w].height \in Heights
  BY <1>1, HeightAssumption DEF Heights
<1>3. ix[w].height >= 1
  BY <1>0, <1>1, <1>2, HeightAssumption DEF StoreTypeOK, Heights
<1> QED BY <1>1, <1>2, <1>3

\* The writes of a process grow the store.
LEMMA StoreGrows ==
    ASSUME ProcInv, NEW w \in Writers, ix[w].pc = "commit", PersistHeight(w)
    PROVE  /\ StoreTypeOK' /\ DOMAIN blocks \subseteq DOMAIN blocks'
           /\ \A x \in DOMAIN blocks : blocks'[x] = blocks[x]
           /\ checkpoint' \in Heights /\ checkpoint <= checkpoint'
           /\ ix[w].height \in DOMAIN blocks'
           /\ blocks'[ix[w].height].hash = ix[w].block.hash
<1>1. StoreTypeOK
  BY DEF ProcInv, TypeOK
<1>2. Persist(ix[w].height, ix[w].block, ix[w].seen, ix[w].latest[ix[w].active] - 1)
  BY DEF PersistHeight
<1> QED BY <1>1, <1>2, CommitReady, PersistGrows

\* CommitHeight and CommitUnconfirmed: the other processes' view of the
\* store survives because the store only grows.
LEMMA CommitSteps ==
    ASSUME ProcInv, NEW w \in Writers, CommitHeight(w) \/ CommitUnconfirmed(w)
    PROVE  ProcInv'
<1>0. /\ ix[w] \in Process /\ ProcOK(ix[w], blocks, checkpoint) /\ ix[w].pc = "commit"
      /\ PersistHeight(w) /\ lockHolder' = lockHolder /\ faults' \in 0..MaxFaults
      /\ checkpoint \in Heights /\ audit' = Recorded(w)
  <2>1. faults \in Nat /\ MaxFaults \in Nat /\ faults <= MaxFaults
    BY IndexerAssumption DEF ProcInv, TypeOK
  <2> QED BY <2>1 DEF ProcInv, TypeOK, StoreTypeOK, CommitHeight, CommitUnconfirmed, Fault
<1>1. /\ StoreTypeOK' /\ DOMAIN blocks \subseteq DOMAIN blocks'
      /\ \A x \in DOMAIN blocks : blocks'[x] = blocks[x]
      /\ checkpoint' \in Heights /\ checkpoint <= checkpoint'
      /\ ix[w].height \in DOMAIN blocks'
      /\ blocks'[ix[w].height].hash = ix[w].block.hash
  BY <1>0, StoreGrows
<1>a. audit' \in [lost : BOOLEAN, bare : SUBSET Heights]
  <2>1. ix[w].height \in Heights
    BY <1>0, CommitReady
  <2> QED BY <1>0, <2>1 DEF Recorded, ProcInv, TypeOK
<1>2. ASSUME NEW v \in Writers PROVE ProcOK(ix[v], blocks', checkpoint')
  <2>1. ix[v] \in Process /\ ProcOK(ix[v], blocks, checkpoint)
    BY DEF ProcInv, TypeOK
  <2>2. Extends(ix[v], blocks')
    BY <1>1, <2>1 DEF ProcOK, Extends
  <2>3. SeenNotAhead(ix[v], checkpoint')
    <3>1. ix[v].seen \in Int /\ checkpoint \in Int /\ checkpoint' \in Int
      BY <1>0, <1>1, <2>1 DEF Process, Heights
    <3> QED BY <1>1, <2>1, <3>1 DEF ProcOK, SeenNotAhead
  <2> QED BY <2>1, <2>2, <2>3 DEF ProcOK
<1>3. ASSUME NEW q \in Process, ix' = [ix EXCEPT ![w] = q],
             ProcOK(q, blocks', checkpoint')
      PROVE  ProcInv'
  <2>1. ix' \in [Writers -> Process] /\ lockHolder' \in Writers \cup {None}
    BY <1>0, <1>3 DEF ProcInv, TypeOK
  <2>2. ASSUME NEW v \in Writers PROVE ProcOK(ix'[v], blocks', checkpoint')
    BY <1>2, <1>3 DEF ProcInv, TypeOK
  <2> QED BY <1>0, <1>1, <1>a, <2>1, <2>2 DEF ProcInv, TypeOK
<1>4. CASE CommitUnconfirmed(w)
  <2> DEFINE q == Fresh("sleep", ix[w].stop, ix[w].selId)
  <2>1. q \in Process /\ ProcOK(q, blocks', checkpoint')
    <3>1. ix[w].stop \in BOOLEAN /\ ix[w].selId \in Endpoints \cup {None}
      BY <1>0 DEF Process
    <3> QED BY <3>1, FreshOK
  <2>2. ix' = [ix EXCEPT ![w] = q]
    BY <1>4 DEF CommitUnconfirmed, LeaveCycle
  <2> HIDE DEF q
  <2> QED BY <1>3, <2>1, <2>2
<1>5. CASE CommitHeight(w)
  <2> DEFINE h == ix[w].height
             q == [ix[w] EXCEPT !.pc = "head", !.height = h + 1,
                                !.expected = ix[w].block.hash, !.block = None,
                                !.seen = NoRow]
  <2>1. ix' = [ix EXCEPT ![w] = q]
    BY <1>5 DEF CommitHeight
  <2>2. h \in Heights /\ h + 1 \in 0..(MaxHeight + 1) /\ NoRow \in Heights
    BY <1>1, HeightAssumption DEF StoreTypeOK, Heights, NoRow
  <2>3. ix[w].block \in Block /\ ix[w].block.hash \in Hashes
    BY <1>0 DEF ProcOK, Fetched, Block
  <2>4. q \in Process
    BY <1>0, <2>2, <2>3 DEF Process, PC
  <2>5. /\ q.pc = "head" /\ q.height = h + 1 /\ q.expected = ix[w].block.hash
        /\ q.activated = ix[w].activated /\ q.active = ix[w].active
        /\ q.selId = ix[w].selId /\ q.latest = ix[w].latest
    BY <1>0 DEF Process
  <2>6. Extends(q, blocks')
    BY <1>1, <2>2, <2>5 DEF Extends, Heights
  <2>7. OneInUse(q)
    <3>1. ASSUME NEW e \in q.activated, q.latest[e] - 1 >= q.height
          PROVE  q.active = e /\ q.selId = e
      <4>1. e \in Endpoints /\ ix[w].latest[e] \in Int /\ h \in Int
        BY <1>0, <2>2, <2>5, <3>1 DEF Process, Latest, Heights
      <4>2. ix[w].latest[e] - 1 >= h
        BY <2>5, <3>1, <4>1
      <4> QED BY <1>0, <2>5, <3>1, <4>2 DEF ProcOK, OneInUse
    <3> QED BY <2>5, <3>1 DEF OneInUse, Using
  <2>8. Fetched(q) /\ SeenNotAhead(q, checkpoint')
    BY <2>5 DEF Fetched, SeenNotAhead
  <2> HIDE DEF q
  <2> QED BY <1>3, <2>1, <2>4, <2>6, <2>7, <2>8 DEF ProcOK
<1> QED BY <1>0, <1>4, <1>5

\* A transaction that is refused, and the faults.
LEMMA FaultSteps ==
    ASSUME ProcInv, NEW w \in Writers,
           RefuseHeight(w) \/ DatabaseFailure(w) \/ Crash(w) \/ RequestStop(w)
    PROVE  ProcInv'
<1>0. /\ faults' \in 0..MaxFaults /\ audit' = audit
      /\ lockHolder \in Writers \cup {None}
      /\ ix[w] \in Process /\ ProcOK(ix[w], blocks, checkpoint)
      /\ UNCHANGED storeVars
  <2>1. faults \in Nat /\ MaxFaults \in Nat /\ faults <= MaxFaults
    BY IndexerAssumption DEF ProcInv, TypeOK
  <2> QED BY <2>1
          DEF RefuseHeight, DatabaseFailure, Crash, RequestStop, Fault, ProcInv, TypeOK
<1>1. CASE RefuseHeight(w) \/ Crash(w)
  BY <1>0, <1>1, ExitStep DEF RefuseHeight, Crash
<1>2. CASE DatabaseFailure(w)
  BY <1>0, <1>2, LeaveCycleStep DEF DatabaseFailure
<1>3. CASE RequestStop(w)
  <2> DEFINE q == [ix[w] EXCEPT !.stop = TRUE]
  <2>1. q \in Process
    BY <1>0 DEF Process
  <2>2. /\ q.pc = ix[w].pc /\ q.height = ix[w].height /\ q.expected = ix[w].expected
        /\ q.activated = ix[w].activated /\ q.active = ix[w].active
        /\ q.selId = ix[w].selId /\ q.latest = ix[w].latest
        /\ q.block = ix[w].block /\ q.seen = ix[w].seen
    BY <1>0 DEF Process
  <2>3. ProcOK(q, blocks, checkpoint)
    BY <1>0, <2>2 DEF ProcOK, Extends, OneInUse, Fetched, SeenNotAhead
  <2>4. ix' = [ix EXCEPT ![w] = q] /\ lockHolder' = lockHolder
    BY <1>3 DEF RequestStop
  <2>5. UNCHANGED chainVars /\ selected' \in Endpoints \cup {None}
    BY <1>0 DEF storeVars, chainVars, ProcInv, TypeOK, StoreTypeOK
  <2> HIDE DEF q
  <2> QED BY <1>0, <2>1, <2>3, <2>4, <2>5, ProcessStep
<1> QED BY <1>1, <1>2, <1>3

-----------------------------------------------------------------------------
(* The invariant.                                                          *)

\* Every step preserves what is said of the processes.
LEMMA ProcNext == ProcInv /\ [Next]_vars => ProcInv'
<1> SUFFICES ASSUME ProcInv, [Next]_vars PROVE ProcInv'
  OBVIOUS
<1>0. \A e \in Endpoints : Answers(e) \subseteq Forks \cup {None}
  BY IndexerAssumption DEF Answers
<1>1. CASE UNCHANGED vars
  BY <1>1 DEF vars, storeVars, ProcInv, TypeOK, StoreTypeOK
<1>2. CASE LoseLockSession
  <2>1. faults' \in 0..MaxFaults
    BY <1>2, IndexerAssumption DEF LoseLockSession, Fault, ProcInv, TypeOK
  <2> QED BY <1>2, <2>1
          DEF LoseLockSession, storeVars, ProcInv, TypeOK, StoreTypeOK
<1>3. ASSUME NEW w \in Writers, Step(w) PROVE ProcInv'
  <2>1. CASE Start(w) \/ AcquireLock(w) \/ BeginCycle(w) \/ Wake(w)
    BY <2>1, LoopSteps
  <2>2. CASE Cycle(w)
    <3>1. CASE ReadAnchor(w) \/ ReadCheckpoint(w)
      BY <3>1, ReadAnchorStep
    <3>2. CASE \E r \in ProbeReports : \/ ProbeAllRejected(w, r)
                                       \/ ProbeCaughtUp(w, r)
                                       \/ \E p \in Latest : ProbePlan(w, r, p)
      BY <3>2, ProbeSteps
    <3>3. CASE \E e \in Endpoints : \E f \in Answers(e) :
                  IdleActivate(w, e, f) \/ Activate(w, e, f)
      BY <1>0, <3>3, IdleSteps, SelectSteps
    <3>4. CASE \E e \in Endpoints : Reuse(w, e)
      BY <3>4, SelectSteps
    <3>5. CASE IdleAllFailed(w)
      BY <3>5, IdleSteps
    <3>6. CASE NextHeight(w) \/ AllFailed(w)
      BY <3>6, HeadSteps
    <3>7. CASE ix[w].active # None /\ \E f \in Answers(ix[w].active) : Fetch(w, f)
      <4>1. ix[w].active \in Endpoints
        BY <3>7 DEF ProcInv, TypeOK, Process
      <4> QED BY <1>0, <3>7, <4>1, FetchStep
    <3>8. CASE BeginWrite(w)
      BY <3>8, BeginWriteStep
    <3>9. CASE CommitHeight(w)
      BY <3>9, CommitSteps
    <3>10. CASE RefuseHeight(w)
      BY <3>10, FaultSteps
    <3> QED BY <2>2, <3>1, <3>2, <3>3, <3>4, <3>5, <3>6, <3>7, <3>8, <3>9, <3>10 DEF Cycle
  <2> QED BY <1>3, <2>1, <2>2 DEF Step
<1>4. ASSUME NEW w \in Writers, Faulty(w) \/ Operated(w) PROVE ProcInv'
  BY <1>4, FaultSteps, CommitSteps, LoopSteps DEF Faulty
<1> QED BY <1>1, <1>2, <1>3, <1>4 DEF Next


\* Only a transaction of write_height touches the blocks and the checkpoint.
LEMMA OnlyCommitsWrite ==
    ASSUME [Next]_vars
    PROVE  \/ UNCHANGED chainVars /\ audit' \in {audit, [audit EXCEPT !.lost = TRUE]}
           \/ \E w \in Writers :
                 ix[w].pc = "commit" /\ PersistHeight(w) /\ audit' = Recorded(w)
<1>1. CASE UNCHANGED vars \/ LoseLockSession
  BY <1>1 DEF vars, LoseLockSession, storeVars, chainVars
<1>2. ASSUME NEW w \in Writers, Step(w)
      PROVE  \/ UNCHANGED chainVars /\ audit' = audit
             \/ ix[w].pc = "commit" /\ PersistHeight(w) /\ audit' = Recorded(w)
  <2>1. CASE Start(w) \/ AcquireLock(w) \/ BeginCycle(w) \/ Wake(w)
    BY <2>1 DEF Start, AcquireLock, BeginCycle, Wake, storeVars, chainVars
  <2>2. CASE Cycle(w)
    <3>1. CASE ReadAnchor(w) \/ ReadCheckpoint(w) \/ IdleAllFailed(w) \/ NextHeight(w)
               \/ AllFailed(w) \/ BeginWrite(w) \/ RefuseHeight(w)
      BY <3>1 DEF ReadAnchor, ReadCheckpoint, IdleAllFailed, NextHeight, AllFailed, BeginWrite,
                  RefuseHeight, storeVars, chainVars
    <3>2. CASE \E r \in ProbeReports : \/ ProbeAllRejected(w, r)
                                       \/ ProbeCaughtUp(w, r)
                                       \/ \E p \in Latest : ProbePlan(w, r, p)
      BY <3>2 DEF ProbeAllRejected, ProbeCaughtUp, ProbePlan, storeVars, chainVars
    <3>3. CASE \E e \in Endpoints : \E f \in Answers(e) :
                  IdleActivate(w, e, f) \/ Activate(w, e, f)
      BY <3>3 DEF IdleActivate, Activate, chainVars
    <3>4. CASE \E e \in Endpoints : Reuse(w, e)
      BY <3>4 DEF Reuse, storeVars, chainVars
    <3>5. CASE ix[w].active # None /\ \E f \in Answers(ix[w].active) : Fetch(w, f)
      BY <3>5 DEF Fetch, chainVars
    <3>6. CASE CommitHeight(w)
      BY <3>6 DEF CommitHeight
    <3> QED BY <2>2, <3>1, <3>2, <3>3, <3>4, <3>5, <3>6 DEF Cycle
  <2> QED BY <1>2, <2>1, <2>2 DEF Step
<1>3. ASSUME NEW w \in Writers, Faulty(w) \/ Operated(w)
      PROVE  \/ UNCHANGED chainVars /\ audit' = audit
             \/ ix[w].pc = "commit" /\ PersistHeight(w) /\ audit' = Recorded(w)
  BY <1>3 DEF Faulty, Operated, OperatorStart, StartLimitHit, DatabaseFailure, CommitUnconfirmed,
              Crash, RequestStop, storeVars, chainVars
<1> QED BY <1>1, <1>2, <1>3 DEF Next

(* How a step of process w that writes no height moves it, as far as the   *)
(* lock and the two reads of the preamble are concerned.                   *)
Moves(w) ==
    LET p == ix[w]
        q == ix'[w]
    IN  /\ audit' = audit /\ UNCHANGED chainVars
        /\ \A v \in Writers : v # w => ix'[v] = ix[v] /\ (lockHolder = v => lockHolder' = v)
        /\ \/ q.pc \in {"down", "acquire"}
           \/ q.pc = "loop" /\ lockHolder' = w
           \/ /\ lockHolder' = lockHolder
              /\ p.pc \notin {"down", "acquire"}
              /\ \/ q.pc \in {"loop", "sleep", "anchor"}
                 \/ q.pc = "recheck" /\ (p.pc = "recheck" \/ checkpoint = NoRow)
                 \/ q.pc \in InCycle /\ q.expected # None
                 \/ /\ p.pc = "recheck" /\ q.pc \in InCycle
                    /\ q.height = IF checkpoint = NoRow THEN StartHeight ELSE checkpoint + 1
                 \/ /\ p.pc \in InCycle /\ q.pc \in InCycle
                    /\ q.height = p.height /\ q.expected = p.expected

\* Leaving the process or the cycle.
LEMMA ExitMoves ==
    ASSUME TypeOK, NEW w \in Writers, audit' = audit, UNCHANGED chainVars,
           \/ Exit(w)
           \/ /\ lockHolder' = lockHolder /\ ix[w].pc \notin {"down", "acquire"}
              /\ \E pc \in {"loop", "sleep"}, stop \in BOOLEAN, id \in Endpoints \cup {None} :
                    ix' = [ix EXCEPT ![w] = Fresh(pc, stop, id)]
    PROVE  Moves(w)
<1>1. \A v \in Writers : v # w => ix'[v] = ix[v]
  BY DEF TypeOK, Exit
<1>2. \A v \in Writers : v # w => (lockHolder = v => lockHolder' = v)
  BY DEF Exit
<1>3. CASE Exit(w)
  <2>1. ix'[w].pc = "down"
    BY <1>3 DEF Exit, Fresh, TypeOK
  <2> QED BY <1>1, <1>2, <2>1 DEF Moves
<1>4. CASE ~Exit(w)
  <2>1. ix'[w].pc \in {"loop", "sleep"}
    BY <1>4 DEF Fresh, TypeOK
  <2> QED BY <1>1, <1>2, <1>4, <2>1 DEF Moves
<1> QED BY <1>3, <1>4

\* A process that keeps the height and the hash it has.
LEMMA StaysMoves ==
    ASSUME TypeOK, NEW w \in Writers, NEW q, ix' = [ix EXCEPT ![w] = q],
           UNCHANGED <<chainVars, lockHolder, audit>>,
           ix[w].pc \in InCycle, q.pc \in InCycle,
           q.height = ix[w].height, q.expected = ix[w].expected
    PROVE  Moves(w)
<1>1. (\A v \in Writers : v # w => ix'[v] = ix[v]) /\ ix'[w] = q
  BY DEF TypeOK
<1>2. ix[w].pc \notin {"down", "acquire"}
  BY DEF InCycle
<1> QED BY <1>1, <1>2 DEF Moves

\* Every step of a process that writes no height is such a move.
LEMMA StepMoves ==
    ASSUME TypeOK, NEW w \in Writers, Step(w) \/ Operated(w) \/ Faulty(w)
    PROVE  Moves(w) \/ CommitHeight(w) \/ CommitUnconfirmed(w)
<1>0. ix[w] \in Process /\ ix[w].stop \in BOOLEAN /\ ix[w].selId \in Endpoints \cup {None}
  BY DEF TypeOK, Process
<1> USE DEF storeVars, chainVars
<1>1. CASE Start(w) \/ Operated(w)
  BY <1>1 DEF Start, Operated, OperatorStart, StartLimitHit, Fresh, TypeOK, Moves, Process
<1>2. CASE AcquireLock(w) /\ ~(ix[w].stop \/ lockHolder # None)
  BY <1>2, NoneAssumption, IndexerAssumption DEF AcquireLock, TypeOK, Moves, Process
<1>3. CASE BeginCycle(w) /\ ~(ix[w].stop \/ lockHolder # w)
  BY <1>3 DEF BeginCycle, TypeOK, Moves, Process
<1>4. CASE \/ AcquireLock(w) /\ (ix[w].stop \/ lockHolder # None)
           \/ BeginCycle(w) /\ (ix[w].stop \/ lockHolder # w)
           \/ Wake(w) /\ ix[w].stop
           \/ ReadAnchor(w) /\ checkpoint # NoRow /\ checkpoint \notin DOMAIN blocks
           \/ BeginWrite(w) /\ Skips(ix[w].height, checkpoint)
           \/ RefuseHeight(w) \/ Crash(w)
  BY <1>4, ExitMoves DEF AcquireLock, BeginCycle, Wake, ReadAnchor, BeginWrite, RefuseHeight, Crash
<1>5. CASE \/ Wake(w) /\ ~ix[w].stop
           \/ IdleAllFailed(w) \/ AllFailed(w) \/ DatabaseFailure(w)
           \/ NextHeight(w) /\ (ix[w].stop \/ ix[w].height > ix[w].planned)
  BY <1>0, <1>5, ExitMoves
     DEF Wake, IdleAllFailed, AllFailed, DatabaseFailure, NextHeight, LeaveCycle
<1>6. CASE RequestStop(w)
  BY <1>0, <1>6 DEF RequestStop, TypeOK, Moves, Process, InCycle, PC
<1>7. CASE ReadAnchor(w) /\ checkpoint = NoRow
  BY <1>0, <1>7 DEF ReadAnchor, TypeOK, Moves, Process
<1>8. CASE ReadAnchor(w) /\ checkpoint # NoRow /\ checkpoint \in DOMAIN blocks
  <2>1. blocks[checkpoint].hash # None
    BY <1>8, NoneAssumption DEF TypeOK, StoreTypeOK, Block
  <2>0. ix' = [ix EXCEPT ![w] = [ix[w] EXCEPT !.pc = "probe", !.height = checkpoint + 1,
                                             !.expected = blocks[checkpoint].hash]]
    BY <1>8 DEF ReadAnchor
  <2>2. ix'[w].pc = "probe" /\ ix'[w].expected = blocks[checkpoint].hash
    BY <1>0, <2>0 DEF TypeOK, Process
  <2>3. ix'[w].pc \in InCycle /\ ix[w].pc = "anchor" /\ lockHolder' = lockHolder /\ audit' = audit
        /\ UNCHANGED chainVars
    BY <1>8, <2>2 DEF ReadAnchor, InCycle, PC
  <2>4. \A v \in Writers : v # w => ix'[v] = ix[v]
    BY <1>8 DEF ReadAnchor, TypeOK
  <2> QED BY <2>1, <2>2, <2>3, <2>4 DEF Moves
<1>9. CASE ReadCheckpoint(w)
  BY <1>0, <1>9 DEF ReadCheckpoint, TypeOK, Moves, Process, InCycle, PC
<1>10. CASE \E r \in ProbeReports : \/ ProbeAllRejected(w, r)
                                    \/ ProbeCaughtUp(w, r)
                                    \/ \E p \in Latest : ProbePlan(w, r, p)
  <2>1. PICK r \in ProbeReports : \/ ProbeAllRejected(w, r)
                                 \/ ProbeCaughtUp(w, r)
                                 \/ \E p \in Latest : ProbePlan(w, r, p)
    BY <1>10
  <2>2. CASE ProbeAllRejected(w, r)
    BY <1>0, <2>2, ExitMoves DEF ProbeAllRejected
  <2>3. CASE ProbeCaughtUp(w, r)
    BY <1>0, <2>3, StaysMoves DEF ProbeCaughtUp, Process, InCycle, PC
  <2>4. CASE \E p \in Latest : ProbePlan(w, r, p)
    BY <1>0, <2>4, StaysMoves DEF ProbePlan, Process, InCycle, PC
  <2> QED BY <2>1, <2>2, <2>3, <2>4
<1>11. ASSUME NEW e \in Endpoints, NEW f \in Answers(e), IdleActivate(w, e, f) \/ Activate(w, e, f)
       PROVE  Moves(w)
  <2>1. CASE IdleActivate(w, e, f) /\ Proven(w, f)
    BY <1>0, <2>1, ExitMoves DEF IdleActivate
  <2>2. CASE IdleActivate(w, e, f) /\ ~Proven(w, f)
    BY <1>0, <2>2, StaysMoves DEF IdleActivate, Reject, Process, InCycle, PC
  <2>3. CASE Activate(w, e, f) /\ Proven(w, f)
    BY <1>0, <2>3, StaysMoves DEF Activate, Process, InCycle, PC
  <2>4. CASE Activate(w, e, f) /\ ~Proven(w, f)
    BY <1>0, <2>4, StaysMoves DEF Activate, Reject, Process, InCycle, PC
  <2> QED BY <1>11, <2>1, <2>2, <2>3, <2>4
<1>12. ASSUME NEW e \in Endpoints, Reuse(w, e) PROVE Moves(w)
  BY <1>0, <1>12, StaysMoves DEF Reuse, Process, InCycle, PC
<1>13. CASE NextHeight(w) /\ ~(ix[w].stop \/ ix[w].height > ix[w].planned)
  BY <1>0, <1>13, StaysMoves DEF NextHeight, Process, InCycle, PC
<1>14. ASSUME NEW f, Fetch(w, f) PROVE Moves(w)
  <2>1. CASE f # None /\ ix[w].height <= MaxHeight /\ Continues(w, f)
    BY <1>0, <1>14, <2>1, StaysMoves DEF Fetch, Process, InCycle, PC
  <2>2. CASE ~(f # None /\ ix[w].height <= MaxHeight /\ Continues(w, f))
    BY <1>0, <1>14, <2>2, StaysMoves DEF Fetch, Reject, Process, InCycle, PC
  <2> QED BY <2>1, <2>2
<1>15. CASE BeginWrite(w) /\ ~Skips(ix[w].height, checkpoint)
  BY <1>0, <1>15, StaysMoves DEF BeginWrite, Process, InCycle, PC
<1> QED BY <1>1, <1>2, <1>3, <1>4, <1>5, <1>6, <1>7, <1>8, <1>9, <1>10, <1>11, <1>12, <1>13,
           <1>14, <1>15 DEF Step, Cycle, Faulty

\* Nobody commits between the two reads of a process that holds the lock.
LEMMA AnchoredNext ==
    ASSUME IInv, [Next]_vars, NEW v \in Writers
    PROVE  Anchored(v)'
<1>0. /\ TypeOK /\ ix[v] \in Process /\ checkpoint \in Heights /\ NoGaps
      /\ Anchored(v)
  BY DEF IInv, ProcInv, TypeOK, StoreTypeOK
<1>c. checkpoint # NoRow => checkpoint \in DOMAIN blocks
  BY <1>0, HeightAssumption DEF NoGaps, Heights, NoRow
<1>1. CASE UNCHANGED vars
  BY <1>0, <1>1 DEF vars, storeVars, Anchored
<1>2. CASE LoseLockSession
  <2>1. audit'.lost /\ ix' = ix /\ blocks' = blocks
    BY <1>0, <1>2 DEF LoseLockSession, TypeOK, storeVars
  <2> QED BY <1>0, <2>1 DEF Anchored
<1>3. ASSUME NEW w \in Writers, Moves(w) PROVE Anchored(v)'
  <2>1. Anchored(w) /\ ix[w] \in Process
    BY DEF IInv, ProcInv, TypeOK
  <2>2. CASE v # w
    BY <1>0, <1>3, <2>2 DEF Moves, Anchored, chainVars
  <2>3. CASE v = w
    <3>1. CASE ix'[w].pc \in {"down", "acquire"} \/ ix'[w].pc \in {"loop", "sleep", "anchor"}
      BY <1>3, <2>1, <2>3, <3>1 DEF Moves, Anchored, InCycle
    <3>2. CASE ix'[w].pc = "recheck"
      BY <1>3, <2>1, <2>3, <3>2 DEF Moves, Anchored, InCycle, chainVars
    <3>3. CASE ix'[w].pc \in InCycle
      <4>1. /\ lockHolder' = lockHolder /\ ix[w].pc \notin {"down", "acquire"} /\ audit' = audit
            /\ \/ ix'[w].expected # None
               \/ /\ ix[w].pc = "recheck"
                  /\ ix'[w].height = IF checkpoint = NoRow THEN StartHeight ELSE checkpoint + 1
               \/ /\ ix[w].pc \in InCycle
                  /\ ix'[w].height = ix[w].height /\ ix'[w].expected = ix[w].expected
        BY <1>3, <3>3 DEF Moves, InCycle
      <4>2. ~audit.lost => lockHolder = w
        BY <2>1, <4>1 DEF Anchored
      <4>3. ix'[w].expected = None =>
               \/ ix'[w].height = StartHeight
               \/ audit.lost /\ ix'[w].height - 1 \in DOMAIN blocks
        <5>1. (checkpoint + 1) - 1 = checkpoint
          BY <1>0 DEF Heights
        <5> QED BY <1>c, <2>1, <4>1, <5>1 DEF Anchored
      <4>4. ix'[w].pc \notin {"recheck", "down", "acquire"}
        BY <3>3 DEF InCycle
      <4>5. blocks' = blocks /\ audit' = audit /\ lockHolder' = lockHolder
        BY <1>3, <4>1 DEF Moves, chainVars
      <4>6. ~audit'.lost => lockHolder' = w
        BY <4>2, <4>5
      <4>7. ix'[w].expected = None =>
               \/ ix'[w].height = StartHeight
               \/ audit'.lost /\ ix'[w].height - 1 \in DOMAIN blocks'
        BY <4>3, <4>5
      <4> QED BY <2>3, <4>4, <4>6, <4>7 DEF Anchored
    <3> QED BY <1>3, <3>1, <3>2, <3>3 DEF Moves
  <2> QED BY <2>2, <2>3
<1>4. ASSUME NEW w \in Writers, CommitHeight(w) \/ CommitUnconfirmed(w) PROVE Anchored(v)'
  <2>1. /\ Anchored(w) /\ ix[w] \in Process /\ ix[w].pc = "commit" /\ PersistHeight(w)
        /\ lockHolder' = lockHolder /\ audit'.lost = audit.lost /\ ProcInv
    BY <1>4 DEF IInv, ProcInv, TypeOK, CommitHeight, CommitUnconfirmed, Recorded
  <2>2. DOMAIN blocks \subseteq DOMAIN blocks' /\ ix[w].block \in Block
    BY <2>1, StoreGrows, CommitReady
  <2>3. CASE v # w
    <3>1. ix'[v] = ix[v]
      BY <1>0, <1>4, <2>3 DEF CommitHeight, CommitUnconfirmed, LeaveCycle, TypeOK
    <3>2. audit.lost \/ ix[v].pc \in {"down", "acquire"}
      BY <1>0, <2>1, <2>3 DEF Anchored
    <3> QED BY <1>0, <2>1, <2>2, <3>1, <3>2 DEF Anchored
  <2>4. CASE v = w
    <3>1. \/ ix'[w].pc = "sleep"
          \/ ix'[w].pc = "head" /\ ix'[w].expected = ix[w].block.hash
      <4>1. CASE CommitUnconfirmed(w)
        BY <1>0, <4>1 DEF CommitUnconfirmed, LeaveCycle, Fresh, TypeOK
      <4>2. CASE CommitHeight(w)
        <5>1. ix' = [ix EXCEPT ![w] = [ix[w] EXCEPT !.pc = "head", !.height = ix[w].height + 1,
                             !.expected = ix[w].block.hash, !.block = None, !.seen = NoRow]]
          BY <4>2 DEF CommitHeight
        <5> QED BY <1>0, <2>1, <5>1 DEF TypeOK, Process
      <4> QED BY <1>4, <4>1, <4>2
    <3>2. ix[w].block.hash # None
      BY <2>2, NoneAssumption DEF Block
    <3>3. ~audit.lost => lockHolder = w
      BY <2>1 DEF Anchored
    <3> QED BY <2>1, <2>4, <3>1, <3>2, <3>3 DEF Anchored, InCycle
  <2> QED BY <2>3, <2>4
<1>5. ASSUME NEW w \in Writers, Step(w) \/ Operated(w) \/ Faulty(w) PROVE Anchored(v)'
  BY <1>0, <1>3, <1>4, <1>5, StepMoves
<1> QED BY <1>1, <1>2, <1>5 DEF Next

\* What a committed transaction does to the store: it adds at most the one
\* height that follows the checkpoint, and changes nothing that was there.
LEMMA PersistStore ==
    ASSUME IInv, NEW w \in Writers, ix[w].pc = "commit", PersistHeight(w), audit' = Recorded(w)
    PROVE  /\ StoreTypeOK' /\ NoGaps' /\ ChainLinked' /\ CoverageExact'
           /\ DOMAIN blocks \subseteq DOMAIN blocks'
           /\ \A x \in DOMAIN blocks : blocks'[x] = blocks[x]
           /\ checkpoint' \in Heights /\ checkpoint <= checkpoint'
           /\ ix[w].height \in DOMAIN blocks'
           /\ blocks'[ix[w].height].hash = ix[w].block.hash
<1> DEFINE h == ix[w].height
           b == ix[w].block
           tip == ix[w].latest[ix[w].active] - 1
<1>0. /\ ix[w] \in Process /\ ProcOK(ix[w], blocks, checkpoint)
      /\ StoreTypeOK /\ NoGaps /\ ChainLinked /\ CoverageExact /\ Anchored(w)
      /\ audit \in [lost : BOOLEAN, bare : SUBSET Heights]
  BY DEF IInv, ProcInv, TypeOK
<1>1. /\ b \in Block
      /\ ix[w].expected # None => b.parent = ix[w].expected
      /\ \/ ix[w].expected = None /\ h = StartHeight
         \/ ix[w].expected = None /\ h - 1 \in DOMAIN blocks /\ audit.lost
         \/ h - 1 \in DOMAIN blocks /\ blocks[h - 1].hash = ix[w].expected
      /\ ix[w].seen \in Heights /\ ix[w].seen <= checkpoint
      /\ checkpoint \in Heights
  BY <1>0 DEF ProcOK, Fetched, Extends, Anchored, SeenNotAhead, InCycle, PC, Process, StoreTypeOK
<1>2. h \in Heights
  BY CommitReady DEF IInv
<1>3. /\ ~Refused(h, b, ix[w].seen, tip)
      /\ blocks' = Upserted(h, b)
      /\ calls' = AdvancedCalls(h, ix[w].seen)
      /\ checkpoint' = IF Advances(h, ix[w].seen) THEN Greatest(checkpoint, h)
                                                  ELSE checkpoint
      /\ selected' = selected
  BY DEF PersistHeight, Persist
<1> HIDE DEF h, b, tip
<1>4. CASE h \in DOMAIN blocks
  <2>1. blocks' = blocks
    BY <1>0, <1>3, <1>4 DEF Upserted, StoreTypeOK
  <2>2. checkpoint # NoRow /\ h \in StartHeight..checkpoint
    BY <1>0, <1>4 DEF NoGaps
  <2>3. checkpoint' = checkpoint
    BY <1>1, <1>2, <1>3, <2>2 DEF Greatest, Heights
  <2>4. calls' = calls
    BY <1>0, <1>1, <1>2, <1>3, <2>2, HeightAssumption
       DEF AdvancedCalls, CoverageExact, NoRow, Heights
  <2>5. blocks[h].hash = b.hash
    BY <1>3, <1>4 DEF Refused, Conflicts
  <2>a. audit' = audit
    BY <1>4 DEF Recorded, h
  <2>6. StoreTypeOK' /\ NoGaps' /\ ChainLinked' /\ CoverageExact'
    BY <1>0, <1>3, <2>1, <2>3, <2>4, <2>a
       DEF StoreTypeOK, NoGaps, ChainLinked, CoverageExact
  <2> QED BY <1>1, <1>4, <2>1, <2>3, <2>5, <2>6 DEF h, b, Heights
<1>5. CASE h \notin DOMAIN blocks
  <2>1. /\ blocks' = [x \in DOMAIN blocks \cup {h} |->
                        IF x \in DOMAIN blocks THEN blocks[x] ELSE b]
        /\ DOMAIN blocks' = DOMAIN blocks \cup {h}
        /\ blocks'[h] = b
        /\ \A x \in DOMAIN blocks : blocks'[x] = blocks[x]
    BY <1>3, <1>5 DEF Upserted
  <2>2. h = IF checkpoint = NoRow THEN StartHeight ELSE checkpoint + 1
    BY <1>0, <1>1, <1>2, <1>5, HeightAssumption DEF NoGaps, NoRow, Heights
  <2>3. Advances(h, ix[w].seen)
    BY <1>1, <1>2, <2>2 DEF Advances, NoRow, Heights
  <2>4. checkpoint' = h
    BY <1>1, <1>2, <1>3, <2>2, <2>3, HeightAssumption DEF Greatest, NoRow, Heights
  <2>5. NoGaps'
    <3>1. h # NoRow
      BY <1>1, <1>2, <2>2, HeightAssumption DEF NoRow, Heights
    <3>2. DOMAIN blocks \cup {h} = StartHeight..h
      BY <1>0, <1>1, <1>2, <2>2, HeightAssumption DEF NoGaps, NoRow, Heights
    <3> QED BY <2>1, <2>4, <3>1, <3>2 DEF NoGaps
  <2>6. calls' = [from |-> StartHeight, through |-> h]
    <3>1. CASE checkpoint = NoRow
      BY <1>0, <1>1, <1>3, <2>2, <3>1 DEF CoverageExact, AdvancedCalls, NoRow, Heights
    <3>2. CASE checkpoint # NoRow
      BY <1>0, <1>1, <1>2, <1>3, <2>2, <3>2
         DEF CoverageExact, AdvancedCalls, NoRow, Heights
    <3> QED BY <3>1, <3>2
  <2>7. CoverageExact'
    BY <1>1, <1>2, <2>2, <2>4, <2>6, HeightAssumption DEF CoverageExact, NoRow, Heights
  <2>8. StoreTypeOK'
    BY <1>0, <1>1, <1>2, <1>3, <2>1, <2>4, <2>6, HeightAssumption
       DEF StoreTypeOK, Heights
  <2>b. /\ audit'.lost = audit.lost
        /\ ix[w].expected = None /\ h # StartHeight =>
              audit'.bare = audit.bare \cup {h} /\ audit.lost
        /\ ~(ix[w].expected = None /\ h # StartHeight) => audit'.bare = audit.bare
    <3>1. audit' = IF ix[w].expected = None /\ h # StartHeight /\ h \notin DOMAIN blocks
                   THEN [audit EXCEPT !.bare = audit.bare \cup {h}] ELSE audit
      BY DEF Recorded, h
    <3>2. ix[w].expected = None /\ h # StartHeight => audit.lost
      BY <1>0 DEF Anchored, InCycle, PC, h
    <3> QED BY <1>0, <1>5, <3>1, <3>2
  <2>9. ChainLinked'
    <3>0. audit'.bare # {} => audit'.lost
      BY <1>0, <2>b DEF ChainLinked
    <3> SUFFICES ASSUME NEW x \in DOMAIN blocks' \ audit'.bare, x - 1 \in DOMAIN blocks'
                 PROVE  blocks'[x].parent = blocks'[x - 1].hash
      BY <3>0 DEF ChainLinked
    <3>1. x \in Int /\ h \in Int /\ \A y \in DOMAIN blocks : y \in Int /\ y < h
      BY <1>0, <1>1, <1>2, <2>1, <2>2, HeightAssumption
         DEF NoGaps, StoreTypeOK, Heights, NoRow
    <3>2. CASE x = h
      <4>1. x - 1 \in DOMAIN blocks
        BY <2>1, <3>1, <3>2
      <4>2. ix[w].expected # None
        <5>2. checkpoint # NoRow
          BY <1>0, <4>1 DEF NoGaps
        <5>3. h # StartHeight
          BY <1>0, <1>1, <2>2, <5>2, <4>1, HeightAssumption DEF NoGaps, Heights, NoRow
        <5> QED BY <2>b, <3>2, <5>3
      <4> QED BY <1>1, <2>1, <3>2, <4>1, <4>2
    <3>3. CASE x # h
      <4>1. x \in DOMAIN blocks \ audit.bare /\ x - 1 \in DOMAIN blocks
        BY <2>1, <2>b, <3>1, <3>3
      <4> QED BY <1>0, <2>1, <4>1 DEF ChainLinked
    <3> QED BY <3>2, <3>3
  <2> QED BY <1>1, <1>2, <2>1, <2>2, <2>4, <2>5, <2>7, <2>8, <2>9, HeightAssumption
          DEF h, b, Heights, NoRow
<1> QED BY <1>4, <1>5

\* An empty database and stopped processes satisfy the invariant.
LEMMA InitInvariant == Init => IInv
<1> SUFFICES ASSUME Init PROVE IInv
  OBVIOUS
<1> DEFINE F == Fresh("down", FALSE, None)
<1>1. ix = [w \in Writers |-> F]
  BY DEF Init
<1>2. F \in Process /\ ProcOK(F, blocks, checkpoint)
  BY FreshOK
<1>3. StoreTypeOK /\ NoGaps /\ ChainLinked /\ CoverageExact
  BY HeightAssumption
     DEF Init, StoreInit, StoreTypeOK, NoGaps, ChainLinked, CoverageExact, NoRow, Heights
<1>4. lockHolder \in Writers \cup {None} /\ faults \in 0..MaxFaults
      /\ audit \in [lost : BOOLEAN, bare : SUBSET Heights]
  BY IndexerAssumption DEF Init
<1> HIDE DEF F
<1>5. ix \in [Writers -> Process] /\ \A w \in Writers : ix[w] = F
  BY <1>1, <1>2
<1>6. ASSUME NEW w \in Writers PROVE Anchored(w)
  <2>1. ix[w].pc = "down"
    BY <1>5 DEF F, Fresh
  <2> QED BY <2>1 DEF Anchored, InCycle
<1> QED BY <1>2, <1>3, <1>4, <1>5, <1>6 DEF IInv, ProcInv, TypeOK

\* Every step preserves it: only a write touches the rows of the chain.
LEMMA NextInvariant == IInv /\ [Next]_vars => IInv'
<1> SUFFICES ASSUME IInv, [Next]_vars PROVE IInv'
  OBVIOUS
<1>1. ProcInv'
  BY ProcNext DEF IInv
<1>a. ASSUME NEW w \in Writers PROVE Anchored(w)'
  BY AnchoredNext
<1>2. CASE UNCHANGED chainVars /\ audit' \in {audit, [audit EXCEPT !.lost = TRUE]}
  <2>1. audit'.bare = audit.bare /\ (audit.lost => audit'.lost)
    BY <1>2 DEF IInv, ProcInv, TypeOK
  <2>2. ChainLinked'
    BY <1>2, <2>1 DEF chainVars, IInv, ChainLinked
  <2> QED BY <1>1, <1>a, <1>2, <2>2 DEF chainVars, IInv, NoGaps, CoverageExact
<1>3. ASSUME NEW w \in Writers, ix[w].pc = "commit", PersistHeight(w), audit' = Recorded(w)
      PROVE  IInv'
  BY <1>1, <1>a, <1>3, PersistStore DEF IInv
<1> QED BY <1>2, <1>3, OnlyCommitsWrite

\* The inductive invariant holds throughout.
THEOREM Invariance == Spec => []IInv
BY InitInvariant, NextInvariant, PTL DEF Spec

\* Every variable keeps its type, for any number of processes and endpoints.
THEOREM TypeCorrect == Spec => []TypeOK
<1>1. IInv => TypeOK
  BY DEF IInv, ProcInv
<1> QED BY <1>1, Invariance, PTL

\* Stored heights are exactly the range from the bootstrap height to the
\* checkpoint, however processes race, fail over, crash and restart
\* (database.write_height_cursor).
THEOREM StoreHasNoGaps == Spec => []NoGaps
<1>1. IInv => NoGaps
  BY DEF IInv, ProcInv
<1> QED BY <1>1, Invariance, PTL

\* The stored blocks form one hash-linked chain even if endpoints serve
\* different histories and two processes write at once, except on top of a
\* cycle that read no anchor, which needs a lost lock session
\* (rpc.verify_parent_continuity, runner.run_cycle).
THEOREM StoreIsLinked == Spec => []ChainLinked
<1>1. IInv => ChainLinked
  BY DEF IInv, ProcInv
<1> QED BY <1>1, Invariance, PTL

\* A process never extends a hash that is not the stored one, and has one to
\* extend unless a lock session was lost (runner.run_cycle).
THEOREM ProcessExtendsStore == Spec => []ExpectedIsStored
<1>1. IInv => ExpectedIsStored
  <2> SUFFICES ASSUME IInv, NEW w \in Writers, ix[w].pc \in InCycle
               PROVE  \/ ix[w].expected = None /\ ix[w].height = StartHeight
                      \/ /\ ix[w].height - 1 \in DOMAIN blocks
                         /\ \/ ix[w].expected = blocks[ix[w].height - 1].hash
                            \/ ix[w].expected = None /\ audit.lost
    BY DEF InCycle, ExpectedIsStored
  <2> QED BY DEF IInv, ProcInv, ProcOK, Extends, Anchored
<1> QED BY <1>1, Invariance, PTL

\* The Realm call coverage is the stored range, so a live write never meets
\* a coverage gap (database.advance_realm_call_coverage).
THEOREM CoverageIsExact == Spec => []CoverageExact
<1>1. IInv => CoverageExact
  BY DEF IInv, ProcInv
<1> QED BY <1>1, Invariance, PTL

\* A transaction links the endpoint that served its height
\* (runner._activate_candidate, database.selected_rpc_endpoint_id).
THEOREM SourceIsServer == Spec => []SourceServedHeight
<1>1. IInv => SourceServedHeight
  <2> SUFFICES ASSUME IInv, NEW w \in Writers, ix[w].pc \in {"begin", "commit"}
               PROVE  ix[w].active # None /\ ix[w].selId = ix[w].active
    BY DEF SourceServedHeight
  <2>1. ix[w] \in Process /\ ProcOK(ix[w], blocks, checkpoint)
    BY DEF IInv, ProcInv, TypeOK
  <2>2. ix[w].active \in ix[w].activated /\ ix[w].active \in Endpoints
        /\ ix[w].latest[ix[w].active] - 1 >= ix[w].height
    BY <2>1 DEF ProcOK, OneInUse, Process
  <2> QED BY <2>1, <2>2, NoneAssumption DEF ProcOK, OneInUse
<1> QED BY <1>1, Invariance, PTL

\* A stored block never changes and the checkpoint never falls, in every
\* step of any number of processes (database._verify_finalized_conflicts,
\* GREATEST in _advance_checkpoint).
THEOREM FinalizedIsStable == Spec => FinalizedStable
<1>1. ASSUME IInv, [Next]_vars
      PROVE  /\ checkpoint' >= checkpoint
             /\ \A h \in DOMAIN blocks : h \in DOMAIN blocks' /\ blocks'[h] = blocks[h]
  <2>1. CASE UNCHANGED chainVars
    BY <1>1, <2>1 DEF IInv, ProcInv, TypeOK, StoreTypeOK, Heights, chainVars
  <2>2. ASSUME NEW w \in Writers, ix[w].pc = "commit", PersistHeight(w), audit' = Recorded(w)
        PROVE  /\ checkpoint' >= checkpoint
               /\ \A h \in DOMAIN blocks : h \in DOMAIN blocks' /\ blocks'[h] = blocks[h]
    <3>1. checkpoint \in Heights
      BY <1>1 DEF IInv, ProcInv, TypeOK, StoreTypeOK
    <3>2. /\ DOMAIN blocks \subseteq DOMAIN blocks'
          /\ \A x \in DOMAIN blocks : blocks'[x] = blocks[x]
          /\ checkpoint' \in Heights /\ checkpoint <= checkpoint'
      BY <1>1, <2>2, PersistStore
    <3> QED BY <3>1, <3>2 DEF Heights
  <2> QED BY <1>1, <2>1, <2>2, OnlyCommitsWrite
<1> QED BY <1>1, Invariance, PTL DEF Spec, FinalizedStable

-----------------------------------------------------------------------------
(* The store implements the abstract log.                                  *)

\* A transaction that stores a new height appends it to the log.
LEMMA PersistAppends ==
    ASSUME IInv, NEW w \in Writers, ix[w].pc = "commit", PersistHeight(w), audit' = Recorded(w)
    PROVE  [Log!Next]_(Log!logVars)
<1> DEFINE h == ix[w].height
           b == ix[w].block
<1>0. /\ ix[w] \in Process /\ ProcOK(ix[w], blocks, checkpoint) /\ Anchored(w)
      /\ StoreTypeOK /\ NoGaps /\ audit \in [lost : BOOLEAN, bare : SUBSET Heights]
  BY DEF IInv, ProcInv, TypeOK
<1>1. /\ b \in Block
      /\ ix[w].expected # None => b.parent = ix[w].expected
      /\ \/ ix[w].expected = None /\ h = StartHeight
         \/ ix[w].expected = None /\ h - 1 \in DOMAIN blocks /\ audit.lost
         \/ h - 1 \in DOMAIN blocks /\ blocks[h - 1].hash = ix[w].expected
  BY <1>0 DEF ProcOK, Fetched, Extends, Anchored, InCycle, PC
<1>2. h \in Heights /\ checkpoint \in Heights
  BY <1>0, CommitReady DEF StoreTypeOK, IInv
<1>3. blocks' = Upserted(h, b)
  BY DEF PersistHeight, Persist
<1>r. audit' = IF ix[w].expected = None /\ h # StartHeight /\ h \notin DOMAIN blocks
               THEN [audit EXCEPT !.bare = audit.bare \cup {h}] ELSE audit
  BY DEF Recorded, h
<1> HIDE DEF h, b
<1>4. CASE h \in DOMAIN blocks
  BY <1>0, <1>3, <1>4, <1>r DEF Upserted, StoreTypeOK, Log!logVars
<1>5. CASE h \notin DOMAIN blocks
  <2>1. Log!IsNext(h)
    BY <1>0, <1>1, <1>2, <1>5, HeightAssumption DEF NoGaps, NoRow, Heights, Log!IsNext
  <2>2. blocks' = Log!Extended(blocks, h, b) /\ b \in Log!Block
    BY <1>1, <1>3 DEF Upserted, Log!Extended, Block, Log!Block
  <2>3. DOMAIN blocks # {} => h - 1 \in DOMAIN blocks /\ h # StartHeight
    BY <1>0, <1>2, <1>5, <2>1, HeightAssumption DEF NoGaps, NoRow, Heights, Log!IsNext
  <2>4. CASE ix[w].expected = None /\ h # StartHeight
    <3>1. audit.lost /\ h - 1 \in DOMAIN blocks
      <4>1. \A x \in DOMAIN blocks : blocks[x].hash # None
        BY <1>0, NoneAssumption DEF StoreTypeOK, Block
      <4> QED BY <1>1, <2>4, <4>1
    <3>2. audit' = [audit EXCEPT !.bare = audit.bare \cup {h}]
      BY <1>5, <1>r, <2>4
    <3>3. audit'.bare = audit.bare \cup {h} /\ audit'.lost = audit.lost
      BY <1>0, <3>2
    <3>4. Log!AppendUnchecked(h, b)
      BY <2>1, <2>2, <3>1, <3>3 DEF Log!AppendUnchecked
    <3> QED BY <1>2, <2>2, <3>4 DEF Log!Next
  <2>5. CASE ~(ix[w].expected = None /\ h # StartHeight)
    <3>1. audit' = audit
      BY <1>r, <2>5
    <3>2. DOMAIN blocks # {} => b.parent = blocks[h - 1].hash
      BY <1>1, <2>3, <2>5
    <3>3. Log!Append(h, b)
      BY <2>1, <2>2, <3>1, <3>2 DEF Log!Append
    <3> QED BY <1>2, <2>2, <3>3 DEF Log!Next
  <2> QED BY <2>4, <2>5
<1> QED BY <1>4, <1>5

\* Whatever processes, endpoints and faults do, readers of the store see an
\* append-only, gapless log from the bootstrap height on, hash-linked unless
\* a lock session was lost (runner.run_cycle with database.write_height_cursor).
THEOREM ImplementsChainLog == Spec => RefinesChainLog
<1>1. Init => Log!Init
  BY DEF Init, StoreInit, Log!Init
<1>2. ASSUME IInv, [Next]_vars PROVE [Log!Next]_(Log!logVars)
  <2>1. CASE UNCHANGED chainVars /\ audit' = audit
    BY <2>1 DEF chainVars, Log!logVars
  <2>2. CASE UNCHANGED chainVars /\ audit' = [audit EXCEPT !.lost = TRUE]
    <3>1. audit'.lost = TRUE /\ audit'.bare = audit.bare
      BY <1>2, <2>2 DEF IInv, ProcInv, TypeOK
    <3> QED BY <2>2, <3>1 DEF chainVars, Log!Next, Log!Expose
  <2> QED BY <1>2, <2>1, <2>2, OnlyCommitsWrite, PersistAppends
<1> QED BY <1>1, <1>2, Invariance, PTL DEF Spec, RefinesChainLog, Log!Spec

-----------------------------------------------------------------------------
(* The bounded tool beside any number of continuous processes.  Gaps and   *)
(* unlinked blocks are possible here, so the invariant of the processes is *)
(* kept without that of the chain's rows.                                  *)

\* What the tool knows while it works: a height above 0 within the planned
\* range, a block once it is fetched, a checkpoint that is not ahead of the
\* stored one once it is read.
ToolSound(r, c) ==
    /\ r \in RangeProcess
    /\ r.pc # "idle" => 1 <= r.height /\ r.height <= r.end
    /\ r.pc \in {"begin", "commit"} => r.block \in Block
    /\ r.pc = "commit" => r.seen <= c

RangeInv == ProcInv /\ ToolSound(rg, checkpoint) /\ CoverageTruthful

\* A write of any writer keeps the coverage true, and extends it only by the
\* height that follows it.
LEMMA CoverageWrite ==
    ASSUME StoreTypeOK, CoverageTruthful, NEW h \in Heights, h >= 1, NEW b \in Block,
           NEW seen \in Heights, seen <= checkpoint, NEW tip, Persist(h, b, seen, tip)
    PROVE  CoverageTruthful'
<1>1. /\ ~CoverageGap(h) /\ calls' = AdvancedCalls(h, seen) /\ blocks' = Upserted(h, b)
      /\ checkpoint' = IF Advances(h, seen) THEN Greatest(checkpoint, h) ELSE checkpoint
  BY DEF Persist, Refused
<1>2. DOMAIN blocks' = DOMAIN blocks \cup {h}
  BY <1>1 DEF Upserted
<1>3. PICK from \in Heights, through \in Heights : calls = [from |-> from, through |-> through]
  BY DEF StoreTypeOK
<1>4. calls.from = from /\ calls.through = through /\ checkpoint \in Heights
  BY <1>3 DEF StoreTypeOK
<1>5. CASE checkpoint = NoRow
  <2>1. through = NoRow /\ seen = NoRow
    BY <1>4, <1>5 DEF CoverageTruthful, Heights, NoRow
  <2>2. calls' = [from |-> h, through |-> h] /\ checkpoint' = h
    BY <1>1, <1>4, <1>5, <2>1 DEF AdvancedCalls, Advances, Greatest, NoRow, Heights
  <2>3. calls'.from = h /\ calls'.through = h
    BY <2>2
  <2>4. h # NoRow /\ h..h = {h}
    BY DEF NoRow, Heights
  <2> QED BY <1>2, <2>2, <2>3, <2>4 DEF CoverageTruthful
<1>6. CASE checkpoint # NoRow
  <2>1. through = checkpoint /\ from..through \subseteq DOMAIN blocks /\ through # NoRow
    BY <1>4, <1>6 DEF CoverageTruthful
  <2>2. h <= through + 1
    BY <1>1, <1>4, <2>1 DEF CoverageGap, Heights
  <2>3. CASE h > through
    <3>1. h = through + 1
      BY <2>2, <2>3 DEF Heights
    <3>2. calls' = [from |-> from, through |-> h]
      BY <1>1, <1>3, <1>4, <2>1, <2>3 DEF AdvancedCalls
    <3>3. calls'.from = from /\ calls'.through = h
      BY <3>2
    <3>4. checkpoint' = h
      BY <1>1, <1>4, <2>1, <2>3 DEF Advances, Greatest, Heights
    <3>5. \A x \in from..h : x \in from..through \/ x = h
      BY <3>1 DEF Heights
    <3>6. h # NoRow
      BY DEF NoRow, Heights
    <3> QED BY <1>2, <2>1, <3>3, <3>4, <3>5, <3>6 DEF CoverageTruthful
  <2>4. CASE ~(h > through)
    <3>1. calls' = calls
      BY <1>1, <1>4, <2>1, <2>4 DEF AdvancedCalls
    <3>2. checkpoint' = checkpoint
      BY <1>1, <1>4, <2>1, <2>4 DEF Greatest, Heights
    <3> QED BY <1>2, <1>4, <1>6, <2>1, <3>1, <3>2 DEF CoverageTruthful
  <2> QED BY <2>3, <2>4
<1> QED BY <1>5, <1>6

\* A step of the tool that writes no height.
LEMMA ToolMoves ==
    ASSUME RangeInv, UNCHANGED <<chainVars, ix, lockHolder, faults, audit>>,
           selected' \in Endpoints \cup {None}, ToolSound(rg', checkpoint)
    PROVE  RangeInv'
<1>1. ProcInv'
  BY DEF RangeInv, ProcInv, TypeOK, StoreTypeOK, chainVars
<1>2. CoverageTruthful'
  BY DEF RangeInv, CoverageTruthful, chainVars
<1> QED BY <1>1, <1>2 DEF RangeInv, chainVars

\* The tool at rest.
LEMMA ToolIdle == ASSUME NEW c PROVE ToolSound(RangeIdle, c)
<1>1. RangeIdle \in RangeProcess /\ RangeIdle.pc = "idle"
  BY HeightAssumption DEF RangeIdle, RangeProcess, Heights, NoRow
<1> QED BY <1>1 DEF ToolSound

\* An empty store and no process satisfy the invariant.
LEMMA RangeInitInv == RangeInit => RangeInv
<1> SUFFICES ASSUME RangeInit PROVE RangeInv
  OBVIOUS
<1>1. ProcInv
  BY InitInvariant DEF RangeInit, IInv
<1>2. CoverageTruthful
  BY DEF RangeInit, Init, StoreInit, CoverageTruthful, NoRow
<1> QED BY <1>1, <1>2, ToolIdle DEF RangeInit, RangeInv

\* A write of the tool grows the store; the processes' view of it survives.
LEMMA ToolCommits ==
    ASSUME RangeInv, RangeCommit
    PROVE  /\ RangeInv' /\ checkpoint' >= checkpoint
           /\ \A h \in DOMAIN blocks : h \in DOMAIN blocks' /\ blocks'[h] = blocks[h]
<1>1. /\ rg \in RangeProcess /\ rg.pc = "commit" /\ 1 <= rg.height /\ rg.height <= rg.end
      /\ rg.block \in Block /\ rg.seen <= checkpoint
      /\ Persist(rg.height, rg.block, rg.seen, rg.tip)
      /\ UNCHANGED <<ix, lockHolder, faults, audit>>
  BY DEF RangeInv, ToolSound, RangeCommit
<1>2. rg.height \in Heights /\ rg.seen \in Heights /\ rg.end \in Heights
  BY <1>1, HeightAssumption DEF RangeProcess, Heights
<1>3. StoreTypeOK /\ CoverageTruthful
  BY DEF RangeInv, ProcInv, TypeOK
<1>4. /\ StoreTypeOK' /\ DOMAIN blocks \subseteq DOMAIN blocks'
      /\ \A x \in DOMAIN blocks : blocks'[x] = blocks[x]
      /\ checkpoint' \in Heights /\ checkpoint <= checkpoint'
  BY <1>1, <1>2, <1>3, PersistGrows
<1>5. CoverageTruthful'
  BY <1>1, <1>2, <1>3, CoverageWrite
<1>6. ASSUME NEW v \in Writers PROVE ProcOK(ix[v], blocks', checkpoint')
  <2>1. ix[v] \in Process /\ ProcOK(ix[v], blocks, checkpoint)
    BY DEF RangeInv, ProcInv, TypeOK
  <2>2. Extends(ix[v], blocks')
    BY <1>4, <2>1 DEF ProcOK, Extends
  <2>3. SeenNotAhead(ix[v], checkpoint')
    <3>1. ix[v].seen \in Int /\ checkpoint \in Int /\ checkpoint' \in Int
      BY <1>3, <1>4, <2>1 DEF Process, StoreTypeOK, Heights
    <3> QED BY <1>4, <2>1, <3>1 DEF ProcOK, SeenNotAhead
  <2> QED BY <2>1, <2>2, <2>3 DEF ProcOK
<1>7. ProcInv'
  BY <1>1, <1>4, <1>6 DEF RangeInv, ProcInv, TypeOK
<1>8. ToolSound(rg', checkpoint')
  <2>1. CASE rg.height = rg.end
    <3>1. rg' = RangeIdle
      BY <2>1 DEF RangeCommit
    <3> QED BY <3>1, ToolIdle
  <2>2. CASE rg.height # rg.end
    <3>1. rg' = [rg EXCEPT !.pc = "fetch", !.height = @ + 1, !.block = None, !.seen = NoRow]
      BY <2>2 DEF RangeCommit
    <3>2. rg.height + 1 \in 0..(MaxHeight + 1) /\ rg.height + 1 <= rg.end /\ NoRow \in Heights
          /\ 1 <= rg.height + 1
      BY <1>1, <1>2, <2>2, HeightAssumption DEF Heights, NoRow
    <3>3. rg' \in RangeProcess
      BY <1>1, <3>1, <3>2 DEF RangeProcess
    <3>4. rg'.pc = "fetch" /\ rg'.height = rg.height + 1 /\ rg'.end = rg.end
      BY <1>1, <3>1 DEF RangeProcess
    <3> QED BY <3>2, <3>3, <3>4 DEF ToolSound
  <2> QED BY <2>1, <2>2
<1>9. checkpoint' >= checkpoint
  BY <1>3, <1>4 DEF StoreTypeOK, Heights
<1> QED BY <1>4, <1>5, <1>7, <1>8, <1>9 DEF RangeInv

\* Every step of the tool and of the processes keeps the invariant, the
\* stored blocks and the checkpoint.
LEMMA RangeStep ==
    RangeInv /\ [RangeNext]_rangeVars =>
        /\ RangeInv' /\ checkpoint' >= checkpoint
        /\ \A h \in DOMAIN blocks : h \in DOMAIN blocks' /\ blocks'[h] = blocks[h]
<1> DEFINE Stable == /\ checkpoint' >= checkpoint
                   /\ \A h \in DOMAIN blocks : h \in DOMAIN blocks' /\ blocks'[h] = blocks[h]
<1> SUFFICES ASSUME RangeInv, [RangeNext]_rangeVars PROVE RangeInv' /\ Stable
  OBVIOUS
<1>0. /\ ProcInv /\ StoreTypeOK /\ checkpoint \in Heights /\ selected \in Endpoints \cup {None}
      /\ rg \in RangeProcess /\ ToolSound(rg, checkpoint) /\ CoverageTruthful
  BY DEF RangeInv, ProcInv, TypeOK, StoreTypeOK, ToolSound
<1>u. ASSUME UNCHANGED chainVars PROVE Stable
  BY <1>0, <1>u DEF chainVars, Heights
<1>1. ASSUME NEW s \in Heights, NEW end \in Heights, NEW tip \in Heights, NEW e \in Endpoints,
             RangeStart(s, end, e, tip)
      PROVE  RangeInv' /\ UNCHANGED chainVars
  <2>1. /\ rg' = [RangeIdle EXCEPT !.pc = "fetch", !.height = s, !.end = end,
                               !.tip = tip, !.endpoint = e]
        /\ 1 <= s /\ s <= end /\ selected' = e /\ UNCHANGED <<chainVars, ix, lockHolder, faults, audit>>
    BY <1>1 DEF RangeStart, Select, Heights
  <2>2. RangeIdle \in RangeProcess
    BY HeightAssumption DEF RangeIdle, RangeProcess, Heights, NoRow
  <2>0. s \in 0..(MaxHeight + 1)
    BY HeightAssumption DEF Heights
  <2>3. rg' \in RangeProcess
    BY <2>0, <2>1, <2>2 DEF RangeProcess
  <2>4. rg'.pc = "fetch" /\ rg'.height = s /\ rg'.end = end
    BY <2>1, <2>2 DEF RangeProcess
  <2>5. ToolSound(rg', checkpoint)
    BY <2>1, <2>3, <2>4 DEF ToolSound
  <2> QED BY <2>1, <2>5, ToolMoves
<1>2. ASSUME rg.endpoint # None, NEW f \in Answers(rg.endpoint), RangeFetch(f)
      PROVE  RangeInv' /\ UNCHANGED chainVars
  <2>1. UNCHANGED <<chainVars, ix, lockHolder, faults, audit>> /\ selected' = selected
    BY <1>2 DEF RangeFetch, vars, storeVars, chainVars
  <2>2. CASE f = None
    BY <1>0, <1>2, <2>1, <2>2, ToolIdle, ToolMoves DEF RangeFetch, RangeExit
  <2>3. CASE f # None
    <3>1. rg.pc = "fetch" /\ 1 <= rg.height /\ rg.height <= rg.end /\ rg.endpoint \in Endpoints
      BY <1>0, <1>2 DEF RangeFetch, ToolSound, RangeProcess
    <3>2. rg.height \in Heights /\ rg.height - 1 \in Heights
      BY <1>0, <3>1, HeightAssumption DEF RangeProcess, Heights
    <3>3. f \in Forks
      BY <1>2, <2>3, <3>1, IndexerAssumption DEF Answers
    <3>4. PICK b : b = [hash |-> HashAt[f][rg.height], parent |-> HashAt[f][rg.height - 1]]
      OBVIOUS
    <3>5. b \in Block
      BY <3>2, <3>3, <3>4, IndexerAssumption DEF Block
    <3>6. rg' = [rg EXCEPT !.pc = "begin", !.block = b]
      BY <1>2, <2>3, <3>4 DEF RangeFetch
    <3>7. /\ rg' \in RangeProcess /\ rg'.pc = "begin" /\ rg'.block = b
          /\ rg'.height = rg.height /\ rg'.end = rg.end
      BY <1>0, <3>5, <3>6 DEF RangeProcess
    <3>8. ToolSound(rg', checkpoint)
      BY <3>1, <3>5, <3>7 DEF ToolSound
    <3> QED BY <1>0, <2>1, <3>8, ToolMoves
  <2> QED BY <2>2, <2>3
<1>3. CASE RangeBegin
  <2>1. UNCHANGED <<chainVars, ix, lockHolder, faults, audit>> /\ selected' = selected
    BY <1>3 DEF RangeBegin, vars, storeVars, chainVars
  <2>2. CASE rg' = RangeIdle
    BY <1>0, <1>u, <2>1, <2>2, ToolIdle, ToolMoves
  <2>3. CASE rg' = [rg EXCEPT !.pc = "commit", !.seen = checkpoint]
    <3>1. /\ rg' \in RangeProcess /\ rg'.pc = "commit" /\ rg'.seen = checkpoint
          /\ rg'.block = rg.block /\ rg'.height = rg.height /\ rg'.end = rg.end
      BY <1>0, <2>3 DEF RangeProcess
    <3>2. ToolSound(rg', checkpoint)
      BY <1>0, <1>3, <3>1 DEF ToolSound, RangeBegin, Heights
    <3> QED BY <1>0, <1>u, <2>1, <3>2, ToolMoves
  <2> QED BY <1>3, <2>2, <2>3 DEF RangeBegin, RangeExit
<1>4. CASE RangeCommit
  BY <1>4, ToolCommits
<1>5. CASE RangeRefused \/ RangeCrash
  <2>1. UNCHANGED <<chainVars, ix, lockHolder, faults, audit>> /\ selected' = selected /\ rg' = RangeIdle
    BY <1>5 DEF RangeRefused, RangeCrash, RangeExit, vars, storeVars, chainVars
  <2> QED BY <1>0, <1>u, <2>1, ToolIdle, ToolMoves
<1>6. CASE [Next]_vars /\ UNCHANGED rg
  <2>1. ProcInv'
    BY <1>0, <1>6, ProcNext
  <2>2. CASE UNCHANGED chainVars
    <3>1. CoverageTruthful' /\ ToolSound(rg', checkpoint')
      BY <1>0, <1>6, <2>2 DEF CoverageTruthful, chainVars
    <3> QED BY <1>u, <2>1, <2>2, <3>1 DEF RangeInv
  <2>3. ASSUME NEW w \in Writers, ix[w].pc = "commit", PersistHeight(w)
        PROVE  RangeInv' /\ Stable
    <3>1. /\ ix[w].height \in Heights /\ ix[w].height >= 1 /\ ix[w].block \in Block
          /\ ix[w].seen \in Heights /\ ix[w].seen <= checkpoint
      BY <1>0, <2>3, CommitReady
    <3>2. Persist(ix[w].height, ix[w].block, ix[w].seen, ix[w].latest[ix[w].active] - 1)
      BY <2>3 DEF PersistHeight
    <3>3. CoverageTruthful'
      BY <1>0, <3>1, <3>2, CoverageWrite
    <3>4. /\ DOMAIN blocks \subseteq DOMAIN blocks'
          /\ \A x \in DOMAIN blocks : blocks'[x] = blocks[x]
          /\ checkpoint' \in Heights /\ checkpoint <= checkpoint'
      BY <1>0, <3>1, <3>2, PersistGrows
    <3>5. ToolSound(rg', checkpoint')
      <4>1. rg.seen \in Int /\ checkpoint \in Int /\ checkpoint' \in Int
        BY <1>0, <3>4 DEF RangeProcess, Heights
      <4> QED BY <1>0, <1>6, <3>4, <4>1 DEF ToolSound
    <3>6. Stable
      BY <1>0, <3>4 DEF Heights
    <3> QED BY <2>1, <3>3, <3>5, <3>6 DEF RangeInv
  <2> QED BY <1>6, <2>2, <2>3, OnlyCommitsWrite
<1> HIDE DEF Stable
<1> QED BY <1>1, <1>2, <1>3, <1>4, <1>5, <1>6, <1>u DEF RangeNext, rangeVars

\* The coverage of the Realm call index claims only stored heights and ends at
\* the checkpoint, whatever writers race (database.advance_realm_call_coverage).
THEOREM CoverageStaysTruthful == RangeSpec => []CoverageTruthful
<1>1. RangeInv => CoverageTruthful
  BY DEF RangeInv
<1> QED BY <1>1, RangeInitInv, RangeStep, PTL DEF RangeSpec

\* A stored block and the checkpoint survive the bounded tool, which takes no
\* lock and checks no parent (database._verify_finalized_conflicts).
THEOREM RangeKeepsFinalized == RangeSpec => RangeFinalizedStable
BY RangeInitInv, RangeStep, PTL DEF RangeSpec, RangeFinalizedStable
=============================================================================

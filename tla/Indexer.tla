------------------------------ MODULE Indexer -------------------------------
(***************************************************************************)
(* The continuous indexer (indexer/runner.py): processes that take the     *)
(* chain's advisory lock, then run cycles.  A cycle reads the checkpoint,  *)
(* probes the RPC endpoints, activates one against the checkpoint's hash,  *)
(* fetches the next heights one by one, checks that each names its         *)
(* predecessor, and writes each in one transaction; an endpoint that fails *)
(* is rejected for the rest of the cycle and the next one takes over.      *)
(*                                                                         *)
(* The lock lives in a database session of its own.  The session can die   *)
(* while the process is in the middle of a cycle, and then a second        *)
(* process may take the lock and write beside the first.                   *)
(***************************************************************************)
EXTENDS BlockStore

CONSTANTS
    Writers,        \* processes of scripts/run_indexer.py
    Forks,          \* histories an endpoint can serve
    HashAt,         \* fork -> height -> hash
    Serves,         \* endpoint -> the histories it may answer from
    Reliable,       \* the endpoints that always answer
    MaxLag,         \* RPC_MAX_HEIGHT_LAG
    BatchSize,      \* INDEXER_BATCH_SIZE
    MaxFaults       \* bound: crashes, lost sessions, database errors,
                    \* signals, probe rounds with a tip that does not exist

ASSUME IndexerAssumption ==
    /\ HashAt \in [Forks -> [Heights -> Hashes]]
    /\ Serves \in [Endpoints -> SUBSET Forks]
    /\ Reliable \subseteq Endpoints
    /\ MaxLag \in Nat
    /\ BatchSize \in Nat \ {0}
    /\ MaxFaults \in Nat
    /\ None \notin Writers

VARIABLES
    ix,             \* writer -> the state of its process
    lockHolder,     \* the writer whose live session holds the advisory lock
    faults,         \* how many faults have happened
    audit           \* history that no process sees: lost, whether a lock
                    \* session has died; bare, the heights above StartHeight
                    \* stored with no hash to compare their parent with

vars == <<storeVars, ix, lockHolder, faults, audit>>

\* The latest height of the chain; its last finalized one is MaxHeight.
Tip == MaxHeight + 1

\* Bound: a wrong tip is at most the first that makes the true one stale.
Latest == 0..(Tip + MaxLag + 1)

(* Where a process is: "down" not running; "acquire" before the advisory   *)
(* lock; "loop" at the head of run_continuous's loop; "anchor", "recheck"  *)
(* and "probe" in run_cycle's preamble; "idle" in its caught-up branch;    *)
(* "head" at the head of the loop over heights; "select" looking for an    *)
(* endpoint; "fetch" with one; "begin" before and "commit" inside the      *)
(* transaction of write_height, after and before the wait for its lock;    *)
(* "sleep" in a poll or backoff wait.                                      *)
PC == {"down", "acquire", "loop", "anchor", "recheck", "probe", "idle", "head",
       "select", "fetch", "begin", "commit", "sleep"}

Process ==
    [pc        : PC,
     stop      : BOOLEAN,                        \* StopController.requested; if
                                                 \* down: not to be restarted
     height    : 0..(MaxHeight + 1),             \* the height being processed
     planned   : Latest,                         \* planned_end
     expected  : Hashes \cup {None},             \* expected_parent
     latest    : [Endpoints -> Latest],          \* candidates, 0: not one
     activated : SUBSET Endpoints,               \* activated_urls
     active    : Endpoints \cup {None},          \* the endpoint in use
     selId     : Endpoints \cup {None},          \* selected_rpc_endpoint_id
     block     : Block \cup {None},              \* the parsed height
     seen      : Heights]                        \* checkpoint in write_height

\* What a process holds outside a cycle.
Fresh(pc, stop, selId) ==
    [pc |-> pc, stop |-> stop, height |-> 0, planned |-> 0, expected |-> None,
     latest |-> [e \in Endpoints |-> 0], activated |-> {}, active |-> None,
     selId |-> selId, block |-> None, seen |-> NoRow]

TypeOK ==
    /\ StoreTypeOK
    /\ ix \in [Writers -> Process]
    /\ lockHolder \in Writers \cup {None}
    /\ faults \in 0..MaxFaults
    /\ audit \in [lost : BOOLEAN, bare : SUBSET Heights]

Init ==
    /\ StoreInit
    /\ ix = [w \in Writers |-> Fresh("down", FALSE, None)]
    /\ lockHolder = None
    /\ faults = 0
    /\ audit = [lost |-> FALSE, bare |-> {}]

-----------------------------------------------------------------------------
(* Leaving a cycle, leaving the process.                                   *)

LeaveCycle(w, pc) == ix' = [ix EXCEPT ![w] = Fresh(pc, ix[w].stop, ix[w].selId)]


\* The finally clause of run_continuous closes the lock's session.  A
\* process that was told to stop stays down as a stopped one.
Exit(w) ==
    /\ ix' = [ix EXCEPT ![w] = Fresh("down", ix[w].stop, None)]
    /\ lockHolder' = IF lockHolder = w THEN None ELSE lockHolder

-----------------------------------------------------------------------------
(* Startup and the loop of run_continuous.                                 *)

\* systemd starts the enabled unit, and again whenever it ends by itself
\* (Restart=on-failure).
Start(w) ==
    /\ ix[w].pc = "down"
    /\ ~ix[w].stop
    /\ ix' = [ix EXCEPT ![w].pc = "acquire"]
    /\ UNCHANGED <<storeVars, lockHolder, faults, audit>>

\* A stopped unit, or one that systemd gave up, comes back only if an
\* operator starts it.
OperatorStart(w) ==
    /\ ix[w].pc = "down"
    /\ ix[w].stop
    /\ ix' = [ix EXCEPT ![w] = Fresh("acquire", FALSE, None)]
    /\ UNCHANGED <<storeVars, lockHolder, faults, audit>>

\* AdvisoryLock.acquire: pg_try_advisory_lock; AdvisoryLockHeld is fatal.
AcquireLock(w) ==
    /\ ix[w].pc = "acquire"
    /\ IF ix[w].stop \/ lockHolder # None
       THEN Exit(w)
       ELSE /\ lockHolder' = w
            /\ ix' = [ix EXCEPT ![w].pc = "loop"]
    /\ UNCHANGED <<storeVars, faults, audit>>

\* StartLimitBurst: a unit that finds the lock held again and again is given up.
StartLimitHit(w) ==
    /\ ix[w].pc = "acquire"
    /\ lockHolder # None
    /\ ix' = [ix EXCEPT ![w] = Fresh("down", TRUE, None)]
    /\ UNCHANGED <<storeVars, lockHolder, faults, audit>>

\* AdvisoryLock.ensure_alive, the only look at the session during the loop.
BeginCycle(w) ==
    /\ ix[w].pc = "loop"
    /\ IF ix[w].stop \/ lockHolder # w
       THEN Exit(w)
       ELSE ix' = [ix EXCEPT ![w].pc = "anchor"] /\ UNCHANGED lockHolder
    /\ UNCHANGED <<storeVars, faults, audit>>

\* stop_aware_wait, after a caught-up cycle or a transient error.
Wake(w) ==
    /\ ix[w].pc = "sleep"
    /\ IF ix[w].stop
       THEN Exit(w)
       ELSE LeaveCycle(w, "loop") /\ UNCHANGED lockHolder
    /\ UNCHANGED <<storeVars, faults, audit>>

-----------------------------------------------------------------------------
(* The preamble of run_cycle.                                              *)

\* get_checkpoint_anchor.  A checkpoint without its block is a DatabaseError,
\* which ends the process; no checkpoint leads to a second look.
ReadAnchor(w) ==
    /\ ix[w].pc = "anchor"
    /\ IF checkpoint # NoRow /\ checkpoint \notin DOMAIN blocks
       THEN Exit(w)
       ELSE /\ ix' = [ix EXCEPT ![w] =
                 IF checkpoint = NoRow
                 THEN [ix[w] EXCEPT !.pc = "recheck"]
                 ELSE [ix[w] EXCEPT !.pc = "probe",
                                    !.height = checkpoint + 1,
                                    !.expected = blocks[checkpoint].hash]]
            /\ UNCHANGED lockHolder
    /\ UNCHANGED <<storeVars, faults, audit>>

\* get_checkpoint, in a transaction of its own: a height committed since the
\* anchor was read moves the cycle on, but gives it no hash to extend.
ReadCheckpoint(w) ==
    /\ ix[w].pc = "recheck"
    /\ ix' = [ix EXCEPT ![w] =
         [ix[w] EXCEPT !.pc = "probe",
                       !.height = IF checkpoint = NoRow THEN StartHeight
                                                        ELSE checkpoint + 1,
                       !.expected = None]]
    /\ UNCHANGED <<storeVars, lockHolder, faults, audit>>

\* What a round of /status probes can report: a reliable endpoint answers
\* with the chain's latest height, any other with any height, one that the
\* chain has not reached included, or not at all.
ProbeReports ==
    {r \in [Endpoints -> Latest] : \A e \in Reliable : r[e] = Tip}

\* A round in which some endpoint reports a tip that does not exist counts
\* as a fault.
Charged(r) ==
    IF \E e \in Endpoints : r[e] > Tip
    THEN faults < MaxFaults /\ faults' = faults + 1
    ELSE UNCHANGED faults

\* _with_lag: too far behind the highest answer.
Stale(r, e) == \E d \in Endpoints : r[d] - r[e] > MaxLag

\* suitable_rpc_probes
Suitable(r) == {e \in Endpoints : r[e] # 0 /\ ~Stale(r, e)}

\* _candidate_probes: at most one height behind the one wanted.
Candidates(w, r) == {e \in Suitable(r) : r[e] >= ix[w].height - 1}

Usable(w, r) == {e \in Candidates(w, r) : r[e] - 1 >= ix[w].height}
Kept(r, S) == [e \in Endpoints |-> IF e \in S THEN r[e] ELSE 0]

\* planned_end: the highest tip, capped to a batch.
IsPlannedEnd(p, w, r) ==
    LET cap == ix[w].height + BatchSize - 1 IN
    /\ p <= cap
    /\ \E e \in Usable(w, r) : p <= r[e] - 1
    /\ p = cap \/ \A e \in Usable(w, r) : r[e] - 1 <= p

\* Each of the three outcomes records the probe cycle, which makes the
\* process forget its selected endpoint.
ProbeAllRejected(w, r) ==
    /\ ix[w].pc = "probe"
    /\ Candidates(w, r) = {}
    /\ ix' = [ix EXCEPT ![w] = Fresh("sleep", ix[w].stop, None)]
    /\ Charged(r)
    /\ UNCHANGED <<storeVars, lockHolder, audit>>

ProbeCaughtUp(w, r) ==
    /\ ix[w].pc = "probe"
    /\ Candidates(w, r) # {}
    /\ Usable(w, r) = {}
    /\ ix' = [ix EXCEPT ![w] = [ix[w] EXCEPT !.pc = "idle", !.selId = None,
                                         !.latest = Kept(r, Candidates(w, r))]]
    /\ Charged(r)
    /\ UNCHANGED <<storeVars, lockHolder, audit>>

ProbePlan(w, r, p) ==
    /\ ix[w].pc = "probe"
    /\ IsPlannedEnd(p, w, r)
    /\ ix' = [ix EXCEPT ![w] = [ix[w] EXCEPT !.pc = "head", !.selId = None,
                                         !.planned = p,
                                         !.latest = Kept(r, Usable(w, r))]]
    /\ Charged(r)
    /\ UNCHANGED <<storeVars, lockHolder, audit>>

-----------------------------------------------------------------------------
(* Using an endpoint.  Every answer is taken from one of the histories the *)
(* endpoint serves; an unreliable endpoint may also not answer.            *)

Answers(e) == Serves[e] \cup (IF e \in Reliable THEN {} ELSE {None})

\* Defect: an endpoint in use is trusted to stay on its history.
ContinuesOnActivation(w, f) ==
    ix[w].expected # None /\ ix[w].active = None =>
        HashAt[f][ix[w].height - 1] = ix[w].expected

\* verify_checkpoint_anchor, verify_parent_continuity: both compare the hash
\* the history has below the wanted height with the one the process expects.
Continues(w, f) ==
    ix[w].expected # None => HashAt[f][ix[w].height - 1] = ix[w].expected

\* _activate_candidate asks the endpoint only if there is a hash to verify.
Proven(w, f) == IF f = None THEN ix[w].expected = None ELSE Continues(w, f)

\* reject: out for the rest of the cycle, persisted as failed; the process
\* forgets its selected endpoint only if that row was the selected one.
Reject(w, e, pc) ==
    /\ Deselect(e)
    /\ ix' = [ix EXCEPT ![w] =
         [ix[w] EXCEPT !.pc = pc,
                       !.active = None,
                       !.latest = [ix[w].latest EXCEPT ![e] = 0],
                       !.selId = IF selected = e THEN None ELSE ix[w].selId]]

\* The caught-up branch: one candidate must prove the checkpoint.
IdleActivate(w, e, f) ==
    /\ ix[w].pc = "idle"
    /\ ix[w].latest[e] # 0
    /\ IF Proven(w, f)
       THEN Select(e) /\ ix' = [ix EXCEPT ![w] = Fresh("sleep", ix[w].stop, e)]
       ELSE Reject(w, e, "idle")
    /\ UNCHANGED <<chainVars, lockHolder, faults, audit>>

IdleAllFailed(w) ==
    /\ ix[w].pc = "idle"
    /\ \A e \in Endpoints : ix[w].latest[e] = 0
    /\ LeaveCycle(w, "sleep")
    /\ UNCHANGED <<storeVars, lockHolder, faults, audit>>

\* The loop over heights ends at planned_end or when a stop is requested.
NextHeight(w) ==
    /\ ix[w].pc = "head"
    /\ IF ix[w].stop \/ ix[w].height > ix[w].planned
       THEN LeaveCycle(w, "loop")
       ELSE ix' = [ix EXCEPT ![w].pc = "select"]
    /\ UNCHANGED <<storeVars, lockHolder, faults, audit>>

Eligible(w) == {e \in Endpoints : ix[w].latest[e] - 1 >= ix[w].height}

\* Defect: the candidates are tried in rank order, whichever is in use.
TurnByRank(w) == Eligible(w)

\* The endpoint in use is tried before the other candidates.
Turn(w) == IF ix[w].active \in Eligible(w) THEN {ix[w].active} ELSE Eligible(w)

Activate(w, e, f) ==
    /\ ix[w].pc = "select"
    /\ e \in Turn(w)
    /\ e \notin ix[w].activated
    /\ IF Proven(w, f)
       THEN /\ Select(e)
            /\ ix' = [ix EXCEPT ![w] =
                 [ix[w] EXCEPT !.pc = "fetch", !.active = e, !.selId = e,
                           !.activated = ix[w].activated \cup {e}]]
       ELSE Reject(w, e, "select")
    /\ UNCHANGED <<chainVars, lockHolder, faults, audit>>

Reuse(w, e) ==
    /\ ix[w].pc = "select"
    /\ e \in Turn(w)
    /\ e \in ix[w].activated
    /\ ix' = [ix EXCEPT ![w] = [ix[w] EXCEPT !.pc = "fetch", !.active = e]]
    /\ UNCHANGED <<storeVars, lockHolder, faults, audit>>

AllFailed(w) ==
    /\ ix[w].pc = "select"
    /\ Eligible(w) = {}
    /\ LeaveCycle(w, "sleep")
    /\ UNCHANGED <<storeVars, lockHolder, faults, audit>>

\* fetch_height, verify_parent_continuity and parse_height; nobody has a
\* block above the last finalized one.
Fetch(w, f) ==
    LET h == ix[w].height
        e == ix[w].active
    IN  /\ ix[w].pc = "fetch"
        /\ IF f # None /\ h <= MaxHeight /\ Continues(w, f)
           THEN /\ ix' = [ix EXCEPT ![w] =
                     [ix[w] EXCEPT !.pc = "begin",
                               !.block = [hash   |-> HashAt[f][h],
                                          parent |-> HashAt[f][h - 1]]]]
                /\ UNCHANGED selected
           ELSE Reject(w, e, "select")
        /\ UNCHANGED <<chainVars, lockHolder, faults, audit>>

-----------------------------------------------------------------------------
(* write_height.                                                           *)

BeginWrite(w) ==
    /\ ix[w].pc = "begin"
    /\ IF Skips(ix[w].height, checkpoint)
       THEN Exit(w)
       ELSE /\ ix' = [ix EXCEPT ![w] =
                        [ix[w] EXCEPT !.pc = "commit", !.seen = checkpoint]]
            /\ UNCHANGED lockHolder
    /\ UNCHANGED <<storeVars, faults, audit>>

PersistHeight(w) ==
    Persist(ix[w].height, ix[w].block, ix[w].seen,
            ix[w].latest[ix[w].active] - 1)

\* A height above the first one that is stored without a parent check.
Recorded(w) ==
    IF /\ ix[w].expected = None
       /\ ix[w].height # StartHeight
       /\ ix[w].height \notin DOMAIN blocks
    THEN [audit EXCEPT !.bare = audit.bare \cup {ix[w].height}]
    ELSE audit

CommitHeight(w) ==
    /\ ix[w].pc = "commit"
    /\ PersistHeight(w)
    /\ audit' = Recorded(w)
    /\ ix' = [ix EXCEPT ![w] =
         [ix[w] EXCEPT !.pc = "head",
                       !.height = ix[w].height + 1,
                       !.expected = ix[w].block.hash,
                       !.block = None,
                       !.seen = NoRow]]
    /\ UNCHANGED <<lockHolder, faults>>

\* FinalizedDataConflict, RealmCallCoverageError and a violated CHECK are
\* not transient: the transaction rolls back and the process ends.
RefuseHeight(w) ==
    /\ ix[w].pc = "commit"
    /\ Refused(ix[w].height, ix[w].block, ix[w].seen,
               ix[w].latest[ix[w].active] - 1)
    /\ Exit(w)
    /\ UNCHANGED <<storeVars, faults, audit>>

-----------------------------------------------------------------------------
(* Faults.                                                                 *)

Fault == faults < MaxFaults /\ faults' = faults + 1

\* psycopg.OperationalError or InterfaceError: rolled back, then backoff.
DatabaseFailure(w) ==
    /\ ix[w].pc \in {"anchor", "recheck", "probe", "idle", "select", "fetch", "begin", "commit"}
    /\ Fault
    /\ LeaveCycle(w, "sleep")
    /\ UNCHANGED <<storeVars, lockHolder, audit>>

\* The commit happened, its confirmation was lost.
CommitUnconfirmed(w) ==
    /\ ix[w].pc = "commit"
    /\ Fault
    /\ PersistHeight(w)
    /\ audit' = Recorded(w)
    /\ LeaveCycle(w, "sleep")
    /\ UNCHANGED lockHolder

LoseLockSession ==
    /\ lockHolder # None
    /\ Fault
    /\ lockHolder' = None
    /\ audit' = [audit EXCEPT !.lost = TRUE]
    /\ UNCHANGED <<storeVars, ix>>

Crash(w) ==
    /\ ix[w].pc # "down"
    /\ Fault
    /\ Exit(w)
    /\ UNCHANGED <<storeVars, audit>>

\* SIGINT or SIGTERM.
RequestStop(w) ==
    /\ ix[w].pc # "down"
    /\ ~ix[w].stop
    /\ Fault
    /\ ix' = [ix EXCEPT ![w].stop = TRUE]
    /\ UNCHANGED <<storeVars, lockHolder, audit>>

-----------------------------------------------------------------------------
Cycle(w) ==
    \/ ReadAnchor(w)
    \/ ReadCheckpoint(w)
    \/ \E r \in ProbeReports : \/ ProbeAllRejected(w, r)
                               \/ ProbeCaughtUp(w, r)
                               \/ \E p \in Latest : ProbePlan(w, r, p)
    \/ \E e \in Endpoints : \E f \in Answers(e) :
          IdleActivate(w, e, f) \/ Activate(w, e, f)
    \/ \E e \in Endpoints : Reuse(w, e)
    \/ IdleAllFailed(w)
    \/ NextHeight(w)
    \/ AllFailed(w)
    \/ ix[w].active # None /\ \E f \in Answers(ix[w].active) : Fetch(w, f)
    \/ BeginWrite(w)
    \/ CommitHeight(w)
    \/ RefuseHeight(w)

Step(w) == Start(w) \/ AcquireLock(w) \/ BeginCycle(w) \/ Wake(w) \/ Cycle(w)

Faulty(w) ==
    DatabaseFailure(w) \/ CommitUnconfirmed(w) \/ Crash(w) \/ RequestStop(w)

Operated(w) == OperatorStart(w) \/ StartLimitHit(w)

Next ==
    LoseLockSession \/ \E w \in Writers : Step(w) \/ Operated(w) \/ Faulty(w)

Spec == Init /\ [][Next]_vars

\* A process that can take its next step takes it, and systemd restarts one
\* that ended by itself; faults and operators never have to act.
FairSpec == Spec /\ \A w \in Writers : WF_vars(Step(w))

-----------------------------------------------------------------------------
(* Properties.                                                             *)

\* The stored heights are exactly those from the bootstrap height to the
\* checkpoint: no failover, race or restart leaves a gap or writes ahead
\* (runner.run_cycle, database._advance_checkpoint).
NoGaps ==
    IF checkpoint = NoRow
    THEN DOMAIN blocks = {}
    ELSE checkpoint >= StartHeight /\ DOMAIN blocks = StartHeight..checkpoint

\* Every stored block names the hash stored below it, whichever endpoints
\* and processes wrote the two (rpc.verify_parent_continuity), except where a
\* cycle had no hash to compare; and no cycle is without one above the first
\* height as long as no process has lost its lock session.
ChainLinked ==
    /\ \A h \in DOMAIN blocks \ audit.bare :
          h - 1 \in DOMAIN blocks => blocks[h].parent = blocks[h - 1].hash
    /\ audit.bare # {} => audit.lost

\* The hash a process extends is the one stored below its height, also when
\* another process has written since it was read (runner.run_cycle keeps
\* expected_parent in memory across a whole batch); only after a lost lock
\* session may it have none although there is one.
ExpectedIsStored ==
    \A w \in Writers :
        ix[w].pc \in PC \ {"down", "acquire", "loop", "anchor", "recheck", "sleep"} =>
            \/ ix[w].expected = None /\ ix[w].height = StartHeight
            \/ /\ ix[w].height - 1 \in DOMAIN blocks
               /\ \/ ix[w].expected = blocks[ix[w].height - 1].hash
                  \/ ix[w].expected = None /\ audit.lost

\* The Realm call coverage is the stored range, so that a live write never
\* meets a coverage gap (database.advance_realm_call_coverage).
CoverageExact ==
    calls = IF checkpoint = NoRow THEN [from |-> NoRow, through |-> NoRow]
            ELSE [from |-> StartHeight, through |-> checkpoint]

\* The endpoint that a transaction links from indexer_state is the one that
\* served the height, across activations, rejections and endpoints whose
\* tip is too low (runner._activate_candidate, database.selected_rpc_endpoint_id).
SourceServedHeight ==
    \A w \in Writers :
        ix[w].pc \in {"begin", "commit"} =>
            ix[w].active # None /\ ix[w].selId = ix[w].active

\* A stored block never changes and the checkpoint never falls
\* (database._verify_finalized_conflicts, GREATEST in _advance_checkpoint).
FinalizedStable ==
    [][/\ checkpoint' >= checkpoint
       /\ \A h \in DOMAIN blocks : h \in DOMAIN blocks' /\ blocks'[h] = blocks[h]]_vars

\* The store is an append-only chain, linked as far as parents are checked
\* (module ChainLog).
Log == INSTANCE ChainLog WITH log <- blocks, exposed <- audit.lost,
                              unchecked <- audit.bare
RefinesChainLog == Log!Spec

=============================================================================

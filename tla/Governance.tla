----------------------------- MODULE Governance -----------------------------
(***************************************************************************)
(* The governance updater: run_updater processes (the service, and the     *)
(* one-shot runs an operator starts beside it) that publish the proposals  *)
(* of one realm.  A full cycle discovers everything, a quick cycle the     *)
(* list and the proposals that may still change.  A cycle asks one         *)
(* endpoint at one fixed height, and the next endpoint from the start.     *)
(*                                                                         *)
(* The endpoints serve histories that may disagree.  A query names its     *)
(* height, so an answer does not depend on when it is asked.               *)
(*                                                                         *)
(* Both persist functions take GOVERNANCE_ADVISORY_LOCK before they read   *)
(* and keep it until they commit: a persist is one step.  The read of the  *)
(* stored statuses that starts a quick cycle takes no lock.                *)
(*                                                                         *)
(* Left out: the chain identity, which nothing here changes, page counts,  *)
(* which follow from the list, and the length of a back-off.               *)
(***************************************************************************)
EXTENDS Naturals, Functions, ProposalStatus

CONSTANTS
    Updaters,       \* run_updater processes
    Endpoints,
    Reliable,       \* endpoints that always answer
    Histories,
    Services,       \* which histories the endpoints may serve
    Renders,        \* history -> height -> proposal -> its renders
    Proposals,
    MaxHeight,      \* bound: the last height of every history
    MaxLag,         \* max_height_lag
    Contents,       \* what a proposal's detail and votes say
    RawBytes,       \* content -> size of the two renders
    MaxRawBytes,    \* MAX_TOTAL_RAW_BYTES
    MaxFaults,      \* bound: crashes, stops, lost connections, invalid data
    None

Heights == 1..MaxHeight

(* list, detail: the statuses in the list and in the detail render (both   *)
(* UNKNOWN when not recognised), same: whether title, author and tiers of  *)
(* the list are those of the detail.  Absent: not listed.                  *)
Render == [list : Statuses \cup {Absent}, detail : Statuses, same : BOOLEAN,
           content : Contents]

ASSUME GovernanceAssumption ==
    /\ MaxHeight \in Nat \ {0} /\ MaxFaults \in Nat /\ MaxRawBytes \in Nat /\ MaxLag \in Nat
    /\ Reliable \subseteq Endpoints
    /\ Services \subseteq [Endpoints -> Histories]
    /\ Renders \in [Histories -> [Heights -> [Proposals -> Render]]]
    /\ RawBytes \in [Contents -> Nat]
    /\ None \notin Endpoints \cup Contents

VARIABLES
    state,      \* governance_sync_state: source height, and the listed ids
                \* that its count, first and latest id describe
    rows,       \* governance_proposals (with governance_votes)
    proc,       \* updater -> the cycle it is in
    serves,     \* endpoint -> the history it serves
    tip,        \* endpoint -> the latest height it reports
    faults      \* of these so far

vars == <<state, rows, proc, serves, tip, faults>>

NoRow == [status |-> Absent, content |-> None, last |-> 0]
Row == [status : Statuses \cup {Absent}, content : Contents \cup {None}, last : 0..MaxHeight]

(* at: the heights of the candidates not tried yet, 0 for the others; cur: *)
(* the candidate in use; known: the statuses a quick cycle has read; due:  *)
(* last_full is None or too long ago.                                      *)
Off == [pc |-> "off", full |-> TRUE, due |-> TRUE, cur |-> None,
        at |-> [e \in Endpoints |-> 0], known |-> [p \in Proposals |-> Absent]]

Init ==
    /\ state = [height |-> 0, ids |-> {}]
    /\ rows = [p \in Proposals |-> NoRow]
    /\ proc = [u \in Updaters |-> Off]
    /\ serves \in Services
    /\ tip = [e \in Endpoints |-> 1]
    /\ faults = 0

-----------------------------------------------------------------------------
(* What an endpoint says at a height.                                      *)

Seen(e, h) == Renders[serves[e]][h]
Listed(R) == {p \in Proposals : R[p].list # Absent}

\* discover_governance_proposal: an unrecognised detail takes the list's status.
StatusOf(r) == IF r.detail = "UNKNOWN" THEN r.list ELSE r.detail

Stored == {p \in Proposals : rows[p].status # Absent}

\* Mutant: a proposal that the list shows as decided needs no refresh.
RefreshUndecided(R, statuses) ==
    {p \in Listed(R) : statuses[p] = Absent \/ R[p].list \notin Terminal}

\* select_governance_refresh_ids
RefreshIds(R, statuses) ==
    {p \in Listed(R) : ~(statuses[p] \in Terminal /\ R[p].list \in Terminal)}

StoredStatuses == [p \in Proposals |-> rows[p].status]

\* The rows after the proposals T are written from the renders R at h.
Written(R, T, h) ==
    [p \in Proposals |->
        IF p \in T THEN [status |-> StatusOf(R[p]), content |-> R[p].content, last |-> h]
        ELSE rows[p]]

RowBytes(row) == IF row.status = Absent THEN 0 ELSE RawBytes[row.content]
Bytes(rs) == [p \in Proposals |-> RowBytes(rs[p])]
Fits(rs) == SumFunction(Bytes(rs)) <= MaxRawBytes

SameContent(row, r) == row.status = StatusOf(r) /\ row.content = r.content

-----------------------------------------------------------------------------
(* The updater's loop.                                                     *)

\* The environment: an endpoint reports a later height.
Advance(e) ==
    /\ tip[e] < MaxHeight
    /\ tip' = [tip EXCEPT ![e] = @ + 1]
    /\ UNCHANGED <<state, rows, proc, serves, faults>>

Move(u, fields) ==
    /\ proc' = [proc EXCEPT ![u] = fields]
    /\ UNCHANGED <<serves, tip>>

Start(u) ==
    /\ proc[u].pc = "off"
    /\ Move(u, [Off EXCEPT !.pc = "wait"])
    /\ UNCHANGED <<state, rows, faults>>

\* A stop request or the end of a one-shot run, between two cycles ("wait").
Stop(u) ==
    /\ proc[u].pc = "wait" /\ faults < MaxFaults
    /\ faults' = faults + 1
    /\ Move(u, Off)
    /\ UNCHANGED <<state, rows>>

Crash(u) ==
    /\ proc[u].pc \notin {"off", "wait"} /\ faults < MaxFaults
    /\ faults' = faults + 1
    /\ Move(u, Off)
    /\ UNCHANGED <<state, rows>>

\* What ends a cycle without a result: run_updater waits, and starts another.
Abandon(u) == Move(u, [Off EXCEPT !.pc = "wait", !.due = proc[u].due])

\* PostgreSQL cannot be reached.
DatabaseFails(u) ==
    /\ proc[u].pc \in {"read", "persist"} /\ faults < MaxFaults
    /\ faults' = faults + 1
    /\ Abandon(u)
    /\ UNCHANGED <<state, rows>>

\* Mutant: a full cycle is due at the start only.
NeverDueAgain(u) == FALSE

\* full_reconcile_interval_seconds have passed.
FullDue(u) ==
    /\ proc[u].pc = "wait" /\ ~proc[u].due
    /\ Move(u, [proc[u] EXCEPT !.due = TRUE])
    /\ UNCHANGED <<state, rows, faults>>

\* suitable_rpc_candidates: healthy, and not too far behind the others.
Candidates(healthy) == {e \in healthy : \A f \in healthy : tip[f] <= tip[e] + MaxLag}

\* _candidates, with their heights; without one the cycle has failed.
Probe(u, healthy) ==
    /\ proc[u].pc = "wait"
    /\ Reliable \subseteq healthy
    /\ LET C == Candidates(healthy)
       IN  IF C = {} THEN Abandon(u)
           ELSE Move(u, [Off EXCEPT
                  !.pc = IF proc[u].due THEN "next" ELSE "read",
                  !.full = proc[u].due, !.due = proc[u].due,
                  !.at = [e \in Endpoints |-> IF e \in C THEN tip[e] ELSE 0]])
    /\ UNCHANGED <<state, rows, faults>>

\* governance_statuses
ReadStatuses(u) ==
    /\ proc[u].pc = "read"
    /\ Move(u, [proc[u] EXCEPT !.pc = "next", !.known = StoredStatuses])
    /\ UNCHANGED <<state, rows, faults>>

-----------------------------------------------------------------------------
(* One candidate: discovery, then persistence.                             *)

View(u) == Seen(proc[u].cur, proc[u].at[proc[u].cur])
HeightOf(u) == proc[u].at[proc[u].cur]

\* discover_governance captures no more than MAX_TOTAL_RAW_BYTES.
FullFits(R) == Fits([p \in Proposals |->
    IF R[p].list = Absent THEN NoRow ELSE [status |-> StatusOf(R[p]), content |-> R[p].content, last |-> 0]])

Discoverable(u, e) == proc[u].full => FullFits(Seen(e, proc[u].at[e]))

Discover(u, e) ==
    /\ proc[u].pc = "next" /\ proc[u].at[e] > 0
    /\ Discoverable(u, e)
    /\ Move(u, [proc[u] EXCEPT !.pc = "persist", !.cur = e])
    /\ UNCHANGED <<state, rows, faults>>

\* The next candidate, from the start.
Skip(u, e) == Move(u, [proc[u] EXCEPT !.pc = "next", !.cur = None, !.at[e] = 0])

\* An RPC or parse error, an incomplete list, votes that cannot be parsed.
DiscoverFails(u, e) ==
    /\ proc[u].pc = "next" /\ proc[u].at[e] > 0
    /\ e \notin Reliable \/ ~Discoverable(u, e)
    /\ Skip(u, e)
    /\ UNCHANGED <<state, rows, faults>>

AllFailed(u) ==
    /\ proc[u].pc = "next"
    /\ \A e \in Endpoints : proc[u].at[e] = 0
    /\ Abandon(u)
    /\ UNCHANGED <<state, rows, faults>>

Targets(u) == RefreshIds(View(u), proc[u].known)
Required(u) == RefreshIds(View(u), StoredStatuses)

Stale(u) == state.height > HeightOf(u)
\* Mutant: a stored proposal may be missing from the list.
LosesIgnored(u) == FALSE

Loses(u) == ~(Stored \subseteq Listed(View(u)))

\* Mutant: a full snapshot may show any status.
FullConflictAnyStatus(u) ==
    LET R == View(u)
    IN  IF state.height = HeightOf(u)
        THEN \/ state.ids # Listed(R)
             \/ \E p \in Stored : ~SameContent(rows[p], R[p])
        ELSE Loses(u)

\* persist_governance_snapshot_cursor refuses what it has discovered.
FullConflict(u) ==
    LET R == View(u)
    IN  IF state.height = HeightOf(u)
        THEN \/ state.ids # Listed(R)
             \/ \E p \in Stored : ~SameContent(rows[p], R[p])
        ELSE \/ Loses(u)
             \/ \E p \in Stored \cap Listed(R) : ~MayBecome(rows[p].status, StatusOf(R[p]))

\* persist_governance_incremental_cursor, up to the size of the result.
QuickMismatch(u) ==
    LET R == View(u)
    IN  \/ Loses(u)
        \/ \E p \in Targets(u) : R[p].list # "UNKNOWN" /\ StatusOf(R[p]) # R[p].list

\* Mutant: only what the cycle has fetched is counted.
FetchedTooLarge(u) ==
    ~Fits([p \in Proposals |->
             IF p \in Targets(u) THEN Written(View(u), Targets(u), HeightOf(u))[p] ELSE NoRow])

TooLarge(u) == ~Fits(Written(View(u), Targets(u), HeightOf(u)))

\* The height is published already, as ids and rs: the list R and the targets T
\* must be what was stored.  A target that needs no refresh must be a row that
\* became terminal at this very height.
SameHeightDiffers(R, T, h, ids, rs) ==
    LET needed == RefreshIds(R, [p \in Proposals |-> rs[p].status])
    IN  \/ ids # Listed(R)
        \/ \E p \in Listed(R) : ~R[p].same \/ R[p].list # rs[p].status
        \/ ~(needed \subseteq T)
        \/ \E p \in T \ needed : rs[p].status \notin Terminal \/ rs[p].last # h
        \/ \E p \in T : ~SameContent(rs[p], R[p])

LaterDiffers(u) ==
    \/ \E p \in Stored \cap Listed(View(u)) : ~MayBecome(rows[p].status, View(u)[p].list)
    \/ Targets(u) # Required(u)

QuickConflict(u) ==
    \/ QuickMismatch(u)
    \/ ~TooLarge(u) /\ IF state.height = HeightOf(u)
                       THEN SameHeightDiffers(View(u), Targets(u), HeightOf(u), state.ids, rows)
                       ELSE LaterDiffers(u)

\* StaleGovernanceSnapshot and IncompleteGovernanceSnapshot: ask another.
Retryable(u) ==
    Stale(u) \/ (~proc[u].full /\ ~QuickMismatch(u) /\ TooLarge(u))

Conflict(u) == IF proc[u].full THEN FullConflict(u) ELSE QuickConflict(u)

PersistRetry(u) ==
    /\ proc[u].pc = "persist" /\ Retryable(u)
    /\ Skip(u, proc[u].cur)
    /\ UNCHANGED <<state, rows, faults>>

\* normalize_discovery refuses what the endpoint sent: no other is asked.
InvalidDiscovery(u) ==
    /\ proc[u].pc = "persist" /\ proc[u].cur \notin Reliable /\ faults < MaxFaults
    /\ proc[u].full \/ ~Stale(u)
    /\ faults' = faults + 1
    /\ Abandon(u)
    /\ UNCHANGED <<state, rows>>

PersistConflict(u) ==
    /\ proc[u].pc = "persist" /\ ~Retryable(u) /\ Conflict(u)
    /\ Abandon(u)
    /\ UNCHANGED <<state, rows, faults>>

Succeed(u) == Move(u, [Off EXCEPT !.pc = "wait", !.due = ~proc[u].full /\ proc[u].due])

PersistUnchanged(u) ==
    /\ proc[u].pc = "persist" /\ ~Retryable(u) /\ ~Conflict(u)
    /\ state.height = HeightOf(u)
    /\ Succeed(u)
    /\ UNCHANGED <<state, rows, faults>>

Publish(u, T) ==
    /\ proc[u].pc = "persist" /\ ~Retryable(u) /\ ~Conflict(u)
    /\ state.height < HeightOf(u)
    /\ rows' = Written(View(u), T, HeightOf(u))
    /\ state' = [height |-> HeightOf(u), ids |-> Listed(View(u))]
    /\ Succeed(u)
    /\ UNCHANGED faults

PersistFull(u) == proc[u].full /\ Publish(u, Listed(View(u)))
PersistQuick(u) == ~proc[u].full /\ Publish(u, Targets(u))

-----------------------------------------------------------------------------
Step(u) ==
    \/ Start(u) \/ ReadStatuses(u)
    \/ \E healthy \in SUBSET Endpoints : Probe(u, healthy)
    \/ \E e \in Endpoints : Discover(u, e) \/ DiscoverFails(u, e)
    \/ AllFailed(u)
    \/ PersistRetry(u) \/ PersistConflict(u) \/ PersistUnchanged(u)
    \/ PersistFull(u) \/ PersistQuick(u)

Next ==
    \/ \E e \in Endpoints : Advance(e)
    \/ \E u \in Updaters :
         \/ Step(u) \/ FullDue(u)
         \/ Stop(u) \/ Crash(u) \/ DatabaseFails(u) \/ InvalidDiscovery(u)

Spec == Init /\ [][Next]_vars

(* Reliable endpoints follow the chain.  A process goes on: every request  *)
(* has a timeout, a failed one is restarted and a stopped one started      *)
(* again.  The clock reaches full_reconcile_interval_seconds, however      *)
(* often the process wakes before.                                         *)
LiveSpec ==
    /\ Spec
    /\ \A e \in Reliable : WF_vars(Advance(e))
    /\ \A u \in Updaters : WF_vars(Step(u)) /\ SF_vars(FullDue(u))

-----------------------------------------------------------------------------
(* Properties.                                                             *)

Cycle ==
    [pc : {"off", "wait", "read", "next", "persist"},
     full : BOOLEAN, due : BOOLEAN, cur : Endpoints \cup {None},
     at : [Endpoints -> 0..MaxHeight],
     known : [Proposals -> Statuses \cup {Absent}]]

\* Types of the tables and of the processes; a process that persists has a
\* candidate with a height.
GovernanceTypeOK ==
    /\ state \in [height : 0..MaxHeight, ids : SUBSET Proposals]
    /\ rows \in [Proposals -> Row]
    /\ proc \in [Updaters -> Cycle]
    /\ serves \in [Endpoints -> Histories]
    /\ tip \in [Endpoints -> Heights]
    /\ faults \in 0..MaxFaults
    /\ \A u \in Updaters : proc[u].pc = "persist" =>
         proc[u].cur \in Endpoints /\ proc[u].at[proc[u].cur] \in Heights

\* _load never finds the stored snapshot inconsistent, whatever quick and full
\* cycles have left and however they overlap: the sync state describes the
\* stored rows, no row is later than it, and the raw renders are within their
\* limit.  (GovernanceStoredStateError ends the updater, and every restart.)
LoadAccepts ==
    /\ state.height = 0 => Stored = {}
    /\ state.ids = Stored
    /\ \A p \in Stored : rows[p].last \in 1..state.height
    /\ state.height > 0 => Fits(rows)

\* "Never mixed between endpoints or source heights": at any moment the stored
\* ids and statuses are those that one endpoint's history shows at the stored
\* height, and so is the content of each row that may still change.  A quick
\* cycle writes only some of the rows.
OneSource ==
    state.height > 0 =>
      \E e \in Endpoints :
        LET R == Seen(e, state.height)
        IN  /\ Stored = Listed(R)
            /\ \A p \in Stored :
                 /\ rows[p].status \in {R[p].list, StatusOf(R[p])}
                 /\ rows[p].status \notin Terminal => rows[p].last = state.height
                 /\ rows[p].last = state.height => SameContent(rows[p], R[p])

\* Terminal proposals of the history do not change any more.
Frozen(H) ==
    \A h, k \in Heights, p \in Proposals :
      h <= k /\ StatusOf(Renders[H][h][p]) \in Terminal
        => Renders[H][k][p] = Renders[H][h][p]

Agree == \A e, f \in Endpoints : serves[e] = serves[f]

\* Freezing terminal proposals between full reconciliations loses nothing: if
\* they do not change on the chain, the whole stored snapshot is the chain's at
\* the stored height, though quick cycles fetched parts of it at other heights.
SnapshotExact ==
    state.height > 0 /\ Agree =>
      \A e \in Endpoints :
        Frozen(serves[e]) =>
          \A p \in Stored : SameContent(rows[p], Seen(e, state.height)[p])

\* A quick cycle chooses its targets from statuses it reads without a lock and
\* long before it persists.  That is safe: whatever was stored in the meantime,
\* no proposal that must be refreshed is missing from its targets.
StaleReadSafe ==
    \A u \in Updaters :
      proc[u].pc = "persist" /\ ~proc[u].full => Required(u) \subseteq Targets(u)

Snapshot == INSTANCE GovernanceSnapshot
    WITH height <- state.height, status <- StoredStatuses

\* The tables implement GovernanceSnapshot: only later heights are published,
\* proposals are kept, terminal statuses are final, and at one height nothing
\* changes, under any overlap of full and quick cycles.
RefinesSnapshot == Snapshot!Spec

\* If the endpoints agree, the snapshot comes within MaxLag of the tip in spite
\* of crashes, restarts and endpoints that fail or fall behind; also when the
\* list's statuses are not recognised and every later quick cycle is refused.
\* (A snapshot beyond MAX_TOTAL_RAW_BYTES is never stored.)
Settles ==
    Agree /\ (\A e \in Endpoints, h \in Heights : FullFits(Seen(e, h)))
      => <>(state.height + MaxLag >= MaxHeight)
=============================================================================

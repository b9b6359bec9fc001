----------------------------- MODULE RealmIndex -----------------------------
(***************************************************************************)
(* What the indexer derives from transaction summaries, and the operator   *)
(* tools that rebuild it beside the live writer:                           *)
(*   realm_call_index          one row per call, with its covered range;   *)
(*   realm_catalog             one row per path, with call counters;       *)
(*   realm_catalog_state       the catalog's snapshot height and the range *)
(*                             that the counters cover.                    *)
(* Module Indexer shows that heights are written once, in order; here a    *)
(* writer is the transaction of one height, statement by statement where   *)
(* row locks matter.  A statement that waited for a row goes on with the   *)
(* row as committed (READ COMMITTED).  What a transaction writes becomes   *)
(* visible when it commits; until then its row locks keep others from      *)
(* changing it.  Transactions that wait for each other in a circle are a   *)
(* case of Rollback.                                                       *)
(***************************************************************************)
EXTENDS Integers, Sequences, FiniteSets, FiniteSetsExt

CONSTANTS
    Paths,          \* Realm paths, a sequence in the order of their names
    MaxHeight,      \* bound: the highest height of the chain
    CallsAt,        \* height -> path -> calls in that block
    VisibleAt,      \* height of a refresh -> the paths vm/qpaths lists there
    LegacyHeights,  \* heights that may be stored without a call index
    None

Heights == 1..MaxHeight
PathSet == {Paths[i] : i \in DOMAIN Paths}

\* run_indexer.py, index_range.py, rebuild_realm_activity.py and
\* refresh_realm_catalog.py.
Live == "live"
Tool == "range"
Rebuild == "rebuild"
Refresh == "refresh"
Writers == {Live, Tool}
Processes == {Live, Tool, Rebuild, Refresh}
NoRow == 0

ASSUME RealmAssumption ==
    /\ CallsAt \in [Heights -> [PathSet -> Nat]]
    /\ DOMAIN VisibleAt \subseteq Heights /\ VisibleAt \in [DOMAIN VisibleAt -> SUBSET PathSet]
    /\ MaxHeight \in Nat /\ LegacyHeights \subseteq 0..MaxHeight
    /\ None \notin Processes

VARIABLES
    stored,         \* stored heights -> whether their summaries are parsed
    calls,          \* realm_call_index_state [from, through]
    index,          \* realm_call_index: heights with call rows
    rows,           \* realm_catalog: path -> row
    cat,            \* realm_catalog_state: observed height, activity range
    locks,          \* row -> the transaction that has locked it
    callLock,       \* holder of REALM_CALL_INDEX_LOCK_ID
    tx,             \* process -> its open transaction
    operator        \* how the operator runs the tools, below

vars == <<stored, calls, index, rows, cat, locks, callLock, tx, operator>>
tables == <<stored, calls, index, rows, cat>>

(* "runbook": the indexer is stopped for an activity rebuild, which runs up *)
(* to the checkpoint; "overlaps": it is not; "reindexes": the runbook is    *)
(* followed, and index_range.py runs over stored heights.                   *)
Operators == {"runbook", "overlaps", "reindexes"}

State == "realm_catalog_state"
Rows == PathSet \cup {State}

\* indexer_state.last_finalized_height
Checkpoint == Max({NoRow} \cup DOMAIN stored)

\* pc names the statement that comes after the row locks in need.
Idle ==
    [pc |-> "idle", need |-> <<>>, height |-> 0, parsed |-> FALSE,
     advance |-> FALSE, from |-> 0, read |-> {}, reset |-> {}]

\* A transaction that begins at pc, and one that goes on there.
Open(pc, h, need) == [Idle EXCEPT !.pc = pc, !.height = h, !.need = need]
Goto(t, pc, need) == [t EXCEPT !.pc = pc, !.need = need]

EmptyRow == [exists |-> FALSE, count |-> 0, counted |-> NoRow, visible |-> FALSE]

Init ==
    /\ \E n \in LegacyHeights : stored \in [1..n -> BOOLEAN]
    /\ calls = [from |-> NoRow, through |-> NoRow]
    /\ index = {}
    /\ rows = [p \in PathSet |-> EmptyRow]
    /\ cat = [observed |-> NoRow, from |-> NoRow, through |-> NoRow]
    /\ locks = [r \in Rows |-> None]
    /\ callLock = None
    /\ tx = [p \in Processes |-> Idle]
    /\ operator \in Operators

-----------------------------------------------------------------------------
(* Row locks and the end of a transaction.                                 *)

\* The statements of a transaction that have rows left to lock.
Waiting(t) == {i \in DOMAIN t.need : t.need[i] # {}}

\* The first of them locks a row, when it is free.
Lock(p, r) ==
    /\ \E i \in Waiting(tx[p]) :
         /\ \A j \in Waiting(tx[p]) : i <= j
         /\ r \in tx[p].need[i]
         /\ tx' = [tx EXCEPT ![p].need[i] = @ \ {r}]
    /\ locks[r] = None
    /\ locks' = [locks EXCEPT ![r] = p]
    /\ UNCHANGED <<tables, callLock, operator>>

\* Commit or rollback: all locks go with the transaction.
End(p) ==
    /\ tx' = [tx EXCEPT ![p] = Idle]
    /\ locks' = [r \in Rows |-> IF locks[r] = p THEN None ELSE locks[r]]
    /\ callLock' = IF callLock = p THEN None ELSE callLock
    /\ UNCHANGED operator

\* A crash, a lost connection, or PostgreSQL's way out of a circle of waits.
Rollback(p) ==
    /\ tx[p].pc # "idle"
    /\ End(p)
    /\ UNCHANGED tables

At(p, pc) == tx[p].pc = pc /\ Waiting(tx[p]) = {}

-----------------------------------------------------------------------------
(* The transaction of write_height.                                        *)

\* extract_realm_calls, aggregate_block: nothing from a summary that the
\* decoder could not parse.  The calls of a path in the parsed heights H.
CallsOf(p, H) == UNION {{h} \X (1..CallsAt[h][p]) : h \in H}
Touched(H) == {p \in PathSet : \E h \in H : CallsAt[h][p] > 0}

\* upsert_transaction_catalog_aggregates, for the parsed heights H in
\* ascending order: a height counts if it is above last_counted_height.
Counted(row, p, H) ==
    LET new == {h \in H : h > row.counted /\ CallsAt[h][p] > 0}
    IN  IF new = {} THEN row
        ELSE [row EXCEPT !.exists = TRUE,
                         !.count = @ + Cardinality(CallsOf(p, new)),
                         !.counted = Max(new)]

\* The live writer takes the next height, the bounded tool a stored one if
\* the operator runs it.  An operator who follows the runbook stops the
\* indexer for an activity rebuild.
\* Neither runs on an empty database beside the other, so that the lock may
\* be taken with the first statement: lock_realm_call_index, then the catalog
\* rows in the order of their paths.
Begin(w, h, parsed) ==
    /\ tx[w].pc = "idle"
    /\ IF w = Live THEN h = Checkpoint + 1 ELSE operator = "reindexes" /\ h \in DOMAIN stored
    /\ operator # "overlaps" => tx[Rebuild].pc = "idle"
    /\ callLock = None
    /\ callLock' = w
    /\ LET paths == IF parsed THEN Touched({h}) ELSE {}
           need == [i \in DOMAIN Paths |-> {Paths[i]} \cap paths]
       IN  tx' = [tx EXCEPT ![w] = [Open("state", h, need) EXCEPT !.parsed = parsed]]
    /\ UNCHANGED <<tables, locks, operator>>

CallGap(h) == calls.through # NoRow /\ h > calls.through + 1

\* advance_realm_call_coverage, which refuses a gap, and the SELECT ... FOR
\* UPDATE of advance_realm_activity_coverage
LockState(w) ==
    /\ At(w, "state")
    /\ IF CallGap(tx[w].height)
       THEN End(w)
       ELSE /\ tx' = [tx EXCEPT ![w] = IF cat.observed = NoRow THEN Goto(@, "commit", <<>>)
                                       ELSE Goto(@, "cover", <<{State}>>)]
            /\ UNCHANGED <<locks, callLock, operator>>
    /\ UNCHANGED tables

ActivityGap(h) == cat.through # NoRow /\ h > cat.through + 1

\* Defect: any higher height moves the end of the range.
AdvancesAny(h) == cat.through # NoRow /\ h > cat.through

\* Defect: the range is compared with the height itself.
AdvancesLate(h) == cat.through # NoRow /\ h = cat.through

AdvancesActivity(h) == cat.through # NoRow /\ h = cat.through + 1

Cover(w) ==
    /\ At(w, "cover")
    /\ IF ActivityGap(tx[w].height) /\ ~AdvancesActivity(tx[w].height)
       THEN End(w)
       ELSE /\ tx' = [tx EXCEPT ![w] = [Goto(@, "commit", <<>>) EXCEPT
                                          !.advance = AdvancesActivity(tx[w].height)]]
            /\ UNCHANGED <<locks, callLock, operator>>
    /\ UNCHANGED tables

AdvancedCalls(h) ==
    IF calls.through = NoRow
    THEN IF Checkpoint = NoRow THEN [from |-> h, through |-> h] ELSE calls
    ELSE IF h > calls.through THEN [calls EXCEPT !.through = h] ELSE calls

\* _replace_realm_calls_for_height
Replaced(h, parsed) == IF parsed THEN index \cup {h} ELSE index \ {h}

CommitWrite(w) ==
    LET t == tx[w]
        H == IF t.parsed THEN {t.height} ELSE {}
    IN  /\ At(w, "commit") /\ w \in Writers
        /\ stored' = [h \in DOMAIN stored \cup {t.height} |->
                        IF h = t.height THEN t.parsed ELSE stored[h]]
        /\ calls' = AdvancedCalls(t.height)
        /\ index' = Replaced(t.height, t.parsed)
        /\ rows' = [p \in PathSet |-> Counted(rows[p], p, H)]
        /\ cat' = IF t.advance THEN [cat EXCEPT !.through = t.height] ELSE cat
        /\ End(w)

-----------------------------------------------------------------------------
(* rebuild_realm_call_index.py: one transaction under the call index lock, *)
(* which every writer of what it reads holds too.                          *)

Least(a, b) == IF a <= b THEN a ELSE b
Most(a, b) == IF a >= b THEN a ELSE b

\* Defect: the range may end anywhere inside the indexed heights.
CoversAnyEnd(u) == u.through <= Checkpoint

\* The union with the existing coverage must end at the checkpoint.
CoversCheckpoint(u) == u.through = Checkpoint

RebuildCalls(from, through) ==
    LET u == IF calls.through = NoRow THEN [from |-> from, through |-> through]
             ELSE [from |-> Least(from, calls.from),
                   through |-> Most(through, calls.through)]
    IN  /\ callLock = None
        /\ from <= through /\ from..through \subseteq DOMAIN stored
        /\ calls.through # NoRow =>
              through >= calls.from - 1 /\ from <= calls.through + 1
        /\ CoversCheckpoint(u)
        /\ index' = (index \ (from..through))
                      \cup {h \in from..through : stored[h]}
        /\ calls' = u
        /\ UNCHANGED <<stored, rows, cat, locks, callLock, tx, operator>>

-----------------------------------------------------------------------------
(* rebuild_realm_activity.py.                                              *)

\* The preconditions and the SELECT of the summaries.
RebuildRead(from, through) ==
    /\ tx[Rebuild].pc = "idle"
    /\ operator # "overlaps" => tx[Live].pc = "idle" /\ tx[Tool].pc = "idle" /\ through = Checkpoint
    /\ cat.observed # NoRow
    /\ from <= through /\ from..through \subseteq DOMAIN stored
    /\ tx' = [tx EXCEPT ![Rebuild] =
                [Open("reset", through, <<>>) EXCEPT
                   !.from = from, !.read = {h \in from..through : stored[h]}]]
    /\ UNCHANGED <<tables, locks, callLock, operator>>

\* UPDATE realm_catalog over the committed rows, the upserts, and the
\* UPDATE of the state row.
RebuildReset ==
    LET existing == {p \in PathSet : rows[p].exists}
    IN  /\ At(Rebuild, "reset")
        /\ LET need == <<existing, Touched(tx[Rebuild].read) \ existing, {State}>>
           IN  tx' = [tx EXCEPT ![Rebuild] = [Goto(@, "commit", need) EXCEPT !.reset = existing]]
        /\ UNCHANGED <<tables, locks, callLock, operator>>

ResetRow(row) == [row EXCEPT !.count = 0, !.counted = NoRow]

RebuildCommit ==
    LET t == tx[Rebuild]
    IN  /\ At(Rebuild, "commit")
        /\ rows' = [p \in PathSet |->
                      Counted(IF p \in t.reset THEN ResetRow(rows[p]) ELSE rows[p],
                              p, t.read)]
        /\ cat' = [cat EXCEPT !.from = t.from, !.through = t.height]
        /\ End(Rebuild)
        /\ UNCHANGED <<stored, calls, index>>

-----------------------------------------------------------------------------
(* refresh_realm_catalog.py: publishes the paths of one height.            *)

\* The paths were fetched before the transaction begins and may be those of
\* any height.  LOCK_ID serializes the runs; the state row is locked if there
\* is one.
RefreshBegin(h) ==
    /\ tx[Refresh].pc = "idle"
    /\ VisibleAt[h] # {}
    /\ tx' = [tx EXCEPT ![Refresh] =
                Open("check", h, IF cat.observed = NoRow THEN <<>> ELSE <<{State}>>)]
    /\ UNCHANGED <<tables, locks, callLock, operator>>

\* Defect: the newest run wins, whatever height it has observed.
NeverOutdated(h) == FALSE

\* UNCHANGED or STALE_IGNORED
Outdated(h) == h <= cat.observed

RefreshCheck ==
    LET visible == {p \in PathSet : rows[p].visible}
        paths == VisibleAt[tx[Refresh].height]
    IN  /\ At(Refresh, "check")
        /\ IF Outdated(tx[Refresh].height)
           THEN End(Refresh)
           ELSE /\ tx' = [tx EXCEPT ![Refresh] =
                              Goto(@, "commit", <<visible, paths \ visible>>)]
                /\ UNCHANGED <<locks, callLock, operator>>
        /\ UNCHANGED tables

RefreshCommit ==
    LET paths == VisibleAt[tx[Refresh].height]
    IN  /\ At(Refresh, "commit")
        /\ rows' = [p \in PathSet |->
                      [rows[p] EXCEPT !.exists = @ \/ p \in paths,
                                      !.visible = p \in paths]]
        /\ cat' = [cat EXCEPT !.observed = tx[Refresh].height]
        /\ End(Refresh)
        /\ UNCHANGED <<stored, calls, index>>

-----------------------------------------------------------------------------
Next ==
    \/ \E p \in Processes : Rollback(p) \/ \E r \in Rows : Lock(p, r)
    \/ \E w \in Writers :
          \/ \E h \in Heights, parsed \in BOOLEAN : Begin(w, h, parsed)
          \/ LockState(w) \/ Cover(w) \/ CommitWrite(w)
    \/ \E from, through \in Heights :
          RebuildCalls(from, through) \/ RebuildRead(from, through)
    \/ RebuildReset \/ RebuildCommit
    \/ \E h \in DOMAIN VisibleAt : RefreshBegin(h)
    \/ RefreshCheck \/ RefreshCommit

Spec == Init /\ [][Next]_vars

-----------------------------------------------------------------------------
(* Properties.                                                             *)

RealmTypeOK ==
    /\ DOMAIN stored = 1..Checkpoint /\ \A h \in DOMAIN stored : stored[h] \in BOOLEAN
    /\ index \subseteq DOMAIN stored
    /\ cat.observed \in 0..MaxHeight
    /\ locks \in [Rows -> Processes \cup {None}]
    /\ callLock \in Writers \cup {None}

\* Inside the covered range the call index holds exactly the calls of the
\* stored summaries, and the range ends at the checkpoint, so that the next
\* live height extends it (database._replace_realm_calls_for_height,
\* advance_realm_call_coverage, rebuild_realm_call_index.rebuild_cursor).
CallIndexExact ==
    calls.through # NoRow =>
        /\ calls.through = Checkpoint
        /\ \A h \in calls.from..calls.through : h \in index <=> stored[h]

\* Whenever check_realm_activity_coverage.py reports "aligned", the counters
\* are those of the covered heights, however the activity rebuild and the
\* live writer have overlapped: a race leaves the range behind the
\* checkpoint, and then live writing refuses to go on.
AlignedIsExact ==
    operator # "reindexes" /\ cat.through # NoRow /\ cat.through = Checkpoint =>
        \A p \in PathSet : rows[p].count =
            Cardinality(CallsOf(p, {h \in cat.from..cat.through : stored[h]}))

\* With the indexer stopped during rebuilds, as the runbook demands, the live
\* writer never meets a gap in the activity range (exact-next advancement).
LiveNeverRefused ==
    operator # "overlaps" /\ At(Live, "cover") => ~ActivityGap(tx[Live].height)

\* The visible paths are those of the observed height, which never falls,
\* also when an older run commits after a newer one
\* (refresh_realm_catalog.persist_refresh).
Publishes ==
    /\ cat'.observed >= cat.observed
    /\ cat'.observed # NoRow =>
          {p \in PathSet : rows'[p].visible} = VisibleAt[cat'.observed]
PublishesNewest == [][Publishes]_vars
=============================================================================

--------------------------- MODULE RealmMetadata ---------------------------
(***************************************************************************)
(* The Realm metadata collector: scripts/refresh_realm_metadata.py, the    *)
(* per-path collection (indexer/realm_metadata_collector.py) and the       *)
(* publication of snapshots and run state                                  *)
(* (indexer/realm_metadata_persistence.py).                                *)
(*                                                                         *)
(* A run works at the height of the catalog it read, and publishes path by *)
(* path.  A capability that fails keeps the value and the height of its    *)
(* last success; files are rewritten only when the content hash changed.   *)
(* The content of a path and the value of a capability are determined by   *)
(* the height; ContentAt and the height itself stand for them.             *)
(***************************************************************************)
EXTENDS Integers, FiniteSets

CONSTANTS
    Realms, Packages,   \* the paths of the catalog, by kind
    PathCaps,           \* capabilities of every path: qdoc, qpkg_json, qfuncs
    RealmCaps,          \* capabilities of realms only: qrender, qstorage
    ContentAt(_),       \* the source files of a path at a height
    Collectors,         \* processes that run the script
    MaxHeight,          \* bound: catalog heights
    MaxWallTime,            \* bound: wall clock
    Null

Paths == Realms \cup Packages
Caps == PathCaps \cup RealmCaps
Applicable(p) == IF p \in Realms THEN Caps ELSE PathCaps

\* The rows of realm_metadata and of realm_metadata_refresh_state.
MetadataRows ==
    [height : 0..MaxHeight, at : 0..MaxWallTime, hash : {ContentAt(h) : h \in 0..MaxHeight},
     status : {"complete", "partial"}, ok : SUBSET Caps,
     caps : UNION {[A -> [value : Int \cup {Null}, height : Int \cup {Null}]] :
                     A \in {Caps, PathCaps}}]
RefreshStates ==
    [height : 0..MaxHeight, started : 0..MaxWallTime,
     status : {"running", "complete", "partial", "failed"},
     selected : SUBSET Paths, published : SUBSET Paths, success : Int \cup {Null}]

ASSUME MetadataAssumption ==
    /\ Realms \cap Packages = {} /\ PathCaps \cap RealmCaps = {}
    /\ MaxHeight \in Nat /\ MaxWallTime \in Nat
    /\ Null \notin Int \cup Collectors \cup MetadataRows \cup RefreshStates

VARIABLES
    catalog,    \* realm_catalog_state.observed_height, 0: no catalog yet
    visible,    \* catalog paths with rpc_visible
    clock,      \* wall clock
    rows,       \* realm_metadata: path -> row, or Null
    files,      \* realm_metadata_files: path -> content
    state,      \* realm_metadata_refresh_state, or Null
    lock,       \* holder of the advisory lock, or Null
    runs        \* collector -> its run

metadataVars == <<catalog, visible, clock, rows, files, state, lock, runs>>

NoRun == [phase |-> "idle"]

MetadataInit ==
    /\ catalog = 0 /\ visible = Paths /\ clock = 0
    /\ rows = [p \in Paths |-> Null] /\ files = [p \in Paths |-> Null]
    /\ state = Null /\ lock = Null
    /\ runs = [c \in Collectors |-> NoRun]

-----------------------------------------------------------------------------
(* The environment: the catalog tool publishes a newer catalog, time       *)
(* passes.                                                                 *)

CatalogRefreshed ==
    /\ catalog < MaxHeight
    /\ catalog' = catalog + 1
    /\ visible' \in SUBSET Paths
    /\ UNCHANGED <<clock, rows, files, state, lock, runs>>

ClockTick ==
    /\ clock < MaxWallTime
    /\ clock' = clock + 1
    /\ UNCHANGED <<catalog, visible, rows, files, state, lock, runs>>

-----------------------------------------------------------------------------
(* realm_metadata_persistence.py                                           *)

\* The snapshot is not older than the row it would replace.
NotStale(row, height, at) ==
    row # Null =>
        \/ row.height < height
        \/ row.height = height /\ row.at <= at

\* Mutant: the retained value gets the new height.
SuccessValueRestamped(row, c, ok, height) ==
    IF ok THEN [value |-> height, height |-> height]
    ELSE IF row = Null THEN [value |-> Null, height |-> Null]
    ELSE [row.caps[c] EXCEPT !.height = height]

\* The stored value of a capability: fresh when it succeeded, else retained.
\* (_json_success_values, _render_success_values, _storage_success_values)
SuccessValue(row, c, ok, height) ==
    IF ok THEN [value |-> height, height |-> height]
    ELSE IF row = Null THEN [value |-> Null, height |-> Null]
    ELSE row.caps[c]

\* publish_metadata_snapshot_cursor: the row, and the files if the hash
\* changed; ok is the set of capabilities that answered.
publish(p, height, ok, at) ==
    LET hash == ContentAt(height)
    IN  /\ NotStale(rows[p], height, at)
        /\ rows' = [rows EXCEPT ![p] =
              [height |-> height, at |-> at, hash |-> hash,
               status |-> IF ok = Applicable(p) THEN "complete" ELSE "partial",
               ok     |-> ok,
               caps   |-> [c \in Applicable(p) |-> SuccessValue(rows[p], c, c \in ok, height)]]]
        /\ files' = IF rows[p] = Null \/ rows[p].hash # hash
                      THEN [files EXCEPT ![p] = hash]
                      ELSE files

\* persist_metadata_refresh_state_cursor: whether the row is accepted ...
StateAccepted(new) ==
    state # Null =>
        /\ \/ state.height < new.height
           \/ state.height = new.height /\ state.started <= new.started
        /\ ~(/\ state.height = new.height /\ state.started = new.started
             /\ state.status # "running" /\ new.status = "running")
        /\ state.success # Null /\ new.success # Null => new.success >= state.success

\* ... and the row written: the last success survives a run without one.
StateRow(new) ==
    IF new.success = Null /\ state # Null
      THEN [new EXCEPT !.success = state.success]
      ELSE new

persist_state(new) == StateAccepted(new) /\ state' = StateRow(new)

RunState(r, status) ==
    [height |-> r.height, started |-> r.started, status |-> status,
     selected |-> r.selected, published |-> r.published,
     success |-> IF status = "complete" THEN r.height ELSE Null]

\* main's exception handler: the failed row is written if it can be.
PersistFailed(c) ==
    LET new == RunState(runs[c], "failed")
    IN  \/ UNCHANGED state
        \/ StateAccepted(new) /\ state' = StateRow(new)

-----------------------------------------------------------------------------
(* refresh_realm_metadata.py, main                                         *)

LockFree(c) == lock = Null

\* pg_try_advisory_lock; a second collector exits with already_running.
TakeLock(c) ==
    /\ runs[c].phase = "idle"
    /\ LockFree(c)
    /\ lock' = c
    /\ runs' = [runs EXCEPT ![c] = [phase |-> "locked"]]
    /\ UNCHANGED <<catalog, visible, clock, rows, files, state>>

\* The run ends: the lock is released with the session.
End(c) ==
    /\ lock' = IF lock = c THEN Null ELSE lock
    /\ runs' = [runs EXCEPT ![c] = NoRun]

\* select_catalog_paths: all visible paths, or the ones asked for.
SelectPaths(c) ==
    /\ runs[c].phase = "locked"
    /\ catalog > 0
    /\ \E selected \in SUBSET visible \ {{}} :
         runs' = [runs EXCEPT ![c] =
            [phase |-> "selected", height |-> catalog, started |-> clock,
             selected |-> selected, todo |-> selected, published |-> {}]]
    /\ UNCHANGED <<catalog, visible, clock, rows, files, state, lock>>

\* catalog_state_missing, no_rpc_visible_paths: nothing was written yet.
SelectFails(c) ==
    /\ runs[c].phase = "locked"
    /\ catalog = 0 \/ visible = {}
    /\ End(c)
    /\ UNCHANGED <<catalog, visible, clock, rows, files, state>>

\* The running row is written, or refused and the run ends as failed.
StartRun(c) ==
    /\ runs[c].phase = "selected"
    /\ \/ /\ persist_state(RunState(runs[c], "running"))
          /\ runs' = [runs EXCEPT ![c].phase = "collecting"]
          /\ UNCHANGED lock
       \/ /\ ~StateAccepted(RunState(runs[c], "running"))
          /\ PersistFailed(c)
          /\ End(c)
    /\ UNCHANGED <<catalog, visible, clock, rows, files>>

\* One path: collect_path_metadata on the candidates in turn until one serves
\* listing and files; then the capabilities that answered, and publication.
\* No suitable candidate left, or a refused publication, counts as failed.
CollectPath(c, p) ==
    LET r == runs[c]
        done(published) ==
            runs' = [runs EXCEPT ![c].todo = @ \ {p}, ![c].published = @ \cup published]
    IN  /\ r.phase = "collecting"
        /\ p \in r.todo
        /\ \/ /\ done({})
              /\ UNCHANGED <<rows, files>>
           \/ \E ok \in SUBSET Applicable(p) :
                /\ publish(p, r.height, ok, clock)
                /\ done({p})
        /\ UNCHANGED <<catalog, visible, clock, state, lock>>

\* Mutant: one published path makes a run complete.
TerminalStatusAny(r) == IF r.published # {} THEN "complete" ELSE "failed"

\* complete needs every selected path published.
TerminalStatus(r) ==
    IF r.published = r.selected THEN "complete"
    ELSE IF r.published # {} THEN "partial" ELSE "failed"

FinishRun(c) ==
    /\ runs[c].phase = "collecting"
    /\ runs[c].todo = {}
    /\ persist_state(RunState(runs[c], TerminalStatus(runs[c])))
    /\ End(c)
    /\ UNCHANGED <<catalog, visible, clock, rows, files>>

\* Any other exception after the running row: no suitable RPC, a database
\* error.
AbortRun(c) ==
    /\ runs[c].phase = "collecting"
    /\ PersistFailed(c)
    /\ End(c)
    /\ UNCHANGED <<catalog, visible, clock, rows, files>>

\* The collector dies; its row, if any, stays running.
CrashRun(c) ==
    /\ runs[c].phase # "idle"
    /\ End(c)
    /\ UNCHANGED <<catalog, visible, clock, rows, files, state>>

MetadataNext ==
    \/ CatalogRefreshed \/ ClockTick
    \/ \E c \in Collectors :
          \/ TakeLock(c) \/ SelectPaths(c) \/ SelectFails(c) \/ StartRun(c)
          \/ FinishRun(c) \/ AbortRun(c) \/ CrashRun(c)
          \/ \E p \in Paths : CollectPath(c, p)

MetadataSpec == MetadataInit /\ [][MetadataNext]_metadataVars

-----------------------------------------------------------------------------
(* Properties.                                                             *)

\* What the metadata page shows is what the chain had: the stored files are
\* the ones at the row's height although unchanged ones are not rewritten,
\* and every retained capability value is the one of the height it carries.
MetadataTruthful ==
    \A p \in Paths : rows[p] # Null =>
        LET row == rows[p] IN
        /\ files[p] = row.hash /\ row.hash = ContentAt(row.height)
        /\ \A c \in Applicable(p) :
              /\ row.caps[c].value = row.caps[c].height
              /\ c \in row.ok => row.caps[c].height = row.height

\* A collecting run owns the state row, also when its predecessor died and
\* left the row running; and a complete row vouches for each selected path.
RunStateSound ==
    /\ \A c \in Collectors : runs[c].phase = "collecting" =>
          /\ state # Null /\ state.status = "running"
          /\ state.height = runs[c].height /\ state.started = runs[c].started
    /\ state # Null /\ state.status = "complete" =>
          /\ state.success = state.height
          /\ \A p \in state.selected : rows[p] # Null /\ rows[p].height >= state.height
=============================================================================

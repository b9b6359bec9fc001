----------------------------- MODULE BlockStore -----------------------------
(***************************************************************************)
(* The PostgreSQL rows the indexer keeps about the chain, and the one      *)
(* transaction that writes a height (indexer/database.py).                 *)
(*                                                                         *)
(* A block stands for all the rows of its height: header, transactions,    *)
(* execution results, validator set and signatures are determined by the   *)
(* block hash.  Height 0 stands for an absent row: the code accepts only   *)
(* start heights of at least 1.  The columns finalized_tip_height and      *)
(* selected_rpc_endpoint_id of indexer_state are written with the          *)
(* checkpoint and read by no writer; only the CHECK on the first is kept.  *)
(***************************************************************************)
EXTENDS Integers

CONSTANTS
    Hashes,         \* canonical block hashes
    Endpoints,      \* the configured RPC endpoints
    StartHeight,    \* INDEXER_START_HEIGHT
    MaxHeight,      \* bound: the highest finalized height any endpoint reports
    None            \* SQL NULL / Python None

ASSUME HeightAssumption ==
    /\ StartHeight \in Nat \ {0}
    /\ MaxHeight \in Nat
    /\ StartHeight <= MaxHeight

ASSUME NoneAssumption == None \notin Hashes \cup Endpoints

VARIABLES
    blocks,         \* table blocks: stored heights -> [hash, parent]
    checkpoint,     \* indexer_state.last_finalized_height, 0: no row
    calls,          \* realm_call_index_state [from, through], 0: no row
    selected        \* the endpoint with rpc_endpoints.is_selected, or None

storeVars == <<blocks, checkpoint, calls, selected>>
chainVars == <<blocks, checkpoint, calls>>

Heights == 0..MaxHeight
Block == [hash : Hashes, parent : Hashes]
NoRow == 0

StoreInit ==
    /\ blocks = [h \in {} |-> 0]
    /\ checkpoint = NoRow
    /\ calls = [from |-> NoRow, through |-> NoRow]
    /\ selected = None

StoreTypeOK ==
    /\ DOMAIN blocks \subseteq Heights
    /\ blocks \in [DOMAIN blocks -> Block]
    /\ checkpoint \in Heights
    /\ calls \in [from : Heights, through : Heights]
    /\ selected \in Endpoints \cup {None}

-----------------------------------------------------------------------------
(* write_height_cursor: the checks and the writes of one height.  seen is  *)
(* the checkpoint read by the transaction's first statement, before it     *)
(* waits for the Realm call index lock; everything after the lock is one   *)
(* atomic step because every height writer holds that lock until it ends.  *)

\* _verify_checkpoint_sequence
Skips(h, seen) == seen # NoRow /\ h > seen + 1

\* Defect: the newest stored height is taken for not yet finalized.
ConflictsBelowTip(h, b) ==
    h \in DOMAIN blocks /\ h < checkpoint /\ blocks[h].hash # b.hash

\* _verify_finalized_conflicts
Conflicts(h, b) == h \in DOMAIN blocks /\ blocks[h].hash # b.hash

\* advance_realm_call_coverage refuses anything but the exact next height
CoverageGap(h) == calls.through # NoRow /\ h > calls.through + 1

\* Defect: a repeated height moves the coverage back.
AdvancedCallsRegressing(h, seen) ==
    IF calls.through = NoRow
    THEN IF seen = NoRow THEN [from |-> h, through |-> h] ELSE calls
    ELSE [calls EXCEPT !.through = h]

\* Defect: whoever saw an empty database starts the coverage anew.
AdvancedCallsRestarting(h, seen) ==
    IF seen = NoRow THEN [from |-> h, through |-> h]
    ELSE IF h > calls.through THEN [calls EXCEPT !.through = h] ELSE calls

AdvancedCalls(h, seen) ==
    IF calls.through = NoRow
    THEN IF seen = NoRow THEN [from |-> h, through |-> h] ELSE calls
    ELSE IF h > calls.through THEN [calls EXCEPT !.through = h] ELSE calls

\* _advance_checkpoint returns early for a height that seen already covers
Advances(h, seen) == seen = NoRow \/ h > seen

\* Defect: the checkpoint is overwritten with the height just stored.
LastWritten(a, b) == b

Greatest(a, b) == IF a >= b THEN a ELSE b

\* CHECK (finalized_tip_height >= last_finalized_height) of indexer_state
TipBehind(h, seen, tip) == Advances(h, seen) /\ tip < Greatest(checkpoint, h)

Refused(h, b, seen, tip) ==
    Conflicts(h, b) \/ CoverageGap(h) \/ TipBehind(h, seen, tip)

\* _upsert_block leaves a stored block as it is
Upserted(h, b) ==
    [x \in DOMAIN blocks \cup {h} |-> IF x \in DOMAIN blocks THEN blocks[x] ELSE b]

Persist(h, b, seen, tip) ==
    /\ ~Refused(h, b, seen, tip)
    /\ blocks' = Upserted(h, b)
    /\ calls' = AdvancedCalls(h, seen)
    /\ checkpoint' = IF Advances(h, seen) THEN Greatest(checkpoint, h) ELSE checkpoint
    /\ UNCHANGED selected

-----------------------------------------------------------------------------
(* rpc_endpoints: at most one row is selected (a unique partial index).    *)

\* select_rpc_endpoint
Select(e) == selected' = e

\* record_rpc_runtime_failure clears the flag of the failed endpoint only
Deselect(e) == selected' = IF selected = e THEN None ELSE selected
=============================================================================

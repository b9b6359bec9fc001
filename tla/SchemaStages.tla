---------------------------- MODULE SchemaStages ----------------------------
(***************************************************************************)
(* The database schema's exact stages and the tools that move a database   *)
(* from one to the next: scripts/init_database.py and the five             *)
(* scripts/migrate_*.py.  Each tool reads the catalog, refuses anything    *)
(* that is not an exact stage it knows, changes it in one transaction,     *)
(* validates the result and commits; database/schema.sql, run on an empty  *)
(* database, commits four times on the way.  Operators may run tools side  *)
(* by side, and a tool may be killed at any step.  The indexer is stopped  *)
(* meanwhile, as docs/production-deployment.md asks.                       *)
(***************************************************************************)
EXTENDS Integers, FiniteSets, Sequences

CONSTANTS
    Terminals,    \* where a tool may be started: one tool at a time in each
    Rows,         \* ids of the stored decoded transactions
    BatchSize,    \* batch_size of migrate_transaction_hashes
    MaxAborts     \* bound: tools killed, or refused by the privileges check

ASSUME SchemaAssumption ==
    /\ Rows \subseteq Nat \ {0} /\ IsFiniteSet(Rows)
    /\ BatchSize \in Nat \ {0} /\ MaxAborts \in Nat

VARIABLES
    schema,       \* committed parts of the public schema
    hashed,       \* rows with a committed tx_hash_hex
    parties,      \* rows whose participants are committed
    tool,         \* terminal -> the running tool
    aborts

schemaVars == <<schema, hashed, parties, tool, aborts>>

-----------------------------------------------------------------------------
(* The stages.  A part is a group of tables, or the columns, constraints   *)
(* and indexes one migration adds to an older table.                       *)

base == {"base"}                       \* blocks, transactions, validators, rpc, indexer_state
latency == {"latency"}                 \* rpc_endpoints.latency_ms and its check
valopers == {"valopers"}
hash == {"hash", "hash_index"}         \* transactions.tx_hash_hex with checks, its index
network == {"network"}
governance == {"governance"}
participants == {"participants"}
results == {"results"}
catalog == {"catalog"}
calls == {"calls"}
metadata == {"metadata"}

BASE_LEGACY == base \cup latency
VALOPERS_ONLY == BASE_LEGACY \cup valopers
HASH_ONLY == BASE_LEGACY \cup hash
PRE_NETWORK == BASE_LEGACY \cup valopers \cup hash
PRE_GOVERNANCE == PRE_NETWORK \cup network
PRE_PARTICIPANT == PRE_GOVERNANCE \cup governance
PRE_RESULT == PRE_PARTICIPANT \cup participants
PRE_CATALOG == PRE_RESULT \cup results
PRE_CALLS == PRE_CATALOG \cup catalog
PRE_METADATA == PRE_CALLS \cup calls
FINAL == PRE_METADATA \cup metadata

Stages == {BASE_LEGACY, VALOPERS_ONLY, HASH_ONLY, PRE_NETWORK, PRE_GOVERNANCE,
           PRE_PARTICIPANT, PRE_RESULT, PRE_CATALOG, PRE_CALLS, PRE_METADATA, FINAL}

\* What a database had before migration 0005 was written.
BeforeLatency == {stage \ latency : stage \in {BASE_LEGACY, VALOPERS_ONLY, HASH_ONLY,
                      PRE_NETWORK, PRE_GOVERNANCE, PRE_PARTICIPANT}}

Tables(parts) == parts \ (latency \cup hash)

\* A migration: the stage it starts from and what it adds.
Link(from, adds) == [from |-> from, adds |-> adds]

\* Mutant: the catalog migration is left out.
ChainGap == <<Link(PRE_PARTICIPANT, participants), Link(PRE_RESULT, results),
              Link(PRE_CALLS, calls), Link(PRE_METADATA, metadata)>>

\* initialize_or_validate: the migrations it applies itself, in this order.
Chain == <<Link(PRE_PARTICIPANT, participants), Link(PRE_RESULT, results),
           Link(PRE_CATALOG, catalog), Link(PRE_CALLS, calls), Link(PRE_METADATA, metadata)>>

\* Mutant: a table created after the COMMIT its stage ends with.
schema_sql_early == <<PRE_CATALOG \ valopers, valopers \cup catalog, calls, metadata>>

\* database/schema.sql: what each of its COMMITs adds.
schema_sql == <<PRE_CATALOG, catalog, calls, metadata>>

-----------------------------------------------------------------------------
(* A tool's transaction                                                    *)

Idle == [name |-> "none", pc |-> "idle", tables |-> {}, seen |-> {}, made |-> {},
         rows |-> {}, last |-> 0, goal |-> {}]

SchemaInit ==
    /\ schema \in Stages \cup {{}, FINAL \ latency} \cup BeforeLatency
    /\ hashed = IF hash \subseteq schema THEN Rows ELSE {}
    /\ parties = IF participants \subseteq schema THEN Rows ELSE {}
    /\ tool = [w \in Terminals |-> Idle]
    /\ aborts = 0

\* READ COMMITTED: what is committed now, and the transaction's own DDL.
View(w) == schema \cup tool[w].made

\* validate_schema_snapshot: the catalog is exactly the expected stage.
Exact(parts, stage) == parts = stage

Set(w, r) == tool' = [tool EXCEPT ![w] = r]
Stop(w) == Set(w, Idle)          \* return, or an exception: the transaction rolls back

\* DDL waits for a transaction that has created the same names.
Blocked(w, adds) == \E v \in Terminals \ {w} : tool[v].made \cap adds # {}
Collides(adds) == adds \cap schema # {}

Start(w, name) ==
    /\ tool[w].pc = "idle"
    /\ Set(w, [Idle EXCEPT !.name = name, !.pc = "tables"])
    /\ UNCHANGED <<schema, hashed, parties, aborts>>

\* The list of tables, a statement of its own before the full snapshot (the
\* governance and latency tools read the snapshot only).
ReadTables(w) ==
    /\ tool[w].pc = "tables"
    /\ Set(w, [tool[w] EXCEPT !.tables = Tables(schema), !.pc = "snapshot"])
    /\ UNCHANGED <<schema, hashed, parties, aborts>>

\* fetch_schema_snapshot
FetchSnapshot(w) ==
    /\ tool[w].pc = "snapshot"
    /\ Set(w, [tool[w] EXCEPT !.seen = View(w), !.pc = "decide"])
    /\ UNCHANGED <<schema, hashed, parties, aborts>>

Deciding(w, name) == tool[w].pc = "decide" /\ tool[w].name = name

Plan(w, goal) == Set(w, [tool[w] EXCEPT !.pc = "ddl", !.goal = goal])

\* What the planned DDL adds.
Adds(w) == tool[w].goal \ tool[w].seen

-----------------------------------------------------------------------------
(* init_database.py, initialize_or_validate                                *)

InitEmpty(w) ==
    /\ Deciding(w, "init") /\ tool[w].tables = {}
    /\ Set(w, [tool[w] EXCEPT !.pc = "sql", !.last = 1])
    /\ UNCHANGED <<schema, hashed, parties, aborts>>

\* One transaction of schema.sql, up to its COMMIT; a name that exists already
\* ends the script.
SchemaSql(w) ==
    /\ tool[w].pc = "sql"
    /\ LET adds == schema_sql[tool[w].last] IN
       /\ ~Blocked(w, adds)
       /\ IF Collides(adds)
            THEN /\ Stop(w)
                 /\ UNCHANGED <<schema, hashed, parties>>
            ELSE /\ schema' = schema \cup adds
                 /\ hashed' = IF hash \subseteq adds THEN Rows ELSE hashed
                 /\ parties' = IF participants \subseteq adds THEN Rows ELSE parties
                 /\ Set(w, IF tool[w].last = Len(schema_sql)
                             THEN [tool[w] EXCEPT !.pc = "validate", !.goal = FINAL]
                             ELSE [tool[w] EXCEPT !.last = @ + 1])
    /\ UNCHANGED aborts

\* The next stage of the chain that the tables name; otherwise the catalog
\* must be final, or the error names the script to run.
Links(w) == {k \in DOMAIN Chain : tool[w].tables = Tables(Chain[k].from)}

InitChain(w) ==
    /\ Deciding(w, "init") /\ tool[w].tables # {}
    /\ IF Links(w) # {}
         THEN LET link == Chain[CHOOSE k \in Links(w) : TRUE] IN
              IF Exact(tool[w].seen, link.from) THEN Plan(w, link.from \cup link.adds) ELSE Stop(w)
         ELSE IF Exact(tool[w].seen, FINAL)
                THEN Set(w, [tool[w] EXCEPT !.pc = "commit"]) ELSE Stop(w)
    /\ UNCHANGED <<schema, hashed, parties, aborts>>

-----------------------------------------------------------------------------
(* The explicit migrations: the stages each takes, and what it makes of    *)
(* them.  A stage it calls compatible, like one it refuses, ends it.       *)

migrate_valopers(w) ==
    /\ Deciding(w, "valopers")
    /\ IF Exact(tool[w].seen, BASE_LEGACY) THEN Plan(w, VALOPERS_ONLY)
       ELSE IF Exact(tool[w].seen, HASH_ONLY) THEN Plan(w, PRE_NETWORK) ELSE Stop(w)
    /\ UNCHANGED <<schema, hashed, parties, aborts>>

migrate_transaction_hashes(w) ==
    /\ Deciding(w, "hash")
    /\ IF Exact(tool[w].seen, BASE_LEGACY) THEN Plan(w, HASH_ONLY)
       ELSE IF Exact(tool[w].seen, VALOPERS_ONLY) THEN Plan(w, PRE_NETWORK) ELSE Stop(w)
    /\ UNCHANGED <<schema, hashed, parties, aborts>>

migrate_network(w) ==
    /\ Deciding(w, "network")
    /\ IF network \subseteq tool[w].tables THEN Stop(w)
       ELSE IF Exact(tool[w].seen, PRE_NETWORK) THEN Plan(w, PRE_GOVERNANCE) ELSE Stop(w)
    /\ UNCHANGED <<schema, hashed, parties, aborts>>

migrate_governance(w) ==
    /\ Deciding(w, "governance")
    /\ IF Exact(tool[w].seen, PRE_GOVERNANCE) THEN Plan(w, PRE_PARTICIPANT) ELSE Stop(w)
    /\ UNCHANGED <<schema, hashed, parties, aborts>>

migrate_latency(w) ==
    /\ Deciding(w, "latency")
    /\ IF Exact(tool[w].seen, FINAL \ latency) \/ Exact(tool[w].seen, FINAL)
         THEN Plan(w, FINAL) ELSE Stop(w)
    /\ UNCHANGED <<schema, hashed, parties, aborts>>

-----------------------------------------------------------------------------
(* The migration files, validation and COMMIT                              *)

\* ADD COLUMN IF NOT EXISTS and CREATE TABLE IF NOT EXISTS pass over what was
\* committed meanwhile, unless they were already waiting for it.
Tolerant(adds) == adds \in {latency, participants}

\* Migration 0002 adds the column; the index follows the backfill.
DdlOf(w) == Adds(w) \ {"hash_index"}

ApplyDdl(w) ==
    /\ tool[w].pc = "ddl"
    /\ ~Blocked(w, DdlOf(w))
    /\ \/ /\ Collides(DdlOf(w))
          /\ Stop(w)
       \/ /\ Collides(DdlOf(w)) => Tolerant(DdlOf(w))
          /\ Set(w, [tool[w] EXCEPT
               !.made = @ \cup (DdlOf(w) \ schema),
               !.rows = IF participants \subseteq Adds(w) THEN Rows ELSE @,
               !.pc = CASE tool[w].name = "hash" -> "backfill"
                        [] tool[w].name = "init" -> "next"
                        [] OTHER -> "validate"])
    /\ UNCHANGED <<schema, hashed, parties, aborts>>

\* The chain goes on with a fresh snapshot and its tables; only after 0006 is
\* it validated at once, the other migrations are by the next stage's check.
NextLink(w) ==
    /\ tool[w].pc = "next"
    /\ IF participants \subseteq Adds(w) /\ ~Exact(View(w), PRE_RESULT)
         THEN Stop(w)
         ELSE Set(w, [tool[w] EXCEPT !.seen = View(w), !.tables = Tables(View(w)), !.pc = "decide"])
    /\ UNCHANGED <<schema, hashed, parties, aborts>>

\* _backfill: the next batch, in the order of ids.
Batch(w) ==
    LET todo == {i \in Rows \ tool[w].rows : i > tool[w].last}
    IN  {i \in todo : Cardinality({j \in todo : j < i}) < BatchSize}

Backfill(w) ==
    /\ tool[w].pc = "backfill"
    /\ IF Batch(w) = {}
         THEN Set(w, [tool[w] EXCEPT !.pc = "verify"])
         ELSE Set(w, [tool[w] EXCEPT
                !.rows = @ \cup Batch(w),
                !.last = CHOOSE i \in Batch(w) : \A j \in Batch(w) : j <= i])
    /\ UNCHANGED <<schema, hashed, parties, aborts>>

\* _verify, _verify_hash_contents, then the validated constraints and the index.
VerifyHashes(w) ==
    /\ tool[w].pc = "verify"
    /\ IF tool[w].rows # Rows
         THEN Stop(w)
         ELSE Set(w, [tool[w] EXCEPT !.made = @ \cup {"hash_index"}, !.pc = "validate"])
    /\ UNCHANGED <<schema, hashed, parties, aborts>>

\* The target stage, as the transaction sees the catalog now.
ValidateTarget(w) ==
    /\ tool[w].pc = "validate"
    /\ IF Exact(View(w), tool[w].goal) THEN Set(w, [tool[w] EXCEPT !.pc = "commit"]) ELSE Stop(w)
    /\ UNCHANGED <<schema, hashed, parties, aborts>>

Commit(w) ==
    /\ tool[w].pc = "commit"
    /\ schema' = schema \cup tool[w].made
    /\ hashed' = IF hash \subseteq tool[w].made THEN tool[w].rows ELSE hashed
    /\ parties' = IF participants \subseteq tool[w].made THEN tool[w].rows ELSE parties
    /\ Stop(w)
    /\ UNCHANGED aborts

\* The tool is killed, or validate_table_privileges refuses: rollback.
Abort(w) ==
    /\ tool[w].pc # "idle"
    /\ aborts < MaxAborts
    /\ aborts' = aborts + 1
    /\ Stop(w)
    /\ UNCHANGED <<schema, hashed, parties>>

-----------------------------------------------------------------------------
Tools == {"init", "valopers", "hash", "network", "governance", "latency"}

Step(w) ==
    \/ ReadTables(w) \/ FetchSnapshot(w)
    \/ InitEmpty(w) \/ SchemaSql(w) \/ InitChain(w) \/ NextLink(w)
    \/ migrate_valopers(w) \/ migrate_transaction_hashes(w) \/ migrate_network(w)
    \/ migrate_governance(w) \/ migrate_latency(w)
    \/ ApplyDdl(w) \/ Backfill(w) \/ VerifyHashes(w) \/ ValidateTarget(w) \/ Commit(w)

SchemaNext == \E w \in Terminals : (\E name \in Tools : Start(w, name)) \/ Step(w) \/ Abort(w)

\* A started tool goes on until it ends, and the operator keeps trying every
\* tool.
SchemaFairness ==
    /\ \A w \in Terminals : WF_schemaVars(Step(w))
    /\ \A name \in Tools : SF_schemaVars(\E w \in Terminals : Start(w, name))

SchemaSpec == SchemaInit /\ [][SchemaNext]_schemaVars /\ SchemaFairness

-----------------------------------------------------------------------------
\* Whatever tools run side by side and wherever they are killed, even between
\* the commits of schema.sql, the committed schema is an exact stage, and the
\* columns and tables that a migration must fill from stored transactions are
\* filled (initialize_or_validate, the migrate functions).
SchemaExact ==
    /\ schema \in Stages \cup {{}, FINAL \ latency} \cup BeforeLatency
    /\ hash \subseteq schema => hashed = Rows
    /\ participants \subseteq schema => parties = Rows

\* The tools bring an empty database and every stage that has the latency
\* column to the final schema.  A database from before the column is refused
\* by all of them, unless the column is all it lacks (initialize_or_validate,
\* migrate_rpc_latency_schema.migrate).
ReachesFinal == schema \notin BeforeLatency => <>[](schema = FINAL)
=============================================================================

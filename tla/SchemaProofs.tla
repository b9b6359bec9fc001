---------------------------- MODULE SchemaProofs ----------------------------
(***************************************************************************)
(* Proofs about the schema tools, for any number of terminals, any stored  *)
(* rows, any batch size and any number of aborted tools.                   *)
(***************************************************************************)
EXTENDS SchemaStages, DataLemmas

(* A set of parts is legal when every part comes with those that the       *)
(* migration which adds it has found.  Latency is older than the stages,   *)
(* and only a database that has all the rest may lack it.  The stages are  *)
(* the legal sets with a finished hash migration.  What makes legality     *)
(* inductive is that it survives unions: two tools that have seen the same *)
(* stage may both commit, in any order.                                    *)
Legal(X) ==
    /\ X \subseteq FINAL
    /\ "latency" \in X => "base" \in X
    /\ "base" \in X /\ "latency" \notin X => FINAL \ latency \subseteq X
    /\ "valopers" \in X => "base" \in X
    /\ "hash" \in X => "base" \in X
    /\ "hash_index" \in X => "hash" \in X
    /\ "network" \in X => "valopers" \in X /\ "hash_index" \in X
    /\ "governance" \in X => "network" \in X
    /\ "participants" \in X => "governance" \in X
    /\ "results" \in X => "participants" \in X
    /\ "catalog" \in X => "results" \in X
    /\ "calls" \in X => "catalog" \in X
    /\ "metadata" \in X => "calls" \in X

\* The hash column comes with its index.
Indexed(X) == "hash" \in X <=> "hash_index" \in X

ToolNames == Tools \cup {"none"}
PCs == {"idle", "tables", "snapshot", "decide", "sql", "ddl", "next", "backfill", "verify",
        "validate", "commit"}

ToolRecord ==
    [name : ToolNames, pc : PCs, tables : SUBSET FINAL, seen : SUBSET FINAL, made : SUBSET FINAL,
     rows : SUBSET Rows, last : Nat, goal : SUBSET FINAL]

\* The running tool t on the committed schema S.  What it has seen is still
\* there; its plan is a stage; only the hash tool plans the hash column, and
\* until it has verified all rows it cannot commit; a plan with participants
\* has filled them.
ToolOK(t, S) ==
    /\ t \in ToolRecord
    /\ Legal(S \cup t.made)
    /\ t.pc \in {"decide", "ddl"} => t.seen \subseteq S \cup t.made
    /\ t.name # "init" /\ t.pc \in {"tables", "snapshot", "decide", "ddl"} => t.made = {}
    /\ t.pc = "next" => t.name = "init"
    /\ t.pc = "ddl" =>
          /\ Legal(t.goal) /\ "latency" \in t.goal
          /\ {"hash", "hash_index"} \cap (t.goal \ t.seen) # {} =>
                t.name = "hash" /\ "network" \notin t.goal
          /\ t.name = "hash" => hash \subseteq t.goal \ t.seen /\ "network" \notin t.goal
    /\ t.pc \in {"backfill", "verify"} <=> "hash" \in t.made /\ "hash_index" \notin t.made
    /\ "hash_index" \in t.made => "hash" \in t.made /\ t.rows = Rows
    /\ "participants" \in t.made => t.rows = Rows
    /\ t.pc = "sql" =>
          /\ t.last \in 1..4
          /\ t.last >= 2 => PRE_CATALOG \subseteq S
          /\ t.last >= 3 => catalog \subseteq S
          /\ t.last >= 4 => calls \subseteq S

SchemaInv ==
    /\ tool = [w \in Terminals |-> tool[w]]
    /\ \A w \in Terminals : ToolOK(tool[w], schema)
    /\ Legal(schema) /\ Indexed(schema)
    /\ hash \subseteq schema => hashed = Rows
    /\ participants \subseteq schema => parties = Rows

-----------------------------------------------------------------------------
(* Legal sets of parts                                                     *)

PartNames ==
    {"base", "latency", "valopers", "hash", "hash_index", "network", "governance", "participants",
     "results", "catalog", "calls", "metadata"}

\* The final schema has all parts.
LEMMA FinalParts == FINAL = PartNames
  BY DEF FINAL, PRE_METADATA, PRE_CALLS, PRE_CATALOG, PRE_RESULT, PRE_PARTICIPANT, PRE_GOVERNANCE,
         PRE_NETWORK, BASE_LEGACY, base, latency, valopers, hash, network, governance, participants,
         results, catalog, calls, metadata, PartNames

\* Two legal sets together are legal.
LEMMA LegalUnion ==
    ASSUME NEW X, NEW Y, Legal(X), Legal(Y)
    PROVE  Legal(X \cup Y)
  BY DEF Legal

\* Every stage is legal, with a finished hash migration.
LEMMA StagesLegal ==
    /\ Legal(BASE_LEGACY) /\ Legal(VALOPERS_ONLY) /\ Legal(HASH_ONLY) /\ Legal(PRE_NETWORK)
    /\ Legal(PRE_GOVERNANCE) /\ Legal(PRE_PARTICIPANT) /\ Legal(PRE_RESULT) /\ Legal(PRE_CATALOG)
    /\ Legal(PRE_CALLS) /\ Legal(PRE_METADATA) /\ Legal(FINAL) /\ Legal(FINAL \ latency) /\ Legal({})
<1> USE FinalParts DEF Legal, PartNames, PRE_METADATA, PRE_CALLS, PRE_CATALOG, PRE_RESULT,
        PRE_PARTICIPANT, PRE_GOVERNANCE, PRE_NETWORK, VALOPERS_ONLY, HASH_ONLY, BASE_LEGACY, base,
        latency, valopers, hash, network, governance, participants, results, catalog, calls, metadata
<1>1. Legal(BASE_LEGACY) /\ Legal(VALOPERS_ONLY) /\ Legal(HASH_ONLY)
  OBVIOUS
<1>2. Legal(PRE_NETWORK) /\ Legal(PRE_GOVERNANCE)
  OBVIOUS
<1>3. Legal(PRE_PARTICIPANT) /\ Legal(PRE_RESULT)
  OBVIOUS
<1>4. Legal(PRE_CATALOG)
  OBVIOUS
<1>5. Legal(PRE_CALLS)
  OBVIOUS
<1>6. Legal(PRE_METADATA)
  OBVIOUS
<1>7. Legal(FINAL) /\ Legal(FINAL \ latency) /\ Legal({})
  OBVIOUS
<1> QED BY <1>1, <1>2, <1>3, <1>4, <1>5, <1>6, <1>7

\* All of them have their index or no hash column.
LEMMA StagesIndexed == \A X \in Stages \cup {{}, FINAL \ latency} : Indexed(X)
  BY FinalParts
     DEF Stages, Indexed, PartNames, PRE_METADATA, PRE_CALLS, PRE_CATALOG, PRE_RESULT, PRE_PARTICIPANT,
         PRE_GOVERNANCE, PRE_NETWORK, VALOPERS_ONLY, HASH_ONLY, BASE_LEGACY, base, latency, valopers,
         hash, network, governance, participants, results, catalog, calls, metadata

\* And there are no other legal sets.
LEMMA LegalIsStage ==
    ASSUME NEW X, Legal(X), Indexed(X)
    PROVE  X \in Stages \cup {{}, FINAL \ latency}
<1> USE DEF base, latency, valopers, hash, network, governance, participants, results, catalog, calls,
        metadata
<1>1. X \subseteq PartNames
  BY FinalParts DEF Legal
<1>2. CASE "base" \notin X
  <2>1. X = {}
    BY <1>1, <1>2 DEF Legal, PartNames
  <2> QED BY <2>1
<1>3. CASE "base" \in X /\ "latency" \notin X
  <2>1. X = FINAL \ latency
    BY <1>3 DEF Legal
  <2> QED BY <2>1
<1>4. CASE "base" \in X /\ "latency" \in X
  <2>1. CASE "network" \notin X
    <3>1. X \subseteq {"base", "latency", "valopers", "hash", "hash_index"}
      BY <1>1, <2>1 DEF Legal, PartNames
    <3>2. X \in {BASE_LEGACY, VALOPERS_ONLY, HASH_ONLY, PRE_NETWORK}
      <4>1. CASE "valopers" \in X /\ "hash" \in X
        <5>1. X = PRE_NETWORK
          BY <1>4, <3>1, <4>1 DEF Indexed, PRE_NETWORK, BASE_LEGACY
        <5> QED BY <5>1
      <4>2. CASE "valopers" \in X /\ "hash" \notin X
        <5>1. X = VALOPERS_ONLY
          BY <1>4, <3>1, <4>2 DEF Indexed, VALOPERS_ONLY, BASE_LEGACY
        <5> QED BY <5>1
      <4>3. CASE "valopers" \notin X /\ "hash" \in X
        <5>1. X = HASH_ONLY
          BY <1>4, <3>1, <4>3 DEF Indexed, HASH_ONLY, BASE_LEGACY
        <5> QED BY <5>1
      <4>4. CASE "valopers" \notin X /\ "hash" \notin X
        <5>1. X = BASE_LEGACY
          BY <1>4, <3>1, <4>4 DEF Indexed, BASE_LEGACY
        <5> QED BY <5>1
      <4> QED BY <4>1, <4>2, <4>3, <4>4
    <3> QED BY <3>2 DEF Stages
  <2>2. CASE "network" \in X
    <3>1. {"base", "latency", "valopers", "hash", "hash_index", "network"} \subseteq X
      BY <1>4, <2>2 DEF Legal
    <3> DEFINE N == {"base", "latency", "valopers", "hash", "hash_index", "network"}
    <3>2. PRE_GOVERNANCE = N
      BY DEF PRE_GOVERNANCE, PRE_NETWORK, BASE_LEGACY
    <3>3. CASE "governance" \notin X
      <4>1. X = PRE_GOVERNANCE
        BY <1>1, <3>1, <3>2, <3>3 DEF Legal, PartNames
      <4> QED BY <4>1 DEF Stages
    <3>4. CASE "governance" \in X /\ "participants" \notin X
      <4>1. X = PRE_PARTICIPANT
        BY <1>1, <3>1, <3>2, <3>4 DEF Legal, PartNames, PRE_PARTICIPANT
      <4> QED BY <4>1 DEF Stages
    <3>5. CASE "participants" \in X /\ "results" \notin X
      <4>1. X = PRE_RESULT
        BY <1>1, <3>1, <3>2, <3>5 DEF Legal, PartNames, PRE_RESULT, PRE_PARTICIPANT
      <4> QED BY <4>1 DEF Stages
    <3>6. CASE "results" \in X /\ "catalog" \notin X
      <4>1. X = PRE_CATALOG
        BY <1>1, <3>1, <3>2, <3>6 DEF Legal, PartNames, PRE_CATALOG, PRE_RESULT, PRE_PARTICIPANT
      <4> QED BY <4>1 DEF Stages
    <3>7. CASE "catalog" \in X /\ "calls" \notin X
      <4>1. X = PRE_CALLS
        BY <1>1, <3>1, <3>2, <3>7 DEF Legal, PartNames, PRE_CALLS, PRE_CATALOG, PRE_RESULT, PRE_PARTICIPANT
      <4> QED BY <4>1 DEF Stages
    <3>8. CASE "calls" \in X /\ "metadata" \notin X
      <4>1. X = PRE_METADATA
        BY <1>1, <3>1, <3>2, <3>8
           DEF Legal, PartNames, PRE_METADATA, PRE_CALLS, PRE_CATALOG, PRE_RESULT, PRE_PARTICIPANT
      <4> QED BY <4>1 DEF Stages
    <3>9. CASE "metadata" \in X
      <4>1. X = FINAL
        BY <1>1, <3>1, <3>9, FinalParts DEF Legal, PartNames
      <4> QED BY <4>1 DEF Stages
    <3>10. /\ "participants" \in X => "governance" \in X
           /\ "results" \in X => "participants" \in X
           /\ "catalog" \in X => "results" \in X
           /\ "calls" \in X => "catalog" \in X
           /\ "metadata" \in X => "calls" \in X
      BY DEF Legal
    <3> QED BY <3>3, <3>4, <3>5, <3>6, <3>7, <3>8, <3>9, <3>10
  <2> QED BY <2>1, <2>2
<1> QED BY <1>2, <1>3, <1>4

-----------------------------------------------------------------------------
(* One tool steps                                                          *)

\* No tool runs.
LEMMA IdleOK ==
    ASSUME NEW S, Legal(S)
    PROVE  ToolOK(Idle, S)
<1>1. Idle \in ToolRecord
  BY DEF Idle, ToolRecord, ToolNames, PCs
<1>2. Legal(S \cup Idle.made)
  <2>1. S \cup Idle.made = S
    BY DEF Idle
  <2> QED BY <2>1
<1> QED BY <1>1, <1>2 DEF ToolOK, Idle

\* What is committed meanwhile does not disturb a tool.
LEMMA ToolGrows ==
    ASSUME NEW t, NEW S, NEW S2, ToolOK(t, S), S \subseteq S2, Legal(S2)
    PROVE  ToolOK(t, S2)
<1>1. Legal(S2 \cup t.made)
  <2>1. Legal(S2 \cup (S \cup t.made))
    BY LegalUnion DEF ToolOK
  <2>2. S2 \cup (S \cup t.made) = S2 \cup t.made
    OBVIOUS
  <2> QED BY <2>1, <2>2
<1>2. /\ t \in ToolRecord
      /\ t.pc \in {"decide", "ddl"} => t.seen \subseteq S2 \cup t.made
      /\ t.name # "init" /\ t.pc \in {"tables", "snapshot", "decide", "ddl"} => t.made = {}
      /\ t.pc = "next" => t.name = "init"
  BY DEF ToolOK
<1>3. t.pc = "ddl" =>
          /\ Legal(t.goal) /\ "latency" \in t.goal
          /\ {"hash", "hash_index"} \cap (t.goal \ t.seen) # {} =>
                t.name = "hash" /\ "network" \notin t.goal
          /\ t.name = "hash" => hash \subseteq t.goal \ t.seen /\ "network" \notin t.goal
  BY DEF ToolOK
<1>4. /\ t.pc \in {"backfill", "verify"} <=> "hash" \in t.made /\ "hash_index" \notin t.made
      /\ "hash_index" \in t.made => "hash" \in t.made /\ t.rows = Rows
      /\ "participants" \in t.made => t.rows = Rows
  BY DEF ToolOK
<1>5. t.pc = "sql" =>
          /\ t.last \in 1..4
          /\ t.last >= 2 => PRE_CATALOG \subseteq S2
          /\ t.last >= 3 => catalog \subseteq S2
          /\ t.last >= 4 => calls \subseteq S2
  BY DEF ToolOK
<1> QED BY <1>1, <1>2, <1>3, <1>4, <1>5 DEF ToolOK

\* A step of one tool that may commit.
LEMMA ToolSteps ==
    ASSUME SchemaInv, NEW w \in Terminals, NEW r, Set(w, r), ToolOK(r, schema'),
           schema \subseteq schema', Legal(schema'), Indexed(schema'),
           hash \subseteq schema' => hashed' = Rows,
           participants \subseteq schema' => parties' = Rows
    PROVE  SchemaInv'
<1>1. /\ tool' = [tool EXCEPT ![w] = r] /\ tool = [v \in Terminals |-> tool[v]]
      /\ \A v \in Terminals : ToolOK(tool[v], schema)
  BY DEF SchemaInv, Set
<1>2. tool' = [v \in Terminals |-> tool'[v]]
  BY <1>1
<1>3. \A v \in Terminals : tool'[v] = IF v = w THEN r ELSE tool[v]
  BY <1>1
<1>4. \A v \in Terminals : ToolOK(tool[v], schema')
  BY <1>1, ToolGrows
<1>5. \A v \in Terminals : ToolOK(tool'[v], schema')
  BY <1>3, <1>4
<1> QED BY <1>2, <1>5 DEF SchemaInv, ToolOK, Legal, Indexed

\* A step of one tool that commits nothing.
LEMMA ToolPlans ==
    ASSUME SchemaInv, NEW w \in Terminals, NEW r, Set(w, r), ToolOK(r, schema),
           UNCHANGED <<schema, hashed, parties>>
    PROVE  SchemaInv'
<1>1. /\ Legal(schema) /\ Indexed(schema) /\ (hash \subseteq schema => hashed = Rows)
      /\ (participants \subseteq schema => parties = Rows)
  BY DEF SchemaInv
<1>2. ToolOK(r, schema') /\ Legal(schema') /\ Indexed(schema')
  BY <1>1
<1> QED BY <1>1, <1>2, ToolSteps

\* A tool ends without a commit.
LEMMA StopInv ==
    ASSUME SchemaInv, NEW w \in Terminals, Stop(w), UNCHANGED <<schema, hashed, parties>>
    PROVE  SchemaInv'
<1>1. ToolOK(Idle, schema)
  BY IdleOK DEF SchemaInv
<1> QED BY <1>1, ToolPlans DEF Stop

\* What is known of a running tool.
LEMMA ToolOf ==
    ASSUME SchemaInv, NEW w \in Terminals, NEW t, t = tool[w]
    PROVE  ToolOK(t, schema) /\ t \in ToolRecord /\ View(w) = schema \cup t.made /\ Legal(View(w))
  BY DEF SchemaInv, ToolOK, View

\* A tool starts.
LEMMA StartInv ==
    ASSUME SchemaInv, NEW w \in Terminals, NEW name \in Tools, Start(w, name)
    PROVE  SchemaInv'
<1>1. PICK r : r = [Idle EXCEPT !.name = name, !.pc = "tables"]
  OBVIOUS
<1>2. Idle \in ToolRecord /\ Idle.made = {} /\ ToolOK(Idle, schema)
  BY IdleOK DEF SchemaInv, ToolOK, Idle
<1>3. r \in ToolRecord /\ r.made = {} /\ r.pc = "tables"
  BY <1>1, <1>2 DEF ToolRecord, ToolNames, PCs
<1>4. Legal(schema \cup r.made)
  BY <1>2, <1>3 DEF ToolOK
<1>5. ToolOK(r, schema)
  BY <1>3, <1>4 DEF ToolOK
<1>6. Set(w, r) /\ UNCHANGED <<schema, hashed, parties>>
  BY <1>1 DEF Start
<1> QED BY <1>5, <1>6, ToolPlans

\* It reads the list of tables.
LEMMA ReadTablesInv ==
    ASSUME SchemaInv, NEW w \in Terminals, ReadTables(w)
    PROVE  SchemaInv'
<1>1. PICK t : t = tool[w]
  OBVIOUS
<1>2. ToolOK(t, schema) /\ t \in ToolRecord /\ t.pc = "tables" /\ Legal(schema)
  BY <1>1, ToolOf DEF ReadTables, SchemaInv
<1>3. PICK T : T = Tables(schema) /\ T \in SUBSET FINAL
  BY <1>2 DEF Tables, Legal
<1>4. PICK r : r = [t EXCEPT !.tables = T, !.pc = "snapshot"]
  OBVIOUS
<1>5. r \in ToolRecord /\ r.pc = "snapshot" /\ r.made = t.made /\ r.name = t.name /\ r.rows = t.rows
  BY <1>2, <1>3, <1>4 DEF ToolRecord, PCs
<1>6. ToolOK(r, schema)
  BY <1>2, <1>5 DEF ToolOK
<1>7. Set(w, r) /\ UNCHANGED <<schema, hashed, parties>>
  BY <1>1, <1>3, <1>4 DEF ReadTables
<1> QED BY <1>6, <1>7, ToolPlans

\* It reads the catalog.
LEMMA FetchSnapshotInv ==
    ASSUME SchemaInv, NEW w \in Terminals, FetchSnapshot(w)
    PROVE  SchemaInv'
<1>1. PICK t : t = tool[w]
  OBVIOUS
<1>2. ToolOK(t, schema) /\ t \in ToolRecord /\ t.pc = "snapshot"
  BY <1>1, ToolOf DEF FetchSnapshot
<1>3. PICK V : V = View(w) /\ V = schema \cup t.made /\ V \in SUBSET FINAL
  BY <1>1, ToolOf DEF Legal
<1>4. PICK r : r = [t EXCEPT !.seen = V, !.pc = "decide"]
  OBVIOUS
<1>5. /\ r \in ToolRecord /\ r.pc = "decide" /\ r.made = t.made /\ r.name = t.name /\ r.rows = t.rows
      /\ r.seen = V
  BY <1>2, <1>3, <1>4 DEF ToolRecord, PCs
<1>6. ToolOK(r, schema)
  BY <1>2, <1>3, <1>5 DEF ToolOK
<1>7. Set(w, r) /\ UNCHANGED <<schema, hashed, parties>>
  BY <1>1, <1>3, <1>4 DEF FetchSnapshot
<1> QED BY <1>6, <1>7, ToolPlans

\* A legal goal is planned from the stage that was seen.
LEMMA PlanInv ==
    ASSUME SchemaInv, NEW w \in Terminals, tool[w].pc = "decide", NEW g, Plan(w, g),
           Legal(g), "latency" \in g,
           {"hash", "hash_index"} \cap (g \ tool[w].seen) # {} =>
              tool[w].name = "hash" /\ "network" \notin g,
           tool[w].name = "hash" => hash \subseteq g \ tool[w].seen /\ "network" \notin g,
           UNCHANGED <<schema, hashed, parties>>
    PROVE  SchemaInv'
<1>1. PICK t : t = tool[w]
  OBVIOUS
<1>2. ToolOK(t, schema) /\ t \in ToolRecord /\ t.pc = "decide" /\ g \in SUBSET FINAL
  BY <1>1, ToolOf DEF Legal
<1>3. PICK r : r = [t EXCEPT !.pc = "ddl", !.goal = g]
  OBVIOUS
<1>4. /\ r \in ToolRecord /\ r.pc = "ddl" /\ r.made = t.made /\ r.name = t.name /\ r.rows = t.rows
      /\ r.seen = t.seen /\ r.goal = g
  BY <1>2, <1>3 DEF ToolRecord, PCs
<1>5. ToolOK(r, schema)
  BY <1>1, <1>2, <1>4 DEF ToolOK
<1>6. Set(w, r)
  BY <1>1, <1>3 DEF Plan
<1> QED BY <1>5, <1>6, ToolPlans

-----------------------------------------------------------------------------
(* The decisions                                                           *)

\* Which parts the stages have of latency, hashes and the network tables.
LEMMA StageParts ==
    /\ \A X \in {BASE_LEGACY, VALOPERS_ONLY, HASH_ONLY, PRE_NETWORK} :
          "latency" \in X /\ "network" \notin X
    /\ \A X \in {BASE_LEGACY, VALOPERS_ONLY} : hash \cap X = {}
    /\ \A X \in {HASH_ONLY, PRE_NETWORK, PRE_GOVERNANCE, PRE_PARTICIPANT, PRE_RESULT, PRE_CATALOG,
                 PRE_CALLS, PRE_METADATA, FINAL, FINAL \ latency} : hash \subseteq X
    /\ \A X \in {PRE_GOVERNANCE, PRE_PARTICIPANT, PRE_RESULT, PRE_CATALOG, PRE_CALLS, PRE_METADATA,
                 FINAL} : "latency" \in X
    /\ hash = {"hash", "hash_index"}
  BY FinalParts
     DEF PartNames, PRE_METADATA, PRE_CALLS, PRE_CATALOG, PRE_RESULT, PRE_PARTICIPANT,
         PRE_GOVERNANCE, PRE_NETWORK, VALOPERS_ONLY, HASH_ONLY, BASE_LEGACY, base, latency, valopers,
         hash, network, governance, participants, results, catalog, calls, metadata

\* The tools other than the hash tool plan no hash column.
LEMMA ExplicitInv ==
    ASSUME SchemaInv, NEW w \in Terminals,
           migrate_valopers(w) \/ migrate_network(w) \/ migrate_governance(w) \/ migrate_latency(w)
    PROVE  SchemaInv'
<1>1. UNCHANGED <<schema, hashed, parties>> /\ tool[w].pc = "decide" /\ tool[w].name # "hash"
  BY DEF migrate_valopers, migrate_network, migrate_governance, migrate_latency, Deciding
<1>2. CASE Stop(w)
  BY <1>1, <1>2, StopInv
<1>3. ASSUME NEW g, Plan(w, g), Legal(g), "latency" \in g, hash \cap (g \ tool[w].seen) = {}
      PROVE  SchemaInv'
  BY <1>1, <1>3, StageParts, PlanInv
<1>4. CASE tool[w].seen = BASE_LEGACY /\ Plan(w, VALOPERS_ONLY)
  BY <1>3, <1>4, StageParts, StagesLegal
<1>5. CASE tool[w].seen = HASH_ONLY /\ Plan(w, PRE_NETWORK)
  BY <1>3, <1>5, StageParts, StagesLegal
<1>6. CASE tool[w].seen = PRE_NETWORK /\ Plan(w, PRE_GOVERNANCE)
  BY <1>3, <1>6, StageParts, StagesLegal
<1>7. CASE tool[w].seen = PRE_GOVERNANCE /\ Plan(w, PRE_PARTICIPANT)
  BY <1>3, <1>7, StageParts, StagesLegal
<1>8. CASE tool[w].seen \in {FINAL \ latency, FINAL} /\ Plan(w, FINAL)
  BY <1>3, <1>8, StageParts, StagesLegal
<1>9. CASE migrate_valopers(w)
  BY <1>2, <1>4, <1>5, <1>9 DEF migrate_valopers, Exact
<1>10. CASE migrate_network(w)
  BY <1>2, <1>6, <1>10 DEF migrate_network, Exact
<1>11. CASE migrate_governance(w)
  BY <1>2, <1>7, <1>11 DEF migrate_governance, Exact
<1>12. CASE migrate_latency(w)
  BY <1>2, <1>8, <1>12 DEF migrate_latency, Exact
<1> QED BY <1>9, <1>10, <1>11, <1>12

\* The hash tool plans it from a stage without one.
LEMMA HashToolInv ==
    ASSUME SchemaInv, NEW w \in Terminals, migrate_transaction_hashes(w)
    PROVE  SchemaInv'
<1>1. UNCHANGED <<schema, hashed, parties>> /\ tool[w].pc = "decide" /\ tool[w].name = "hash"
  BY DEF migrate_transaction_hashes, Deciding
<1>2. CASE Stop(w)
  BY <1>1, <1>2, StopInv
<1>3. CASE tool[w].seen = BASE_LEGACY /\ Plan(w, HASH_ONLY)
  <2>1. Legal(HASH_ONLY) /\ "latency" \in HASH_ONLY /\ "network" \notin HASH_ONLY
    BY StageParts, StagesLegal
  <2>2. hash \subseteq HASH_ONLY \ tool[w].seen
    BY <1>3, StageParts
  <2> QED BY <1>1, <1>3, <2>1, <2>2, PlanInv
<1>4. CASE tool[w].seen = VALOPERS_ONLY /\ Plan(w, PRE_NETWORK)
  <2>1. Legal(PRE_NETWORK) /\ "latency" \in PRE_NETWORK /\ "network" \notin PRE_NETWORK
    BY StageParts, StagesLegal
  <2>2. hash \subseteq PRE_NETWORK \ tool[w].seen
    BY <1>4, StageParts
  <2> QED BY <1>1, <1>4, <2>1, <2>2, PlanInv
<1> QED BY <1>2, <1>3, <1>4 DEF migrate_transaction_hashes, Exact

\* The links of init_database.py's chain lead from stage to stage.
LEMMA ChainStages ==
    ASSUME NEW k \in DOMAIN Chain
    PROVE  /\ Legal(Chain[k].from \cup Chain[k].adds)
           /\ "latency" \in Chain[k].from /\ hash \subseteq Chain[k].from
<1>1. DOMAIN Chain = 1..5
  BY DEF Chain
<1>2. CASE k = 1
  <2>1. Chain[k].from = PRE_PARTICIPANT /\ Chain[k].from \cup Chain[k].adds = PRE_RESULT
    BY <1>2 DEF Chain, Link, PRE_RESULT
  <2> QED BY <2>1, StagesLegal, StageParts
<1>3. CASE k = 2
  <2>1. Chain[k].from = PRE_RESULT /\ Chain[k].from \cup Chain[k].adds = PRE_CATALOG
    BY <1>3 DEF Chain, Link, PRE_CATALOG
  <2> QED BY <2>1, StagesLegal, StageParts
<1>4. CASE k = 3
  <2>1. Chain[k].from = PRE_CATALOG /\ Chain[k].from \cup Chain[k].adds = PRE_CALLS
    BY <1>4 DEF Chain, Link, PRE_CALLS
  <2> QED BY <2>1, StagesLegal, StageParts
<1>5. CASE k = 4
  <2>1. Chain[k].from = PRE_CALLS /\ Chain[k].from \cup Chain[k].adds = PRE_METADATA
    BY <1>5 DEF Chain, Link, PRE_METADATA
  <2> QED BY <2>1, StagesLegal, StageParts
<1>6. CASE k = 5
  <2>1. Chain[k].from = PRE_METADATA /\ Chain[k].from \cup Chain[k].adds = FINAL
    BY <1>6 DEF Chain, Link, FINAL
  <2> QED BY <2>1, StagesLegal, StageParts
<1> QED BY <1>1, <1>2, <1>3, <1>4, <1>5, <1>6

\* A tool is ready to commit.
LEMMA ReadyInv ==
    ASSUME SchemaInv, NEW w \in Terminals, tool[w].pc \in {"decide", "validate"},
           Set(w, [tool[w] EXCEPT !.pc = "commit"]), UNCHANGED <<schema, hashed, parties>>
    PROVE  SchemaInv'
<1>1. PICK t : t = tool[w]
  OBVIOUS
<1>2. ToolOK(t, schema) /\ t \in ToolRecord /\ t.pc \in {"decide", "validate"}
  BY <1>1, ToolOf
<1>3. PICK r : r = [t EXCEPT !.pc = "commit"]
  OBVIOUS
<1>4. r \in ToolRecord /\ r.pc = "commit" /\ r.made = t.made /\ r.rows = t.rows
  BY <1>2, <1>3 DEF ToolRecord, PCs
<1>5. ToolOK(r, schema)
  BY <1>2, <1>4 DEF ToolOK
<1>6. Set(w, r)
  BY <1>1, <1>3
<1> QED BY <1>5, <1>6, ToolPlans

\* init_database.py on an empty database.
LEMMA InitEmptyInv ==
    ASSUME SchemaInv, NEW w \in Terminals, InitEmpty(w)
    PROVE  SchemaInv'
<1>1. PICK t : t = tool[w]
  OBVIOUS
<1>2. ToolOK(t, schema) /\ t \in ToolRecord /\ t.pc = "decide"
  BY <1>1, ToolOf DEF InitEmpty, Deciding
<1>3. PICK r : r = [t EXCEPT !.pc = "sql", !.last = 1]
  OBVIOUS
<1>4. r \in ToolRecord /\ r.pc = "sql" /\ r.made = t.made /\ r.rows = t.rows /\ r.last = 1
  BY <1>2, <1>3 DEF ToolRecord, PCs
<1>5. ToolOK(r, schema)
  BY <1>2, <1>4 DEF ToolOK
<1>6. Set(w, r) /\ UNCHANGED <<schema, hashed, parties>>
  BY <1>1, <1>3 DEF InitEmpty
<1> QED BY <1>5, <1>6, ToolPlans

\* init_database.py on a stage it knows.
LEMMA InitChainInv ==
    ASSUME SchemaInv, NEW w \in Terminals, InitChain(w)
    PROVE  SchemaInv'
<1>1. UNCHANGED <<schema, hashed, parties>> /\ tool[w].pc = "decide" /\ tool[w].name = "init"
  BY DEF InitChain, Deciding
<1>2. CASE Stop(w)
  BY <1>1, <1>2, StopInv
<1>3. CASE Set(w, [tool[w] EXCEPT !.pc = "commit"])
  BY <1>1, <1>3, ReadyInv
<1>4. ASSUME NEW k \in DOMAIN Chain, tool[w].seen = Chain[k].from,
             Plan(w, Chain[k].from \cup Chain[k].adds)
      PROVE  SchemaInv'
  <2>1. PICK g : g = Chain[k].from \cup Chain[k].adds
    OBVIOUS
  <2>2. Legal(g) /\ "latency" \in g /\ hash \cap (g \ tool[w].seen) = {}
    BY <1>4, <2>1, ChainStages
  <2>3. {"hash", "hash_index"} \cap (g \ tool[w].seen) = {}
    BY <2>2, StageParts
  <2> QED BY <1>1, <1>4, <2>1, <2>2, <2>3, PlanInv
<1>5. CASE Links(w) # {}
  <2>1. PICK k : k = CHOOSE j \in Links(w) : TRUE
    OBVIOUS
  <2>2. k \in Links(w)
    BY <1>5, <2>1
  <2>3. k \in DOMAIN Chain
    BY <2>2 DEF Links
  <2>4. \/ Stop(w)
        \/ tool[w].seen = Chain[k].from /\ Plan(w, Chain[k].from \cup Chain[k].adds)
    BY <1>5, <2>1 DEF InitChain, Exact
  <2> QED BY <1>2, <1>4, <2>3, <2>4
<1>6. CASE Links(w) = {}
  BY <1>2, <1>3, <1>6 DEF InitChain
<1> QED BY <1>5, <1>6

-----------------------------------------------------------------------------
(* DDL, backfill and commits                                               *)

\* The index is the last part of the hash migration.
LEMMA LegalIndex ==
    /\ \A G : Legal(G) /\ "network" \notin G /\ "latency" \in G => Legal(G \ {"hash_index"})
    /\ \A V : Legal(V) /\ "hash" \in V => Legal(V \cup {"hash_index"})
<1>1. "hash_index" \in FINAL
  BY FinalParts DEF PartNames
<1> QED BY <1>1 DEF Legal

\* A migration's DDL adds the planned parts that are not there yet.
LEMMA DdlInv ==
    ASSUME SchemaInv, NEW w \in Terminals, ApplyDdl(w)
    PROVE  SchemaInv'
<1>1. UNCHANGED <<schema, hashed, parties>>
  BY DEF ApplyDdl
<1>2. CASE Stop(w)
  BY <1>1, <1>2, StopInv
<1>3. CASE ~Stop(w)
  <2>1. PICK t, A, D : t = tool[w] /\ A = t.goal \ t.seen /\ D = A \ {"hash_index"}
    OBVIOUS
  <2>2. ToolOK(t, schema) /\ t \in ToolRecord /\ t.pc = "ddl"
    BY <2>1, ToolOf DEF ApplyDdl
  <2>3. A = Adds(w) /\ D = DdlOf(w)
    BY <2>1 DEF Adds, DdlOf
  <2>4. PICK m, R, pc :
           /\ m = t.made \cup (D \ schema)
           /\ R = IF participants \subseteq A THEN Rows ELSE t.rows
           /\ pc = CASE t.name = "hash" -> "backfill" [] t.name = "init" -> "next" [] OTHER -> "validate"
    OBVIOUS
  <2>5. PICK r : r = [t EXCEPT !.made = m, !.rows = R, !.pc = pc]
    OBVIOUS
  <2>6. Set(w, r) /\ (D \cap schema # {} => Tolerant(D))
    BY <1>3, <2>1, <2>3, <2>4, <2>5 DEF ApplyDdl, Collides
  <2>7. /\ Legal(schema \cup t.made) /\ t.seen \subseteq schema \cup t.made
        /\ t.name = "hash" => t.made = {}
        /\ Legal(t.goal) /\ "latency" \in t.goal
        /\ {"hash", "hash_index"} \cap A # {} => t.name = "hash" /\ "network" \notin t.goal
        /\ t.name = "hash" => hash \subseteq A
    BY <2>1, <2>2 DEF ToolOK
  <2>8. /\ ~("hash" \in t.made /\ "hash_index" \notin t.made)
        /\ "hash_index" \in t.made => "hash" \in t.made /\ t.rows = Rows
        /\ "participants" \in t.made => t.rows = Rows
    BY <2>2 DEF ToolOK
  <2>9. D \subseteq FINAL /\ schema \subseteq FINAL /\ m \in SUBSET FINAL /\ R \in SUBSET Rows
    BY <2>1, <2>2, <2>4, <2>7 DEF Legal, ToolRecord
  <2>10. pc \in PCs /\ pc \in {"backfill", "next", "validate"}
    BY <2>4 DEF PCs
  <2>11. /\ r \in ToolRecord /\ r.made = m /\ r.rows = R /\ r.pc = pc /\ r.name = t.name
    BY <2>2, <2>5, <2>9, <2>10 DEF ToolRecord
  <2>12. Legal(schema \cup m)
    <3>1. schema \cup m = (schema \cup t.made) \cup D
      BY <2>4
    <3>2. CASE "hash_index" \notin A
      <4>1. schema \cup m = (schema \cup t.made) \cup t.goal
        BY <2>1, <2>7, <3>1, <3>2
      <4> QED BY <2>7, <4>1, LegalUnion
    <3>3. CASE "hash_index" \in A
      <4>1. schema \cup m = (schema \cup t.made) \cup (t.goal \ {"hash_index"})
        BY <2>1, <2>7, <3>1, <3>3
      <4>2. Legal(t.goal \ {"hash_index"})
        BY <2>7, <3>3, LegalIndex
      <4> QED BY <2>7, <4>1, <4>2, LegalUnion
    <3> QED BY <3>2, <3>3
  <2>13. pc \in {"backfill", "verify"} <=> "hash" \in m /\ "hash_index" \notin m
    <3>1. CASE t.name = "hash"
      <4>1. "hash" \in D /\ "hash_index" \notin D
        BY <2>1, <2>7, <3>1 DEF hash
      <4>2. ~Tolerant(D)
        BY <4>1 DEF Tolerant, latency, participants
      <4>3. "hash" \notin schema
        BY <2>6, <4>1, <4>2
      <4> QED BY <2>4, <2>7, <3>1, <4>1, <4>3
    <3>2. CASE t.name # "hash"
      <4>1. "hash" \notin D /\ "hash_index" \notin D
        BY <2>1, <2>7, <3>2
      <4>2. pc \in {"next", "validate"}
        BY <2>4, <3>2
      <4> QED BY <2>4, <2>8, <4>1, <4>2
    <3> QED BY <3>1, <3>2
  <2>14. /\ "hash_index" \in m => "hash" \in m /\ R = Rows
         /\ "participants" \in m => R = Rows
    BY <2>1, <2>4, <2>8 DEF participants
  <2>15. pc = "next" => t.name = "init"
    BY <2>4
  <2>16. ToolOK(r, schema)
    BY <2>10, <2>11, <2>12, <2>13, <2>14, <2>15 DEF ToolOK
  <2> QED BY <1>1, <2>6, <2>16, ToolPlans
<1> QED BY <1>2, <1>3

\* The chain goes on.
LEMMA NextLinkInv ==
    ASSUME SchemaInv, NEW w \in Terminals, NextLink(w)
    PROVE  SchemaInv'
<1>1. UNCHANGED <<schema, hashed, parties>>
  BY DEF NextLink
<1>2. CASE Stop(w)
  BY <1>1, <1>2, StopInv
<1>3. CASE ~Stop(w)
  <2>1. PICK t, V, T : t = tool[w] /\ V = View(w) /\ T = Tables(V)
    OBVIOUS
  <2>2. ToolOK(t, schema) /\ t \in ToolRecord /\ t.pc = "next" /\ V = schema \cup t.made /\ Legal(V)
    BY <2>1, ToolOf DEF NextLink
  <2>3. PICK r : r = [t EXCEPT !.seen = V, !.tables = T, !.pc = "decide"]
    OBVIOUS
  <2>4. Set(w, r)
    BY <1>3, <2>1, <2>3 DEF NextLink
  <2>5. V \in SUBSET FINAL /\ T \in SUBSET FINAL
    BY <2>1, <2>2 DEF Legal, Tables
  <2>6. /\ r \in ToolRecord /\ r.pc = "decide" /\ r.made = t.made /\ r.rows = t.rows /\ r.seen = V
        /\ r.name = t.name
    BY <2>2, <2>3, <2>5 DEF ToolRecord, PCs
  <2>7. ToolOK(r, schema)
    BY <2>2, <2>6 DEF ToolOK
  <2> QED BY <1>1, <2>4, <2>7, ToolPlans
<1> QED BY <1>2, <1>3

\* The hash tool fills a batch of rows.
LEMMA BackfillInv ==
    ASSUME SchemaInv, NEW w \in Terminals, Backfill(w)
    PROVE  SchemaInv'
<1>1. UNCHANGED <<schema, hashed, parties>>
  BY DEF Backfill
<1>2. PICK t, B : t = tool[w] /\ B = Batch(w)
  OBVIOUS
<1>3. ToolOK(t, schema) /\ t \in ToolRecord /\ t.pc = "backfill"
  BY <1>2, ToolOf DEF Backfill
<1>4. CASE B = {}
  <2>1. PICK r : r = [t EXCEPT !.pc = "verify"]
    OBVIOUS
  <2>2. Set(w, r)
    BY <1>2, <1>4, <2>1 DEF Backfill
  <2>3. r \in ToolRecord /\ r.pc = "verify" /\ r.made = t.made /\ r.rows = t.rows
    BY <1>3, <2>1 DEF ToolRecord, PCs
  <2>4. ToolOK(r, schema)
    BY <1>3, <2>3 DEF ToolOK
  <2> QED BY <1>1, <2>2, <2>4, ToolPlans
<1>5. CASE B # {}
  <2>1. PICK l, R : l = (CHOOSE i \in B : \A j \in B : j <= i) /\ R = t.rows \cup B
    OBVIOUS
  <2>2. PICK r : r = [t EXCEPT !.rows = R, !.last = l]
    OBVIOUS
  <2>3. Set(w, r)
    BY <1>2, <1>5, <2>1, <2>2 DEF Backfill
  <2>4. B \subseteq Rows
    BY <1>2 DEF Batch
  <2>5. B \subseteq Nat /\ IsFiniteSet(B)
    BY <2>4, SchemaAssumption, FS_Subset
  <2>6. \E i \in B : \A j \in B : j <= i
    BY <1>5, <2>5, GreatestNat
  <2>7. l \in B
    BY <2>1, <2>6, Zenon
  <2>8. l \in Nat /\ R \in SUBSET Rows /\ (t.rows = Rows => R = Rows)
    BY <1>3, <2>1, <2>4, <2>5, <2>7 DEF ToolRecord
  <2>9. r \in ToolRecord /\ r.pc = t.pc /\ r.made = t.made /\ r.rows = R
    BY <1>3, <2>2, <2>8 DEF ToolRecord
  <2>10. ToolOK(r, schema)
    BY <1>3, <2>8, <2>9 DEF ToolOK
  <2> QED BY <1>1, <2>3, <2>10, ToolPlans
<1> QED BY <1>4, <1>5

\* All rows are there before the index is.
LEMMA VerifyInv ==
    ASSUME SchemaInv, NEW w \in Terminals, VerifyHashes(w)
    PROVE  SchemaInv'
<1>1. UNCHANGED <<schema, hashed, parties>>
  BY DEF VerifyHashes
<1>2. CASE Stop(w)
  BY <1>1, <1>2, StopInv
<1>3. CASE ~Stop(w)
  <2>1. PICK t, m : t = tool[w] /\ m = t.made \cup {"hash_index"}
    OBVIOUS
  <2>2. ToolOK(t, schema) /\ t \in ToolRecord /\ t.pc = "verify" /\ t.rows = Rows
    BY <1>3, <2>1, ToolOf DEF VerifyHashes
  <2>3. PICK r : r = [t EXCEPT !.made = m, !.pc = "validate"]
    OBVIOUS
  <2>4. Set(w, r)
    BY <1>3, <2>1, <2>3 DEF VerifyHashes
  <2>5. "hash" \in t.made /\ Legal(schema \cup t.made)
    BY <2>2 DEF ToolOK
  <2>6. Legal(schema \cup m)
    <3>1. Legal((schema \cup t.made) \cup {"hash_index"})
      BY <2>5, LegalIndex
    <3>2. schema \cup m = (schema \cup t.made) \cup {"hash_index"}
      BY <2>1
    <3> QED BY <3>1, <3>2
  <2>7. m \in SUBSET FINAL
    BY <2>6 DEF Legal
  <2>8. r \in ToolRecord /\ r.pc = "validate" /\ r.made = m /\ r.rows = Rows
    BY <2>2, <2>3, <2>7 DEF ToolRecord, PCs
  <2>9. ToolOK(r, schema)
    BY <2>1, <2>5, <2>6, <2>8 DEF ToolOK
  <2> QED BY <1>1, <2>4, <2>9, ToolPlans
<1> QED BY <1>2, <1>3

\* A migration commits.
LEMMA CommitInv ==
    ASSUME SchemaInv, NEW w \in Terminals, Commit(w)
    PROVE  SchemaInv'
<1>1. PICK t : t = tool[w]
  OBVIOUS
<1>2. ToolOK(t, schema) /\ t.pc = "commit"
  BY <1>1, ToolOf DEF Commit
<1>3. /\ schema' = schema \cup t.made /\ Stop(w)
      /\ hashed' = IF hash \subseteq t.made THEN t.rows ELSE hashed
      /\ parties' = IF participants \subseteq t.made THEN t.rows ELSE parties
  BY <1>1 DEF Commit
<1>4. /\ Legal(schema') /\ ("hash" \in t.made <=> "hash_index" \in t.made)
      /\ "hash_index" \in t.made => t.rows = Rows
      /\ "participants" \in t.made => t.rows = Rows
  BY <1>2, <1>3 DEF ToolOK
<1>5. /\ "hash" \in schema <=> "hash_index" \in schema
      /\ hash \subseteq schema => hashed = Rows
      /\ participants \subseteq schema => parties = Rows
  BY DEF SchemaInv, Indexed
<1>6. Indexed(schema')
  BY <1>3, <1>4, <1>5 DEF Indexed
<1>7. hash \subseteq schema' => hashed' = Rows
  BY <1>3, <1>4, <1>5 DEF hash
<1>8. participants \subseteq schema' => parties' = Rows
  BY <1>3, <1>4, <1>5 DEF participants
<1>9. Set(w, Idle) /\ ToolOK(Idle, schema')
  BY <1>3, <1>4, IdleOK DEF Stop
<1> QED BY <1>3, <1>4, <1>6, <1>7, <1>8, <1>9, ToolSteps

\* What schema.sql has committed after each of its parts is a stage.
LEMMA ScriptStages ==
    /\ Len(schema_sql) = 4 /\ schema_sql[1] = PRE_CATALOG /\ schema_sql[2] = catalog
    /\ schema_sql[3] = calls /\ schema_sql[4] = metadata
    /\ PRE_CATALOG \cup catalog = PRE_CALLS /\ PRE_CALLS \cup calls = PRE_METADATA
    /\ PRE_METADATA \cup metadata = FINAL
    /\ hash \subseteq PRE_CATALOG /\ participants \subseteq PRE_CATALOG
    /\ \A X \in {catalog, calls, metadata} : hash \cap X = {} /\ participants \cap X = {}
<1>1. /\ Len(schema_sql) = 4 /\ schema_sql[1] = PRE_CATALOG /\ schema_sql[2] = catalog
      /\ schema_sql[3] = calls /\ schema_sql[4] = metadata
  BY DEF schema_sql
<1>2. /\ PRE_CATALOG \cup catalog = PRE_CALLS /\ PRE_CALLS \cup calls = PRE_METADATA
      /\ PRE_METADATA \cup metadata = FINAL
  BY DEF PRE_CALLS, PRE_METADATA, FINAL
<1>3. participants \subseteq PRE_CATALOG
  BY DEF PRE_CATALOG, PRE_RESULT
<1>4. \A X \in {catalog, calls, metadata} : hash \cap X = {} /\ participants \cap X = {}
  BY DEF hash, participants, catalog, calls, metadata
<1> QED BY <1>1, <1>2, <1>3, <1>4, StageParts

\* One transaction of schema.sql.
LEMMA SchemaSqlInv ==
    ASSUME SchemaInv, NEW w \in Terminals, SchemaSql(w)
    PROVE  SchemaInv'
<1>1. PICK t, n, A : t = tool[w] /\ n = t.last /\ A = schema_sql[n]
  OBVIOUS
<1>2. ToolOK(t, schema) /\ t \in ToolRecord /\ t.pc = "sql"
  BY <1>1, ToolOf DEF SchemaSql
<1>3. CASE Collides(A)
  BY <1>1, <1>3, StopInv DEF SchemaSql
<1>4. CASE ~Collides(A)
  <2>1. /\ schema' = schema \cup A
        /\ hashed' = IF hash \subseteq A THEN Rows ELSE hashed
        /\ parties' = IF participants \subseteq A THEN Rows ELSE parties
        /\ Set(w, IF n = Len(schema_sql) THEN [t EXCEPT !.pc = "validate", !.goal = FINAL]
                                         ELSE [t EXCEPT !.last = @ + 1])
    BY <1>1, <1>4 DEF SchemaSql
  <2>2. /\ n \in {1, 2, 3, 4}
        /\ n \in {2, 3, 4} => PRE_CATALOG \subseteq schema
        /\ n \in {3, 4} => catalog \subseteq schema
        /\ n = 4 => calls \subseteq schema
    BY <1>1, <1>2 DEF ToolOK
  <2>3. /\ Legal(schema) /\ Indexed(schema) /\ (hash \subseteq schema => hashed = Rows)
        /\ (participants \subseteq schema => parties = Rows)
    BY DEF SchemaInv
  <2>4. PICK P : /\ schema \cup A = schema \cup P /\ Legal(P) /\ Indexed(P)
                 /\ n >= 1 => PRE_CATALOG \subseteq P
                 /\ n >= 2 => catalog \subseteq P
                 /\ n >= 3 => calls \subseteq P
    <3>1. CASE n = 1
      <4>1. A = PRE_CATALOG
        BY <1>1, <3>1, ScriptStages
      <4> QED BY <3>1, <4>1, StagesLegal, StagesIndexed DEF Stages
    <3>2. CASE n = 2
      <4>1. schema \cup A = schema \cup PRE_CALLS /\ PRE_CATALOG \subseteq PRE_CALLS /\ catalog \subseteq PRE_CALLS
        BY <1>1, <2>2, <3>2, ScriptStages
      <4> QED BY <3>2, <4>1, StagesLegal, StagesIndexed DEF Stages
    <3>3. CASE n = 3
      <4>1. /\ schema \cup A = schema \cup PRE_METADATA /\ PRE_CATALOG \subseteq PRE_METADATA
            /\ catalog \subseteq PRE_METADATA /\ calls \subseteq PRE_METADATA
        BY <1>1, <2>2, <3>3, ScriptStages
      <4> QED BY <3>3, <4>1, StagesLegal, StagesIndexed DEF Stages
    <3>4. CASE n = 4
      <4>1. /\ schema \cup A = schema \cup FINAL /\ PRE_CATALOG \subseteq FINAL
            /\ catalog \subseteq FINAL /\ calls \subseteq FINAL
        BY <1>1, <2>2, <3>4, ScriptStages
      <4> QED BY <3>4, <4>1, StagesLegal, StagesIndexed DEF Stages
    <3> QED BY <2>2, <3>1, <3>2, <3>3, <3>4
  <2>5. Legal(schema')
    BY <2>1, <2>3, <2>4, LegalUnion
  <2>6. Indexed(schema')
    BY <2>1, <2>3, <2>4 DEF Indexed
  <2>7. A \in {PRE_CATALOG, catalog, calls, metadata}
    BY <1>1, <2>2, ScriptStages
  <2>8. /\ hash \subseteq A \/ hash \cap A = {}
        /\ participants \subseteq A \/ participants \cap A = {}
    BY <2>7, ScriptStages
  <2>9. hash \subseteq schema' => hashed' = Rows
    BY <2>1, <2>3, <2>8
  <2>10. participants \subseteq schema' => parties' = Rows
    BY <2>1, <2>3, <2>8
  <2>11. schema \subseteq schema' /\ ToolOK(t, schema')
    BY <1>2, <2>1, <2>5, ToolGrows
  <2>12. CASE n = 4
    <3>1. PICK r : r = [t EXCEPT !.pc = "validate", !.goal = FINAL]
      OBVIOUS
    <3>2. Set(w, r)
      BY <2>1, <2>12, <3>1, ScriptStages
    <3>3. r \in ToolRecord /\ r.pc = "validate" /\ r.made = t.made /\ r.rows = t.rows
      BY <1>2, <3>1 DEF ToolRecord, PCs
    <3>4. ToolOK(r, schema')
      BY <1>2, <2>11, <3>3 DEF ToolOK
    <3> QED BY <2>5, <2>6, <2>9, <2>10, <2>11, <3>2, <3>4, ToolSteps
  <2>13. CASE n # 4
    <3>1. PICK r : r = [t EXCEPT !.last = n + 1]
      OBVIOUS
    <3>2. Set(w, r)
      BY <1>1, <2>1, <2>13, <3>1, ScriptStages
    <3>3. r \in ToolRecord /\ r.pc = "sql" /\ r.made = t.made /\ r.rows = t.rows /\ r.last = n + 1
      BY <1>2, <2>2, <3>1 DEF ToolRecord
    <3>4. /\ PRE_CATALOG \subseteq schema' /\ (n >= 2 => catalog \subseteq schema')
          /\ (n >= 3 => calls \subseteq schema') /\ n + 1 \in 1..4
      BY <2>1, <2>2, <2>4, <2>13
    <3>5. ToolOK(r, schema')
      BY <1>2, <2>2, <2>11, <3>3, <3>4 DEF ToolOK
    <3> QED BY <2>5, <2>6, <2>9, <2>10, <2>11, <3>2, <3>5, ToolSteps
  <2> QED BY <2>12, <2>13
<1> QED BY <1>3, <1>4

-----------------------------------------------------------------------------
(* Databases from before the latency column: every tool reads the catalog, *)
(* refuses it and changes nothing.                                         *)

StuckTool(t) ==
    /\ t \in ToolRecord /\ t.made = {}
    /\ t.pc \in {"idle", "tables", "snapshot", "decide"}
    /\ t.pc \in {"snapshot", "decide"} => t.tables = Tables(schema)
    /\ t.pc = "decide" => t.seen = schema

StuckInv ==
    /\ tool = [w \in Terminals |-> tool[w]]
    /\ \A w \in Terminals : StuckTool(tool[w])
    /\ schema \in BeforeLatency
    /\ hash \subseteq schema => hashed = Rows
    /\ participants \subseteq schema => parties = Rows

\* Such a catalog has tables, and no stage is one.
LEMMA OldIsNoStage ==
    ASSUME NEW X \in BeforeLatency
    PROVE  X \subseteq FINAL /\ Tables(X) # {} /\ X # FINAL \ latency /\ X \notin Stages
<1>1. X \subseteq PartNames /\ "base" \in X /\ "latency" \notin X /\ "metadata" \notin X
  BY DEF BeforeLatency, PartNames, PRE_PARTICIPANT, PRE_GOVERNANCE, PRE_NETWORK, VALOPERS_ONLY,
         HASH_ONLY, BASE_LEGACY, base, latency, valopers, hash, network, governance
<1>2. \A Y \in Stages : "latency" \in Y
  BY DEF Stages, FINAL, PRE_METADATA, PRE_CALLS, PRE_CATALOG, PRE_RESULT, PRE_PARTICIPANT,
         PRE_GOVERNANCE, PRE_NETWORK, VALOPERS_ONLY, HASH_ONLY, BASE_LEGACY, latency
<1>3. "metadata" \in FINAL \ latency
  BY FinalParts DEF PartNames, latency
<1>4. "base" \in Tables(X)
  BY <1>1 DEF Tables, latency, hash
<1> QED BY <1>1, <1>2, <1>3, <1>4, FinalParts

\* Every link of the chain starts at a stage.
LEMMA ChainFromStages == \A k \in DOMAIN Chain : Chain[k].from \in Stages
  BY DEF Chain, Link, Stages

LEMMA StuckStep ==
    ASSUME StuckInv, NEW w \in Terminals, NEW r, StuckTool(r), Set(w, r),
           UNCHANGED <<schema, hashed, parties>>
    PROVE  StuckInv'
<1>1. \A v \in Terminals : tool'[v] = IF v = w THEN r ELSE tool[v]
  BY DEF StuckInv, Set
<1>2. tool' = [v \in Terminals |-> tool'[v]]
  BY DEF StuckInv, Set
<1>3. ASSUME NEW v \in Terminals PROVE StuckTool(tool[v])'
  <2>1. StuckTool(tool'[v])
    BY <1>1 DEF StuckInv
  <2> QED BY <2>1 DEF StuckTool
<1> QED BY <1>2, <1>3 DEF StuckInv

LEMMA StuckNext == StuckInv /\ [SchemaNext]_schemaVars => StuckInv'
<1> SUFFICES ASSUME StuckInv, [SchemaNext]_schemaVars PROVE StuckInv'
  OBVIOUS
<1>1. CASE UNCHANGED schemaVars
  BY <1>1 DEF schemaVars, StuckInv, StuckTool
<1>2. StuckTool(Idle)
  BY DEF StuckTool, Idle, ToolRecord, ToolNames, PCs
<1>3. ASSUME NEW w \in Terminals, NEW name \in Tools, Start(w, name) PROVE StuckInv'
  <2>1. PICK r : r = [Idle EXCEPT !.name = name, !.pc = "tables"]
    OBVIOUS
  <2>2. StuckTool(r)
    BY <2>1 DEF StuckTool, Idle, ToolRecord, ToolNames, PCs
  <2> QED BY <1>3, <2>1, <2>2, StuckStep DEF Start
<1>4. ASSUME NEW w \in Terminals, Stop(w), UNCHANGED <<schema, hashed, parties>> PROVE StuckInv'
  BY <1>2, <1>4, StuckStep DEF Stop
<1>5. ASSUME NEW w \in Terminals, Step(w) PROVE StuckInv'
  <2>1. StuckTool(tool[w]) /\ schema \in BeforeLatency /\ schema \subseteq FINAL /\ Tables(schema) # {}
        /\ schema # FINAL \ latency /\ schema \notin Stages
    BY OldIsNoStage DEF StuckInv
  <2>2. CASE ReadTables(w)
    <3>1. PICK r : r = [tool[w] EXCEPT !.tables = Tables(schema), !.pc = "snapshot"]
      OBVIOUS
    <3>2. tool[w] \in ToolRecord /\ Tables(schema) \in SUBSET FINAL /\ tool[w].made = {}
      BY <2>1 DEF StuckTool, Tables
    <3>3. StuckTool(r)
      BY <3>1, <3>2 DEF StuckTool, ToolRecord, PCs
    <3> QED BY <2>2, <3>1, <3>3, StuckStep DEF ReadTables
  <2>3. CASE FetchSnapshot(w)
    <3>1. PICK r : r = [tool[w] EXCEPT !.seen = schema, !.pc = "decide"]
      OBVIOUS
    <3>2. tool[w] \in ToolRecord /\ tool[w].made = {} /\ tool[w].tables = Tables(schema) /\ View(w) = schema
      BY <2>1, <2>3 DEF StuckTool, FetchSnapshot, View
    <3>3. StuckTool(r)
      BY <2>1, <3>1, <3>2 DEF StuckTool, ToolRecord, PCs
    <3> QED BY <2>3, <3>1, <3>2, <3>3, StuckStep DEF FetchSnapshot
  <2>4. CASE InitEmpty(w)
    BY <2>1, <2>4 DEF InitEmpty, Deciding, StuckTool
  <2>5. CASE InitChain(w)
    <3>1. tool[w].seen = schema /\ FINAL \in Stages
      BY <2>1, <2>5 DEF InitChain, Deciding, StuckTool, Stages
    <3>2. CASE Links(w) # {}
      <4>1. PICK k \in Links(w) : k = CHOOSE j \in Links(w) : TRUE
        BY <3>2
      <4>2. Chain[k].from \in Stages
        BY ChainFromStages DEF Links
      <4>3. ~Exact(tool[w].seen, Chain[k].from)
        BY <2>1, <3>1, <4>2 DEF Exact
      <4>4. Stop(w) /\ UNCHANGED <<schema, hashed, parties>>
        BY <2>5, <3>2, <4>1, <4>3 DEF InitChain
      <4> QED BY <1>4, <4>4
    <3>3. CASE Links(w) = {}
      <4>1. Stop(w) /\ UNCHANGED <<schema, hashed, parties>>
        BY <2>1, <2>5, <3>1, <3>3 DEF InitChain, Exact
      <4> QED BY <1>4, <4>1
    <3> QED BY <3>2, <3>3
  <2>6. CASE \/ migrate_valopers(w) \/ migrate_transaction_hashes(w) \/ migrate_network(w)
             \/ migrate_governance(w) \/ migrate_latency(w)
    <3>1. tool[w].seen = schema
      BY <2>1, <2>6 DEF migrate_valopers, migrate_transaction_hashes, migrate_network,
                        migrate_governance, migrate_latency, Deciding, StuckTool
    <3>2. /\ ~Exact(tool[w].seen, BASE_LEGACY) /\ ~Exact(tool[w].seen, HASH_ONLY)
          /\ ~Exact(tool[w].seen, VALOPERS_ONLY) /\ ~Exact(tool[w].seen, PRE_NETWORK)
          /\ ~Exact(tool[w].seen, PRE_GOVERNANCE) /\ ~Exact(tool[w].seen, FINAL)
          /\ ~Exact(tool[w].seen, FINAL \ latency)
      BY <2>1, <3>1 DEF Exact, Stages
    <3>3. Stop(w) /\ UNCHANGED <<schema, hashed, parties>>
      BY <2>6, <3>2 DEF migrate_valopers, migrate_transaction_hashes, migrate_network,
                        migrate_governance, migrate_latency
    <3> QED BY <1>4, <3>3
  <2>7. CASE \/ SchemaSql(w) \/ NextLink(w) \/ ApplyDdl(w) \/ Backfill(w) \/ VerifyHashes(w)
             \/ ValidateTarget(w) \/ Commit(w)
    BY <2>1, <2>7 DEF StuckTool, SchemaSql, NextLink, ApplyDdl, Backfill, VerifyHashes,
                      ValidateTarget, Commit
  <2> QED BY <1>5, <2>2, <2>3, <2>4, <2>5, <2>6, <2>7 DEF Step
<1>6. ASSUME NEW w \in Terminals, Abort(w) PROVE StuckInv'
  BY <1>4, <1>6 DEF Abort
<1> QED BY <1>1, <1>3, <1>5, <1>6 DEF SchemaNext

-----------------------------------------------------------------------------
(* The theorem                                                             *)

\* Every database that the tools are started on.
LEMMA SchemaInitInv == SchemaInit => SchemaInv \/ StuckInv
<1> SUFFICES ASSUME SchemaInit, schema \notin BeforeLatency PROVE SchemaInv
  <2> SUFFICES ASSUME SchemaInit, schema \in BeforeLatency PROVE StuckInv
    OBVIOUS
  <2>1. StuckTool(Idle)
    BY DEF StuckTool, Idle, ToolRecord, ToolNames, PCs
  <2>2. \A w \in Terminals : tool[w] = Idle
    BY DEF SchemaInit
  <2> QED BY <2>1, <2>2 DEF SchemaInit, StuckInv
<1>1. schema \in Stages \cup {{}, FINAL \ latency} /\ tool = [w \in Terminals |-> Idle]
  BY DEF SchemaInit
<1>2. Legal(schema) /\ Indexed(schema)
  BY <1>1, StagesLegal, StagesIndexed DEF Stages
<1>3. \A w \in Terminals : tool[w] = Idle
  BY <1>1
<1>4. tool = [w \in Terminals |-> tool[w]]
  BY <1>1
<1>5. \A w \in Terminals : ToolOK(tool[w], schema)
  BY <1>2, <1>3, IdleOK
<1> QED BY <1>2, <1>4, <1>5 DEF SchemaInit, SchemaInv

\* Every step keeps the invariant.
LEMMA SchemaNextInv == SchemaInv /\ [SchemaNext]_schemaVars => SchemaInv'
<1> SUFFICES ASSUME SchemaInv, [SchemaNext]_schemaVars PROVE SchemaInv'
  OBVIOUS
<1>1. CASE UNCHANGED schemaVars
  BY <1>1 DEF schemaVars, SchemaInv, Legal, Indexed, ToolOK
<1>2. ASSUME NEW w \in Terminals, NEW name \in Tools, Start(w, name) PROVE SchemaInv'
  BY <1>2, StartInv
<1>3. ASSUME NEW w \in Terminals, Step(w) PROVE SchemaInv'
  <2>1. CASE ValidateTarget(w)
    <3>1. tool[w].pc = "validate" /\ UNCHANGED <<schema, hashed, parties>>
      BY <2>1 DEF ValidateTarget
    <3>2. Stop(w) \/ Set(w, [tool[w] EXCEPT !.pc = "commit"])
      BY <2>1 DEF ValidateTarget
    <3> QED BY <3>1, <3>2, StopInv, ReadyInv
  <2> QED BY <1>3, <2>1, ReadTablesInv, FetchSnapshotInv, InitEmptyInv, SchemaSqlInv, InitChainInv,
             NextLinkInv, ExplicitInv, HashToolInv, DdlInv, BackfillInv, VerifyInv, CommitInv
          DEF Step
<1>4. ASSUME NEW w \in Terminals, Abort(w) PROVE SchemaInv'
  BY <1>4, StopInv DEF Abort
<1> QED BY <1>1, <1>2, <1>3, <1>4 DEF SchemaNext

\* Whatever tools run side by side on any number of terminals, and wherever
\* they are killed, also between the commits of schema.sql, the committed
\* schema is an exact stage, and what a migration must fill is filled
\* (init_database.py, migrate_*.py, database/schema.sql).
THEOREM SchemaStaysExact == SchemaSpec => []SchemaExact
<1>1. SchemaInv \/ StuckInv => SchemaExact
  BY LegalIsStage DEF SchemaInv, StuckInv, SchemaExact
<1>2. (SchemaInv \/ StuckInv) /\ [SchemaNext]_schemaVars => (SchemaInv \/ StuckInv)'
  BY SchemaNextInv, StuckNext
<1> QED BY <1>1, <1>2, SchemaInitInv, PTL DEF SchemaSpec

\* A database from before the latency column stays without it whatever tools
\* are run: all of them refuse it.
THEOREM OldDatabasesStay ==
    SchemaSpec => (schema \in BeforeLatency => [](schema \in BeforeLatency))
<1>1. SchemaInit /\ schema \in BeforeLatency => StuckInv
  <2>1. StuckTool(Idle)
    BY DEF StuckTool, Idle, ToolRecord, ToolNames, PCs
  <2>2. SchemaInit => \A w \in Terminals : tool[w] = Idle
    BY DEF SchemaInit
  <2> QED BY <2>1, <2>2 DEF SchemaInit, StuckInv
<1>2. StuckInv => schema \in BeforeLatency
  BY DEF StuckInv
<1> QED BY <1>1, <1>2, StuckNext, PTL DEF SchemaSpec

=============================================================================

------------------------------ MODULE ApiReads ------------------------------
(***************************************************************************)
(* The Gno API's reads of the explorer database (api/database.py) and the  *)
(* checks their handlers make of the rows (api/app.py), while the indexer  *)
(* and the operator's tools commit beside them.  A read is a sequence of   *)
(* statements on one connection: under REPEATABLE READ all of them see the *)
(* database as it was at the first, otherwise each sees what is committed  *)
(* when it runs.  A walk is a client that follows the cursors of a list    *)
(* from its first page to its last.                                        *)
(***************************************************************************)
EXTENDS Integers, Sequences, FiniteSets, FiniteSetsExt, SequencesExt, RowOrder

CONSTANTS
    SetAt,        \* height -> its validators; its length is the last height
    TxAt,         \* height -> number of transactions
    CallsAt,      \* height -> those that call the Realm asked for
    OwnAt,        \* height -> those of the account asked for
    Undecoded,    \* heights whose transactions the decoder may fail to parse
    Validators,
    Window,       \* 1000, or the limit asked for: blocks of a signing history
    Span,         \* 24, 168 or 720 hours, in heights: window of a ranking
    Limit,        \* rows of a page
    Proposals,    \* governance snapshot -> number of proposals; none is 0
    Votes,        \* governance snapshot -> votes of the proposal asked for
    Proposal,     \* its number
    MaxMetadata   \* bound: metadata snapshots published

Heights == DOMAIN SetAt

ASSUME ReadsAssumption ==
    /\ SetAt \in Seq(SUBSET Validators) /\ SetAt # <<>>
    /\ TxAt \in [Heights -> Nat]
    /\ {CallsAt, OwnAt} \subseteq [Heights -> SUBSET Nat]
    /\ \A h \in Heights : CallsAt[h] \cup OwnAt[h] \subseteq 1..TxAt[h]
    /\ Undecoded \subseteq Heights
    /\ {Window, Span, Limit, Proposal} \subseteq Nat \ {0} /\ MaxMetadata \in Nat
    /\ Proposals \in Seq(Nat) /\ Votes \in [DOMAIN Proposals -> Nat]
    /\ \A s \in DOMAIN Proposals : s > 1 => Proposals[s - 1] <= Proposals[s]

VARIABLES
    db,      \* what is committed: heights, those with parsed summaries, those
             \* the catalog has counted, covered range, snapshots
    read,    \* the read under way, or the last one; filled: a height below the
             \* checkpoint was stored while it ran
    walk     \* the walk under way, or the last one; base: the rows that were
             \* there when it began and have not been taken away since

readsVars == <<db, read, walk>>

NoCoverage == [from |-> 0, through |-> 0]
NoSnap == [stored |-> {}, parsed |-> {}, catalog |-> {}, calls |-> NoCoverage, gov |-> 0, meta |-> 0]
NoRead == [state |-> "idle", kind |-> "none", arg |-> 0, snap |-> NoSnap, got |-> <<>>, filled |-> FALSE]
NoWalk == [state |-> "idle", kind |-> "none", cursor |-> <<>>, shown |-> <<>>, base |-> {}]

Decodings(h) == IF h \in Undecoded THEN BOOLEAN ELSE {TRUE}

\* A height is stored, the first of the chain or not, with or without the
\* call index.
ReadsInit ==
    /\ \E h \in Heights, calls \in BOOLEAN : \E parsed \in Decodings(h) :
         db = [stored |-> {h}, parsed |-> IF parsed THEN {h} ELSE {},
               catalog |-> IF parsed THEN {h} ELSE {},
               calls |-> IF calls THEN [from |-> h, through |-> h] ELSE NoCoverage,
               gov |-> 0, meta |-> 0]
    /\ read = NoRead /\ walk = NoWalk

-----------------------------------------------------------------------------
(* The rows of the lists                                                   *)

\* realm_call_index: the calls of heights from..through whose summaries are
\* parsed, of the covered range.
CallRows(d, from, through) ==
    UNION {{h} \X CallsAt[h] : h \in d.parsed \cap (from..through) \cap (d.calls.from..d.calls.through)}

Lists == {"blocks", "transactions", "account", "calls", "proposals"}

\* Rows by height and index, or by proposal; an account's are those of its
\* transaction_participants.
AllBlocks(d) == d.stored \X {0}
AllTransactions(d) == UNION {{h} \X (1..TxAt[h]) : h \in d.stored}
AllAccountTransactions(d) == UNION {{h} \X OwnAt[h] : h \in d.parsed}
AllCalls(d) == CallRows(d, d.calls.from, d.calls.through)
AllProposals(d) == IF d.gov = 0 THEN {} ELSE (1..Proposals[d.gov]) \X {0}

Listed(kind, d) ==
    CASE kind = "blocks"       -> AllBlocks(d)
      [] kind = "transactions" -> AllTransactions(d)
      [] kind = "account"      -> AllAccountTransactions(d)
      [] kind = "calls"        -> AllCalls(d)
      [] kind = "proposals"    -> AllProposals(d)

-----------------------------------------------------------------------------
(* Transactions of the writers, as RealmIndex, Indexer, IndexRange,        *)
(* RealmMetadata and Governance describe them                              *)

Checkpoint(d) == Max(d.stored)

Extended(calls, h) == IF calls = NoCoverage THEN calls ELSE [from |-> calls.from, through |-> h]

Commit(d) == db' = d /\ UNCHANGED <<read, walk>>

\* _upsert_transactions, _replace_realm_calls_for_height, _upsert_realm_catalog:
\* participants and calls are replaced, by none if the summary is not parsed;
\* the catalog keeps what it has counted.
Written(d, h, parsed) ==
    [d EXCEPT !.stored = @ \cup {h},
              !.parsed = IF parsed THEN @ \cup {h} ELSE @ \ {h},
              !.catalog = IF parsed THEN @ \cup {h} ELSE @]

IndexHeight ==
    LET h == Checkpoint(db) + 1 IN
    /\ h \in Heights
    /\ \E parsed \in Decodings(h) :
         Commit([Written(db, h, parsed) EXCEPT !.calls = Extended(db.calls, h)])

\* index_range.py up to the checkpoint: a height that was left out, or a
\* stored one again, with what the decoder makes of it now.
IndexOlder ==
    \E h \in {x \in Heights : x <= Checkpoint(db)} : \E parsed \in Decodings(h) :
      LET d == Written(db, h, parsed) IN
      /\ db' = d
      /\ read' = [read EXCEPT !.filled = @ \/ (read.state = "running" /\ h \notin db.stored)]
      /\ walk' = IF walk.state = "running" THEN [walk EXCEPT !.base = @ \cap Listed(walk.kind, d)] ELSE walk

\* rebuild_realm_call_index.py: the covered range starts, or grows downwards.
IndexCalls ==
    \E from \in db.stored :
      /\ from..Checkpoint(db) \subseteq db.stored
      /\ db.calls = NoCoverage \/ from < db.calls.from
      /\ Commit([db EXCEPT !.calls = [from |-> from, through |-> Checkpoint(db)]])

PublishMetadata == db.meta < MaxMetadata /\ Commit([db EXCEPT !.meta = @ + 1])

PublishGovernance == db.gov < Len(Proposals) /\ Commit([db EXCEPT !.gov = @ + 1])

-----------------------------------------------------------------------------
(* The statements of each read: the result of the nth on a database d,     *)
(* given those before it                                                   *)

\* The newest Window heights not above h.
Recent(d, h) ==
    {x \in d.stored : x <= h /\ Cardinality({y \in d.stored : x <= y /\ y <= h}) <= Window}

\* A Realm for each height that calls one.
Catalog(d) == {h \in d.catalog : CallsAt[h] # {}}

\* fetch_block_detail
BlockDetail(n, d, h) ==
    CASE n = 1 -> d.stored \cap {h}
      [] n = 2 -> IF h \in d.stored THEN SetAt[h] ELSE {}
      [] n = 3 -> IF h \in d.stored THEN TxAt[h] ELSE 0

\* fetch_active_validators: network_blocks_1000, then active_blocks_1000 of each.
ActiveValidators(n, d, got) ==
    CASE n = 1 -> [height |-> Checkpoint(d), blocks |-> Cardinality(Recent(d, Checkpoint(d)))]
      [] n = 2 -> [v \in SetAt[got[1].height] |->
                     Cardinality({x \in Recent(d, got[1].height) : v \in SetAt[x]})]

\* fetch_validator_detail
Known(d, v) == {h \in d.stored : v \in SetAt[h]}
Activity(v, h) == IF v \in SetAt[h] THEN "active" ELSE "inactive"
ValidatorDetail(n, d, v, got) ==
    CASE n = 1 -> Known(d, v)
      [] n = 2 -> [height |-> Checkpoint(d), status |-> Activity(v, Checkpoint(d))]
      [] n = 3 -> [x \in Recent(d, got[2].height) |-> Activity(v, x)]

\* fetch_validator_signing_history: the axis, then the matrix.
SigningHistory(n, d, got) ==
    CASE n = 1 -> [height |-> Checkpoint(d), members |-> SetAt[Checkpoint(d)]]
      [] n = 2 -> Recent(d, got[1].height)
      [] n = 3 -> [axis |-> Recent(d, got[1].height), members |-> SetAt[got[1].height]]

\* REALM_DETAIL_SOURCE_SQL, REALM_APPLICATION_SOURCE_SQL, TOKEN_DIRECTORY_SOURCE_SQL
Source(d) ==
    [from |-> d.calls.from, through |-> d.calls.through, indexed |-> Checkpoint(d)]

\* complete_realm_call_coverage_bounds; no state row is 0.
Complete(source) == source.from # 0 /\ source.through = source.indexed

\* fetch_realm_calls: item, source, page.
RealmCalls(n, d, got) ==
    CASE n = 1 -> Catalog(d)
      [] n = 2 -> Source(d)
      [] n = 3 -> CallRows(d, got[2].from, got[2].through)

\* fetch_realm_metadata: the snapshot's row, its files, its imports.
RealmMetadata(n, d) ==
    CASE n = 1 -> Catalog(d)
      [] n \in 2..4 -> d.meta

\* fetch_governance_proposal_detail: source, proposal, votes.
NoProposal == [snapshot |-> 0, votes |-> 0]
ProposalDetail(n, d) ==
    CASE n = 1 -> d.gov
      [] n = 2 -> IF d.gov > 0 /\ Proposal <= Proposals[d.gov]
                    THEN [snapshot |-> d.gov, votes |-> Votes[d.gov]] ELSE NoProposal
      [] n = 3 -> [snapshot |-> d.gov, votes |-> Votes[d.gov]]

\* fetch_realm_catalog, fetch_top_realms: what the summary counts, then the
\* items.
RealmCatalog(d) == Catalog(d)
TopRealms(d) == Catalog(d)

\* fetch_top_realm_namespaces: summary, aggregated calls, the members' calls.
Namespaces(n, d) == IF n = 1 THEN Catalog(d) ELSE UNION {{h} \X CallsAt[h] : h \in Catalog(d)}

\* fetch_top_realm_applications: the ranking of the last Span heights.
Applications(n, d, got) ==
    CASE n = 1 -> Source(d)
      [] n = 2 -> CallRows(d, got[1].indexed - Span, got[1].indexed)

\* fetch_token_candidates: source, candidates, their files, their activity.
Tokens(n, d, got) ==
    CASE n = 1 -> Source(d)
      [] n \in 2..3 -> d.meta
      [] n = 4 -> CallRows(d, got[1].through - Span, got[1].through)

\* fetch_nft_activity: the latest call of the covered range.
NftActivity(n, d, got) ==
    CASE n = 1 -> Source(d)
      [] n = 2 -> LET rows == CallRows(d, got[1].from, got[1].through)
                  IN  {x \in rows : \A y \in rows : y = x \/ Below(y, x)}

Result(kind, arg, got, d) ==
    LET n == Len(got) + 1 IN
    CASE kind = "block"        -> BlockDetail(n, d, arg)
      [] kind = "validators"   -> ActiveValidators(n, d, got)
      [] kind = "validator"    -> ValidatorDetail(n, d, arg, got)
      [] kind = "signing"      -> SigningHistory(n, d, got)
      [] kind = "calls"        -> RealmCalls(n, d, got)
      [] kind = "metadata"     -> RealmMetadata(n, d)
      [] kind = "proposal"     -> ProposalDetail(n, d)
      [] kind = "catalog"      -> RealmCatalog(d)
      [] kind = "top"          -> TopRealms(d)
      [] kind = "namespaces"   -> Namespaces(n, d)
      [] kind = "applications" -> Applications(n, d, got)
      [] kind = "tokens"       -> Tokens(n, d, got)
      [] kind = "nft"          -> NftActivity(n, d, got)

-----------------------------------------------------------------------------
(* The fetch functions: how many statements, and whether they run under    *)
(* SET TRANSACTION ISOLATION LEVEL REPEATABLE READ                         *)

Fetch(statements, isolated) == [statements |-> statements, isolated |-> isolated]

fetch_block_detail == Fetch(3, FALSE)
fetch_active_validators == Fetch(2, FALSE)
fetch_validator_detail == Fetch(3, FALSE)
fetch_validator_signing_history == Fetch(3, FALSE)
fetch_realm_calls == Fetch(3, TRUE)
fetch_realm_metadata == Fetch(4, TRUE)
fetch_governance_proposal_detail == Fetch(3, TRUE)
fetch_realm_catalog == Fetch(2, FALSE)
fetch_top_realms == Fetch(2, TRUE)

\* Mutant: the members are read in the default isolation level.
fetch_namespaces_committed == Fetch(3, FALSE)

fetch_top_realm_namespaces == Fetch(3, TRUE)
fetch_top_realm_applications == Fetch(2, TRUE)
fetch_token_candidates == Fetch(4, TRUE)
fetch_nft_activity == Fetch(2, TRUE)

FetchOf ==
    [block |-> fetch_block_detail, validators |-> fetch_active_validators,
     validator |-> fetch_validator_detail, signing |-> fetch_validator_signing_history,
     calls |-> fetch_realm_calls, metadata |-> fetch_realm_metadata,
     proposal |-> fetch_governance_proposal_detail, catalog |-> fetch_realm_catalog,
     top |-> fetch_top_realms, namespaces |-> fetch_top_realm_namespaces,
     applications |-> fetch_top_realm_applications, tokens |-> fetch_token_candidates,
     nft |-> fetch_nft_activity]

Kinds == DOMAIN FetchOf
Arguments(kind) ==
    CASE kind = "block" -> Heights [] kind = "validator" -> Validators [] OTHER -> {0}

-----------------------------------------------------------------------------
(* What the handlers make of the results so far: an early return, an error *)
(* for rows that do not fit together, or an answer.                        *)

\* complete_realm_call_coverage_bounds, and a window that starts inside it.
Covers(source, through) == source.from > 0 /\ source.from <= through - Span

Exists(got) == IF got[1] # {} THEN "answered" ELSE "not_found"

get_block_detail(got) == Exists(got)
get_validator_detail(got) == Exists(got)

get_realm_calls(got) ==
    IF got[1] = {} THEN "not_found"
    ELSE IF Len(got) > 1 /\ ~Complete(got[2]) THEN "unavailable"
    ELSE IF Len(got) > 2 /\ \E x \in got[3] : x[1] < got[2].from \/ got[2].through < x[1]
           THEN "refused" ELSE "answered"

get_realm_metadata(got) ==
    IF got[1] = {} \/ (Len(got) > 1 /\ got[2] = 0) THEN "not_found" ELSE "answered"

\* _governance_source, _governance_detail
get_governance_proposal(got) ==
    IF got[1] = 0 \/ (Len(got) > 1 /\ got[2] = NoProposal) THEN "not_found"
    ELSE IF Len(got) > 2 /\ got[2].votes # got[3].votes THEN "refused" ELSE "answered"

\* _validator_signing_history_batch_from_rows
get_validator_signing_history(got) ==
    IF Len(got) > 2 /\ (got[2] # got[3].axis \/ got[1].members # got[3].members)
      THEN "refused" ELSE "answered"

\* Every aggregate of a namespace is that of its members.
get_top_realm_namespaces(got) ==
    IF Len(got) > 2 /\ got[2] # got[3] THEN "refused" ELSE "answered"

\* _validate_realm_application_source
get_top_realm_applications(got) ==
    IF ~Complete(got[1]) \/ ~Covers(got[1], got[1].indexed) THEN "unavailable" ELSE "answered"

\* A file without candidate is an error.
get_tokens(got) == IF Len(got) > 2 /\ got[2] # got[3] THEN "refused" ELSE "answered"

\* The statements a fetch runs before it returns with what it has.
Enough(kind, got) ==
    \/ Len(got) = FetchOf[kind].statements
    \/ kind = "tokens" /\ Len(got) = 2 /\ got[2] = 0
    \/ kind = "tokens" /\ Len(got) = 3 /\ ~Covers(got[1], got[1].through)
    \/ kind = "nft" /\ ~Complete(got[1])

Outcome(kind, got) ==
    LET answer ==
          CASE kind = "block"        -> get_block_detail(got)
            [] kind = "validator"    -> get_validator_detail(got)
            [] kind = "calls"        -> get_realm_calls(got)
            [] kind = "metadata"     -> get_realm_metadata(got)
            [] kind = "proposal"     -> get_governance_proposal(got)
            [] kind = "signing"      -> get_validator_signing_history(got)
            [] kind = "namespaces"   -> get_top_realm_namespaces(got)
            [] kind = "applications" -> get_top_realm_applications(got)
            [] kind = "tokens"       -> get_tokens(got)
            [] OTHER                 -> "answered"
    IN  IF answer = "answered" /\ ~Enough(kind, got) THEN "running" ELSE answer

\* The client does one thing at a time.
Free == read.state # "running" /\ walk.state # "running"

Ask(kind, arg) ==
    /\ Free
    /\ read' = [NoRead EXCEPT !.state = "running", !.kind = kind, !.arg = arg]
    /\ walk' = NoWalk
    /\ UNCHANGED db

Statement ==
    /\ read.state = "running"
    /\ LET isolated == FetchOf[read.kind].isolated
           seen == IF isolated /\ read.got # <<>> THEN read.snap ELSE db
           got == Append(read.got, Result(read.kind, read.arg, read.got, seen))
           outcome == Outcome(read.kind, got)
       IN  read' = [read EXCEPT !.got = got, !.state = outcome,
                      !.snap = IF isolated /\ outcome \in {"running", "answered"} THEN seen ELSE NoSnap]
    /\ UNCHANGED <<db, walk>>

-----------------------------------------------------------------------------
(* Lists: one statement per page                                           *)

\* ORDER BY ... DESC LIMIT limit + 1
Rows(kind, d, cursor) ==
    LET rows == {x \in Listed(kind, d) : cursor = <<>> \/ Below(x, cursor)}
        sorted == NewestFirst(rows)
    IN  SubSeq(sorted, 1, Min({Limit + 1, Len(sorted)}))

Walk(kind) ==
    /\ Free
    /\ walk' = [state |-> "running", kind |-> kind, cursor |-> <<>>, shown |-> <<>>,
                base |-> Listed(kind, db)]
    /\ read' = NoRead
    /\ UNCHANGED db

\* Mutant: the cursor is the row that was read ahead.
CursorOfNext(rows) == IF Len(rows) > Limit THEN rows[Limit + 1] ELSE <<>>

\* The cursor of the next page: the last row shown, when one more was read.
CursorOf(rows) == IF Len(rows) > Limit THEN rows[Limit] ELSE <<>>

NextPage ==
    /\ walk.state = "running"
    /\ walk.kind = "calls" => Complete(Source(db))
    /\ LET rows == Rows(walk.kind, db, walk.cursor)
           next == CursorOf(rows)
       IN  walk' = [walk EXCEPT !.shown = @ \o SubSeq(rows, 1, Min({Limit, Len(rows)})),
                                !.cursor = next,
                                !.state = IF next = <<>> THEN "done" ELSE "running"]
    /\ UNCHANGED <<db, read>>

ReadsNext ==
    \/ IndexHeight \/ IndexOlder \/ IndexCalls \/ PublishMetadata \/ PublishGovernance
    \/ \E kind \in Kinds : \E arg \in Arguments(kind) : Ask(kind, arg)
    \/ Statement
    \/ \E kind \in Lists : Walk(kind)
    \/ NextPage

ReadsSpec == ReadsInit /\ [][ReadsNext]_readsVars

-----------------------------------------------------------------------------

\* The calls of the chain at heights from..through, all of them stored, as far
\* as their summaries are parsed.
CallsOf(from, through, d) == UNION {{h} \X CallsAt[h] : h \in (from..through) \cap d.parsed}

AllCallsOf(rows, from, through, d) ==
    from..through \subseteq d.stored /\ rows = CallsOf(from, through, d)

\* snap is the database that a read under REPEATABLE READ has seen.
Coherent(kind, arg, got, snap, filled) ==
    CASE kind = "block" -> got[2] = SetAt[arg] /\ got[3] = TxAt[arg]
      [] kind = "validators" ->
           /\ DOMAIN got[2] = SetAt[got[1].height]
           /\ \A v \in DOMAIN got[2] : got[2][v] > 0 /\ (~filled => got[2][v] <= got[1].blocks)
      [] kind = "validator" ->
           Max(DOMAIN got[3]) = got[2].height /\ got[3][got[2].height] = got[2].status
      [] kind = "signing" -> got[3] = [axis |-> got[2], members |-> got[1].members]
      [] kind = "calls" -> AllCallsOf(got[3], got[2].from, got[2].through, snap)
      [] kind = "metadata" -> got[2] = got[3] /\ got[3] = got[4]
      [] kind = "proposal" -> got[2].snapshot = got[1] /\ got[3].snapshot = got[1]
      [] kind = "catalog" -> got[1] \subseteq got[2]
      [] kind = "top" -> got[1] = got[2]
      [] kind = "namespaces" -> got[1] = {x[1] : x \in got[3]}
      [] kind = "applications" -> AllCallsOf(got[2], got[1].indexed - Span, got[1].indexed, snap)
      [] kind = "tokens" ->
           /\ Len(got) > 2 => got[2] = got[3]
           /\ Len(got) > 3 => AllCallsOf(got[4], got[1].through - Span, got[1].through, snap)
      [] kind = "nft" ->
           Len(got) > 1 => \A y \in CallsOf(got[1].from, got[1].indexed, snap) :
                             \E x \in got[2] : x = y \/ Below(y, x)

\* What an answer says fits together, whatever was committed between its
\* statements: a block comes with its own commit and transactions; a listed
\* validator belongs to the set of the height shown, has been active in a block
\* and in no more of them than the network is said to have, unless a height
\* below the checkpoint was filled in meanwhile (the two counts are of two
\* statements); a validator is active exactly if its history, which ends at that
\* height, says so; the signing matrix is the one of its axis; a call page has
\* every parsed call of the range it names, which is stored and reaches the
\* checkpoint, and so has a ranking of the window it names and the latest NFT
\* call; a metadata, token or proposal page is of one snapshot; a ranking and
\* its source agree, and no summary counts an item that the catalog has lost.
\* Only a signing matrix is ever refused as malformed.
ReadsCoherent ==
    /\ read.state = "refused" => read.kind = "signing"
    /\ read.state = "answered" => Coherent(read.kind, read.arg, read.got, read.snap, read.filled)

\* A client that follows the cursors to the end has seen every row that was
\* there all the while, newest first and none twice, although heights, calls,
\* older ranges and proposals are committed between the pages.  Only a stored
\* height that is indexed again, and whose summary is no longer parsed, takes
\* rows away, those of the account and calls lists.
PagesComplete ==
    /\ \A i \in 1..(Len(walk.shown) - 1) : Below(walk.shown[i + 1], walk.shown[i])
    /\ walk.state = "done" => walk.base \subseteq ToSet(walk.shown)
=============================================================================

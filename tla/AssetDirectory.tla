--------------------------- MODULE AssetDirectory ---------------------------
(***************************************************************************)
(* The classification of Realms as verified GRC20 or GRC721 assets         *)
(* (api/app.py, api/asset_classification.py).  A request reads candidates, *)
(* asks a cache that all threads share for each candidate's revision,      *)
(* reads the sources of the others in a second transaction, classifies     *)
(* them and stores the results.  The metadata collector publishes new      *)
(* revisions meanwhile.                                                    *)
(***************************************************************************)
EXTENDS Integers, Sequences, FiniteSets, SequencesExt

CONSTANTS
    AssetPaths,     \* Realm paths
    StandardsOf,    \* path -> revision -> standards whose candidate rules it meets
    Verifies,       \* path -> revision -> whether its sources show one identity
    HasSource,      \* path -> revision -> whether it has a .gno source file
    CacheSize,      \* max_entries
    Handlers        \* threads that serve requests

ASSUME AssetAssumption ==
    /\ CacheSize \in Nat \ {0}
    /\ \A p \in AssetPaths :
         /\ StandardsOf[p] \in Seq(SUBSET {"grc20", "grc721"}) /\ StandardsOf[p] # <<>>
         /\ \A r \in DOMAIN StandardsOf[p] :
              /\ {Verifies[p][r], HasSource[p][r]} \subseteq BOOLEAN
              /\ Verifies[p][r] => HasSource[p][r]

VARIABLES
    revision,       \* path -> realm_metadata.observed_height, 0: no row
    classified,     \* asset_classification_cache, least recently used first
    handler         \* thread -> the request it serves

assetVars == <<revision, classified, handler>>

Resting == [pc |-> "idle", rows |-> {}, misses |-> {}, files |-> {}, verified |-> {}]

AssetInit ==
    /\ revision = [p \in AssetPaths |-> 1]
    /\ classified = <<>>
    /\ handler = [t \in Handlers |-> Resting]

\* publish_metadata_snapshot_cursor, see RealmMetadata.
PublishRevision(p) ==
    /\ revision[p] < Len(StandardsOf[p])
    /\ revision' = [revision EXCEPT ![p] = @ + 1]
    /\ UNCHANGED <<classified, handler>>

-----------------------------------------------------------------------------
(* asset_classification.py                                                 *)

KeyOfRow(row) == <<row.path, row.standard, row.revision>>
Cached(key) == \E i \in DOMAIN classified : classified[i].key = key
Slot(key) == CHOOSE i \in DOMAIN classified : classified[i].key = key
Others(key) == IF Cached(key) THEN RemoveAt(classified, Slot(key)) ELSE classified
Verdict(key) == classified[Slot(key)]

\* AssetClassificationCache.put
Put(key, verified) ==
    LET all == Append(Others(key), [key |-> key, verified |-> verified])
    IN  classified' = IF Len(all) > CacheSize THEN Tail(all) ELSE all

-----------------------------------------------------------------------------
(* get_assets, get_nft_activity, _verified_transaction_standards           *)

\* ASSET_DIRECTORY_CANDIDATES_SQL
CandidatesOf(p) ==
    {[path |-> p, standard |-> s, revision |-> revision[p]] :
        s \in IF revision[p] = 0 THEN {} ELSE StandardsOf[p][revision[p]]}

\* One statement for the candidates of the paths asked for; a path that meets
\* the rules of both standards is left out.
FetchCandidates(t, paths) ==
    /\ handler[t].pc \in {"idle", "done"}
    /\ LET rows == UNION {CandidatesOf(p) : p \in {q \in paths : Cardinality(CandidatesOf(q)) = 1}}
       IN  handler' = [handler EXCEPT ![t] = [Resting EXCEPT !.pc = "lookup", !.rows = rows]]
    /\ UNCHANGED <<revision, classified>>

\* AssetClassificationCache.get for one candidate.  A rejected one is done.
Lookup(t) ==
    /\ handler[t].pc = "lookup"
    /\ IF handler[t].rows = {}
         THEN /\ handler' = [handler EXCEPT ![t].pc = IF handler[t].misses = {} THEN "answer" ELSE "files"]
              /\ UNCHANGED classified
         ELSE LET row == CHOOSE x \in handler[t].rows : TRUE
                  key == KeyOfRow(row)
              IN  /\ handler' = [handler EXCEPT
                       ![t].rows = @ \ {row},
                       ![t].misses = IF Cached(key) THEN @ ELSE @ \cup {row},
                       ![t].verified = IF Cached(key) /\ Verdict(key).verified THEN @ \cup {row} ELSE @]
                  /\ classified' = IF Cached(key) THEN Append(Others(key), Verdict(key)) ELSE classified
    /\ UNCHANGED revision

\* fetch_asset_candidate_files: the sources as they are now, with the
\* revision they belong to.
FetchFiles(t) ==
    /\ handler[t].pc = "files"
    /\ handler' = [handler EXCEPT
         ![t].files = {[path |-> row.path, revision |-> revision[row.path]] :
                          row \in {x \in handler[t].misses : HasSource[x.path][revision[x.path]]}},
         ![t].pc = "classify"]
    /\ UNCHANGED <<revision, classified>>

\* Mutant: sources of a newer revision are taken for those of the row.
AnyRevision(row, files) == TRUE

SameRevision(row, files) == \A f \in files : f.path = row.path => f.revision = row.revision

\* extract_token_identity and classify_grc721: no source, no identity.
Classification(row, files) == \E f \in files : f.path = row.path /\ Verifies[row.path][f.revision]

\* One miss of _classify_static_asset_candidates.
Classify(t) ==
    /\ handler[t].pc = "classify"
    /\ handler[t].misses # {}
    /\ LET row == CHOOSE x \in handler[t].misses : TRUE
           usable == SameRevision(row, handler[t].files)
           verified == Classification(row, handler[t].files)
       IN  /\ handler' = [handler EXCEPT
                ![t].misses = @ \ {row},
                ![t].verified = IF usable /\ verified THEN @ \cup {row} ELSE @]
           /\ IF usable THEN Put(KeyOfRow(row), verified) ELSE UNCHANGED classified
    /\ UNCHANGED revision

Finish(t) ==
    /\ handler[t].pc \in {"classify", "answer"}
    /\ handler[t].misses = {}
    /\ handler' = [handler EXCEPT ![t].pc = "done", ![t].files = {}]
    /\ UNCHANGED <<revision, classified>>

AssetNext ==
    \/ \E p \in AssetPaths : PublishRevision(p)
    \/ \E t \in Handlers :
         \/ \E paths \in SUBSET AssetPaths : FetchCandidates(t, paths)
         \/ Lookup(t) \/ FetchFiles(t) \/ Classify(t) \/ Finish(t)

AssetSpec == AssetInit /\ [][AssetNext]_assetVars

-----------------------------------------------------------------------------
\* No thread shows as verified, or leaves in the cache as verified, a revision
\* whose own sources do not verify it, although sources are read after the
\* candidates and other threads fill and evict the cache meanwhile; and what is
\* cached for the revision that is current is what its sources say.  An entry
\* of an earlier revision may say less than its sources did: when a newer
\* revision has no sources there is no mismatch to retry, and "no source" is
\* cached for the candidate's revision (_classify_static_asset_candidates).
AssetsVerified ==
    /\ Len(classified) <= CacheSize
    /\ \A i, j \in DOMAIN classified : classified[i].key = classified[j].key => i = j
    /\ \A i \in DOMAIN classified :
         LET p == classified[i].key[1]
             r == classified[i].key[3]
         IN  /\ classified[i].verified => Verifies[p][r]
             /\ r = revision[p] => classified[i].verified = Verifies[p][r]
    /\ \A t \in Handlers : \A row \in handler[t].verified : Verifies[row.path][row.revision]
=============================================================================

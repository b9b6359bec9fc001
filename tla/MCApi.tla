------------------------------- MODULE MCApi -------------------------------
(* The API process: the parts share no state that the properties are       *)
(* about, so a behaviour runs one of them; part says which.                *)
EXTENDS RequestCache, CosmosHistory, CosmosSigning, ApiReads, AssetDirectory, RpcSessions, TLC

CONSTANTS v1, v2, Parts
VARIABLE part

\* Blocks at most 1 time unit, endpoint candidates 2.
MCTtl == [k \in Keys |-> IF k = "endpoint_candidates" THEN 2 ELSE 1]

\* A window of two pages, empty windows in a row, and rows at either end.
MCTxsAt == <<1, 0, 2, 0, 0, 0, 0, 3, 1>>

MCSignersAt == <<{v1, v2}, {v1}, {v1, v2}, {v1, v2}, {v2}>>
MCSignedAt ==
    <<v1 :> "commit" @@ v2 :> "absent", v1 :> "absent", v1 :> "commit" @@ v2 :> "nil",
      v1 :> "absent" @@ v2 :> "commit", v2 :> "commit">>

MCSetAt == <<{v1, v2}, {v1}, {v2}, {v1, v2}>>
MCTxAt == <<1, 2, 0, 2>>
MCCallsAt == <<{1}, {1, 2}, {}, {2}>>
MCOwnAt == <<{}, {2}, {}, {1, 2}>>
MCProposals == <<2, 3>>
MCVotes == <<0, 2>>

\* Revisions that verify or not, lose their sources, or meet both standards.
MCStandardsOf == [art |-> <<{"grc721"}, {"grc721"}, {"grc20", "grc721"}>>, coin |-> <<{"grc20"}, {"grc20"}>>]
MCVerifies == [art |-> <<FALSE, TRUE, TRUE>>, coin |-> <<TRUE, FALSE>>]
MCHasSource == [art |-> <<TRUE, TRUE, TRUE>>, coin |-> <<TRUE, FALSE>>]

MCInit ==
    /\ part \in Parts
    /\ CacheInit /\ SigningInit /\ SessionsInit /\ AssetInit
    /\ IF part = "history" THEN HistoryInit ELSE HistoryInit /\ tip = 1
    /\ IF part = "reads" THEN ReadsInit ELSE ReadsInit /\ db.stored = {1} /\ db.calls = NoCoverage

MCNext ==
    /\ UNCHANGED part
    /\ \/ part = "cache" /\ CacheNext
          /\ UNCHANGED <<historyVars, signingVars, readsVars, sessionVars, assetVars>>
       \/ part = "history" /\ HistoryNext
          /\ UNCHANGED <<cacheVars, signingVars, readsVars, sessionVars, assetVars>>
       \/ part = "signing" /\ SigningNext
          /\ UNCHANGED <<cacheVars, historyVars, readsVars, sessionVars, assetVars>>
       \/ part = "reads" /\ ReadsNext
          /\ UNCHANGED <<cacheVars, historyVars, signingVars, sessionVars, assetVars>>
       \/ part = "sessions" /\ SessionsNext
          /\ UNCHANGED <<cacheVars, historyVars, signingVars, readsVars, assetVars>>
       \/ part = "assets" /\ AssetNext
          /\ UNCHANGED <<cacheVars, historyVars, signingVars, readsVars, sessionVars>>

MCSpec ==
    /\ MCInit
    /\ [][MCNext]_<<cacheVars, historyVars, signingVars, readsVars, sessionVars, assetVars, part>>
    /\ CacheFairness
=============================================================================

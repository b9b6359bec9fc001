---------------------------- MODULE MCCollectors ----------------------------
(* What is fetched and then stored: heights with their transactions, and   *)
(* what the three collectors gather that are started by a timer.  They     *)
(* write disjoint tables, the collectors under different locks, so a       *)
(* behaviour interleaves the processes of one of them; part says which.    *)
EXTENDS HeightParser, RealmMetadata, Valopers, NetworkDistribution, TLC

VARIABLE part

\* Summaries on both sides of every limit of normalize_summary.
MCCandidate(valid, count, sizes) ==
    [valid |-> valid, status |-> "parsed", family |-> "gno", count |-> count,
     sizes |-> sizes, base |-> 1, truncated |-> FALSE]

MCCandidates == {
    MCCandidate(TRUE, 2, <<1, 3>>),          \* the second message does not fit
    MCCandidate(TRUE, None, <<1, 1, 1>>),    \* more messages than MaxMessages
    MCCandidate(TRUE, 1, <<1, 1>>) }         \* count below the messages: restart

MCPrecommits ==
    [addr : {"v1"}, id : {"commit", "zero"}, sig : BOOLEAN] \cup
    [addr : {"v2"}, id : {"commit", "malformed"}, sig : {TRUE}] \cup
    [addr : {None}, id : {"null", "commit"}, sig : {TRUE}]

MCContentAt(h) == h \div 2

MCProfile(o, k) == [operator |-> o, key |-> k]
MCRegistry(h) ==
    CASE h = 1 -> <<MCProfile("a", 1), MCProfile("b", 2), MCProfile("c", 3)>>
      [] h = 2 -> <<MCProfile("b", 2), MCProfile("c", 2)>>     \* a key used twice
      [] h = 3 -> <<MCProfile("c", 3)>>
      [] OTHER -> <<>>

MCInit ==
    /\ part \in {"heights", "metadata", "valopers", "distribution"}
    /\ Init /\ MetadataInit /\ ValopersInit /\ DistributionInit

MCNext ==
    /\ UNCHANGED part
    /\ \/ part = "heights" /\ Next
          /\ UNCHANGED <<metadataVars, valopersVars, distributionVars>>
       \/ part = "metadata" /\ MetadataNext
          /\ UNCHANGED <<vars, valopersVars, distributionVars>>
       \/ part = "valopers" /\ ValopersNext
          /\ UNCHANGED <<vars, metadataVars, distributionVars>>
       \/ part = "distribution" /\ DistributionNext
          /\ UNCHANGED <<vars, metadataVars, valopersVars>>

MCSpec == MCInit /\ [][MCNext]_<<vars, metadataVars, valopersVars, distributionVars, part>>

\* The transactions of a block, and the processes that collect peers, are
\* interchangeable.
MCSymmetry == Permutations(Txs) \cup Permutations(Scanners)
=============================================================================

------------------------------ MODULE MCIndexer -----------------------------
(* Small instances of Indexer: two processes, two endpoints, and either    *)
(* one history or two that part after the bootstrap height.                *)
EXTENDS Indexer, TLC

CONSTANTS w1, w2, e1, e2

\* The hash of a height is the height itself on the main history, and
\* shifted above a fork after the bootstrap height.
MCHashes == 0..(2 * MaxHeight)
MCHashAt ==
    [f \in Forks |-> [h \in Heights |->
        IF f = "main" \/ h <= StartHeight THEN h ELSE MaxHeight + h]]

\* e1 serves the main history, e2 may move between the two.
MCServesForked == [e \in Endpoints |-> IF e = e1 THEN {"main"} ELSE Forks]
MCServesMain == [e \in Endpoints |-> {"main"}]

MCWriterSymmetry == Permutations(Writers)
=============================================================================

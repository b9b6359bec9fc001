------------------------------ MODULE ChainLog ------------------------------
(***************************************************************************)
(* What the indexer promises its readers: an append-only log of blocks     *)
(* that starts at StartHeight, has no gaps, is never rewritten, and in     *)
(* which every block names its predecessor by hash.  Only once the writers *)
(* are no longer kept apart may a block be appended unchecked.  How many   *)
(* processes write, from which RPC endpoints, and what else fails          *)
(* meanwhile is of no concern here.                                        *)
(***************************************************************************)
EXTENDS Integers

CONSTANTS
    Hashes,         \* canonical block hashes
    Heights,        \* block heights
    StartHeight     \* the configured bootstrap height

VARIABLES
    log,            \* stored heights -> [hash, parent]
    exposed,        \* whether a writer has lost its exclusive lock
    unchecked       \* the heights whose parent nobody compared

logVars == <<log, exposed, unchecked>>

Block == [hash : Hashes, parent : Hashes]

\* The stored heights with one more; a stored height keeps its block.
Extended(l, h, b) ==
    [x \in DOMAIN l \cup {h} |-> IF x \in DOMAIN l THEN l[x] ELSE b]

Init ==
    /\ log = [h \in {} |-> 0]
    /\ exposed = FALSE
    /\ unchecked = {}

\* The first block is at StartHeight, every later one on top of the newest.
IsNext(h) ==
    /\ h \notin DOMAIN log
    /\ IF DOMAIN log = {} THEN h = StartHeight ELSE h - 1 \in DOMAIN log

Append(h, b) ==
    /\ IsNext(h)
    /\ DOMAIN log # {} => b.parent = log[h - 1].hash
    /\ log' = Extended(log, h, b)
    /\ UNCHANGED <<exposed, unchecked>>

AppendUnchecked(h, b) ==
    /\ exposed
    /\ IsNext(h)
    /\ DOMAIN log # {}
    /\ log' = Extended(log, h, b)
    /\ unchecked' = unchecked \cup {h}
    /\ UNCHANGED exposed

Expose ==
    /\ exposed' = TRUE
    /\ UNCHANGED <<log, unchecked>>

Next ==
    \/ Expose
    \/ \E h \in Heights, b \in Block : Append(h, b) \/ AppendUnchecked(h, b)

Spec == Init /\ [][Next]_logVars
=============================================================================

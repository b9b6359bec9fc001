----------------------------- MODULE IndexRange -----------------------------
(***************************************************************************)
(* The bounded tool scripts/index_range.py (indexer/service.py) beside the *)
(* continuous indexer.  It takes no advisory lock, asks one endpoint, and  *)
(* compares no block with the one stored below it; all that protects the   *)
(* store is the transaction of write_height.                               *)
(***************************************************************************)
EXTENDS Indexer

VARIABLE rg         \* the tool's process

rangeVars == <<vars, rg>>

RangeProcess ==
    [pc       : {"idle", "fetch", "begin", "commit"},
     height   : 0..(MaxHeight + 1),
     end      : Heights,
     tip      : Heights,
     endpoint : Endpoints \cup {None},
     block    : Block \cup {None},
     seen     : Heights]

RangeIdle ==
    [pc |-> "idle", height |-> 0, end |-> 0, tip |-> 0, endpoint |-> None,
     block |-> None, seen |-> NoRow]

RangeTypeOK == TypeOK /\ rg \in RangeProcess

RangeInit == Init /\ rg = RangeIdle

RangeExit == rg' = RangeIdle

\* plan_range: a start above checkpoint + 1 or an end above the tip of the
\* selected endpoint is refused.  record_rpc_probe_cycle then persists the
\* selected endpoint.
RangeStart(s, end, e, tip) ==
    /\ rg.pc = "idle"
    /\ s >= 1 /\ s <= end /\ end <= tip
    /\ checkpoint # NoRow => s <= checkpoint + 1
    /\ Select(e)
    /\ rg' = [RangeIdle EXCEPT !.pc = "fetch", !.height = s, !.end = end,
                               !.tip = tip, !.endpoint = e]
    /\ UNCHANGED <<chainVars, ix, lockHolder, faults, audit>>

\* fetch_height and parse_height; any failure ends the tool.
RangeFetch(f) ==
    /\ rg.pc = "fetch"
    /\ IF f = None
       THEN RangeExit
       ELSE rg' = [rg EXCEPT !.pc = "begin",
                             !.block = [hash   |-> HashAt[f][rg.height],
                                        parent |-> HashAt[f][rg.height - 1]]]
    /\ UNCHANGED vars

RangeBegin ==
    /\ rg.pc = "begin"
    /\ IF Skips(rg.height, checkpoint)
       THEN RangeExit
       ELSE rg' = [rg EXCEPT !.pc = "commit", !.seen = checkpoint]
    /\ UNCHANGED vars

RangeCommit ==
    /\ rg.pc = "commit"
    /\ Persist(rg.height, rg.block, rg.seen, rg.tip)
    /\ rg' = IF rg.height = rg.end THEN RangeIdle
             ELSE [rg EXCEPT !.pc = "fetch", !.height = @ + 1, !.block = None,
                             !.seen = NoRow]
    /\ UNCHANGED <<ix, lockHolder, faults, audit>>

RangeRefused ==
    /\ rg.pc = "commit"
    /\ Refused(rg.height, rg.block, rg.seen, rg.tip)
    /\ RangeExit
    /\ UNCHANGED vars

\* A crash or a database error: the open transaction rolls back.
RangeCrash ==
    /\ rg.pc # "idle"
    /\ RangeExit
    /\ UNCHANGED vars

RangeNext ==
    \/ \E s, end, tip \in Heights, e \in Endpoints : RangeStart(s, end, e, tip)
    \/ rg.endpoint # None /\ \E f \in Answers(rg.endpoint) : RangeFetch(f)
    \/ RangeBegin
    \/ RangeCommit
    \/ RangeRefused
    \/ RangeCrash
    \/ Next /\ UNCHANGED rg

RangeSpec == RangeInit /\ [][RangeNext]_rangeVars

-----------------------------------------------------------------------------
\* A stored block and the checkpoint survive whatever the tool and the
\* continuous processes do to each other (database._verify_finalized_conflicts).
RangeFinalizedStable ==
    [][/\ checkpoint' >= checkpoint
       /\ \A h \in DOMAIN blocks : h \in DOMAIN blocks' /\ blocks'[h] = blocks[h]]_rangeVars

\* The Realm call coverage claims only stored heights and ends at the
\* checkpoint, so that the next live write can extend it, even when two
\* first writes of an empty database race (database.advance_realm_call_coverage).
CoverageTruthful ==
    IF checkpoint = NoRow THEN calls.through = NoRow
    ELSE /\ calls.through = checkpoint
         /\ calls.from..calls.through \subseteq DOMAIN blocks
=============================================================================

---------------------------- MODULE RpcSelection ----------------------------
(***************************************************************************)
(* Which RPC endpoint the continuous indexer tries first                   *)
(* (indexer/runner.py, indexer/rpc.py).  A cycle ranks the endpoints it    *)
(* can use by latency; the selected endpoint keeps its place until one     *)
(* that is clearly faster has been the best alternative in Confirmations   *)
(* cycles, and an endpoint that fails is passed over at once.  The choice  *)
(* is kept in memory (RpcSelectionState) and in rpc_endpoints.is_selected, *)
(* from which a restarted process takes it.                                *)
(*                                                                         *)
(* Module Indexer lets any eligible endpoint be tried first and shows the  *)
(* store safe for every order; this module is about the order itself.      *)
(* Latencies are in units of 10 ms.  A healthy probe always has one.       *)
(***************************************************************************)
EXTENDS Integers, Sequences, FiniteSets, Functions

CONSTANTS
    Urls,               \* GNO_RPC_URLS, a sequence of endpoints
    Latencies,          \* response times a probe can measure
    MinImprovement,     \* RPC_HYSTERESIS_MIN_IMPROVEMENT_SECONDS
    MinPercent,         \* RPC_HYSTERESIS_MIN_RELATIVE_IMPROVEMENT, in percent
    Confirmations,      \* RPC_HYSTERESIS_CONFIRMATION_CYCLES
    BatchSize,          \* INDEXER_BATCH_SIZE
    MaxFaults,          \* bound: restarts and database errors
    None

Endpoints == Range(Urls)

ASSUME SelectionAssumption ==
    /\ Urls \in Seq(Endpoints) /\ IsInjective(Urls)
    /\ None \notin Endpoints
    /\ Latencies \subseteq Nat
    /\ {MinImprovement, Confirmations, BatchSize} \subseteq Nat \ {0}
    /\ MaxFaults \in Nat

VARIABLES
    state,              \* RpcSelectionState
    persisted,          \* the row with rpc_endpoints.is_selected
    cycle,              \* the locals of run_cycle
    steady,             \* None, or the latencies from which nothing moves away
    compared,           \* history: the last comparison and its repetitions
    faults              \* how many faults have happened

vars == <<state, persisted, cycle, steady, compared, faults>>

Selection ==
    [selected : Endpoints \cup {None}, candidate : Endpoints \cup {None},
     streak : Nat]

(* pc: "down" not running; "wait" between cycles; "done" likewise, after a *)
(* cycle that succeeded; "try" looking for an endpoint; "serve" with one.  *)
NoCycle(pc) ==
    [pc |-> pc, order |-> <<>>, tip |-> <<>>, height |-> 0, active |-> None,
     activated |-> {}, excluded |-> {}, fallback |-> FALSE]

\* A selection state is a selected endpoint and a candidate with its streak.
NoStreak(st) == [st EXCEPT !.candidate = None, !.streak = 0]

NotCompared == [pair |-> <<None, None>>, times |-> 0]

Loaded(e) == [selected |-> e, candidate |-> None, streak |-> 0]

Init ==
    /\ state = Loaded(None)
    /\ persisted = None
    /\ cycle = NoCycle("down")
    /\ steady = None
    /\ compared = NotCompared
    /\ faults = 0

-----------------------------------------------------------------------------
(* Pure parts.                                                             *)

Position(e) == CHOOSE i \in DOMAIN Urls : Urls[i] = e

\* The usable endpoints with their latencies, as a round of probes finds them.
Probes == UNION {[S -> Latencies] : S \in SUBSET Endpoints \ {{}}}

\* _probe_rank: by latency, then by place in the configuration.
RanksBefore(lat, d, e) ==
    \/ lat[d] < lat[e]
    \/ lat[d] = lat[e] /\ Position(d) < Position(e)

\* suitable_rpc_probes: those of S, a part of the usable ones, in that order.
Place(lat, S, e) == Cardinality({d \in S : RanksBefore(lat, d, e)})
Ranked(lat, S) ==
    [i \in 1..Cardinality(S) |-> CHOOSE e \in S : Place(lat, S, e) = i - 1]

Improves(old, new) ==
    /\ old - new >= MinImprovement
    /\ 100 * (old - new) >= MinPercent * old

\* The alternative that order_indexer_candidates compares with the selected
\* endpoint s, if it is enough of an improvement.
Challenger(s, lat) ==
    LET others == Ranked(lat, DOMAIN lat \ {s}) IN
    IF s \in DOMAIN lat /\ others # <<>> /\ Improves(lat[s], lat[Head(others)])
    THEN Head(others)
    ELSE None

\* Defect: any faster endpoint confirms the streak of the last one.
CountedAny(st, c) ==
    IF c = None THEN NoStreak(st)
    ELSE [st EXCEPT !.candidate = c, !.streak = @ + 1]

\* The state after the comparison with challenger c.
Counted(st, c) ==
    IF c = None THEN NoStreak(st)
    ELSE [st EXCEPT !.candidate = c,
                    !.streak = IF st.candidate = c THEN @ + 1 ELSE 1]

\* The order after it: who leads, and the others by rank.  st is the state
\* already counted.
Lead(st, lat) ==
    IF st.candidate # None /\ st.streak >= Confirmations
    THEN <<st.candidate, st.selected>>
    ELSE IF st.selected \in DOMAIN lat THEN <<st.selected>> ELSE <<>>

Ordered(st, lat) ==
    Lead(st, lat) \o Ranked(lat, DOMAIN lat \ Range(Lead(st, lat)))

\* Defect: every success starts the confirmation over.
RecordedAfresh(st, e, fallback) == NoStreak([st EXCEPT !.selected = e])

\* Defect: the endpoint that took over after a failure is not adopted.
RecordedUnlessFallback(st, e, fallback) ==
    IF e # st.selected /\ ~fallback
    THEN NoStreak([st EXCEPT !.selected = e])
    ELSE st

\* record_selection_success
Recorded(st, e, fallback) ==
    IF e # st.selected \/ fallback
    THEN NoStreak([st EXCEPT !.selected = e])
    ELSE st

-----------------------------------------------------------------------------
(* The process.                                                            *)

\* _load_rpc_selection_state
Start ==
    /\ cycle.pc = "down"
    /\ state' = Loaded(persisted)
    /\ cycle' = NoCycle("wait")
    /\ compared' = NotCompared
    /\ UNCHANGED <<persisted, steady, faults>>

\* run_cycle up to the loop over heights.  Endpoint e serves the next tip[e]
\* heights; caught up, no endpoint serves any and one has to be activated.
Probe(lat, tip) ==
    LET c == Challenger(state.selected, lat)
        st == Counted(state, c)
        pair == <<state.selected, c>>
    IN  /\ cycle.pc \in {"wait", "done"}
        /\ state' = st
        /\ cycle' = [NoCycle("try") EXCEPT
                       !.order = Ordered(st, lat), !.tip = tip,
                       !.height = IF \E e \in DOMAIN tip : tip[e] > 0 THEN 1 ELSE 0]
        /\ compared' = [pair |-> pair,
                        times |-> IF compared.pair # pair THEN 1
                                  ELSE IF compared.times = Confirmations
                                       THEN Confirmations
                                       ELSE compared.times + 1]
        /\ UNCHANGED <<persisted, steady, faults>>

Eligible(e) ==
    /\ e \in Range(cycle.order) \ cycle.excluded
    /\ cycle.tip[e] >= cycle.height

\* Whose turn it is: the endpoint in use, else the first in order.
IsTurn(e) ==
    /\ Eligible(e)
    /\ IF cycle.active # None /\ Eligible(cycle.active)
       THEN e = cycle.active
       ELSE \A i, j \in DOMAIN cycle.order :
               cycle.order[i] = e /\ Eligible(cycle.order[j]) => i <= j

\* reject: the streak is lost whoever failed.
Reject(e) ==
    /\ state' = NoStreak(state)
    /\ persisted' = IF persisted = e THEN None ELSE persisted
    /\ cycle' = [cycle EXCEPT !.pc = "try", !.excluded = @ \cup {e},
                              !.fallback = TRUE]

\* _activate_candidate proves the checkpoint and persists the endpoint; a
\* caught-up cycle ends there.
Activate(e) ==
    /\ cycle.pc = "try"
    /\ IsTurn(e)
    /\ e \notin cycle.activated
    /\ persisted' = e
    /\ IF cycle.height = 0
       THEN /\ state' = Recorded(state, e, cycle.fallback)
            /\ cycle' = NoCycle("done")
       ELSE /\ cycle' = [cycle EXCEPT !.pc = "serve", !.active = e,
                                      !.activated = @ \cup {e}]
            /\ UNCHANGED state
    /\ UNCHANGED <<steady, compared, faults>>

Reuse(e) ==
    /\ cycle.pc = "try"
    /\ IsTurn(e)
    /\ e \in cycle.activated
    /\ cycle' = [cycle EXCEPT !.pc = "serve", !.active = e]
    /\ UNCHANGED <<state, persisted, steady, compared, faults>>

\* The endpoint served the height and the height is written.
Serve ==
    /\ cycle.pc = "serve"
    /\ state' = Recorded(state, cycle.active, cycle.fallback)
    /\ cycle' = IF \A e \in DOMAIN cycle.tip : cycle.tip[e] <= cycle.height
                THEN NoCycle("done")
                ELSE [cycle EXCEPT !.pc = "try", !.height = @ + 1,
                                   !.fallback = FALSE]
    /\ UNCHANGED <<persisted, steady, compared, faults>>

\* The endpoint does not prove the checkpoint, or does not serve the height.
Fail(e) ==
    /\ steady = None
    /\ \/ cycle.pc = "try" /\ IsTurn(e) /\ e \notin cycle.activated
       \/ cycle.pc = "serve" /\ e = cycle.active
    /\ Reject(e)
    /\ UNCHANGED <<steady, compared, faults>>

AllFailed ==
    /\ cycle.pc = "try"
    /\ \A e \in Endpoints : ~Eligible(e)
    /\ cycle' = NoCycle("wait")
    /\ UNCHANGED <<state, persisted, steady, compared, faults>>

\* A database error leaves the cycle with the selection as it is.
DatabaseFailure ==
    /\ cycle.pc \in {"try", "serve"}
    /\ faults < MaxFaults
    /\ faults' = faults + 1
    /\ cycle' = NoCycle("wait")
    /\ UNCHANGED <<state, persisted, steady, compared>>

Stop ==
    /\ cycle.pc # "down"
    /\ faults < MaxFaults
    /\ faults' = faults + 1
    /\ cycle' = NoCycle("down")
    /\ state' = Loaded(None)
    /\ compared' = NotCompared
    /\ UNCHANGED <<persisted, steady>>

\* From here on every endpoint answers, is level, and keeps its latency.
Settle(lat) ==
    /\ steady = None
    /\ cycle.pc \in {"wait", "done"}
    /\ steady' = lat
    /\ UNCHANGED <<state, persisted, cycle, compared, faults>>

-----------------------------------------------------------------------------
\* Caught up, or some of the next BatchSize heights.
Tips(S) == {[e \in S |-> 0]} \cup [S -> 1..BatchSize]
LevelTips == {[e \in Endpoints |-> n] : n \in 0..BatchSize}

ProbeAny ==
    IF steady = None
    THEN \E lat \in Probes : \E tip \in Tips(DOMAIN lat) : Probe(lat, tip)
    ELSE \E tip \in LevelTips : Probe(steady, tip)

Step ==
    \/ Start
    \/ ProbeAny
    \/ \E e \in Endpoints : Activate(e) \/ Reuse(e)
    \/ Serve
    \/ AllFailed

Next ==
    \/ Step
    \/ \E e \in Endpoints : Fail(e)
    \/ DatabaseFailure
    \/ Stop
    \/ \E lat \in [Endpoints -> Latencies] : Settle(lat)

Spec == Init /\ [][Next]_vars

\* A running process takes its next step; asked only once nothing moves.
FairSpec == Spec /\ WF_vars(steady # None /\ Step)

-----------------------------------------------------------------------------
(* Properties.                                                             *)

TypeOK ==
    /\ state \in Selection
    /\ persisted \in Endpoints \cup {None}
    /\ cycle.pc \in {"down", "wait", "done", "try", "serve"}
    /\ cycle.order \in Seq(Endpoints) /\ IsInjective(cycle.order)
    /\ cycle.active \in Endpoints \cup {None}
    /\ cycle.activated \cup cycle.excluded \subseteq Range(cycle.order)
    /\ steady \in [Endpoints -> Latencies] \cup {None}
    /\ faults \in 0..MaxFaults

\* The process leaves an endpoint that could still serve the height only for
\* the one that was its best and clearly faster alternative in each of the
\* last Confirmations comparisons (runner.order_indexer_candidates).
LeavesForBetter ==
    LET a == state.selected
        b == state'.selected
    IN  a # None /\ b \notin {a, None} /\ Eligible(a) =>
           compared = [pair |-> <<a, b>>, times |-> Confirmations]
SwitchEarned == [][LeavesForBetter]_vars

\* After a successful cycle the persisted endpoint is the selected one, so
\* that a restart continues with it (runner._activate_candidate persists the
\* endpoint before it has served, record_selection_success adopts it after).
RestartKeepsSelection ==
    cycle.pc = "done" => persisted # None /\ persisted = state.selected

\* Once the endpoints are up, level and steady, the selection settles on one
\* that no other clearly beats (runner.order_indexer_candidates).
SettlesOnBest ==
    <>[](steady # None =>
            /\ state.selected # None
            /\ Challenger(state.selected, steady) = None)
=============================================================================

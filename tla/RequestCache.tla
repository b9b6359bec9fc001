---------------------------- MODULE RequestCache ----------------------------
(***************************************************************************)
(* The cache that all Cosmos requests share (api/cosmos/cache.py) and the  *)
(* loaders that use it while they load (api/cosmos/adapter.py, service.py, *)
(* service_core.py, transaction_endpoint_policy.py): a bounded LRU cache   *)
(* with expiry, where requests for a key that is being loaded wait for its *)
(* leader.  The lock's critical sections do not await, so each is one step *)
(* of the event loop; between two steps any other task may run, and a task *)
(* may be cancelled at any await.                                          *)
(***************************************************************************)
EXTENDS Integers, Sequences, FiniteSets, SequencesExt

CONSTANTS
    Tasks,         \* concurrent requests
    Requested,     \* keys a request may ask for
    MaxEntries,    \* max_entries
    Ttl,           \* key -> time to live of a loaded value
    MaxTime,       \* bound: monotonic clock
    MaxCancels,    \* bound: cancelled tasks
    NoLeader       \* no leader

VARIABLES
    clock,
    entries,       \* the cached values, least recently used first
    inflight,      \* key -> the task that loads it, or NoLeader
    future,        \* task -> outcome of the load it waits for
    stack,         \* task -> the nested get_or_load calls it is in
    answer,        \* the value get_or_load gives in the last step, if any
    cancels

cacheVars == <<clock, entries, inflight, future, stack, answer, cancels>>

-----------------------------------------------------------------------------
(* The loaders: the keys each of them reads through the cache, in order.   *)
(* The others read upstream endpoints only.                                *)

\* Mutant: the candidates are chosen with the chain head, which asks the candidates.
loads_cyclic(key) ==
    CASE key \in {"chain_head", "block", "eta_checkpoint", "validator_power_24h",
                  "overview_rest", "transaction_search_window", "validator_event_search"}
                                          -> <<"endpoint_candidates">>
      [] key = "endpoint_candidates"      -> <<"chain_head">>
      [] key = "transaction_history"      -> <<"node_status", "transaction_search_window">>
      [] key = "endpoint_provider_status" -> <<"endpoint_candidates", "endpoint_provider_rpc_capabilities">>
      [] key \in {"validator_set", "validator_delegations"} -> <<"overview_rest">>
      [] OTHER                            -> <<>>

loads(key) ==
    CASE key \in {"chain_head", "block", "eta_checkpoint", "validator_power_24h",
                  "overview_rest", "transaction_search_window", "validator_event_search"}
                                          -> <<"endpoint_candidates">>
      [] key = "transaction_history"      -> <<"node_status", "transaction_search_window">>
      [] key = "endpoint_provider_status" -> <<"endpoint_candidates", "endpoint_provider_rpc_capabilities">>
      [] key \in {"validator_set", "validator_delegations"} -> <<"overview_rest">>
      [] OTHER                            -> <<>>

Keys ==
    {"endpoint_candidates", "chain_head", "node_status", "block", "blocks", "eta_checkpoint",
     "block_status_observations", "observed_block", "block_detail", "transaction_detail",
     "overview_rest", "validator_set", "validator_power_24h", "validator_delegations",
     "validator_event_search", "transaction_search_window", "transaction_history",
     "endpoint_provider_status", "endpoint_provider_rpc_capabilities", "market", "market_history"}

ASSUME CacheAssumption ==
    /\ MaxEntries \in Nat \ {0} /\ {MaxTime, MaxCancels} \subseteq Nat
    /\ Requested \subseteq Keys /\ Ttl \in [Keys -> Nat]
    /\ NoLeader \notin Tasks

Pending == [state |-> "pending", made |-> 0]
NoAnswer == [key |-> NoLeader, made |-> 0, asked |-> 0, at |-> 0]

\* One call of get_or_load: its key, when it asked, whether it leads or waits,
\* and what its loader still reads through the cache.
Call(key, role) == [key |-> key, asked |-> clock, role |-> role, todo |-> loads(key)]

Top(t) == stack[t][Len(stack[t])]
Pop(t) == SubSeq(stack[t], 1, Len(stack[t]) - 1)

CacheInit ==
    /\ clock = 0 /\ entries = <<>> /\ cancels = 0
    /\ inflight = [k \in Keys |-> NoLeader]
    /\ future = [t \in Tasks |-> Pending]
    /\ stack = [t \in Tasks |-> <<>>]
    /\ answer = NoAnswer

-----------------------------------------------------------------------------
(* get_or_load                                                             *)

Entry(key, made) == [key |-> key, expires |-> made + Ttl[key], made |-> made]

\* The entries of e at the positions I, in their order.
Kept(e, I) ==
    LET F[i \in 0..Len(e)] ==
          IF i = 0 THEN <<>> ELSE IF i \in I THEN Append(F[i - 1], e[i]) ELSE F[i - 1]
    IN  F[Len(e)]

Live(e) == Kept(e, {i \in DOMAIN e : e[i].expires > clock})
Without(e, key) == Kept(e, {i \in DOMAIN e : e[i].key # key})
Has(e, key) == \E i \in DOMAIN e : e[i].key = key
EntryOf(e, key) == e[CHOOSE i \in DOMAIN e : e[i].key = key]

\* Mutant: a hit extends the life of its entry.
Renewed(e, key) ==
    Append(Without(e, key),
           [EntryOf(e, key) EXCEPT !.expires = clock + Ttl[key]])

Touched(e, key) == Append(Without(e, key), EntryOf(e, key))

\* Stored last; the least recently used entries beyond the bound go.
Store(e, key) ==
    LET all == Append(Without(e, key), Entry(key, clock))
    IN  IF Ttl[key] = 0 THEN e
        ELSE SubSeq(all, IF Len(all) > MaxEntries THEN Len(all) - MaxEntries + 1 ELSE 1, Len(all))

Answer(key, asked, made) ==
    answer' = [key |-> key, made |-> made, asked |-> asked, at |-> clock]

\* The first critical section: purge, then a hit, a wait or the lead.  base is
\* the caller's stack.
Get(t, key, base) ==
    LET e == Live(entries) IN
    /\ \/ /\ Has(e, key)
          /\ entries' = Touched(e, key)
          /\ Answer(key, clock, EntryOf(e, key).made)
          /\ stack' = [stack EXCEPT ![t] = base]
          /\ UNCHANGED <<inflight, future>>
       \/ /\ ~Has(e, key) /\ inflight[key] # NoLeader
          /\ entries' = e
          /\ stack' = [stack EXCEPT ![t] = Append(base, Call(key, "wait"))]
          /\ future' = [future EXCEPT ![t] = Pending]
          /\ answer' = NoAnswer
          /\ UNCHANGED inflight
       \/ /\ ~Has(e, key) /\ inflight[key] = NoLeader
          /\ entries' = e
          /\ inflight' = [inflight EXCEPT ![key] = t]
          /\ stack' = [stack EXCEPT ![t] = Append(base, Call(key, "lead"))]
          /\ answer' = NoAnswer
          /\ UNCHANGED future
    /\ UNCHANGED <<clock, cancels>>

Request(t, key) == stack[t] = <<>> /\ Get(t, key, <<>>)

Leading(t) == stack[t] # <<>> /\ Top(t).role = "lead"

\* The loader reads the next key through the cache.
LoadNested(t) ==
    /\ Leading(t) /\ Top(t).todo # <<>>
    /\ Get(t, Head(Top(t).todo), Append(Pop(t), [Top(t) EXCEPT !.todo = Tail(@)]))

\* set_result and set_exception reach every task that waits for the key.
Resolve(key, outcome) ==
    future' = [t \in Tasks |->
        IF stack[t] # <<>> /\ Top(t).key = key /\ Top(t).role = "wait" THEN outcome ELSE future[t]]

\* The loader returns.
LoadSucceeds(t) ==
    /\ Leading(t) /\ Top(t).todo = <<>>
    /\ LET key == Top(t).key IN
       /\ entries' = Store(entries, key)
       /\ inflight' = [inflight EXCEPT ![key] = NoLeader]
       /\ Resolve(key, [state |-> "value", made |-> clock])
       /\ Answer(key, Top(t).asked, clock)
    /\ stack' = [stack EXCEPT ![t] = Pop(t)]
    /\ UNCHANGED <<clock, cancels>>

\* An exception ends the calls above the innermost loader that survives a
\* failed read (keep = 0: the whole request), and each handler gives up its
\* key: it catches BaseException, a cancellation too.
survives == {"endpoint_provider_status", "block"}

Survivor(t) ==
    LET below == {i \in 1..(Len(stack[t]) - 1) : stack[t][i].key \in survives}
    IN  IF below = {} THEN 0 ELSE CHOOSE i \in below : \A j \in below : j <= i

\* Mutant: an error that reaches the request leaves the key in flight.
GivenUpOnError(t, keep) ==
    {stack[t][i].key : i \in {j \in (keep + 1)..Len(stack[t]) : stack[t][j].role = "lead" /\ keep > 0}}

GivenUp(t, keep) ==
    {stack[t][i].key : i \in {j \in (keep + 1)..Len(stack[t]) : stack[t][j].role = "lead"}}

\* how: "error", or "cancelled" for a CancelledError.
Fails(t, keep, how) ==
    /\ inflight' = [k \in Keys |-> IF k \in GivenUp(t, keep) THEN NoLeader ELSE inflight[k]]
    /\ future' = [w \in Tasks |->
         IF stack[w] # <<>> /\ Top(w).role = "wait" /\ Top(w).key \in GivenUp(t, keep)
           THEN [state |-> how, made |-> 0] ELSE future[w]]
    /\ stack' = [stack EXCEPT ![t] = SubSeq(@, 1, keep)]
    /\ answer' = NoAnswer
    /\ UNCHANGED <<clock, entries>>

LoadFails(t) ==
    /\ Leading(t) /\ Top(t).todo = <<>>
    /\ Fails(t, Survivor(t), "error")
    /\ UNCHANGED cancels

Cancel(t) ==
    /\ stack[t] # <<>> /\ cancels < MaxCancels
    /\ Fails(t, 0, "cancelled")
    /\ cancels' = cancels + 1

\* A waiting task is resumed with the leader's value or exception; no loader
\* survives the leader's CancelledError.
Wake(t) ==
    /\ stack[t] # <<>> /\ Top(t).role = "wait" /\ future[t].state # "pending"
    /\ IF future[t].state = "value"
         THEN /\ Answer(Top(t).key, Top(t).asked, future[t].made)
              /\ stack' = [stack EXCEPT ![t] = Pop(t)]
              /\ UNCHANGED <<clock, entries, inflight, future>>
         ELSE Fails(t, IF future[t].state = "error" THEN Survivor(t) ELSE 0, future[t].state)
    /\ UNCHANGED cancels

CacheTick ==
    /\ clock < MaxTime
    /\ clock' = clock + 1
    /\ answer' = NoAnswer
    /\ UNCHANGED <<entries, inflight, future, stack, cancels>>

TaskStep(t) == LoadNested(t) \/ LoadSucceeds(t) \/ LoadFails(t) \/ Wake(t)

CacheNext ==
    \/ CacheTick
    \/ \E t \in Tasks : (\E key \in Requested : Request(t, key)) \/ TaskStep(t) \/ Cancel(t)

CacheSpec == CacheInit /\ [][CacheNext]_cacheVars

\* The event loop runs every task that can go on, and the transport's timeout
\* ends every upstream call.
CacheFairness == \A t \in Tasks : WF_cacheVars(TaskStep(t))

-----------------------------------------------------------------------------
\* The bookkeeping survives failures and cancellations: every load is that of
\* the registered leader, and a leader has one load per key, so no key is
\* loaded twice at a time; a key in flight is being loaded, nobody waits for a
\* load that no longer runs, and the cache is bounded (get_or_load).
SingleFlight ==
    /\ Len(entries) <= MaxEntries
    /\ \A t \in Tasks : \A i \in DOMAIN stack[t] : stack[t][i].role = "lead" =>
         /\ inflight[stack[t][i].key] = t
         /\ \A j \in DOMAIN stack[t] :
               stack[t][j].role = "lead" /\ stack[t][j].key = stack[t][i].key => j = i
    /\ \A k \in Keys : inflight[k] # NoLeader =>
         \E i \in DOMAIN stack[inflight[k]] :
            stack[inflight[k]][i].key = k /\ stack[inflight[k]][i].role = "lead"
    /\ \A t \in Tasks : stack[t] # <<>> /\ Top(t).role = "wait" /\ future[t].state = "pending"
         => inflight[Top(t).key] # NoLeader

\* What a request is given was loaded within the key's time to live, or after
\* it asked: a hit does not prolong a value's life.
FreshAnswers ==
    answer.key # NoLeader =>
        answer.made >= answer.asked \/ answer.made + Ttl[answer.key] > answer.at

\* Every request ends with a value or an error, whoever it waits for.
Answered == \A t \in Tasks : stack[t] # <<>> ~> stack[t] = <<>>
=============================================================================

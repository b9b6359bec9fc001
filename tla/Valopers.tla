------------------------------ MODULE Valopers ------------------------------
(***************************************************************************)
(* Validator operator profiles: the collection of the whole registry at    *)
(* one pinned height (indexer/valopers_snapshot.py, valopers_source.py,    *)
(* valopers_parser.py), and its publication                                *)
(* (indexer/valopers_persistence.py, scripts/persist_valopers_snapshot.py).*)
(*                                                                         *)
(* The registry is a constant of the height.  An endpoint answers a query  *)
(* at a height with that height's pages; it may fail, and it may ignore    *)
(* the page parameter.  Collectors run concurrently: only the final write  *)
(* is under a lock.                                                        *)
(***************************************************************************)
EXTENDS Integers, Sequences

CONSTANTS
    Registry(_),     \* the profiles [operator, key] at a height, in list order
    PageSize,        \* VALOPERS_PAGE_SIZE
    MaxPages,        \* MAX_VALOPERS_PAGES
    Persisters,      \* processes that run the script
    TopHeight,       \* bound: the latest height of an endpoint
    Nothing

\* Every profile that some registry lists, and the snapshots of them.
Profiles == UNION {{Registry(h)[i] : i \in DOMAIN Registry(h)} : h \in 1..TopHeight}
Snapshots ==
    [height : 1..TopHeight, pages : Nat, profiles : {Registry(h) : h \in 1..TopHeight}]

ASSUME ValopersAssumption ==
    /\ PageSize \in Nat \ {0} /\ MaxPages \in Nat \ {0} /\ TopHeight \in Nat
    /\ \A h \in 1..TopHeight : Registry(h) \in Seq(Profiles)
    /\ Nothing \notin Snapshots

VARIABLES
    snapshot,        \* valopers_snapshot_state and valoper_profiles, or Nothing
    applied,         \* heights whose run reported applied or unchanged
    jobs             \* persister -> its collection in progress

valopersVars == <<snapshot, applied, jobs>>

NoJob == [phase |-> "idle"]

ValopersInit ==
    /\ snapshot = Nothing /\ applied = {}
    /\ jobs = [c \in Persisters |-> NoJob]

PageOf(registry, n) ==
    LET last == IF n * PageSize < Len(registry) THEN n * PageSize ELSE Len(registry)
    IN  SubSeq(registry, (n - 1) * PageSize + 1, last)

PageCount(registry) == (Len(registry) + PageSize - 1) \div PageSize

Operators(list) == {list[i].operator : i \in DOMAIN list}
Unique(list, f(_)) == \A i, j \in DOMAIN list : f(list[i]) = f(list[j]) => i = j
KeyOf(profile) == profile.key

-----------------------------------------------------------------------------

\* select_healthy_rpc, then the latest height of the endpoint is pinned.
Pin(c) ==
    /\ jobs[c].phase = "idle"
    /\ \E h \in 1..TopHeight :
         jobs' = [jobs EXCEPT ![c] =
            [phase |-> "list", height |-> h, page |-> 1, entries |-> <<>>, profiles |-> <<>>]]
    /\ UNCHANGED <<snapshot, applied>>

\* Any RpcError or ValueError, the third transport failure of a fetch among
\* them: the collection is dropped.
CollectFails(c) ==
    /\ jobs[c].phase # "idle"
    /\ jobs' = [jobs EXCEPT ![c] = NoJob]
    /\ UNCHANGED <<snapshot, applied>>

\* The checks of _collect_list and _parse_pager_state on a page with entries.
PageAccepted(j, page, current) ==
    /\ current = j.page
    /\ Len(page) <= PageSize
    /\ Operators(page) \cap Operators(j.entries) = {}

\* The empty registry is accepted at the root only.
ListPage(c) ==
    LET j == jobs[c]
        registry == Registry(j.height)
    IN  /\ j.phase = "list"
        /\ \E served \in {j.page, 1} :
             LET page == PageOf(registry, served)
                 more == served < PageCount(registry)
             IN  /\ registry # <<>> => PageAccepted(j, page, served)
                 /\ ~(more /\ j.page = MaxPages)
                 /\ jobs' = [jobs EXCEPT ![c] = [j EXCEPT
                       !.entries = @ \o page,
                       !.page = IF more THEN @ + 1 ELSE IF registry = <<>> THEN 0 ELSE @,
                       !.phase = IF more THEN "list" ELSE "details"]]
        /\ UNCHANGED <<snapshot, applied>>

\* Mutant: signing identities are not compared.
DetailUnchecked(j, profile) ==
    profile.operator = j.entries[Len(j.profiles) + 1].operator

\* collect_valopers_snapshot: one profile, matching its list entry, no
\* signing identity twice.
DetailAccepted(j, profile) ==
    /\ profile.operator = j.entries[Len(j.profiles) + 1].operator
    /\ Unique(Append(j.profiles, profile), KeyOf)

Detail(c) ==
    LET j == jobs[c] IN
    /\ j.phase = "details"
    /\ Len(j.profiles) < Len(j.entries)
    /\ LET profile == Registry(j.height)[Len(j.profiles) + 1]
       IN  /\ DetailAccepted(j, profile)
           /\ jobs' = [jobs EXCEPT ![c].profiles = Append(@, profile)]
    /\ UNCHANGED <<snapshot, applied>>

\* replace_valopers_snapshot_cursor, in one transaction under the writer
\* lock: a lower height is stale, the same height must be the same snapshot.
NotOlder(j) == snapshot # Nothing => j.height >= snapshot.height

Incoming(j) == [height |-> j.height, pages |-> j.page, profiles |-> j.profiles]

Replace(c) ==
    LET j == jobs[c] IN
    /\ j.phase = "details"
    /\ Len(j.profiles) = Len(j.entries)
    /\ NotOlder(j)
    /\ snapshot # Nothing /\ j.height = snapshot.height => snapshot = Incoming(j)
    /\ snapshot' = Incoming(j)
    /\ applied' = applied \cup {j.height}
    /\ jobs' = [jobs EXCEPT ![c] = NoJob]

ValopersNext ==
    \E c \in Persisters :
        Pin(c) \/ CollectFails(c) \/ ListPage(c) \/ Detail(c) \/ Replace(c)

ValopersSpec == ValopersInit /\ [][ValopersNext]_valopersVars

-----------------------------------------------------------------------------
\* The published profiles are the complete registry of the height they claim,
\* never a prefix of it or a mix of two heights, whatever pages were retried or
\* repeated; no identity signs for two operators; and no run that reported
\* success is undone by a slower one that started earlier.
SnapshotWhole ==
    /\ snapshot # Nothing =>
         /\ snapshot.profiles = Registry(snapshot.height)
         /\ snapshot.pages = PageCount(snapshot.profiles)
         /\ Unique(snapshot.profiles, KeyOf)
    /\ \A h \in applied : snapshot # Nothing /\ snapshot.height >= h
=============================================================================

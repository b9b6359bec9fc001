------------------------ MODULE NetworkDistribution ------------------------
(***************************************************************************)
(* The network distribution collector                                      *)
(* (scripts/collect_network_distribution.py, network_distribution/): peers *)
(* reported by several RPC sources, the shared GeoIP cache, and snapshots  *)
(* with retention.                                                         *)
(***************************************************************************)
EXTENDS Integers, FiniteSets, Sequences

CONSTANTS
    Nodes, Ips,      \* peer node ids and public addresses (Ips \subseteq Nat)
    Sources,         \* number of RPC sources read, in order
    MaxLookups,      \* geo_max_lookups
    SuccessTtl, FailureTtl,
    Retention,       \* snapshot_retention
    Scanners,        \* collector processes of one chain
    MaxClock,        \* bound: wall clock
    NoIp

ASSUME DistributionAssumption ==
    /\ Ips \subseteq Nat /\ IsFiniteSet(Ips) /\ NoIp \notin Ips \cup Scanners
    /\ {Sources, MaxLookups, SuccessTtl, FailureTtl, MaxClock} \subseteq Nat
    /\ Retention \in Nat \ {0}

VARIABLES
    wall,            \* wall clock
    geo,             \* network_distribution_geo_cache: ip -> [success, expires]
    snaps,           \* snapshots, in the order of their ids: at, ips, located;
                     \* by, the process whose transaction inserted it and is
                     \* still open, or NoIp; gone, those whose open transaction
                     \* deleted it; raced, whether its process looked for a
                     \* located snapshot while one was not yet committed
    holder,          \* holder of the chain's advisory lock, or NoIp
    scans            \* scanner -> its state

distributionVars == <<wall, geo, snaps, holder, scans>>

NoScan == [phase |-> "idle"]
NoRecord == [success |-> FALSE, expires |-> 0]

DistributionInit ==
    /\ wall = 1 /\ snaps = <<>> /\ holder = NoIp
    /\ geo = [ip \in Ips |-> NoRecord]
    /\ scans = [c \in Scanners |-> NoScan]

-----------------------------------------------------------------------------
(* collector.py and geo.py                                                 *)

\* A source fails, or reports at most one public address per node id.
SourceResults ==
    {[ok |-> FALSE, peers |-> [n \in Nodes |-> NoIp]]} \cup
    [ok : {TRUE}, peers : [Nodes -> Ips \cup {NoIp}]]

\* collect_distribution: the first source that reports a node decides.
Selected(results) ==
    [n \in Nodes |->
        LET reporting == {i \in DOMAIN results : results[i].ok /\ results[i].peers[n] # NoIp}
        IN  IF reporting = {} THEN NoIp
            ELSE results[CHOOSE i \in reporting : \A k \in reporting : i <= k].peers[n]]

SelectedIps(results) == {Selected(results)[n] : n \in Nodes} \ {NoIp}

Unexpired(ip) == geo[ip].expires > wall

\* resolve_geo: the lowest missing addresses, at most MaxLookups of them.
Lookups(ips) ==
    LET missing == {ip \in ips : ~Unexpired(ip)}
    IN  {ip \in missing : Cardinality({o \in missing : o < ip}) < MaxLookups}

Record(success) ==
    [success |-> success, expires |-> wall + IF success THEN SuccessTtl ELSE FailureTtl]

-----------------------------------------------------------------------------
(* persistence.py                                                          *)

\* Defect: the last answer wins.
CacheOverwrite(ip, record, now) == record

\* save_geo_cache, one row: a failure never replaces a success that is still
\* valid.  The statement's now() is the start of its transaction.
CacheWrite(ip, record, now) ==
    IF record.success \/ ~geo[ip].success \/ geo[ip].expires <= now
      THEN record ELSE geo[ip]

Nth(ids, k) == CHOOSE i \in ids : Cardinality({j \in ids : j < i}) = k - 1
Sub(s, ids) == [k \in 1..Cardinality(ids) |-> s[Nth(ids, k)]]

\* save_snapshot: insert, and delete all but the newest by scanned_at, then
\* id, of the rows the transaction sees.
Seen(s, c) == {i \in DOMAIN s : s[i].by \in {NoIp, c}}
Newer(s, i, j) == s[i].at > s[j].at \/ (s[i].at = s[j].at /\ i > j)
Surplus(s, c) ==
    {i \in Seen(s, c) : Cardinality({j \in Seen(s, c) : Newer(s, j, i)}) >= Retention}

Inserted(s, c, row) ==
    LET t == Append(s, row)
    IN  [i \in DOMAIN t |-> [t[i] EXCEPT !.gone =
            IF i \in Surplus(t, c) THEN t[i].gone \cup {c} ELSE t[i].gone]]

\* The end of a transaction that may have saved a snapshot.
Committed(s, c) ==
    LET t == Sub(s, {i \in DOMAIN s : c \notin s[i].gone})
    IN  [i \in DOMAIN t |-> [t[i] EXCEPT !.by = IF t[i].by = c THEN NoIp ELSE t[i].by]]

RolledBack(s, c) ==
    LET t == Sub(s, {i \in DOMAIN s : s[i].by # c})
    IN  [i \in DOMAIN t |-> [t[i] EXCEPT !.gone = t[i].gone \ {c}]]

\* has_geolocated_snapshot
Geolocated(s) == \E i \in DOMAIN s : s[i].by = NoIp /\ s[i].located > 0
PendingLocated(s) == \E i \in DOMAIN s : s[i].by # NoIp /\ s[i].located > 0

\* Addresses, and not one of them located.
Bare(result) == result.ips > 0 /\ result.located = 0

-----------------------------------------------------------------------------
(* collect_network_distribution.py, run                                    *)

ScanLockFree(c) == holder = NoIp

StartScan(c) ==
    /\ scans[c].phase = "idle"
    /\ ScanLockFree(c)
    /\ holder' = c
    /\ scans' = [scans EXCEPT ![c] = [phase |-> "locked", began |-> wall]]
    /\ UNCHANGED <<wall, geo, snaps>>

\* Peers of every source, then the lookups; all sources failing ends the run
\* (EndScan).  scanned_at is taken here.
CollectPeers(c) ==
    /\ scans[c].phase = "locked"
    /\ \E results \in [1..Sources -> SourceResults] :
         /\ \E i \in 1..Sources : results[i].ok
         /\ LET ips == SelectedIps(results) IN
            \E found \in SUBSET Lookups(ips) :
              scans' = [scans EXCEPT ![c] =
                 [phase   |-> "collected", began |-> scans[c].began,
                  updates |-> [ip \in Lookups(ips) |-> Record(ip \in found)],
                  result  |-> [at |-> wall, ips |-> Cardinality(ips),
                     located |-> Cardinality(found \cup
                                   {ip \in ips : Unexpired(ip) /\ geo[ip].success})]]]
    /\ UNCHANGED <<wall, geo, snaps, holder>>

\* Commits if there was anything to save, so that no transaction is open.
SaveCache(c) ==
    /\ scans[c].phase = "collected"
    /\ LET updates == scans[c].updates IN
       /\ geo' = [ip \in Ips |-> IF ip \in DOMAIN updates
                                   THEN CacheWrite(ip, updates[ip], scans[c].began)
                                   ELSE geo[ip]]
       /\ scans' = [scans EXCEPT ![c] =
            [phase |-> "cached", open |-> updates = <<>>, result |-> scans[c].result]]
    /\ UNCHANGED <<wall, snaps, holder>>

\* geo_unavailable: nothing located while a located snapshot is there, which
\* is asked only if nothing was located, and asking opens a transaction.
CheckGeolocated(c) ==
    /\ scans[c].phase = "cached"
    /\ LET bare == Bare(scans[c].result) IN
       scans' = [scans EXCEPT ![c] =
          IF bare /\ Geolocated(snaps)
          THEN [phase |-> "end"]
          ELSE [phase |-> "save", open |-> scans[c].open \/ bare,
                raced |-> bare /\ PendingLocated(snaps), result |-> scans[c].result]]
    /\ UNCHANGED <<wall, geo, snaps, holder>>

SaveSnapshot(c) ==
    /\ scans[c].phase = "save"
    /\ snaps' = Inserted(snaps, c,
                   [at |-> scans[c].result.at, ips |-> scans[c].result.ips,
                    located |-> scans[c].result.located,
                    raced |-> scans[c].raced, by |-> c, gone |-> {}])
    /\ scans' = [scans EXCEPT ![c] = [phase |-> "saved", open |-> scans[c].open]]
    /\ UNCHANGED <<wall, geo, holder>>

\* The delete waits for another transaction that deletes the same row.
Deleted(c) == \A i \in DOMAIN snaps : c \in snaps[i].gone => snaps[i].gone = {c}

\* connection.transaction() commits only if it began the transaction ...
CommitSnapshot(c) ==
    /\ scans[c].phase = "saved" /\ ~scans[c].open
    /\ Deleted(c)
    /\ snaps' = Committed(snaps, c)
    /\ scans' = [scans EXCEPT ![c] = [phase |-> "end"]]
    /\ UNCHANGED <<wall, geo, holder>>

\* ... otherwise it was a savepoint, and the lock is released first ...
ReleaseLock(c) ==
    /\ \/ scans[c].phase = "saved" /\ scans[c].open /\ Deleted(c)
       \/ scans[c].phase = "end"
    /\ holder' = NoIp
    /\ scans' = [scans EXCEPT ![c] = [phase |-> "released"]]
    /\ UNCHANGED <<wall, geo, snaps>>

\* ... and the connection's context manager commits.
CloseConnection(c) ==
    /\ scans[c].phase = "released"
    /\ snaps' = Committed(snaps, c)
    /\ scans' = [scans EXCEPT ![c] = NoScan]
    /\ UNCHANGED <<wall, geo, holder>>

\* The run ends in an error or by dying at any step: the session's
\* transaction is rolled back and its lock released.
EndScan(c) ==
    /\ scans[c].phase # "idle"
    /\ snaps' = RolledBack(snaps, c)
    /\ scans' = [scans EXCEPT ![c] = NoScan]
    /\ holder' = IF holder = c THEN NoIp ELSE holder
    /\ UNCHANGED <<wall, geo>>

\* The collector of another chain saves a lookup in the shared cache.
OtherChain(ip) ==
    /\ \E success \in BOOLEAN, began \in 0..wall :
          geo' = [geo EXCEPT ![ip] = CacheWrite(ip, Record(success), began)]
    /\ UNCHANGED <<wall, snaps, holder, scans>>

WallTick ==
    /\ wall < MaxClock
    /\ wall' = wall + 1
    /\ UNCHANGED <<geo, snaps, holder, scans>>

DistributionNext ==
    \/ WallTick \/ \E ip \in Ips : OtherChain(ip)
    \/ \E c \in Scanners :
          \/ StartScan(c) \/ CollectPeers(c) \/ SaveCache(c) \/ CheckGeolocated(c)
          \/ SaveSnapshot(c) \/ CommitSnapshot(c) \/ ReleaseLock(c)
          \/ CloseConnection(c) \/ EndScan(c)

DistributionSpec == DistributionInit /\ [][DistributionNext]_distributionVars

-----------------------------------------------------------------------------
\* A valid successful lookup is not replaced by a failed one, and a snapshot
\* that located nothing comes after a located one only if the located one was
\* written but not yet committed when its collector looked.
NothingDegraded ==
    /\ \A ip \in Ips : geo[ip].success /\ Unexpired(ip) => geo'[ip].success
    /\ \A j \in DOMAIN snaps' : Bare(snaps'[j]) /\ ~snaps'[j].raced =>
          \A i \in 1..(j - 1) : snaps'[i].located = 0

\* A GeoIP outage degrades what is shown in no other way than through a
\* commit that comes after the release of the lock, although another
\* collector may have saved a lookup after this one looked (save_geo_cache,
\* run, save_snapshot).
GeoNotDegraded == [][NothingDegraded]_distributionVars
=============================================================================

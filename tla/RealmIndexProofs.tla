------------------------- MODULE RealmIndexProofs -------------------------
(***************************************************************************)
(* The Realm call index, the activity range and the published catalog, for *)
(* every chain, every set of paths and every history of the tools; and     *)
(* the counters, as numbers of calls of the covered heights.               *)
(***************************************************************************)
EXTENDS RealmIndex, DataLemmas

\* The steps of each process's transaction.
Steps(p) ==
    CASE p \in Writers -> {"idle", "state", "cover", "commit"}
      [] p = Rebuild -> {"idle", "reset", "commit"}
      [] OTHER -> {"idle", "check", "commit"}

\* A transaction has these fields; the locks that it still needs are not in
\* question here.
TxShape(t) ==
    DOMAIN t = {"pc", "need", "height", "parsed", "advance", "from", "read", "reset"}

RowShape(r) == DOMAIN r = {"exists", "count", "counted", "visible"}

\* A writer holds the call index lock, so that the heights it was given are
\* still the next one, or a stored one.
WriterSound(p, t) ==
    p \in Writers /\ t.pc # "idle" =>
       /\ callLock = p
       /\ t.height \in Nat \ {0} /\ t.parsed \in BOOLEAN
       /\ IF p = Live THEN t.height = Checkpoint + 1 ELSE t.height \in DOMAIN stored

\* With the indexer stopped during rebuilds, the live writer advances the
\* activity range that it finds, and the bounded tool never does.
AdvanceSound(p, t) ==
    /\ t.advance \in BOOLEAN /\ (t.advance => cat.observed # NoRow)
    /\ operator # "overlaps" =>
          /\ p = Live /\ t.pc = "commit" /\ cat.through # NoRow => t.advance
          /\ p = Tool => t.advance = FALSE

\* A rebuild runs on a published catalog.
RebuildSound(p, t) ==
    p = Rebuild /\ t.pc # "idle" =>
       t.height \in Nat /\ t.from \in Nat /\ cat.observed # NoRow

\* A refresh that has passed its check is newer than what is published.
RefreshSound(p, t) ==
    p = Refresh /\ t.pc # "idle" =>
       /\ t.height \in DOMAIN VisibleAt
       /\ t.pc = "commit" => t.height > cat.observed

TxOK(p, t) ==
    /\ TxShape(t) /\ t.pc \in Steps(p)
    /\ WriterSound(p, t) /\ AdvanceSound(p, t) /\ RebuildSound(p, t) /\ RefreshSound(p, t)

TxsOK ==
    /\ tx = [p \in Processes |-> tx[p]]
    /\ \A p \in Processes : TxOK(p, tx[p])

\* The runbook: a rebuild is alone, and ends at the checkpoint.
RebuildAlone ==
    operator # "overlaps" /\ tx[Rebuild].pc # "idle" =>
       tx[Live].pc = "idle" /\ tx[Tool].pc = "idle" /\ tx[Rebuild].height = Checkpoint

StoreOK == Checkpoint \in Nat /\ stored \in [1..Checkpoint -> BOOLEAN]

CallsOK ==
    /\ calls \in [from : Nat, through : Nat]
    /\ calls.through # NoRow => calls.from >= 1

\* The activity range is of a published catalog and, when the runbook is
\* followed, ends at the checkpoint.
CatOK ==
    /\ cat \in [observed : DOMAIN VisibleAt \cup {NoRow}, from : Nat, through : Nat]
    /\ cat.through # NoRow => cat.observed # NoRow
    /\ operator # "overlaps" /\ cat.through # NoRow => cat.through = Checkpoint

RowsOK ==
    /\ rows = [p \in PathSet |-> rows[p]] /\ \A p \in PathSet : RowShape(rows[p])
    /\ cat.observed # NoRow => {p \in PathSet : rows[p].visible} = VisibleAt[cat.observed]

\* CallIndexExact says what the tables hold; that it stays so rests on the
\* lock, and on heights that are still right when they are written.
RealmInv ==
    /\ TxsOK /\ RebuildAlone /\ StoreOK /\ CallsOK /\ CatOK /\ RowsOK
    /\ CallIndexExact /\ callLock \in Writers \cup {None}

-----------------------------------------------------------------------------
(* The transactions                                                        *)

\* The checkpoint of a store without gaps.
LEMMA CheckpointIs ==
    ASSUME NEW n \in Nat
    PROVE  Max({NoRow} \cup (1..n)) = n
<1>1. n \in {NoRow} \cup (1..n) /\ \A y \in {NoRow} \cup (1..n) : n >= y
  BY DEF NoRow
<1>2. \E x \in {NoRow} \cup (1..n) : \A y \in {NoRow} \cup (1..n) : x >= y
  BY <1>1
<1>3. /\ Max({NoRow} \cup (1..n)) \in {NoRow} \cup (1..n)
      /\ \A y \in {NoRow} \cup (1..n) : Max({NoRow} \cup (1..n)) >= y
  BY <1>2, Zenon DEF Max
<1>4. Max({NoRow} \cup (1..n)) >= n /\ Max({NoRow} \cup (1..n)) \in {NoRow} \cup (1..n)
  BY <1>1, <1>3
<1> QED BY <1>4 DEF NoRow

\* The processes are four, and only two of them write heights.
LEMMA Names ==
    /\ Processes = {"live", "range", "rebuild", "refresh"} /\ Writers = {"live", "range"}
    /\ Live = "live" /\ Tool = "range" /\ Rebuild = "rebuild" /\ Refresh = "refresh"
    /\ None \notin Processes
  BY RealmAssumption DEF Processes, Writers, Live, Tool, Rebuild, Refresh

\* No transaction.
LEMMA IdleTx ==
    /\ TxShape(Idle) /\ Idle.pc = "idle" /\ Idle.advance = FALSE
    /\ \A p \in Processes : "idle" \in Steps(p) /\ AdvanceSound(p, Idle)
<1>1. TxShape(Idle) /\ Idle.pc = "idle" /\ Idle.advance = FALSE
  BY DEF TxShape, Idle
<1>2. \A p \in Processes : "idle" \in Steps(p)
  BY Names DEF Steps
<1>3. \A p \in Processes : AdvanceSound(p, Idle)
  BY <1>1 DEF AdvanceSound
<1> QED BY <1>1, <1>2, <1>3

\* A process goes on with its own transaction, and the tables stay.
LEMMA TxMoves ==
    ASSUME RealmInv, NEW p \in Processes, NEW r, tx' = [tx EXCEPT ![p] = r],
           UNCHANGED <<stored, calls, index, rows, cat, operator>>,
           callLock' \in Writers \cup {None},
           \A q \in Writers \ {p} : tx[q].pc # "idle" => callLock' = q,
           TxShape(r), r.pc \in Steps(p),
           p \in Writers /\ r.pc # "idle" =>
              /\ callLock' = p
              /\ r.height \in Nat \ {0} /\ r.parsed \in BOOLEAN
              /\ IF p = Live THEN r.height = Checkpoint + 1 ELSE r.height \in DOMAIN stored
              /\ operator # "overlaps" => tx[Rebuild].pc = "idle",
           AdvanceSound(p, r), RebuildSound(p, r), RefreshSound(p, r),
           p = Rebuild /\ r.pc # "idle" /\ operator # "overlaps" =>
              tx[Live].pc = "idle" /\ tx[Tool].pc = "idle" /\ r.height = Checkpoint
    PROVE  RealmInv'
<1>1. /\ TxsOK /\ RebuildAlone /\ StoreOK /\ CallsOK /\ CatOK /\ RowsOK /\ CallIndexExact
  BY DEF RealmInv
<1>2. Checkpoint' = Checkpoint
  BY DEF Checkpoint
<1>3. StoreOK' /\ CallsOK' /\ CatOK' /\ RowsOK' /\ CallIndexExact'
  BY <1>1, <1>2 DEF StoreOK, CallsOK, CatOK, RowsOK, CallIndexExact
<1>4. tx'[p] = r /\ \A q \in Processes \ {p} : tx'[q] = tx[q]
  BY <1>1 DEF TxsOK
<1>5. tx' = [q \in Processes |-> tx'[q]]
  BY <1>1 DEF TxsOK
<1>6. ASSUME NEW q \in Processes PROVE TxOK(q, tx[q])' 
  <2>1. CASE q = p
    <3>1. TxShape(r) /\ r.pc \in Steps(p)
      OBVIOUS
    <3>2. WriterSound(p, r)'
      BY <1>2, <1>4 DEF WriterSound
    <3>3. AdvanceSound(p, r)' /\ RebuildSound(p, r)' /\ RefreshSound(p, r)'
      BY <1>4 DEF AdvanceSound, RebuildSound, RefreshSound
    <3> QED BY <1>4, <2>1, <3>1, <3>2, <3>3 DEF TxOK, WriterSound, AdvanceSound, RebuildSound, RefreshSound
  <2>2. CASE q # p
    <3>1. tx'[q] = tx[q] /\ TxOK(q, tx[q])
      BY <1>1, <1>4, <2>2 DEF TxsOK
    <3>2. PICK t : t = tx[q]
      OBVIOUS
    <3>3. TxOK(q, t) /\ tx'[q] = t
      BY <3>1, <3>2
    <3>4. q \in Writers /\ t.pc # "idle" => callLock' = q
      BY <2>2, <3>2
    <3>5. /\ TxShape(t) /\ t.pc \in Steps(q) /\ WriterSound(q, t) /\ AdvanceSound(q, t)
          /\ RebuildSound(q, t) /\ RefreshSound(q, t)
      BY <3>3 DEF TxOK
    <3>6. WriterSound(q, t)'
      BY <1>2, <3>4, <3>5 DEF WriterSound
    <3>7. AdvanceSound(q, t)' /\ RebuildSound(q, t)' /\ RefreshSound(q, t)'
      BY <3>5 DEF AdvanceSound, RebuildSound, RefreshSound
    <3> QED BY <3>3, <3>5, <3>6, <3>7 DEF TxOK, WriterSound, AdvanceSound, RebuildSound, RefreshSound
  <2> QED BY <2>1, <2>2
<1>7. TxsOK'
  BY <1>5, <1>6 DEF TxsOK
<1>8. RebuildAlone'
  <2>1. CASE p = Rebuild
    BY <1>2, <1>4, <2>1, Names DEF RebuildAlone
  <2>2. CASE p \in Writers
    <3>1. tx'[Rebuild] = tx[Rebuild]
      BY <1>4, <2>2, Names
    <3>2. CASE r.pc = "idle"
      BY <1>1, <1>2, <1>4, <2>2, <3>1, <3>2, Names DEF RebuildAlone
    <3>3. CASE r.pc # "idle"
      BY <2>2, <3>1, <3>3 DEF RebuildAlone
    <3> QED BY <3>2, <3>3
  <2>3. CASE p = Refresh
    BY <1>1, <1>2, <1>4, <2>3, Names DEF RebuildAlone
  <2> QED BY <2>1, <2>2, <2>3, Names
<1> QED BY <1>1, <1>3, <1>7, <1>8 DEF RealmInv

\* A transaction goes on with the heights it was given.
LEMMA GoesOn ==
    ASSUME RealmInv, NEW p \in Processes, NEW r, tx' = [tx EXCEPT ![p] = r],
           TxShape(r), r.pc \in Steps(p), r.pc # "idle" => tx[p].pc # "idle",
           r.height = tx[p].height, r.parsed = tx[p].parsed, r.from = tx[p].from,
           UNCHANGED <<stored, calls, index, rows, cat, callLock, operator>>,
           AdvanceSound(p, r), p = Refresh /\ r.pc = "commit" => r.height > cat.observed
    PROVE  RealmInv'
<1>1. TxsOK /\ RebuildAlone /\ callLock \in Writers \cup {None}
  BY DEF RealmInv
<1>2. TxOK(p, tx[p]) /\ \A q \in Processes : TxOK(q, tx[q])
  BY <1>1 DEF TxsOK
<1>3. \A q \in Writers \ {p} : tx[q].pc # "idle" => callLock' = q
  <2>1. \A q \in Writers : q \in Processes
    BY Names
  <2> QED BY <1>2, <2>1 DEF TxOK, WriterSound
<1>4. p \in Writers /\ r.pc # "idle" =>
         /\ callLock' = p
         /\ r.height \in Nat \ {0} /\ r.parsed \in BOOLEAN
         /\ IF p = Live THEN r.height = Checkpoint + 1 ELSE r.height \in DOMAIN stored
         /\ operator # "overlaps" => tx[Rebuild].pc = "idle"
  <2>1. p \in Writers => p = Live \/ p = Tool
    BY Names
  <2> QED BY <1>1, <1>2, <2>1 DEF TxOK, WriterSound, RebuildAlone
<1>5. RebuildSound(p, r) /\ RefreshSound(p, r)
  BY <1>2 DEF TxOK, RebuildSound, RefreshSound
<1>6. p = Rebuild /\ r.pc # "idle" /\ operator # "overlaps" =>
         tx[Live].pc = "idle" /\ tx[Tool].pc = "idle" /\ r.height = Checkpoint
  BY <1>1 DEF RebuildAlone
<1> QED BY <1>1, <1>3, <1>4, <1>5, <1>6, TxMoves

\* A transaction ends and leaves the tables as they are.
LEMMA EndInv ==
    ASSUME RealmInv, NEW p \in Processes, End(p),
           UNCHANGED <<stored, calls, index, rows, cat>>
    PROVE  RealmInv'
<1>1. /\ tx' = [tx EXCEPT ![p] = Idle] /\ operator' = operator
      /\ callLock' = IF callLock = p THEN None ELSE callLock
  BY DEF End
<1>2. TxsOK /\ callLock \in Writers \cup {None} /\ callLock' \in Writers \cup {None}
  BY <1>1 DEF RealmInv
<1>3. \A q \in Writers \ {p} : tx[q].pc # "idle" => callLock' = q
  <2>1. \A q \in Writers : q \in Processes
    BY Names
  <2>2. \A q \in Writers \ {p} : tx[q].pc # "idle" => callLock = q
    BY <1>2, <2>1 DEF TxsOK, TxOK, WriterSound
  <2> QED BY <1>1, <2>2
<1>4. AdvanceSound(p, Idle) /\ RebuildSound(p, Idle) /\ RefreshSound(p, Idle)
  BY IdleTx DEF AdvanceSound, RebuildSound, RefreshSound
<1> QED BY <1>1, <1>2, <1>3, <1>4, IdleTx, TxMoves

\* The transaction of a process.
LEMMA TxOf ==
    ASSUME RealmInv, NEW p \in Processes
    PROVE  /\ TxShape(tx[p]) /\ tx[p].pc \in Steps(p) /\ WriterSound(p, tx[p])
           /\ AdvanceSound(p, tx[p]) /\ RebuildSound(p, tx[p]) /\ RefreshSound(p, tx[p])
  BY DEF RealmInv, TxsOK, TxOK

\* A transaction that goes on at pc: its fields.
LEMMA TxGoto ==
    ASSUME NEW t, TxShape(t), NEW pc, NEW need, NEW r, r = Goto(t, pc, need)
    PROVE  /\ TxShape(r) /\ r.pc = pc /\ r.height = t.height /\ r.parsed = t.parsed
           /\ r.from = t.from /\ r.advance = t.advance
           /\ r.need = need /\ r.read = t.read /\ r.reset = t.reset
  BY DEF Goto, TxShape

\* A transaction that begins.
LEMMA TxOpens ==
    ASSUME NEW pc, NEW h, NEW need, NEW r, r = Open(pc, h, need)
    PROVE  TxShape(r) /\ r.pc = pc /\ r.height = h /\ r.advance = Idle.advance
<1>1. PICK i : i = Idle /\ TxShape(i)
  BY IdleTx
<1>2. r = [i EXCEPT !.pc = pc, !.height = h, !.need = need]
  BY <1>1 DEF Open
<1> QED BY <1>1, <1>2 DEF TxShape

\* A transaction with one of its other fields changed.
WithNeed(t, v) == [t EXCEPT !.need = v]
WithReset(t, v) == [t EXCEPT !.reset = v]
WithRange(t, v, x) == [t EXCEPT !.from = v, !.read = x]
WithParsed(t, v) == [t EXCEPT !.parsed = v]
WithAdvance(t, v) == [t EXCEPT !.advance = v]

\* The fields of a transaction that has new locks to take.
LEMMA TxNeeds ==
    ASSUME NEW t, TxShape(t), NEW v, NEW r, r = WithNeed(t, v)
    PROVE  /\ TxShape(r) /\ r.pc = t.pc /\ r.height = t.height /\ r.parsed = t.parsed
           /\ r.from = t.from /\ r.advance = t.advance
           /\ r.need = v /\ r.read = t.read /\ r.reset = t.reset
  BY DEF TxShape, WithNeed

\* The same, of the rows that a rebuild has reset.
LEMMA TxResets ==
    ASSUME NEW t, TxShape(t), NEW v, NEW r, r = WithReset(t, v)
    PROVE  /\ TxShape(r) /\ r.pc = t.pc /\ r.height = t.height /\ r.parsed = t.parsed
           /\ r.from = t.from /\ r.advance = t.advance
           /\ r.need = t.need /\ r.read = t.read /\ r.reset = v
  BY DEF TxShape, WithReset

\* The same, of the range that a rebuild has read.
LEMMA TxReads ==
    ASSUME NEW t, TxShape(t), NEW v, NEW x, NEW r, r = WithRange(t, v, x)
    PROVE  /\ TxShape(r) /\ r.pc = t.pc /\ r.height = t.height
           /\ r.from = v /\ r.advance = t.advance /\ r.read = x
  BY DEF TxShape, WithRange

\* The same, of whether the summaries are parsed.
LEMMA TxParses ==
    ASSUME NEW t, TxShape(t), NEW v, NEW r, r = WithParsed(t, v)
    PROVE  /\ TxShape(r) /\ r.pc = t.pc /\ r.height = t.height
           /\ r.parsed = v /\ r.advance = t.advance
  BY DEF TxShape, WithParsed

\* The same, of whether the activity range advances.
LEMMA TxAdvances ==
    ASSUME NEW t, TxShape(t), NEW v, NEW r, r = WithAdvance(t, v)
    PROVE  /\ TxShape(r) /\ r.pc = t.pc /\ r.height = t.height /\ r.parsed = t.parsed
           /\ r.from = t.from /\ r.advance = v
  BY DEF TxShape, WithAdvance

\* What a transaction found stays, when its step is not the live commit.
LEMMA AdvanceStays ==
    ASSUME NEW p, NEW t, AdvanceSound(p, t), NEW r, r.advance = t.advance,
           r.pc = t.pc \/ p # Live \/ r.pc # "commit" \/ cat.through = NoRow
    PROVE  AdvanceSound(p, r)
  BY DEF AdvanceSound

\* A row is locked.
LEMMA LockInv ==
    ASSUME RealmInv, NEW p \in Processes, NEW r \in Rows, Lock(p, r)
    PROVE  RealmInv'
<1>1. PICK n : tx' = [tx EXCEPT ![p].need = n]
  BY DEF Lock
<1>2. tx' = [tx EXCEPT ![p] = WithNeed(tx[p], n)]
  BY <1>1, Zenon DEF WithNeed
<1>3. PICK t, g : t = tx[p] /\ g = WithNeed(t, n)
  OBVIOUS
<1>4. TxShape(t) /\ tx' = [tx EXCEPT ![p] = g]
  BY <1>2, <1>3, TxOf
<1>5. /\ TxShape(g) /\ g.pc = t.pc /\ g.height = t.height /\ g.parsed = t.parsed
      /\ g.from = t.from /\ g.advance = t.advance
  BY <1>3, <1>4, TxNeeds
<1>6. UNCHANGED <<stored, calls, index, rows, cat, callLock, operator>>
  BY DEF Lock, tables
<1>7. AdvanceSound(p, g)
  BY <1>3, <1>5, TxOf, AdvanceStays
<1>8. p = Refresh /\ g.pc = "commit" => g.height > cat.observed
  BY <1>3, <1>5, TxOf DEF RefreshSound
<1>9. g.pc \in Steps(p)
  BY <1>3, <1>5, TxOf
<1> QED BY <1>3, <1>4, <1>5, <1>6, <1>7, <1>8, <1>9, GoesOn

\* write_height begins, under the call index lock.
LEMMA BeginInv ==
    ASSUME RealmInv, NEW w \in Writers, NEW h \in Heights, NEW parsed \in BOOLEAN,
           Begin(w, h, parsed)
    PROVE  RealmInv'
<1>1. PICK n : tx' = [tx EXCEPT ![w] = WithParsed(Open("state", h, n), parsed)]
  BY DEF Begin, WithParsed
<1>2. PICK r : /\ r = WithParsed(Open("state", h, n), parsed)
               /\ TxShape(r) /\ r.pc = "state" /\ r.height = h /\ r.parsed = parsed
               /\ r.advance = Idle.advance
  <2>1. PICK u : u = Open("state", h, n)
    OBVIOUS
  <2>2. TxShape(u) /\ u.pc = "state" /\ u.height = h /\ u.advance = Idle.advance
    BY <2>1, TxOpens
  <2>3. PICK r : r = WithParsed(u, parsed)
    OBVIOUS
  <2>4. /\ TxShape(r) /\ r.pc = "state" /\ r.height = h /\ r.parsed = parsed
        /\ r.advance = Idle.advance
    BY <2>2, <2>3, TxParses
  <2> QED BY <2>1, <2>3, <2>4
<1>3. /\ tx[w].pc = "idle" /\ callLock = None /\ callLock' = w
      /\ IF w = Live THEN h = Checkpoint + 1 ELSE h \in DOMAIN stored
      /\ operator # "overlaps" => tx[Rebuild].pc = "idle"
      /\ UNCHANGED <<stored, calls, index, rows, cat, operator>>
  BY DEF Begin, tables
<1>4. w \in Processes /\ \A q \in Writers : q \in Processes /\ q # None
  BY Names
<1>5. \A q \in Writers \ {w} : tx[q].pc # "idle" => callLock' = q
  BY <1>3, <1>4, TxOf DEF WriterSound
<1>6. "state" \in Steps(w)
  BY Names DEF Steps
<1>7. h \in Nat \ {0}
  BY RealmAssumption DEF Heights
<1>8. w # Rebuild /\ w # Refresh
  BY Names
<1>9. AdvanceSound(w, r)
  BY <1>2, <1>4, IdleTx, AdvanceStays
<1>10. RebuildSound(w, r) /\ RefreshSound(w, r)
  BY <1>8 DEF RebuildSound, RefreshSound
<1> QED BY <1>1, <1>2, <1>3, <1>4, <1>5, <1>6, <1>7, <1>8, <1>9, <1>10, TxMoves

\* The call range is advanced, or refuses; the state row may be wanted next.
LEMMA LockStateInv ==
    ASSUME RealmInv, NEW w \in Writers, LockState(w)
    PROVE  RealmInv'
<1>1. w \in Processes /\ Steps(w) = {"idle", "state", "cover", "commit"} /\ w # Refresh
  BY Names DEF Steps
<1>2. UNCHANGED <<stored, calls, index, rows, cat>> /\ tx[w].pc = "state"
  BY DEF LockState, tables, At
<1>3. CASE CallGap(tx[w].height)
  <2>1. End(w)
    BY <1>3 DEF LockState
  <2> QED BY <1>1, <1>2, <2>1, EndInv
<1>4. CASE ~CallGap(tx[w].height) /\ cat.observed = NoRow
  <2>1. PICK g : g = Goto(tx[w], "commit", <<>>)
    OBVIOUS
  <2>2. tx' = [tx EXCEPT ![w] = g] /\ UNCHANGED <<callLock, operator>>
    BY <1>4, <2>1 DEF LockState
  <2>3. /\ TxShape(g) /\ g.pc = "commit" /\ g.height = tx[w].height /\ g.parsed = tx[w].parsed
        /\ g.from = tx[w].from /\ g.advance = tx[w].advance
    BY <1>1, <2>1, TxOf, TxGoto
  <2>4. cat.through = NoRow
    BY <1>4 DEF RealmInv, CatOK
  <2>5. AdvanceSound(w, g)
    BY <1>1, <2>3, <2>4, TxOf, AdvanceStays
  <2> QED BY <1>1, <1>2, <2>2, <2>3, <2>5, GoesOn
<1>5. CASE ~CallGap(tx[w].height) /\ cat.observed # NoRow
  <2>1. PICK n, g : n = <<{State}>> /\ g = Goto(tx[w], "cover", n)
    OBVIOUS
  <2>2. tx' = [tx EXCEPT ![w] = g] /\ UNCHANGED <<callLock, operator>>
    BY <1>5, <2>1 DEF LockState
  <2>3. /\ TxShape(g) /\ g.pc = "cover" /\ g.height = tx[w].height /\ g.parsed = tx[w].parsed
        /\ g.from = tx[w].from /\ g.advance = tx[w].advance
    BY <1>1, <2>1, TxOf, TxGoto
  <2>4. AdvanceSound(w, g)
    BY <1>1, <2>3, TxOf, AdvanceStays
  <2> QED BY <1>1, <1>2, <2>2, <2>3, <2>4, GoesOn
<1> QED BY <1>3, <1>4, <1>5

\* The activity range is found to end just before the height, or not.
LEMMA CoverInv ==
    ASSUME RealmInv, NEW w \in Writers, Cover(w)
    PROVE  RealmInv'
<1>1. /\ w \in Processes /\ Steps(w) = {"idle", "state", "cover", "commit"} /\ w # Refresh
      /\ Tool # Live
  BY Names DEF Steps
<1>2. UNCHANGED <<stored, calls, index, rows, cat>> /\ tx[w].pc = "cover"
  BY DEF Cover, tables, At
<1>3. CASE End(w)
  BY <1>1, <1>2, <1>3, EndInv
<1>4. CASE /\ tx' = [tx EXCEPT ![w] = [Goto(tx[w], "commit", <<>>) EXCEPT
                                         !.advance = AdvancesActivity(tx[w].height)]]
           /\ UNCHANGED <<callLock, operator>>
  <2>1. PICK z \in BOOLEAN : z = AdvancesActivity(tx[w].height)
    BY DEF AdvancesActivity
  <2>2. PICK u : u = Goto(tx[w], "commit", <<>>)
    OBVIOUS
  <2>3. PICK g : g = WithAdvance(u, z)
    OBVIOUS
  <2>4. tx' = [tx EXCEPT ![w] = g]
    BY <1>4, <2>1, <2>2, <2>3 DEF WithAdvance
  <2>5. /\ TxShape(g) /\ g.pc = "commit" /\ g.height = tx[w].height /\ g.parsed = tx[w].parsed
        /\ g.from = tx[w].from /\ g.advance = z
    <3>1. /\ TxShape(u) /\ u.pc = "commit" /\ u.height = tx[w].height /\ u.parsed = tx[w].parsed
          /\ u.from = tx[w].from
      BY <1>1, <2>2, TxOf, TxGoto
    <3> QED BY <2>3, <3>1, TxAdvances
  <2>6. /\ Checkpoint \in Nat /\ DOMAIN stored = 1..Checkpoint /\ cat.through \in Nat
        /\ cat.through # NoRow => cat.observed # NoRow
        /\ operator # "overlaps" /\ cat.through # NoRow => cat.through = Checkpoint
    BY DEF RealmInv, StoreOK, CatOK
  <2>7. /\ tx[w].height \in Nat
        /\ IF w = Live THEN tx[w].height = Checkpoint + 1 ELSE tx[w].height \in DOMAIN stored
    BY <1>1, <1>2, TxOf DEF WriterSound
  <2>8. z => cat.through # NoRow
    BY <2>1 DEF AdvancesActivity
  <2>9. operator # "overlaps" /\ w = Live /\ cat.through # NoRow => z
    BY <2>1, <2>6, <2>7 DEF AdvancesActivity
  <2>10. operator # "overlaps" /\ w = Tool => ~z
    <3> SUFFICES ASSUME operator # "overlaps", w = Tool, z PROVE FALSE
      OBVIOUS
    <3>1. tx[w].height = Checkpoint + 1
      BY <2>1, <2>6, <2>8 DEF AdvancesActivity
    <3>2. tx[w].height \in 1..Checkpoint
      BY <1>1, <2>6, <2>7
    <3> QED BY <2>6, <3>1, <3>2
  <2>11. AdvanceSound(w, g)
    BY <2>5, <2>6, <2>8, <2>9, <2>10 DEF AdvanceSound
  <2> QED BY <1>1, <1>2, <1>4, <2>4, <2>5, <2>11, GoesOn
<1> QED BY <1>3, <1>4 DEF Cover

\* An activity rebuild reads the summaries.
LEMMA RebuildReadInv ==
    ASSUME RealmInv, NEW from \in Heights, NEW through \in Heights, RebuildRead(from, through)
    PROVE  RealmInv'
<1>1. PICK R, u :
         /\ u = Open("reset", through, <<>>)
         /\ tx' = [tx EXCEPT ![Rebuild] = WithRange(u, from, R)]
  BY DEF RebuildRead, WithRange
<1>2. PICK r : /\ r = WithRange(u, from, R)
               /\ TxShape(r) /\ r.pc = "reset" /\ r.height = through /\ r.from = from
               /\ r.advance = Idle.advance
  <2>1. TxShape(u) /\ u.pc = "reset" /\ u.height = through /\ u.advance = Idle.advance
    BY <1>1, TxOpens
  <2>2. PICK r : r = WithRange(u, from, R)
    OBVIOUS
  <2>3. /\ TxShape(r) /\ r.pc = "reset" /\ r.height = through /\ r.from = from
        /\ r.advance = Idle.advance
    BY <2>1, <2>2, TxReads
  <2> QED BY <2>2, <2>3
<1>3. /\ cat.observed # NoRow
      /\ operator # "overlaps" =>
            tx[Live].pc = "idle" /\ tx[Tool].pc = "idle" /\ through = Checkpoint
      /\ UNCHANGED <<stored, calls, index, rows, cat, callLock, operator>>
  BY DEF RebuildRead, tables
<1>4. /\ Rebuild \in Processes /\ Rebuild \notin Writers /\ Rebuild # Refresh /\ Rebuild # Live
      /\ Rebuild # Tool /\ "reset" \in Steps(Rebuild) /\ \A q \in Writers : q \in Processes
  BY Names DEF Steps
<1>5. \A q \in Writers \ {Rebuild} : tx[q].pc # "idle" => callLock' = q
  BY <1>3, <1>4, TxOf DEF WriterSound
<1>6. from \in Nat /\ through \in Nat
  BY RealmAssumption DEF Heights
<1>7. AdvanceSound(Rebuild, r) /\ RebuildSound(Rebuild, r) /\ RefreshSound(Rebuild, r)
  <2>1. AdvanceSound(Rebuild, r)
    BY <1>2, <1>4, IdleTx, AdvanceStays
  <2> QED BY <1>2, <1>3, <1>4, <1>6, <2>1 DEF RebuildSound, RefreshSound
<1>8. callLock' \in Writers \cup {None}
  BY <1>3 DEF RealmInv
<1> QED BY <1>1, <1>2, <1>3, <1>4, <1>5, <1>7, <1>8, TxMoves

\* Its UPDATE finds the rows that exist.
LEMMA RebuildResetInv == RealmInv /\ RebuildReset => RealmInv'
<1> SUFFICES ASSUME RealmInv, RebuildReset PROVE RealmInv'
  OBVIOUS
<1>1. PICK z, n, u :
         u = Goto(tx[Rebuild], "commit", n) /\ tx' = [tx EXCEPT ![Rebuild] = WithReset(u, z)]
  BY DEF RebuildReset, WithReset
<1>2. /\ Rebuild \in Processes /\ Rebuild # Refresh /\ Rebuild # Live /\ "commit" \in Steps(Rebuild)
  BY Names DEF Steps
<1>3. PICK g : g = WithReset(u, z)
  OBVIOUS
<1>4. /\ TxShape(u) /\ u.pc = "commit" /\ u.height = tx[Rebuild].height
      /\ u.parsed = tx[Rebuild].parsed /\ u.from = tx[Rebuild].from
      /\ u.advance = tx[Rebuild].advance
  BY <1>1, <1>2, TxOf, TxGoto
<1>5. /\ TxShape(g) /\ g.pc = "commit" /\ g.height = tx[Rebuild].height
      /\ g.parsed = tx[Rebuild].parsed /\ g.from = tx[Rebuild].from
      /\ g.advance = tx[Rebuild].advance /\ tx' = [tx EXCEPT ![Rebuild] = g]
  BY <1>1, <1>3, <1>4, TxResets
<1>6. AdvanceSound(Rebuild, g)
  BY <1>2, <1>5, TxOf, AdvanceStays
<1>7. UNCHANGED <<stored, calls, index, rows, cat, callLock, operator>> /\ tx[Rebuild].pc # "idle"
  BY DEF RebuildReset, tables, At
<1> QED BY <1>2, <1>5, <1>6, <1>7, GoesOn

\* A catalog refresh begins.
LEMMA RefreshBeginInv ==
    ASSUME RealmInv, NEW h \in DOMAIN VisibleAt, RefreshBegin(h)
    PROVE  RealmInv'
<1>1. PICK n : tx' = [tx EXCEPT ![Refresh] = Open("check", h, n)]
  BY DEF RefreshBegin
<1>2. PICK r : /\ r = Open("check", h, n)
               /\ TxShape(r) /\ r.pc = "check" /\ r.height = h /\ r.advance = Idle.advance
  BY TxOpens
<1>3. UNCHANGED <<stored, calls, index, rows, cat, callLock, operator>>
  BY DEF RefreshBegin, tables
<1>4. /\ Refresh \in Processes /\ Refresh \notin Writers /\ Refresh # Rebuild /\ Refresh # Live
      /\ Refresh # Tool /\ "check" \in Steps(Refresh) /\ \A q \in Writers : q \in Processes
  BY Names DEF Steps
<1>5. \A q \in Writers \ {Refresh} : tx[q].pc # "idle" => callLock' = q
  BY <1>3, <1>4, TxOf DEF WriterSound
<1>6. AdvanceSound(Refresh, r) /\ RebuildSound(Refresh, r) /\ RefreshSound(Refresh, r)
  <2>1. AdvanceSound(Refresh, r)
    BY <1>2, <1>4, IdleTx, AdvanceStays
  <2> QED BY <1>2, <1>4, <2>1 DEF RebuildSound, RefreshSound
<1>7. callLock' \in Writers \cup {None}
  BY <1>3 DEF RealmInv
<1> QED BY <1>1, <1>2, <1>3, <1>4, <1>5, <1>6, <1>7, TxMoves

\* It goes on only with a height above the published one.
LEMMA RefreshCheckInv == RealmInv /\ RefreshCheck => RealmInv'
<1> SUFFICES ASSUME RealmInv, RefreshCheck PROVE RealmInv'
  OBVIOUS
<1>1. /\ Refresh \in Processes /\ Refresh # Rebuild /\ Refresh # Live /\ "commit" \in Steps(Refresh)
  BY Names DEF Steps
<1>2. UNCHANGED <<stored, calls, index, rows, cat>> /\ tx[Refresh].pc = "check"
  BY DEF RefreshCheck, tables, At
<1>3. CASE Outdated(tx[Refresh].height)
  <2>1. End(Refresh)
    BY <1>3 DEF RefreshCheck
  <2> QED BY <1>1, <1>2, <2>1, EndInv
<1>4. CASE ~Outdated(tx[Refresh].height)
  <2>1. PICK n : /\ tx' = [tx EXCEPT ![Refresh] = Goto(tx[Refresh], "commit", n)]
                 /\ UNCHANGED <<callLock, operator>>
    BY <1>4 DEF RefreshCheck
  <2>2. TxShape(tx[Refresh])
    BY <1>1, TxOf
  <2>3. PICK g : g = Goto(tx[Refresh], "commit", n)
    OBVIOUS
  <2>4. /\ TxShape(g) /\ g.pc = "commit" /\ g.height = tx[Refresh].height
        /\ g.parsed = tx[Refresh].parsed /\ g.from = tx[Refresh].from
        /\ g.advance = tx[Refresh].advance /\ tx' = [tx EXCEPT ![Refresh] = g]
    BY <2>1, <2>2, <2>3, TxGoto
  <2>5. AdvanceSound(Refresh, g)
    BY <1>1, <2>4, TxOf, AdvanceStays
  <2>6. tx[Refresh].height > cat.observed
    <3>1. tx[Refresh].height \in DOMAIN VisibleAt /\ cat.observed \in DOMAIN VisibleAt \cup {NoRow}
      BY <1>1, <1>2, TxOf DEF RefreshSound, RealmInv, CatOK
    <3>2. tx[Refresh].height \in Nat /\ cat.observed \in Nat
      BY <3>1, RealmAssumption DEF Heights, NoRow
    <3> QED BY <1>4, <3>2 DEF Outdated
  <2> QED BY <1>1, <1>2, <2>1, <2>4, <2>5, <2>6, GoesOn
<1> QED BY <1>3, <1>4

-----------------------------------------------------------------------------
(* The commits                                                             *)

\* When one transaction commits, the others are still right about what they
\* have found: the writers by the call index lock, the rebuild by the runbook.
LEMMA OthersStay ==
    ASSUME RealmInv, NEW p \in Processes, tx' = [tx EXCEPT ![p] = Idle], operator' = operator,
           cat.observed # NoRow => cat'.observed # NoRow,
           p # Refresh => cat'.observed = cat.observed,
           \A q \in Writers \ {p} :
              tx[q].pc # "idle" => UNCHANGED <<callLock, stored>>,
           p # Live /\ tx[Live].pc = "commit" /\ operator # "overlaps" =>
              cat'.through = cat.through
    PROVE  TxsOK'
<1>1. TxsOK
  BY DEF RealmInv
<1>2. tx'[p] = Idle /\ \A q \in Processes \ {p} : tx'[q] = tx[q]
  BY <1>1 DEF TxsOK
<1>3. tx' = [q \in Processes |-> tx'[q]]
  BY <1>1 DEF TxsOK
<1>4. ASSUME NEW q \in Processes PROVE TxOK(q, tx[q])'
  <2>1. CASE q = p
    <3>1. PICK i : i = Idle
      OBVIOUS
    <3>2. TxShape(i) /\ i.pc = "idle" /\ i.advance = FALSE /\ i.pc \in Steps(q)
      BY <3>1, IdleTx
    <3>3. WriterSound(q, i)' /\ RebuildSound(q, i)' /\ RefreshSound(q, i)'
      BY <3>2 DEF WriterSound, RebuildSound, RefreshSound
    <3>4. AdvanceSound(q, i)'
      BY <3>2 DEF AdvanceSound
    <3>5. tx'[q] = i
      BY <1>2, <2>1, <3>1
    <3> QED BY <3>2, <3>3, <3>4, <3>5 DEF TxOK, WriterSound, AdvanceSound, RebuildSound, RefreshSound
  <2>2. CASE q # p
    <3>1. PICK t : t = tx[q]
      OBVIOUS
    <3>2. tx'[q] = t
      BY <1>2, <2>2, <3>1
    <3>3. /\ TxShape(t) /\ t.pc \in Steps(q) /\ WriterSound(q, t) /\ AdvanceSound(q, t)
          /\ RebuildSound(q, t) /\ RefreshSound(q, t)
      BY <3>1, TxOf
    <3>4. WriterSound(q, t)'
      <4>1. CASE q \in Writers /\ t.pc # "idle"
        <5>1. callLock' = callLock /\ stored' = stored /\ Checkpoint' = Checkpoint
          BY <2>2, <3>1, <4>1 DEF Checkpoint
        <5> QED BY <3>3, <5>1 DEF WriterSound
      <4>2. CASE ~(q \in Writers /\ t.pc # "idle")
        BY <4>2 DEF WriterSound
      <4> QED BY <4>1, <4>2
    <3>5. AdvanceSound(q, t)'
      <4>1. t.advance \in BOOLEAN /\ (t.advance => cat'.observed # NoRow)
        BY <3>3 DEF AdvanceSound
      <4>2. operator' # "overlaps" /\ q = Live /\ t.pc = "commit" /\ cat'.through # NoRow => t.advance
        BY <2>2, <3>1, <3>3 DEF AdvanceSound
      <4>3. operator' # "overlaps" /\ q = Tool => t.advance = FALSE
        BY <3>3 DEF AdvanceSound
      <4> QED BY <4>1, <4>2, <4>3 DEF AdvanceSound
    <3>6. RebuildSound(q, t)' /\ RefreshSound(q, t)'
      BY <2>2, <3>3 DEF RebuildSound, RefreshSound
    <3> QED BY <3>2, <3>3, <3>4, <3>5, <3>6 DEF TxOK, WriterSound, AdvanceSound, RebuildSound, RefreshSound
  <2> QED BY <2>1, <2>2
<1> QED BY <1>3, <1>4 DEF TxsOK

\* Counting calls leaves a row's visibility.
LEMMA CountedRow ==
    ASSUME NEW r, RowShape(r), NEW p, NEW H, NEW c, c = Counted(r, p, H)
    PROVE  RowShape(c) /\ c.visible = r.visible
  BY DEF RowShape, Counted

\* Resetting it too.
LEMMA ResetRowKeeps ==
    ASSUME NEW r, RowShape(r), NEW c, c = ResetRow(r)
    PROVE  RowShape(c) /\ c.visible = r.visible
  BY DEF RowShape, ResetRow

\* A commit that leaves the visibility of every row leaves what is published.
LEMMA StaysPublished ==
    ASSUME RealmInv, cat'.observed = cat.observed, rows' = [p \in PathSet |-> rows'[p]],
           \A p \in PathSet : RowShape(rows'[p]) /\ rows'[p].visible = rows[p].visible
    PROVE  RowsOK'
<1>1. cat.observed # NoRow => {p \in PathSet : rows[p].visible} = VisibleAt[cat.observed]
  BY DEF RealmInv, RowsOK
<1>2. {p \in PathSet : rows'[p].visible} = {p \in PathSet : rows[p].visible}
  OBVIOUS
<1> QED BY <1>1, <1>2 DEF RowsOK, RowShape

\* While a writer is in its transaction the other one is not.
LEMMA OneWriter ==
    ASSUME RealmInv, NEW w \in Writers, tx[w].pc # "idle"
    PROVE  callLock = w /\ \A q \in Writers \ {w} : tx[q].pc = "idle"
<1>1. \A q \in Writers : q \in Processes
  BY Names
<1>2. \A q \in Writers : tx[q].pc # "idle" => callLock = q
  BY <1>1, TxOf DEF WriterSound
<1> QED BY <1>2

\* write_height stores the next height, or a stored one again.
LEMMA StoresHeight ==
    ASSUME RealmInv, NEW w \in Writers, CommitWrite(w)
    PROVE  /\ tx[w].height \in Nat \ {0} /\ tx[w].parsed \in BOOLEAN
           /\ IF w = Live THEN tx[w].height = Checkpoint + 1 /\ Checkpoint' = Checkpoint + 1
                          ELSE tx[w].height \in 1..Checkpoint /\ Checkpoint' = Checkpoint
           /\ stored' \in [1..Checkpoint' -> BOOLEAN]
           /\ \A h \in 1..Checkpoint' :
                 stored'[h] = IF h = tx[w].height THEN tx[w].parsed ELSE stored[h]
<1>1. w \in Processes /\ tx[w].pc # "idle"
  BY Names DEF CommitWrite, At
<1>2. PICK H, b : H = tx[w].height /\ b = tx[w].parsed
  OBVIOUS
<1>3. /\ H \in Nat \ {0} /\ b \in BOOLEAN
      /\ IF w = Live THEN H = Checkpoint + 1 ELSE H \in DOMAIN stored
  BY <1>1, <1>2, TxOf DEF WriterSound
<1>4. PICK n : n = Checkpoint
  OBVIOUS
<1>5. n \in Nat /\ stored \in [1..n -> BOOLEAN]
  BY <1>4 DEF RealmInv, StoreOK
<1>6. stored' = [h \in DOMAIN stored \cup {H} |-> IF h = H THEN b ELSE stored[h]]
  BY <1>2 DEF CommitWrite
<1>7. PICK m \in Nat : m = IF w = Live THEN n + 1 ELSE n
  BY <1>5
<1>8. DOMAIN stored \cup {H} = 1..m
  BY <1>3, <1>4, <1>5, <1>7
<1>9. stored' = [h \in 1..m |-> IF h = H THEN b ELSE stored[h]]
  BY <1>6, <1>8
<1>10. Checkpoint' = Max({NoRow} \cup DOMAIN stored')
  BY DEF Checkpoint
<1>11. Checkpoint' = m
  BY <1>9, <1>10, CheckpointIs
<1>12. \A h \in 1..m : h # H => h \in 1..n
  BY <1>3, <1>4, <1>5, <1>7
<1>13. stored' \in [1..m -> BOOLEAN]
  BY <1>3, <1>5, <1>9, <1>12
<1>14. \A h \in 1..m : stored'[h] = IF h = H THEN b ELSE stored[h]
  BY <1>9
<1>15. w # Live => H \in 1..n
  BY <1>3, <1>5
<1> QED BY <1>2, <1>3, <1>4, <1>7, <1>11, <1>13, <1>14, <1>15

\* The call rows of the height and the range that covers them.
LEMMA CommitCalls ==
    ASSUME RealmInv, NEW w \in Writers, CommitWrite(w)
    PROVE  CallsOK' /\ CallIndexExact'
<1>1. PICK H, b, n, m : H = tx[w].height /\ b = tx[w].parsed /\ n = Checkpoint /\ m = Checkpoint'
  OBVIOUS
<1>2. /\ H \in Nat \ {0} /\ b \in BOOLEAN
      /\ \/ w = Live /\ H = n + 1 /\ m = n + 1
         \/ H \in 1..n /\ m = n
      /\ \A h \in 1..m : stored'[h] = IF h = H THEN b ELSE stored[h]
  BY <1>1, StoresHeight
<1>3. /\ n \in Nat /\ calls \in [from : Nat, through : Nat]
      /\ calls.through # 0 => calls.from >= 1 /\ calls.through = n
      /\ calls.through # 0 => \A h \in calls.from..calls.through : h \in index <=> stored[h]
  BY <1>1 DEF RealmInv, StoreOK, CallsOK, CallIndexExact, NoRow
<1>4. calls' = AdvancedCalls(H) /\ index' = IF b THEN index \cup {H} ELSE index \ {H}
  BY <1>1 DEF CommitWrite, Replaced
<1>5. \A h : h \in index' <=> IF h = H THEN b ELSE h \in index
  BY <1>2, <1>4
<1>6. CASE calls.through = 0 /\ n # 0
  <2>1. calls' = calls
    BY <1>1, <1>4, <1>6 DEF AdvancedCalls, NoRow
  <2> QED BY <1>3, <1>6, <2>1 DEF CallsOK, CallIndexExact, NoRow
<1>7. CASE calls.through = 0 /\ n = 0
  <2>1. calls' = [from |-> H, through |-> H] /\ H = 1 /\ m = 1
    BY <1>1, <1>2, <1>4, <1>7 DEF AdvancedCalls, NoRow
  <2>2. CallsOK'
    BY <1>2, <2>1 DEF CallsOK
  <2>3. calls'.from = 1 /\ calls'.through = 1 /\ Checkpoint' = 1
    BY <1>1, <2>1
  <2>4. \A h \in 1..1 : h \in index' <=> stored'[h]
    BY <1>2, <1>5, <2>1
  <2> QED BY <2>2, <2>3, <2>4 DEF CallIndexExact
<1>8. CASE calls.through # 0
  <2>1. calls.through = n /\ calls.from \in Nat /\ calls.from >= 1
    BY <1>3, <1>8
  <2>2. calls'.from = calls.from /\ calls'.through = m /\ calls' \in [from : Nat, through : Nat]
    <3>1. CASE H > n
      <4>1. H > calls.through /\ m = H
        BY <1>2, <1>3, <2>1, <3>1
      <4>2. calls' = [calls EXCEPT !.through = H]
        BY <1>4, <1>8, <4>1, Zenon DEF AdvancedCalls, NoRow
      <4> QED BY <1>2, <1>3, <4>1, <4>2
    <3>2. CASE ~(H > n)
      <4>1. calls' = calls /\ m = n
        BY <1>2, <1>3, <1>4, <1>8, <2>1, <3>2 DEF AdvancedCalls, NoRow
      <4> QED BY <1>3, <2>1, <4>1
    <3> QED BY <3>1, <3>2
  <2>3. ASSUME NEW h \in calls.from..m PROVE h \in index' <=> stored'[h]
    <3>1. h \in 1..m
      BY <1>2, <1>3, <2>1
    <3>2. CASE h = H
      BY <1>2, <1>5, <3>1, <3>2
    <3>3. CASE h # H
      <4>1. h \in calls.from..calls.through
        BY <1>2, <1>3, <2>1, <3>3
      <4> QED BY <1>2, <1>3, <1>5, <1>8, <3>1, <3>3, <4>1
    <3> QED BY <3>2, <3>3
  <2>4. CallsOK'
    BY <2>1, <2>2 DEF CallsOK
  <2> QED BY <1>1, <2>2, <2>3, <2>4 DEF CallIndexExact
<1> QED BY <1>6, <1>7, <1>8

\* write_height commits.
LEMMA CommitWriteInv ==
    ASSUME RealmInv, NEW w \in Writers, CommitWrite(w)
    PROVE  RealmInv'
<1>1. w \in Processes /\ tx[w].pc # "idle" /\ tx[w].pc = "commit" /\ w # Refresh
  BY Names DEF CommitWrite, At
<1>2. callLock = w /\ \A q \in Writers \ {w} : tx[q].pc = "idle"
  BY <1>1, OneWriter
<1>3. /\ tx' = [tx EXCEPT ![w] = Idle] /\ operator' = operator /\ callLock' = None
  BY <1>2 DEF CommitWrite, End
<1>4. PICK a, H : a = tx[w].advance /\ H = tx[w].height
  OBVIOUS
<1>5. cat' = IF a THEN [cat EXCEPT !.through = H] ELSE cat
  BY <1>4 DEF CommitWrite
<1>6. /\ cat \in [observed : DOMAIN VisibleAt \cup {NoRow}, from : Nat, through : Nat]
      /\ cat.through # NoRow => cat.observed # NoRow
      /\ operator # "overlaps" /\ cat.through # NoRow => cat.through = Checkpoint
  BY DEF RealmInv, CatOK
<1>7. H \in Nat \ {0} /\ a \in BOOLEAN /\ (a => cat.observed # NoRow)
  BY <1>1, <1>4, TxOf, StoresHeight DEF AdvanceSound
<1>8. /\ cat' \in [observed : DOMAIN VisibleAt \cup {NoRow}, from : Nat, through : Nat]
      /\ cat'.observed = cat.observed /\ cat'.through = IF a THEN H ELSE cat.through
  BY <1>5, <1>6, <1>7
<1>9. operator # "overlaps" =>
        /\ w = Live /\ cat.through # NoRow => a
        /\ w = Tool => ~a
  BY <1>1, <1>4, TxOf DEF AdvanceSound
<1>10. operator # "overlaps" /\ cat'.through # NoRow => cat'.through = Checkpoint'
  <2>1. CASE w = Live
    BY <1>4, <1>8, <1>9, <2>1, StoresHeight
  <2>2. CASE w # Live
    <3>1. w = Tool /\ Checkpoint' = Checkpoint
      BY <2>2, Names, StoresHeight
    <3> QED BY <1>6, <1>8, <1>9, <3>1
  <2> QED BY <2>1, <2>2
<1>11. CatOK'
  BY <1>3, <1>6, <1>7, <1>8, <1>10 DEF CatOK
<1>12. TxsOK'
  <2>1. w # Live => tx[Live].pc # "commit"
    BY <1>2, Names
  <2> QED BY <1>1, <1>2, <1>3, <1>8, <2>1, OthersStay
<1>13. RebuildAlone'
  <2>1. operator # "overlaps" => tx[Rebuild].pc = "idle"
    BY <1>1, Names DEF RealmInv, RebuildAlone
  <2>2. tx'[Rebuild] = tx[Rebuild]
    BY <1>3, Names DEF RealmInv, TxsOK
  <2> QED BY <1>3, <2>1, <2>2 DEF RebuildAlone
<1>14. StoreOK'
  <2>1. Checkpoint' \in Nat
    BY StoresHeight DEF RealmInv, StoreOK
  <2> QED BY <2>1, StoresHeight DEF StoreOK
<1>15. RowsOK'
  <2>1. PICK S : rows' = [p \in PathSet |-> Counted(rows[p], p, S)]
    BY DEF CommitWrite
  <2>2. \A p \in PathSet : RowShape(rows[p])
    BY DEF RealmInv, RowsOK
  <2>3. \A p \in PathSet : RowShape(rows'[p]) /\ rows'[p].visible = rows[p].visible
    BY <2>1, <2>2, CountedRow
  <2>4. rows' = [p \in PathSet |-> rows'[p]]
    BY <2>1
  <2> QED BY <1>8, <2>3, <2>4, StaysPublished
<1>16. callLock' \in Writers \cup {None}
  BY <1>3
<1> QED BY <1>11, <1>12, <1>13, <1>14, <1>15, <1>16, CommitCalls DEF RealmInv

\* rebuild_realm_call_index.py: the union of two ranges without a gap.
LEMMA RebuildCallsInv ==
    ASSUME RealmInv, NEW from \in Heights, NEW through \in Heights, RebuildCalls(from, through)
    PROVE  RealmInv'
<1>1. PICK n : n = Checkpoint
  OBVIOUS
<1>2. /\ n \in Nat /\ stored \in [1..n -> BOOLEAN] /\ calls \in [from : Nat, through : Nat]
      /\ calls.through # 0 => calls.from >= 1 /\ calls.through = n
      /\ calls.through # 0 => \A h \in calls.from..calls.through : h \in index <=> stored[h]
  BY <1>1 DEF RealmInv, StoreOK, CallsOK, CallIndexExact, NoRow
<1>3. from \in Nat /\ through \in Nat /\ from >= 1
  BY RealmAssumption DEF Heights
<1>4. UNCHANGED <<stored, rows, cat, locks, callLock, tx, operator>> /\ Checkpoint' = Checkpoint
  BY DEF RebuildCalls, Checkpoint
<1>5. /\ from <= through
      /\ calls.through # 0 => through >= calls.from - 1 /\ from <= calls.through + 1
      /\ index' = (index \ (from..through)) \cup {h \in from..through : stored[h]}
  BY DEF RebuildCalls, NoRow
<1>6. PICK f, g : /\ calls' = [from |-> f, through |-> g] /\ g = n
                  /\ IF calls.through = 0 THEN f = from /\ g = through
                     ELSE f = Least(from, calls.from) /\ g = Most(through, calls.through)
  <2>1. CASE calls.through = 0
    BY <1>1, <2>1 DEF RebuildCalls, CoversCheckpoint, NoRow
  <2>2. CASE calls.through # 0
    BY <1>1, <2>2 DEF RebuildCalls, CoversCheckpoint, NoRow
  <2> QED BY <2>1, <2>2
<1>7. f \in Nat /\ g \in Nat /\ f >= 1
  BY <1>2, <1>3, <1>6 DEF Least
<1>8. CallsOK'
  BY <1>6, <1>7 DEF CallsOK
<1>9. ASSUME NEW h \in f..g PROVE h \in index' <=> stored[h]
  <2>1. CASE h \in from..through
    BY <1>5, <2>1
  <2>2. CASE h \notin from..through
    <3>1. calls.through # 0 /\ h \in calls.from..calls.through
      BY <1>2, <1>3, <1>5, <1>6, <1>7, <2>2 DEF Least, Most
    <3> QED BY <1>2, <1>5, <2>2, <3>1
  <2> QED BY <2>1, <2>2
<1>10. CallIndexExact'
  BY <1>1, <1>4, <1>6, <1>9 DEF CallIndexExact
<1>11. TxsOK' /\ RebuildAlone' /\ StoreOK' /\ CatOK' /\ RowsOK' /\ callLock' \in Writers \cup {None}
  <2>1. TxsOK /\ RebuildAlone /\ StoreOK /\ CatOK /\ RowsOK /\ callLock \in Writers \cup {None}
    BY DEF RealmInv
  <2>2. TxsOK'
    BY <1>4, <2>1 DEF TxsOK, TxOK, WriterSound, AdvanceSound, RebuildSound, RefreshSound
  <2> QED BY <1>4, <2>1, <2>2 DEF RebuildAlone, StoreOK, CatOK, RowsOK
<1> QED BY <1>8, <1>10, <1>11 DEF RealmInv

\* rebuild_realm_activity.py commits.
LEMMA RebuildCommitInv == RealmInv /\ RebuildCommit => RealmInv'
<1> SUFFICES ASSUME RealmInv, RebuildCommit PROVE RealmInv'
  OBVIOUS
<1>1. /\ Rebuild \in Processes /\ Rebuild \notin Writers /\ Rebuild # Refresh /\ Rebuild # Live
      /\ None \notin Processes /\ Live \in Writers /\ Live \in Processes /\ Tool \in Processes
      /\ Rebuild # None
  BY Names
<1>2. tx[Rebuild].pc # "idle"
  BY DEF RebuildCommit, At
<1>3. /\ tx' = [tx EXCEPT ![Rebuild] = Idle] /\ operator' = operator /\ callLock' = callLock
      /\ UNCHANGED <<stored, calls, index>> /\ callLock \in Writers \cup {None}
  BY <1>1 DEF RebuildCommit, End, RealmInv
<1>4. Checkpoint' = Checkpoint
  BY <1>3 DEF Checkpoint
<1>5. PICK f, h : f = tx[Rebuild].from /\ h = tx[Rebuild].height
  OBVIOUS
<1>6. /\ f \in Nat /\ h \in Nat /\ cat.observed # NoRow
      /\ operator # "overlaps" => tx[Live].pc = "idle" /\ h = Checkpoint
  BY <1>1, <1>2, <1>5, TxOf DEF RebuildSound, RealmInv, RebuildAlone
<1>7. cat \in [observed : DOMAIN VisibleAt \cup {NoRow}, from : Nat, through : Nat]
  BY DEF RealmInv, CatOK
<1>8. cat' = [cat EXCEPT !.from = f, !.through = h]
  BY <1>5 DEF RebuildCommit
<1>9. /\ cat' \in [observed : DOMAIN VisibleAt \cup {NoRow}, from : Nat, through : Nat]
      /\ cat'.observed = cat.observed /\ cat'.through = h
  BY <1>6, <1>7, <1>8
<1>10. CatOK'
  BY <1>3, <1>4, <1>6, <1>9 DEF CatOK
<1>11. TxsOK'
  BY <1>1, <1>3, <1>6, <1>9, OthersStay
<1>12. RebuildAlone'
  <2>1. tx'[Rebuild] = Idle
    BY <1>1, <1>3 DEF RealmInv, TxsOK
  <2> QED BY <2>1, IdleTx DEF RebuildAlone
<1>13. RowsOK'
  <2>1. PICK z, S :
           rows' = [p \in PathSet |->
                      Counted(IF p \in z THEN ResetRow(rows[p]) ELSE rows[p], p, S)]
    BY DEF RebuildCommit
  <2>2. \A p \in PathSet : RowShape(rows[p])
    BY DEF RealmInv, RowsOK
  <2>3. ASSUME NEW p \in PathSet
        PROVE  RowShape(rows'[p]) /\ rows'[p].visible = rows[p].visible
    <3>1. PICK r : r = IF p \in z THEN ResetRow(rows[p]) ELSE rows[p]
      OBVIOUS
    <3>2. RowShape(r) /\ r.visible = rows[p].visible
      BY <2>2, <3>1, ResetRowKeeps
    <3>3. rows'[p] = Counted(r, p, S)
      BY <2>1, <3>1
    <3> QED BY <3>2, <3>3, CountedRow
  <2>4. rows' = [p \in PathSet |-> rows'[p]]
    BY <2>1
  <2> QED BY <1>9, <2>3, <2>4, StaysPublished
<1>14. StoreOK' /\ CallsOK' /\ CallIndexExact'
  BY <1>3, <1>4 DEF RealmInv, StoreOK, CallsOK, CallIndexExact
<1> QED BY <1>3, <1>10, <1>11, <1>12, <1>13, <1>14 DEF RealmInv

\* The row of a path in a published refresh.
PublishedRow(r, v) == [r EXCEPT !.exists = @ \/ v, !.visible = v]

\* It is visible when the path is listed.
LEMMA PublishedShape ==
    ASSUME NEW r, RowShape(r), NEW v, NEW c, c = PublishedRow(r, v)
    PROVE  RowShape(c) /\ c.visible = v
  BY DEF RowShape, PublishedRow

\* refresh_realm_catalog.py commits a height above the published one.
LEMMA RefreshCommitInv ==
    RealmInv /\ RefreshCommit =>
       /\ RealmInv' /\ cat'.observed > cat.observed
       /\ {p \in PathSet : rows'[p].visible} = VisibleAt[cat'.observed]
<1> SUFFICES ASSUME RealmInv, RefreshCommit
             PROVE  /\ RealmInv' /\ cat'.observed > cat.observed
                    /\ {p \in PathSet : rows'[p].visible} = VisibleAt[cat'.observed]
  OBVIOUS
<1>1. /\ Refresh \in Processes /\ Refresh \notin Writers /\ Refresh # Rebuild /\ Refresh # Live
      /\ Refresh # Tool /\ Live \in Writers /\ Refresh # None
  BY Names
<1>2. tx[Refresh].pc = "commit"
  BY DEF RefreshCommit, At
<1>3. /\ tx' = [tx EXCEPT ![Refresh] = Idle] /\ operator' = operator /\ callLock' = callLock
      /\ UNCHANGED <<stored, calls, index>> /\ callLock \in Writers \cup {None}
  BY <1>1 DEF RefreshCommit, End, RealmInv
<1>4. Checkpoint' = Checkpoint
  BY <1>3 DEF Checkpoint
<1>5. PICK h : h = tx[Refresh].height
  OBVIOUS
<1>6. h \in DOMAIN VisibleAt /\ h > cat.observed
  BY <1>1, <1>2, <1>5, TxOf DEF RefreshSound
<1>7. h \in Nat /\ h # NoRow /\ VisibleAt[h] \subseteq PathSet
  BY <1>6, RealmAssumption DEF Heights, NoRow
<1>8. /\ cat \in [observed : DOMAIN VisibleAt \cup {NoRow}, from : Nat, through : Nat]
      /\ operator # "overlaps" /\ cat.through # NoRow => cat.through = Checkpoint
  BY DEF RealmInv, CatOK
<1>9. cat' = [cat EXCEPT !.observed = h]
  BY <1>5 DEF RefreshCommit
<1>10. /\ cat' \in [observed : DOMAIN VisibleAt \cup {NoRow}, from : Nat, through : Nat]
       /\ cat'.observed = h /\ cat'.through = cat.through
  BY <1>6, <1>8, <1>9
<1>11. CatOK'
  BY <1>3, <1>4, <1>7, <1>8, <1>10 DEF CatOK
<1>12. TxsOK'
  BY <1>1, <1>3, <1>7, <1>10, OthersStay
<1>13. RebuildAlone'
  <2>1. \A q \in {Rebuild, Live, Tool} : tx'[q] = tx[q]
    BY <1>1, <1>3, Names DEF RealmInv, TxsOK
  <2> QED BY <1>3, <1>4, <2>1 DEF RealmInv, RebuildAlone
<1>14. RowsOK' /\ {p \in PathSet : rows'[p].visible} = VisibleAt[h]
  <2>1. rows' = [p \in PathSet |-> PublishedRow(rows[p], p \in VisibleAt[h])]
    BY <1>5 DEF RefreshCommit, PublishedRow
  <2>2. \A p \in PathSet : RowShape(rows[p])
    BY DEF RealmInv, RowsOK
  <2>3. ASSUME NEW p \in PathSet PROVE RowShape(rows'[p]) /\ rows'[p].visible = (p \in VisibleAt[h])
    <3>1. PICK v : v = (p \in VisibleAt[h])
      OBVIOUS
    <3>2. rows'[p] = PublishedRow(rows[p], v)
      BY <2>1, <3>1
    <3> QED BY <2>2, <3>1, <3>2, PublishedShape
  <2>4. rows' = [p \in PathSet |-> rows'[p]]
    BY <2>1
  <2>5. {p \in PathSet : rows'[p].visible} = VisibleAt[h]
    BY <1>7, <2>3
  <2> QED BY <1>10, <2>3, <2>4, <2>5 DEF RowsOK, RowShape
<1>15. StoreOK' /\ CallsOK' /\ CallIndexExact'
  BY <1>3, <1>4 DEF RealmInv, StoreOK, CallsOK, CallIndexExact
<1>16. RealmInv'
  BY <1>3, <1>11, <1>12, <1>13, <1>14, <1>15 DEF RealmInv
<1> QED BY <1>6, <1>10, <1>14, <1>16

-----------------------------------------------------------------------------
(* The theorems                                                            *)

\* The database that the tools find.
LEMMA InitInv == Init => RealmInv
<1> SUFFICES ASSUME Init PROVE RealmInv
  OBVIOUS
<1>1. PICK n \in LegacyHeights : stored \in [1..n -> BOOLEAN]
  BY DEF Init
<1>2. n \in Nat
  BY RealmAssumption
<1>3. Checkpoint = n
  BY <1>1, <1>2, CheckpointIs DEF Checkpoint
<1>4. /\ calls = [from |-> 0, through |-> 0] /\ cat = [observed |-> 0, from |-> 0, through |-> 0]
      /\ rows = [p \in PathSet |-> EmptyRow] /\ callLock = None /\ tx = [p \in Processes |-> Idle]
  BY DEF Init, NoRow
<1>5. StoreOK
  BY <1>1, <1>2, <1>3 DEF StoreOK
<1>6. CallsOK /\ CallIndexExact /\ CatOK
  BY <1>4 DEF CallsOK, CallIndexExact, CatOK, NoRow
<1>7. RowsOK
  <2>1. RowShape(EmptyRow)
    BY DEF EmptyRow, RowShape
  <2>2. \A p \in PathSet : rows[p] = EmptyRow
    BY <1>4
  <2>3. rows = [p \in PathSet |-> rows[p]]
    BY <1>4
  <2> QED BY <1>4, <2>1, <2>2, <2>3 DEF RowsOK, NoRow
<1>8. \A p \in Processes : tx[p] = Idle
  BY <1>4
<1>9. tx = [p \in Processes |-> tx[p]]
  BY <1>4
<1>10. \A p \in Processes : TxOK(p, Idle)
  BY IdleTx DEF TxOK, WriterSound, RebuildSound, RefreshSound
<1>11. TxsOK
  BY <1>8, <1>9, <1>10 DEF TxsOK
<1>12. RebuildAlone
  BY <1>8, IdleTx, Names DEF RebuildAlone
<1> QED BY <1>4, <1>5, <1>6, <1>7, <1>11, <1>12 DEF RealmInv

\* A step that changes none of the variables.
LEMMA StutterInv == RealmInv /\ UNCHANGED vars => RealmInv'
<1> SUFFICES ASSUME RealmInv, UNCHANGED vars PROVE RealmInv'
  OBVIOUS
<1>1. UNCHANGED <<stored, calls, index, rows, cat, callLock, tx, operator>>
  BY DEF vars
<1>2. Checkpoint' = Checkpoint
  BY <1>1 DEF Checkpoint
<1>3. TxsOK'
  BY <1>1, <1>2 DEF RealmInv, TxsOK, TxOK, WriterSound, AdvanceSound, RebuildSound, RefreshSound
<1> QED BY <1>1, <1>2, <1>3
        DEF RealmInv, RebuildAlone, StoreOK, CallsOK, CatOK, RowsOK, CallIndexExact

\* A step other than a refresh's commit leaves the observed height and, while
\* there is one, what is visible.
LEMMA NextInv ==
    ASSUME RealmInv, [Next]_vars
    PROVE  RealmInv' /\ (cat'.observed > cat.observed \/ cat'.observed = cat.observed)
<1>1. CASE UNCHANGED vars
  BY <1>1, StutterInv DEF vars
<1>2. ASSUME NEW p \in Processes, Rollback(p) PROVE RealmInv' /\ cat' = cat
  <2>1. End(p) /\ UNCHANGED <<stored, calls, index, rows, cat>>
    BY <1>2 DEF Rollback, tables
  <2> QED BY <2>1, EndInv
<1>3. ASSUME NEW p \in Processes, NEW r \in Rows, Lock(p, r) PROVE RealmInv' /\ cat' = cat
  BY <1>3, LockInv DEF Lock, tables
<1>4. ASSUME NEW w \in Writers, NEW h \in Heights, NEW parsed \in BOOLEAN, Begin(w, h, parsed)
      PROVE  RealmInv' /\ cat' = cat
  BY <1>4, BeginInv DEF Begin, tables
<1>5. ASSUME NEW w \in Writers, LockState(w) PROVE RealmInv' /\ cat' = cat
  BY <1>5, LockStateInv DEF LockState, tables
<1>6. ASSUME NEW w \in Writers, Cover(w) PROVE RealmInv' /\ cat' = cat
  BY <1>6, CoverInv DEF Cover, tables
<1>7. ASSUME NEW w \in Writers, CommitWrite(w) PROVE RealmInv' /\ cat'.observed = cat.observed
  <2>1. cat \in [observed : DOMAIN VisibleAt \cup {NoRow}, from : Nat, through : Nat]
    BY DEF RealmInv, CatOK
  <2>2. PICK a, H : cat' = IF a THEN [cat EXCEPT !.through = H] ELSE cat
    BY <1>7 DEF CommitWrite
  <2> QED BY <1>7, <2>1, <2>2, CommitWriteInv
<1>8. ASSUME NEW from \in Heights, NEW through \in Heights, RebuildCalls(from, through)
      PROVE  RealmInv' /\ cat' = cat
  BY <1>8, RebuildCallsInv DEF RebuildCalls
<1>9. ASSUME NEW from \in Heights, NEW through \in Heights, RebuildRead(from, through)
      PROVE  RealmInv' /\ cat' = cat
  BY <1>9, RebuildReadInv DEF RebuildRead, tables
<1>10. ASSUME RebuildReset PROVE RealmInv' /\ cat' = cat
  BY <1>10, RebuildResetInv DEF RebuildReset, tables
<1>11. ASSUME RebuildCommit PROVE RealmInv' /\ cat'.observed = cat.observed
  <2>1. cat \in [observed : DOMAIN VisibleAt \cup {NoRow}, from : Nat, through : Nat]
    BY DEF RealmInv, CatOK
  <2>2. PICK f, H : cat' = [cat EXCEPT !.from = f, !.through = H]
    BY <1>11 DEF RebuildCommit
  <2> QED BY <1>11, <2>1, <2>2, RebuildCommitInv
<1>12. ASSUME NEW h \in DOMAIN VisibleAt, RefreshBegin(h) PROVE RealmInv' /\ cat' = cat
  BY <1>12, RefreshBeginInv DEF RefreshBegin, tables
<1>13. ASSUME RefreshCheck PROVE RealmInv' /\ cat' = cat
  BY <1>13, RefreshCheckInv DEF RefreshCheck, tables
<1>14. ASSUME RefreshCommit PROVE RealmInv' /\ cat'.observed > cat.observed
  BY <1>14, RefreshCommitInv
<1>15. CASE Next
  BY <1>2, <1>3, <1>4, <1>5, <1>6, <1>7, <1>8, <1>9, <1>10, <1>11, <1>12, <1>13, <1>14, <1>15
     DEF Next
<1> QED BY <1>1, <1>15

\* In every reachable state RealmInv holds.
LEMMA Inductive == Spec => []RealmInv
<1>1. RealmInv /\ [Next]_vars => RealmInv'
  BY NextInv
<1> QED BY <1>1, InitInv, PTL DEF Spec

\* Inside its covered range the call index holds exactly the calls of the
\* stored summaries, and the range ends at the checkpoint, however live
\* writing, the bounded tool and both rebuilds interleave, roll back and
\* overlap (advance_realm_call_coverage, rebuild_realm_call_index.py).
THEOREM CallIndexStaysExact == Spec => []CallIndexExact
<1>1. RealmInv => CallIndexExact
  BY DEF RealmInv
<1> QED BY <1>1, Inductive, PTL

\* With the indexer stopped during rebuilds the live writer never meets a gap
\* in the activity range (advance_realm_activity_coverage).
THEOREM RunbookNeverRefusesLive == Spec => []LiveNeverRefused
<1>1. ASSUME RealmInv PROVE LiveNeverRefused
  <2> SUFFICES ASSUME operator # "overlaps", tx[Live].pc = "cover", ActivityGap(tx[Live].height)
               PROVE  FALSE
    BY DEF LiveNeverRefused, At
  <2>1. Live \in Processes /\ Live \in Writers
    BY Names
  <2>2. tx[Live].height = Checkpoint + 1
    BY <1>1, <2>1, TxOf DEF WriterSound
  <2>3. Checkpoint \in Nat /\ (cat.through # NoRow => cat.through = Checkpoint)
    BY <1>1 DEF RealmInv, StoreOK, CatOK
  <2> QED BY <2>2, <2>3 DEF ActivityGap
<1> QED BY <1>1, Inductive, PTL

\* The visible paths are those of the observed height, and that height never
\* falls, also when an older refresh commits after a newer one
\* (refresh_realm_catalog.persist_refresh).
THEOREM RefreshesPublishNewest == Spec => PublishesNewest
<1>1. ASSUME RealmInv, RealmInv', [Next]_vars PROVE [Publishes]_vars
  <2>1. cat'.observed > cat.observed \/ cat'.observed = cat.observed
    BY <1>1, NextInv
  <2>2. cat.observed \in Nat /\ cat'.observed \in Nat
    BY <1>1, RealmAssumption DEF RealmInv, CatOK, Heights, NoRow
  <2>3. cat'.observed # NoRow =>
           {p \in PathSet : rows'[p].visible} = VisibleAt[cat'.observed]
    BY <1>1 DEF RealmInv, RowsOK
  <2> QED BY <2>1, <2>2, <2>3 DEF Publishes
<1> QED BY <1>1, Inductive, PTL DEF Spec, PublishesNewest

-----------------------------------------------------------------------------
(* Calls and their numbers.                                                *)

\* The calls of finitely many heights are finitely many.
LEMMA CallsFinite ==
    ASSUME NEW p \in PathSet, NEW H \in SUBSET Heights
    PROVE  IsFiniteSet(H) /\ IsFiniteSet(CallsOf(p, H)) /\ Cardinality(CallsOf(p, H)) \in Nat
<1> DEFINE f == [h \in H |-> {h} \X (1..CallsAt[h][p])]
           S == {{h} \X (1..CallsAt[h][p]) : h \in H}
<1>1. IsFiniteSet(H)
  <2>1. IsFiniteSet(Heights)
    BY RealmAssumption, FS_Interval DEF Heights
  <2> QED BY <2>1, FS_Subset
<1>2. f \in Surjection(H, S)
  <2>1. f \in [H -> S]
    OBVIOUS
  <2>2. \A s \in S : \E h \in H : f[h] = s
    OBVIOUS
  <2> QED BY <2>1, <2>2 DEF Surjection
<1>3. IsFiniteSet(S)
  <2> HIDE DEF f, S
  <2> QED BY <1>1, <1>2, FS_Surjection
<1>4. ASSUME NEW T \in S PROVE IsFiniteSet(T)
  <2>1. PICK h \in H : T = {h} \X (1..CallsAt[h][p])
    OBVIOUS
  <2>2. CallsAt[h][p] \in Nat
    BY RealmAssumption
  <2>3. IsFiniteSet({h}) /\ IsFiniteSet(1..CallsAt[h][p])
    <3>1. 1 \in Int /\ CallsAt[h][p] \in Int
      BY <2>2
    <3> QED BY <3>1, FS_Singleton, FS_Interval
  <2> QED BY <2>1, <2>3, FS_Product
<1>5. IsFiniteSet(UNION S)
  <2> HIDE DEF S
  <2> QED BY <1>3, <1>4, FS_UNION
<1>6. CallsOf(p, H) = UNION S
  BY DEF CallsOf
<1> QED BY <1>1, <1>5, <1>6, FS_CardinalityType

\* The calls of two sets of heights that have none in common add up.
LEMMA CallsAdd ==
    ASSUME NEW p \in PathSet, NEW A \in SUBSET Heights, NEW B \in SUBSET Heights, A \cap B = {}
    PROVE  Cardinality(CallsOf(p, A \cup B)) = Cardinality(CallsOf(p, A)) + Cardinality(CallsOf(p, B))
<1>1. CallsOf(p, A \cup B) = CallsOf(p, A) \cup CallsOf(p, B)
  BY DEF CallsOf
<1>2. ASSUME NEW x, x \in CallsOf(p, A), x \in CallsOf(p, B) PROVE FALSE
  <2>1. PICK a \in A : x \in {a} \X (1..CallsAt[a][p])
    BY <1>2 DEF CallsOf
  <2>2. PICK b \in B : x \in {b} \X (1..CallsAt[b][p])
    BY <1>2 DEF CallsOf
  <2>3. x[1] = a /\ x[1] = b
    BY <2>1, <2>2
  <2> QED BY <2>3
<1>3. CallsOf(p, A) \cap CallsOf(p, B) = {}
  BY <1>2
<1>4. PICK X, Y : X = CallsOf(p, A) /\ Y = CallsOf(p, B)
  OBVIOUS
<1>5. IsFiniteSet(X) /\ IsFiniteSet(Y) /\ Cardinality(X) \in Nat /\ Cardinality(Y) \in Nat
  BY <1>4, CallsFinite
<1>6. Cardinality(X \cup Y) = Cardinality(X) + Cardinality(Y) - Cardinality({})
  <2>1. X \cap Y = {}
    BY <1>3, <1>4
  <2>2. Cardinality(X \cup Y) = Cardinality(X) + Cardinality(Y) - Cardinality(X \cap Y)
    BY <1>5, FS_Union
  <2> QED BY <2>1, <2>2
<1>7. Cardinality(X \cup Y) = Cardinality(X) + Cardinality(Y)
  BY <1>5, <1>6, FS_EmptySet
<1> QED BY <1>1, <1>4, <1>7

\* Heights without a call of the path do not matter.
LEMMA CallsWhere ==
    ASSUME NEW p \in PathSet, NEW H \in SUBSET Heights
    PROVE  CallsOf(p, {h \in H : CallsAt[h][p] > 0}) = CallsOf(p, H)
<1>1. \A h \in H : ~(CallsAt[h][p] > 0) => {h} \X (1..CallsAt[h][p]) = {}
  <2> SUFFICES ASSUME NEW h \in H, ~(CallsAt[h][p] > 0) PROVE {h} \X (1..CallsAt[h][p]) = {}
    OBVIOUS
  <2>1. CallsAt[h][p] \in Nat
    BY RealmAssumption
  <2>2. 1..CallsAt[h][p] = {}
    BY <2>1
  <2> QED BY <2>2
<1>2. \A x : x \in CallsOf(p, H) <=> \E h \in H : x \in {h} \X (1..CallsAt[h][p])
  BY DEF CallsOf
<1>3. \A x : x \in CallsOf(p, {h \in H : CallsAt[h][p] > 0}) <=>
             \E h \in H : CallsAt[h][p] > 0 /\ x \in {h} \X (1..CallsAt[h][p])
  BY DEF CallsOf
<1>4. \A x : x \in CallsOf(p, {h \in H : CallsAt[h][p] > 0}) <=> x \in CallsOf(p, H)
  BY <1>1, <1>2, <1>3
<1> QED BY <1>4

\* upsert_transaction_catalog_aggregates adds the calls of heights that are
\* all above the last one counted.
LEMMA CountsAbove ==
    ASSUME NEW p \in PathSet, NEW H \in SUBSET Heights, NEW row, RowShape(row),
           row.count \in Nat, row.counted \in Nat, \A h \in H : h > row.counted,
           NEW c, c = Counted(row, p, H)
    PROVE  /\ c.count = row.count + Cardinality(CallsOf(p, H)) /\ c.count \in Nat
           /\ c.counted \in H \cup {row.counted}
           /\ c.exists \/ c = row
<1>1. PICK new : new = {h \in H : CallsAt[h][p] > 0}
  OBVIOUS
<1>2. new = {h \in H : h > row.counted /\ CallsAt[h][p] > 0}
  BY <1>1
<1>3. CallsOf(p, new) = CallsOf(p, H) /\ new \in SUBSET Heights /\ new \subseteq H
  BY <1>1, CallsWhere
<1>4. PICK n \in Nat : n = Cardinality(CallsOf(p, new))
  BY <1>3, CallsFinite
<1>5. CASE new = {}
  <2>1. c = row
    BY <1>2, <1>5 DEF Counted
  <2>2. CallsOf(p, new) = {}
    BY <1>5 DEF CallsOf
  <2>3. n = 0
    BY <1>4, <2>2, FS_EmptySet
  <2> QED BY <1>3, <1>4, <2>1, <2>3
<1>6. CASE new # {}
  <2>1. PICK m : m = Max(new)
    OBVIOUS
  <2>2. c = [row EXCEPT !.exists = TRUE, !.count = row.count + n, !.counted = m]
    BY <1>2, <1>4, <1>6, <2>1 DEF Counted
  <2>3. c.count = row.count + n /\ c.counted = m /\ c.exists
    BY <2>2 DEF RowShape
  <2>4. m \in new
    <3>1. IsFiniteSet(new) /\ new \subseteq Nat
      BY <1>3, CallsFinite DEF Heights
    <3>2. \E x \in new : \A y \in new : x >= y
      <4>1. PICK x \in new : \A y \in new : y <= x
        BY <1>6, <3>1, GreatestNat
      <4>2. \A y \in new : x >= y
        BY <3>1, <4>1
      <4> QED BY <4>2
    <3> QED BY <2>1, <3>2, Zenon DEF Max
  <2> QED BY <1>3, <1>4, <2>3, <2>4
<1> QED BY <1>5, <1>6

-----------------------------------------------------------------------------
(* The counters.  While index_range.py does not rewrite stored heights, a  *)
(* live commit and the commit of a rebuild each leave counters that are    *)
(* right, or a range that ends below the checkpoint.                       *)

\* A transaction has the state row, or will wait for it before it goes on.
WillHold(p, t) == locks[State] = p \/ \E i \in DOMAIN t.need : State \in t.need[i]

\* A live writer that will advance the range has found it to end just below
\* its height, and keeps the row that says so.
LiveCounts(t) ==
    /\ t.pc # "idle" => t.height \in Heights
    /\ t.pc = "cover" => WillHold(Live, t)
    /\ t.pc = "commit" /\ t.advance =>
         locks[State] = Live /\ cat.through # NoRow /\ t.height = cat.through + 1

\* A rebuild has read its range.  Unless a height was stored since, the rows
\* that it will not reset have no count to add to.
RebuildCounts(t) ==
    t.pc # "idle" =>
      /\ t.height \in Nat /\ t.from \in 1..t.height /\ t.height <= Checkpoint
      /\ t.read = {h \in t.from..t.height : stored[h]}
      /\ t.pc = "commit" => WillHold(Rebuild, t)
      /\ t.pc = "commit" /\ t.height = Checkpoint =>
           \A p \in PathSet \ t.reset : rows[p].count = 0 /\ rows[p].counted = NoRow

TxCounts(p, t) ==
    /\ p = Live => LiveCounts(t)
    /\ p = Tool => t.pc = "idle"
    /\ p = Rebuild => RebuildCounts(t)

\* A row counts stored heights, and one that does not exist counts none.
RowCounts(r, n) ==
    /\ r.count \in Nat /\ r.counted \in 0..n
    /\ r.exists \/ (r.count = 0 /\ r.counted = NoRow)

RangeOK ==
    /\ cat.through <= Checkpoint
    /\ cat.through # NoRow => cat.from \in 1..cat.through

LocksOK == locks \in [Rows -> Processes \cup {None}]

CountsOK ==
    /\ Checkpoint <= MaxHeight /\ LocksOK /\ RangeOK
    /\ \A p \in PathSet : RowCounts(rows[p], Checkpoint)
    /\ \A p \in Processes : TxCounts(p, tx[p])
    /\ AlignedIsExact

CountInv == operator # "reindexes" => CountsOK

\* Whatever heights are counted, the row stays one that counts stored heights.
LEMMA CountsSome ==
    ASSUME NEW p \in PathSet, NEW H \in SUBSET Heights, NEW row, RowShape(row), NEW n \in Nat,
           RowCounts(row, n), \A h \in H : h <= n, NEW c, c = Counted(row, p, H)
    PROVE  RowCounts(c, n)
<1>1. PICK G : G = {h \in H : h > row.counted}
  OBVIOUS
<1>2. {h \in G : h > row.counted /\ CallsAt[h][p] > 0} = {h \in H : h > row.counted /\ CallsAt[h][p] > 0}
  BY <1>1
<1>3. c = Counted(row, p, G)
  BY <1>2 DEF Counted
<1>4. G \in SUBSET Heights /\ \A h \in G : h > row.counted
  BY <1>1
<1>5. row.count \in Nat /\ row.counted \in Nat /\ row.counted <= n
  BY DEF RowCounts
<1>6. c.count \in Nat /\ c.counted \in G \cup {row.counted} /\ (c.exists \/ c = row)
  BY <1>3, <1>4, <1>5, CountsAbove
<1>7. c.counted \in 0..n
  <2>1. \A h \in G : h \in Nat /\ h <= n
    BY <1>1 DEF Heights
  <2> QED BY <1>5, <1>6, <2>1
<1>8. c.exists \/ (c.count = 0 /\ c.counted = NoRow)
  BY <1>6 DEF RowCounts
<1> QED BY <1>6, <1>7, <1>8 DEF RowCounts

\* A process goes on with its own transaction, and the tables stay.
LEMMA CountMoves ==
    ASSUME RealmInv, CountsOK, NEW p \in Processes, NEW r, tx' = [tx EXCEPT ![p] = r],
           UNCHANGED <<stored, rows, cat, operator>>, LocksOK',
           \A q \in Processes \ {p} : locks[State] = q => locks'[State] = q,
           TxCounts(p, r)'
    PROVE  CountsOK'
<1>1. Checkpoint' = Checkpoint
  BY DEF Checkpoint
<1>2. tx'[p] = r /\ \A q \in Processes \ {p} : tx'[q] = tx[q]
  BY DEF RealmInv, TxsOK
<1>3. /\ (Checkpoint <= MaxHeight)' /\ RangeOK' /\ AlignedIsExact'
      /\ \A q \in PathSet : RowCounts(rows'[q], Checkpoint')
  BY <1>1 DEF CountsOK, RangeOK, AlignedIsExact
<1>4. ASSUME NEW q \in Processes PROVE TxCounts(q, tx[q])'
  <2>1. CASE q = p
    BY <1>2, <2>1 DEF TxCounts, LiveCounts, RebuildCounts, WillHold
  <2>2. CASE q # p
    <3>1. PICK t : t = tx[q] /\ tx'[q] = t
      BY <1>2, <2>2
    <3>2. TxCounts(q, t) /\ (locks[State] = q => locks'[State] = q)
      BY <2>2, <3>1 DEF CountsOK
    <3>3. q = Live => LiveCounts(t)'
      BY <3>2 DEF TxCounts, LiveCounts, WillHold
    <3>4. q = Rebuild => RebuildCounts(t)'
      BY <1>1, <3>2 DEF TxCounts, RebuildCounts, WillHold
    <3>5. q = Tool => t.pc = "idle"
      BY <3>2 DEF TxCounts
    <3> QED BY <3>1, <3>3, <3>4, <3>5 DEF TxCounts, LiveCounts, RebuildCounts, WillHold
  <2> QED BY <2>1, <2>2
<1> QED BY <1>3, <1>4 DEF CountsOK, RowCounts

\* The end of a transaction: its locks go, those of the others stay.
LEMMA EndsAlone ==
    ASSUME RealmInv, LocksOK, NEW p \in Processes, End(p)
    PROVE  /\ LocksOK' /\ operator' = operator
           /\ tx' = [tx EXCEPT ![p] = Idle] /\ tx'[p] = Idle
           /\ \A q \in Processes \ {p} : tx'[q] = tx[q] /\ (locks[State] = q => locks'[State] = q)
<1>1. /\ tx' = [tx EXCEPT ![p] = Idle] /\ operator' = operator
      /\ locks' = [r \in Rows |-> IF locks[r] = p THEN None ELSE locks[r]]
  BY DEF End
<1>2. State \in Rows
  BY DEF Rows
<1>3. LocksOK'
  BY <1>1 DEF LocksOK
<1>4. \A q \in Processes \ {p} : locks[State] = q => locks'[State] = q
  BY <1>1, <1>2
<1>5. tx'[p] = Idle /\ \A q \in Processes \ {p} : tx'[q] = tx[q]
  BY <1>1 DEF RealmInv, TxsOK
<1> QED BY <1>1, <1>3, <1>4, <1>5

\* No transaction claims nothing.
LEMMA IdleCounts == ASSUME NEW p PROVE TxCounts(p, Idle) /\ TxCounts(p, Idle)'
<1>1. PICK i : i = Idle /\ i.pc = "idle"
  BY IdleTx
<1>2. TxCounts(p, i) /\ TxCounts(p, i)'
  BY <1>1 DEF TxCounts, LiveCounts, RebuildCounts
<1> QED BY <1>1, <1>2 DEF TxCounts, LiveCounts, RebuildCounts, WillHold

\* A transaction ends and leaves the tables.
LEMMA EndCounts ==
    ASSUME RealmInv, CountsOK, NEW p \in Processes, End(p), UNCHANGED <<stored, rows, cat>>
    PROVE  CountsOK'
<1>1. LocksOK
  BY DEF CountsOK
<1>2. PICK i : i = Idle
  OBVIOUS
<1>3. TxCounts(p, i)'
  BY <1>2, IdleCounts DEF TxCounts, LiveCounts, RebuildCounts, WillHold
<1> QED BY <1>1, <1>2, <1>3, EndsAlone, CountMoves

\* A row is locked.
LEMMA LockCounts ==
    ASSUME RealmInv, CountsOK, NEW p \in Processes, NEW r \in Rows, Lock(p, r)
    PROVE  CountsOK'
<1>0. /\ \E i \in DOMAIN tx[p].need : tx' = [tx EXCEPT ![p].need[i] = @ \ {r}]
      /\ locks[r] = None /\ locks' = [locks EXCEPT ![r] = p]
      /\ UNCHANGED <<stored, rows, cat, operator>>
  BY DEF Lock, Waiting, tables
<1>1. PICK i \in DOMAIN tx[p].need : tx' = [tx EXCEPT ![p].need[i] = @ \ {r}]
  BY <1>0
<1>2. PICK t, n : t = tx[p] /\ n = [t.need EXCEPT ![i] = t.need[i] \ {r}]
  OBVIOUS
<1>3. PICK g : g = WithNeed(t, n)
  OBVIOUS
<1>4. tx' = [tx EXCEPT ![p] = g]
  <2>1. tx' = [tx EXCEPT ![p].need = n]
    BY <1>1, <1>2, Zenon
  <2> QED BY <1>2, <1>3, <2>1, Zenon DEF WithNeed
<1>5. /\ g.pc = t.pc /\ g.height = t.height /\ g.from = t.from /\ g.advance = t.advance
      /\ g.need = n /\ g.read = t.read /\ g.reset = t.reset
  BY <1>2, <1>3, TxOf, TxNeeds
<1>6. LocksOK' /\ State \in Rows /\ None \notin Processes
  BY <1>0, Names DEF CountsOK, LocksOK, Rows
<1>7. /\ locks' \in [Rows -> Processes \cup {None}] /\ locks \in [Rows -> Processes \cup {None}]
      /\ locks'[State] = IF r = State THEN p ELSE locks[State]
  BY <1>0, <1>6 DEF CountsOK, LocksOK
<1>8. \A q \in Processes : locks[State] = q => locks'[State] = q
  BY <1>0, <1>6, <1>7
<1>9. WillHold(p, t) => WillHold(p, g)'
  <2>1. CASE r = State
    BY <1>7, <2>1 DEF WillHold
  <2>2. CASE locks[State] = p
    BY <1>8, <2>2 DEF WillHold
  <2>3. CASE r # State /\ \E k \in DOMAIN t.need : State \in t.need[k]
    <3>1. PICK k \in DOMAIN t.need : State \in t.need[k]
      BY <2>3
    <3>2. k \in DOMAIN n /\ State \in n[k]
      BY <1>2, <2>3, <3>1
    <3> QED BY <1>5, <3>2 DEF WillHold
  <2> QED BY <2>1, <2>2, <2>3 DEF WillHold
<1>10. TxCounts(p, t) /\ Checkpoint' = Checkpoint
  BY <1>0, <1>2 DEF CountsOK, Checkpoint
<1>11. Live \in Processes
  BY Names
<1>12. p = Live => LiveCounts(g)'
  BY <1>0, <1>5, <1>8, <1>9, <1>10, <1>11 DEF TxCounts, LiveCounts
<1>13. p = Rebuild => RebuildCounts(g)'
  BY <1>0, <1>5, <1>9, <1>10 DEF TxCounts, RebuildCounts
<1>14. TxCounts(p, g)'
  BY <1>5, <1>10, <1>12, <1>13 DEF TxCounts, LiveCounts, RebuildCounts, WillHold
<1> QED BY <1>0, <1>4, <1>6, <1>8, <1>14, CountMoves

\* write_height begins with the next height of the chain.
LEMMA BeginCounts ==
    ASSUME RealmInv, CountsOK, operator # "reindexes", NEW w \in Writers, NEW h \in Heights,
           NEW parsed \in BOOLEAN, Begin(w, h, parsed)
    PROVE  CountsOK'
<1>1. w = Live /\ Live \in Processes /\ Live # Tool /\ Live # Rebuild
  BY Names DEF Begin
<1>2. PICK n : tx' = [tx EXCEPT ![w] = WithParsed(Open("state", h, n), parsed)]
  BY DEF Begin, WithParsed
<1>3. PICK u : u = Open("state", h, n)
  OBVIOUS
<1>4. PICK r : r = WithParsed(u, parsed)
  OBVIOUS
<1>5. r.pc = "state" /\ r.height = h /\ tx' = [tx EXCEPT ![w] = r]
  BY <1>2, <1>3, <1>4, TxOpens, TxParses
<1>6. UNCHANGED <<stored, rows, cat, operator, locks>>
  BY DEF Begin, tables
<1>7. TxCounts(Live, r)'
  BY <1>1, <1>5 DEF TxCounts, LiveCounts
<1>8. LocksOK'
  BY <1>6 DEF CountsOK, LocksOK
<1> QED BY <1>1, <1>5, <1>6, <1>7, <1>8, CountMoves

\* Only the live writer has a transaction of a height.
LEMMA OnlyLive ==
    ASSUME CountsOK, NEW w \in Writers, tx[w].pc # "idle"
    PROVE  w = Live /\ Live \in Processes /\ Live \in Writers /\ Live # Tool /\ Live # Rebuild
  BY Names DEF CountsOK, TxCounts

\* The state row is wanted next, where there is one.
LEMMA LockStateCounts ==
    ASSUME RealmInv, CountsOK, NEW w \in Writers, LockState(w)
    PROVE  CountsOK'
<1>1. UNCHANGED <<stored, rows, cat>> /\ tx[w].pc = "state"
  BY DEF LockState, tables, At
<1>2. w = Live /\ Live \in Processes /\ Live # Tool /\ Live # Rebuild
  BY <1>1, OnlyLive
<1>3. CASE End(w)
  BY <1>1, <1>2, <1>3, EndCounts
<1>4. CASE ~End(w)
  <2>1. /\ tx' = [tx EXCEPT ![w] = IF cat.observed = NoRow THEN Goto(tx[w], "commit", <<>>)
                                    ELSE Goto(tx[w], "cover", <<{State}>>)]
        /\ UNCHANGED <<locks, operator>>
    BY <1>4 DEF LockState
  <2>2. LocksOK'
    BY <2>1 DEF CountsOK, LocksOK
  <2>3. PICK t : t = tx[w]
    OBVIOUS
  <2>4. TxShape(t) /\ t.height \in Heights /\ (t.advance => cat.observed # NoRow)
    BY <1>1, <1>2, <2>3, TxOf DEF CountsOK, TxCounts, LiveCounts, AdvanceSound
  <2>5. CASE cat.observed = NoRow
    <3>1. PICK g : g = Goto(t, "commit", <<>>)
      OBVIOUS
    <3>2. g.pc = "commit" /\ g.height = t.height /\ ~g.advance /\ tx' = [tx EXCEPT ![w] = g]
      BY <2>1, <2>3, <2>4, <2>5, <3>1, TxGoto
    <3>3. TxCounts(Live, g)'
      BY <1>2, <2>4, <3>2 DEF TxCounts, LiveCounts
    <3> QED BY <1>1, <1>2, <2>1, <2>2, <3>2, <3>3, CountMoves
  <2>6. CASE cat.observed # NoRow
    <3>1. PICK n, g : n = <<{State}>> /\ g = Goto(t, "cover", n)
      OBVIOUS
    <3>2. g.pc = "cover" /\ g.height = t.height /\ g.need = n /\ tx' = [tx EXCEPT ![w] = g]
      BY <2>1, <2>3, <2>4, <2>6, <3>1, TxGoto
    <3>3. 1 \in DOMAIN n /\ State \in n[1]
      BY <3>1
    <3>4. WillHold(Live, g)'
      BY <3>2, <3>3 DEF WillHold
    <3>5. TxCounts(Live, g)'
      BY <1>2, <2>4, <3>2, <3>4 DEF TxCounts, LiveCounts
    <3> QED BY <1>1, <1>2, <2>1, <2>2, <3>2, <3>5, CountMoves
  <2> QED BY <2>5, <2>6
<1> QED BY <1>3, <1>4

\* A transaction whose statement has run has all its locks.
LEMMA Holds ==
    ASSUME NEW p, NEW pc, At(p, pc), WillHold(p, tx[p])
    PROVE  locks[State] = p
  BY DEF At, Waiting, WillHold

\* The range is found to end just below the height, under the state row.
LEMMA CoverCounts ==
    ASSUME RealmInv, CountsOK, NEW w \in Writers, Cover(w)
    PROVE  CountsOK'
<1>1. UNCHANGED <<stored, rows, cat>> /\ tx[w].pc = "cover" /\ At(w, "cover")
  BY DEF Cover, tables, At
<1>2. w = Live /\ Live \in Processes /\ Live # Tool /\ Live # Rebuild
  BY <1>1, OnlyLive
<1>3. CASE End(w)
  BY <1>1, <1>2, <1>3, EndCounts
<1>4. CASE ~End(w)
  <2>1. /\ tx' = [tx EXCEPT ![w] = [Goto(tx[w], "commit", <<>>) EXCEPT
                                      !.advance = AdvancesActivity(tx[w].height)]]
        /\ UNCHANGED <<locks, operator>>
    BY <1>4 DEF Cover
  <2>2. LocksOK'
    BY <2>1 DEF CountsOK, LocksOK
  <2>3. PICK t, u : t = tx[w] /\ u = Goto(t, "commit", <<>>)
    OBVIOUS
  <2>4. PICK z \in BOOLEAN : z = AdvancesActivity(t.height)
    BY DEF AdvancesActivity
  <2>5. PICK g : g = WithAdvance(u, z)
    OBVIOUS
  <2>6. tx' = [tx EXCEPT ![w] = g]
    BY <2>1, <2>3, <2>4, <2>5 DEF WithAdvance
  <2>7. TxShape(t) /\ t.height \in Heights /\ WillHold(Live, t)
    BY <1>1, <1>2, <2>3, TxOf DEF CountsOK, TxCounts, LiveCounts
  <2>8. TxShape(u) /\ u.pc = "commit" /\ u.height = t.height
    BY <2>3, <2>7, TxGoto
  <2>9. g.pc = "commit" /\ g.height = t.height /\ g.advance = z
    BY <2>5, <2>8, TxAdvances
  <2>10. locks[State] = Live
    BY <1>1, <1>2, <2>3, <2>7, Holds
  <2>11. g.advance => cat.through # NoRow /\ g.height = cat.through + 1
    BY <2>4, <2>9 DEF AdvancesActivity
  <2>12. TxCounts(Live, g)'
    BY <1>1, <1>2, <2>1, <2>7, <2>9, <2>10, <2>11 DEF TxCounts, LiveCounts
  <2> QED BY <1>1, <1>2, <2>1, <2>2, <2>6, <2>12, CountMoves
<1> QED BY <1>3, <1>4

\* An activity rebuild reads the summaries of its range.
LEMMA RebuildReadCounts ==
    ASSUME RealmInv, CountsOK, NEW from \in Heights, NEW through \in Heights,
           RebuildRead(from, through)
    PROVE  CountsOK'
<1>1. PICK R, u :
         /\ R = {h \in from..through : stored[h]} /\ u = Open("reset", through, <<>>)
         /\ tx' = [tx EXCEPT ![Rebuild] = WithRange(u, from, R)]
  BY DEF RebuildRead, WithRange
<1>2. PICK r : r = WithRange(u, from, R)
  OBVIOUS
<1>3. r.pc = "reset" /\ r.height = through /\ r.from = from /\ r.read = R
  BY <1>1, <1>2, TxOpens, TxReads
<1>4. UNCHANGED <<stored, rows, cat, operator, locks>>
  BY DEF RebuildRead, tables
<1>5. LocksOK' /\ Checkpoint' = Checkpoint
  BY <1>4 DEF CountsOK, LocksOK, Checkpoint
<1>6. Rebuild \in Processes /\ Rebuild # Live /\ Rebuild # Tool
  BY Names
<1>7. from \in Nat /\ through \in Nat /\ from >= 1 /\ from <= through
  BY RealmAssumption DEF Heights, RebuildRead
<1>8. through \in DOMAIN stored /\ DOMAIN stored = 1..Checkpoint
  BY <1>7 DEF RebuildRead, RealmInv, StoreOK
<1>9. through <= Checkpoint
  BY <1>8 DEF RealmInv, StoreOK
<1>10. RebuildCounts(r)'
  BY <1>1, <1>3, <1>4, <1>5, <1>7, <1>9 DEF RebuildCounts
<1>11. TxCounts(Rebuild, r)'
  BY <1>6, <1>10 DEF TxCounts, RebuildCounts, WillHold
<1> QED BY <1>1, <1>2, <1>4, <1>5, <1>6, <1>11, CountMoves

\* The rebuild resets the rows that exist; the others have no count.
LEMMA RebuildResetCounts == RealmInv /\ CountsOK /\ RebuildReset => CountsOK'
<1> SUFFICES ASSUME RealmInv, CountsOK, RebuildReset PROVE CountsOK'
  OBVIOUS
<1>1. PICK z, t : z = {p \in PathSet : rows[p].exists} /\ t = tx[Rebuild]
  OBVIOUS
<1>2. PICK n : n = <<z, Touched(t.read) \ z, {State}>>
  OBVIOUS
<1>3. PICK u : u = Goto(t, "commit", n)
  OBVIOUS
<1>4. PICK g : g = WithReset(u, z)
  OBVIOUS
<1>5. tx' = [tx EXCEPT ![Rebuild] = g] /\ UNCHANGED <<stored, rows, cat, operator, locks>>
  BY <1>1, <1>2, <1>3, <1>4 DEF RebuildReset, WithReset, tables
<1>6. Rebuild \in Processes /\ Rebuild # Live /\ Rebuild # Tool
  BY Names
<1>7. TxShape(t) /\ RebuildCounts(t) /\ t.pc = "reset"
  BY <1>1, <1>6, TxOf DEF CountsOK, TxCounts, RebuildReset, At
<1>8. /\ TxShape(u) /\ u.pc = "commit" /\ u.height = t.height /\ u.from = t.from
      /\ u.need = n /\ u.read = t.read
  BY <1>3, <1>7, TxGoto
<1>9. /\ g.pc = "commit" /\ g.height = t.height /\ g.from = t.from
      /\ g.need = n /\ g.read = t.read /\ g.reset = z
  BY <1>4, <1>8, TxResets
<1>10. \A p \in PathSet \ z : rows[p].count = 0 /\ rows[p].counted = NoRow
  BY <1>1 DEF CountsOK, RowCounts
<1>11. 3 \in DOMAIN n /\ State \in n[3]
  BY <1>2
<1>12. LocksOK' /\ Checkpoint' = Checkpoint
  BY <1>5 DEF CountsOK, LocksOK, Checkpoint
<1>13. WillHold(Rebuild, g)'
  BY <1>9, <1>11 DEF WillHold
<1>14. RebuildCounts(g)'
  BY <1>5, <1>7, <1>9, <1>10, <1>12, <1>13 DEF RebuildCounts
<1>15. TxCounts(Rebuild, g)'
  BY <1>6, <1>14 DEF TxCounts, RebuildCounts, WillHold
<1> QED BY <1>5, <1>6, <1>12, <1>15, CountMoves

\* A refresh counts nothing.
LEMMA RefreshMoves ==
    ASSUME RealmInv, CountsOK, NEW r, tx' = [tx EXCEPT ![Refresh] = r],
           UNCHANGED <<stored, rows, cat, operator, locks>>
    PROVE  CountsOK'
<1>1. Refresh \in Processes /\ Refresh # Live /\ Refresh # Tool /\ Refresh # Rebuild
  BY Names
<1>2. LocksOK'
  BY DEF CountsOK, LocksOK
<1>3. TxCounts(Refresh, r)'
  BY <1>1 DEF TxCounts
<1> QED BY <1>1, <1>2, <1>3, CountMoves

\* The live writer commits its height.  Its calls are above all that was
\* counted; if the range ended at the checkpoint, it still does.
LEMMA CommitWriteCounts ==
    ASSUME RealmInv, CountsOK, operator # "reindexes", NEW w \in Writers, CommitWrite(w)
    PROVE  CountsOK'
<1>1. tx[w].pc = "commit"
  BY DEF CommitWrite, At
<1>2. w = Live /\ Live \in Processes /\ Live \in Writers /\ Live # Tool /\ Live # Rebuild
  BY <1>1, OnlyLive
<1>3. PICK t, n, h, b : t = tx[Live] /\ n = Checkpoint /\ h = t.height /\ b = t.parsed
  OBVIOUS
<1>4. /\ n \in Nat /\ h = n + 1 /\ b \in BOOLEAN /\ Checkpoint' = h
      /\ stored \in [1..n -> BOOLEAN] /\ stored' \in [1..h -> BOOLEAN]
      /\ \A x \in 1..h : stored'[x] = IF x = h THEN b ELSE stored[x]
  BY <1>2, <1>3, StoresHeight DEF RealmInv, StoreOK
<1>5. PICK H : H = IF b THEN {h} ELSE {}
  OBVIOUS
<1>6. /\ rows' = [p \in PathSet |-> Counted(rows[p], p, H)] /\ End(Live)
      /\ cat' = IF t.advance THEN [cat EXCEPT !.through = h] ELSE cat
  BY <1>2, <1>3, <1>5 DEF CommitWrite
<1>7. h \in Heights /\ MaxHeight \in Nat
  BY <1>1, <1>2, <1>3, RealmAssumption DEF CountsOK, TxCounts, LiveCounts
<1>8. Checkpoint' <= MaxHeight /\ H \in SUBSET Heights
  BY <1>4, <1>5, <1>7 DEF Heights
<1>9. LocksOK
  BY DEF CountsOK
<1>10. /\ LocksOK' /\ operator' = operator /\ tx'[Live] = Idle
       /\ \A q \in Processes \ {Live} : tx'[q] = tx[q] /\ (locks[State] = q => locks'[State] = q)
  BY <1>2, <1>6, <1>9, EndsAlone
<1>11. cat \in [observed : DOMAIN VisibleAt \cup {NoRow}, from : Nat, through : Nat]
  BY DEF RealmInv, CatOK
<1>12. t.advance => cat.through # NoRow /\ h = cat.through + 1
  BY <1>1, <1>2, <1>3 DEF CountsOK, TxCounts, LiveCounts
<1>13. cat.through <= n /\ (cat.through # NoRow => cat.from \in 1..cat.through)
  BY <1>3 DEF CountsOK, RangeOK
<1>14. /\ cat'.from = cat.from
       /\ IF t.advance THEN cat'.through = h ELSE cat'.through = cat.through
  BY <1>6, <1>11
<1>15. RangeOK'
  BY <1>4, <1>11, <1>12, <1>13, <1>14 DEF RangeOK, NoRow
<1>16. ASSUME NEW p \in PathSet
       PROVE  /\ RowCounts(rows'[p], h)
              /\ rows'[p].count = rows[p].count + Cardinality(CallsOf(p, H))
  <2>1. PICK r, c : r = rows[p] /\ c = Counted(r, p, H) /\ c = rows'[p]
    BY <1>6
  <2>2. RowShape(r) /\ RowCounts(r, n)
    BY <1>3, <2>1 DEF RealmInv, RowsOK, CountsOK
  <2>3. r.count \in Nat /\ r.counted \in Nat /\ \A x \in H : x > r.counted
    BY <1>4, <1>5, <2>2 DEF RowCounts
  <2>4. /\ c.count = r.count + Cardinality(CallsOf(p, H)) /\ c.count \in Nat
        /\ c.counted \in H \cup {r.counted}
        /\ c.exists \/ c = r
    <3>1. H \in SUBSET Heights /\ c = Counted(r, p, H) /\ RowShape(r)
      BY <1>8, <2>1, <2>2
    <3> QED BY <2>3, <3>1, CountsAbove
  <2>5. c.counted \in 0..h
    BY <1>4, <1>5, <2>2, <2>4 DEF RowCounts
  <2>6. c.exists \/ (c.count = 0 /\ c.counted = NoRow)
    BY <2>2, <2>4 DEF RowCounts
  <2>7. RowCounts(c, h)
    BY <2>4, <2>5, <2>6 DEF RowCounts
  <2> QED BY <2>1, <2>4, <2>7
<1>17. ASSUME NEW q \in Processes PROVE TxCounts(q, tx[q])'
  <2>1. CASE q = Live
    BY <1>10, <2>1, IdleCounts DEF TxCounts, LiveCounts, RebuildCounts, WillHold
  <2>2. CASE q # Live
    <3>1. PICK v : v = tx[q] /\ tx'[q] = v /\ TxCounts(q, v)
      BY <1>10, <2>2 DEF CountsOK
    <3>2. q = Rebuild => RebuildCounts(v)'
      <4> SUFFICES ASSUME q = Rebuild, v.pc # "idle" PROVE RebuildCounts(v)'
        BY DEF RebuildCounts
      <4>1. /\ v.height \in Nat /\ v.from \in 1..v.height /\ v.height <= n
            /\ v.read = {x \in v.from..v.height : stored[x]}
            /\ v.pc = "commit" => WillHold(Rebuild, v)
        BY <1>3, <3>1 DEF TxCounts, RebuildCounts
      <4>2. \A x \in v.from..v.height : stored'[x] = stored[x]
        BY <1>4, <4>1
      <4>3. v.read = {x \in v.from..v.height : stored'[x]}
        BY <4>1, <4>2
      <4>4. v.height <= Checkpoint' /\ v.height # Checkpoint'
        BY <1>4, <4>1
      <4>5. v.pc = "commit" => WillHold(Rebuild, v)'
        BY <1>2, <1>10, <2>2, <4>1 DEF WillHold
      <4> QED BY <4>1, <4>3, <4>4, <4>5 DEF RebuildCounts
    <3> QED BY <2>2, <3>1, <3>2 DEF TxCounts, RebuildCounts, WillHold
  <2> QED BY <2>1, <2>2
<1>18. AlignedIsExact'
  <2> SUFFICES ASSUME cat'.through # NoRow, cat'.through = Checkpoint', NEW p \in PathSet
               PROVE  rows'[p].count =
                        Cardinality(CallsOf(p, {x \in cat'.from..cat'.through : stored'[x]}))
    BY DEF AlignedIsExact, CallsOf
  <2>1. t.advance /\ cat.through = n /\ n # NoRow /\ cat'.through = h
    BY <1>4, <1>11, <1>12, <1>13, <1>14
  <2>2. PICK f : f = cat.from /\ f \in 1..n
    BY <1>13, <2>1
  <2>3. PICK A : A = {x \in f..n : stored[x]}
    OBVIOUS
  <2>4. rows[p].count = Cardinality(CallsOf(p, A))
    BY <1>3, <2>1, <2>2, <2>3 DEF CountsOK, AlignedIsExact
  <2>5. A \in SUBSET Heights /\ A \cap H = {}
    BY <1>4, <1>5, <1>7, <2>2, <2>3 DEF Heights
  <2>6. {x \in f..h : stored'[x]} = A \cup H
    <3>1. \A x \in f..h : x \in 1..h /\ (x = h \/ x \in f..n)
      BY <1>4, <2>2
    <3>2. \A x \in f..n : x \in f..h /\ x # h
      BY <1>4, <2>2
    <3>3. h \in f..h
      BY <1>4, <2>2
    <3>4. \A x \in f..h : stored'[x] <=> (x = h /\ b) \/ (x # h /\ stored[x])
      BY <1>4, <3>1
    <3> QED BY <1>5, <2>3, <3>1, <3>2, <3>3, <3>4
  <2>7. Cardinality(CallsOf(p, A \cup H)) = Cardinality(CallsOf(p, A)) + Cardinality(CallsOf(p, H))
    BY <1>8, <2>5, CallsAdd
  <2> QED BY <1>14, <1>16, <2>1, <2>2, <2>4, <2>6, <2>7
<1> QED BY <1>4, <1>8, <1>10, <1>15, <1>16, <1>17, <1>18 DEF CountsOK, RowCounts

\* The rebuild commits under the state row: counters of the range it has read,
\* exact if no height was stored since.
LEMMA RebuildCommitCounts ==
    ASSUME RealmInv, CountsOK, operator # "reindexes", RebuildCommit
    PROVE  CountsOK'
<1>1. Rebuild \in Processes /\ Live \in Processes /\ Rebuild # Live /\ Rebuild # Tool
  BY Names
<1>2. PICK t, n : t = tx[Rebuild] /\ n = Checkpoint
  OBVIOUS
<1>3. /\ t.pc = "commit" /\ At(Rebuild, "commit") /\ End(Rebuild) /\ UNCHANGED stored
      /\ cat' = [cat EXCEPT !.from = t.from, !.through = t.height]
      /\ rows' = [p \in PathSet |->
                    Counted(IF p \in t.reset THEN ResetRow(rows[p]) ELSE rows[p], p, t.read)]
  BY <1>2 DEF RebuildCommit, At
<1>4. /\ t.height \in Nat /\ t.from \in 1..t.height /\ t.height <= n
      /\ t.read = {h \in t.from..t.height : stored[h]}
      /\ WillHold(Rebuild, t)
      /\ t.height = n => \A p \in PathSet \ t.reset : rows[p].count = 0 /\ rows[p].counted = NoRow
  BY <1>1, <1>2, <1>3 DEF CountsOK, TxCounts, RebuildCounts
<1>5. locks[State] = Rebuild
  BY <1>2, <1>3, <1>4, Holds
<1>6. Checkpoint' = n /\ n \in Nat /\ n <= MaxHeight /\ MaxHeight \in Nat
  BY <1>2, <1>3, RealmAssumption DEF Checkpoint, RealmInv, StoreOK, CountsOK
<1>7. LocksOK
  BY DEF CountsOK
<1>8. /\ LocksOK' /\ operator' = operator /\ tx'[Rebuild] = Idle
      /\ \A q \in Processes \ {Rebuild} : tx'[q] = tx[q] /\ (locks[State] = q => locks'[State] = q)
  BY <1>1, <1>3, <1>7, EndsAlone
<1>9. cat \in [observed : DOMAIN VisibleAt \cup {NoRow}, from : Nat, through : Nat]
  BY DEF RealmInv, CatOK
<1>10. cat'.from = t.from /\ cat'.through = t.height
  BY <1>3, <1>9
<1>11. RangeOK'
  BY <1>4, <1>6, <1>10 DEF RangeOK
<1>12. t.read \in SUBSET Heights /\ \A h \in t.read : h > 0 /\ h <= n
  BY <1>4, <1>6 DEF Heights
<1>13. ASSUME NEW p \in PathSet
       PROVE  /\ RowCounts(rows'[p], n)
              /\ t.height = n => rows'[p].count = Cardinality(CallsOf(p, t.read))
  <2>1. PICK r, u, c : /\ r = rows[p] /\ u = (IF p \in t.reset THEN ResetRow(r) ELSE r)
                       /\ c = Counted(u, p, t.read) /\ c = rows'[p]
    BY <1>3
  <2>2. RowShape(r) /\ RowCounts(r, n)
    BY <1>2, <2>1 DEF RealmInv, RowsOK, CountsOK
  <2>3. CASE p \in t.reset \/ t.height = n
    <3>1. /\ RowShape(u) /\ u.count = 0 /\ u.counted = 0
      <4>1. CASE p \in t.reset
        <5>1. u = [r EXCEPT !.count = 0, !.counted = 0]
          BY <2>1, <4>1 DEF ResetRow, NoRow
        <5> QED BY <2>2, <5>1 DEF RowShape
      <4>2. CASE p \notin t.reset
        BY <1>4, <2>1, <2>2, <2>3, <4>2 DEF NoRow
      <4> QED BY <4>1, <4>2
    <3>2. /\ c.count = u.count + Cardinality(CallsOf(p, t.read)) /\ c.count \in Nat
          /\ c.counted \in t.read \cup {u.counted}
          /\ c.exists \/ c = u
      <4>1. \A h \in t.read : h > u.counted
        BY <1>12, <3>1
      <4>2. t.read \in SUBSET Heights /\ c = Counted(u, p, t.read) /\ RowShape(u)
        BY <1>12, <2>1, <3>1
      <4>3. u.count \in Nat /\ u.counted \in Nat
        BY <3>1
      <4> QED BY <4>1, <4>2, <4>3, CountsAbove
    <3>3. c.counted \in 0..n
      <4>1. \A h \in t.read : h \in 0..n
        BY <1>6, <1>12 DEF Heights
      <4> QED BY <1>6, <3>1, <3>2, <4>1
    <3>4. RowCounts(c, n)
      BY <3>1, <3>2, <3>3 DEF RowCounts, NoRow
    <3>5. Cardinality(CallsOf(p, t.read)) \in Nat
      BY <1>12, CallsFinite
    <3> QED BY <2>1, <3>1, <3>2, <3>4, <3>5
  <2>4. CASE p \notin t.reset /\ t.height # n
    <3>1. u = r
      BY <2>1, <2>4
    <3>2. RowCounts(c, n)
      <4>1. t.read \in SUBSET Heights /\ \A h \in t.read : h <= n
        BY <1>12
      <4>2. c = Counted(r, p, t.read) /\ RowShape(r) /\ RowCounts(r, n) /\ n \in Nat
        BY <1>6, <2>1, <2>2, <3>1
      <4> QED BY <4>1, <4>2, CountsSome, ZenonT(30)
    <3> QED BY <2>1, <2>4, <3>2
  <2> QED BY <2>3, <2>4
<1>14. ASSUME NEW q \in Processes PROVE TxCounts(q, tx[q])'
  <2>1. CASE q = Rebuild
    BY <1>8, <2>1, IdleCounts DEF TxCounts, LiveCounts, RebuildCounts, WillHold
  <2>2. CASE q # Rebuild
    <3>1. PICK v : v = tx[q] /\ tx'[q] = v /\ TxCounts(q, v)
      BY <1>8, <2>2 DEF CountsOK
    <3>2. q = Live => LiveCounts(v)'
      <4> SUFFICES ASSUME q = Live PROVE LiveCounts(v)'
        OBVIOUS
      <4>1. LiveCounts(v)
        BY <3>1 DEF TxCounts
      <4>2. ~(v.pc = "commit" /\ v.advance)
        BY <1>1, <1>5, <4>1 DEF LiveCounts
      <4>3. v.pc = "cover" => WillHold(Live, v)'
        BY <1>1, <1>5, <4>1 DEF LiveCounts, WillHold
      <4> QED BY <4>1, <4>2, <4>3 DEF LiveCounts
    <3> QED BY <2>2, <3>1, <3>2 DEF TxCounts, LiveCounts, WillHold
  <2> QED BY <2>1, <2>2
<1>15. AlignedIsExact'
  <2> SUFFICES ASSUME cat'.through # NoRow, cat'.through = Checkpoint', NEW p \in PathSet
               PROVE  rows'[p].count =
                        Cardinality(CallsOf(p, {x \in cat'.from..cat'.through : stored'[x]}))
    BY DEF AlignedIsExact, CallsOf
  <2>1. t.height = n
    BY <1>6, <1>10
  <2>2. {x \in cat'.from..cat'.through : stored'[x]} = t.read
    BY <1>3, <1>4, <1>10
  <2> QED BY <1>13, <2>1, <2>2
<1> QED BY <1>6, <1>8, <1>11, <1>13, <1>14, <1>15 DEF CountsOK, RowCounts

\* Publishing paths counts nothing.
LEMMA RefreshCommitCounts == RealmInv /\ CountsOK /\ RefreshCommit => CountsOK'
<1> SUFFICES ASSUME RealmInv, CountsOK, RefreshCommit PROVE CountsOK'
  OBVIOUS
<1>1. /\ Refresh \in Processes /\ Refresh # Live /\ Refresh # Tool /\ Refresh # Rebuild
      /\ Live \in Processes /\ Rebuild \in Processes
  BY Names
<1>2. /\ End(Refresh) /\ UNCHANGED stored /\ Checkpoint' = Checkpoint /\ LocksOK
  BY DEF RefreshCommit, Checkpoint, CountsOK
<1>3. /\ LocksOK' /\ operator' = operator /\ tx'[Refresh] = Idle
      /\ \A q \in Processes \ {Refresh} : tx'[q] = tx[q] /\ (locks[State] = q => locks'[State] = q)
  BY <1>1, <1>2, EndsAlone
<1>4. PICK h : h = tx[Refresh].height
  OBVIOUS
<1>5. cat \in [observed : DOMAIN VisibleAt \cup {NoRow}, from : Nat, through : Nat]
  BY DEF RealmInv, CatOK
<1>6. cat' = [cat EXCEPT !.observed = h]
  BY <1>4 DEF RefreshCommit
<1>7. cat'.from = cat.from /\ cat'.through = cat.through
  BY <1>5, <1>6
<1>8. ASSUME NEW p \in PathSet
      PROVE  /\ rows'[p].count = rows[p].count /\ rows'[p].counted = rows[p].counted
             /\ RowCounts(rows'[p], Checkpoint)
  <2>1. PICK r, P : r = rows[p] /\ P = VisibleAt[h]
    OBVIOUS
  <2>2. PICK c : c = [r EXCEPT !.exists = r.exists \/ p \in P, !.visible = p \in P] /\ c = rows'[p]
    BY <1>4, <2>1 DEF RefreshCommit
  <2>3. RowShape(r) /\ RowCounts(r, Checkpoint)
    BY <2>1 DEF RealmInv, RowsOK, CountsOK
  <2>4. c.count = r.count /\ c.counted = r.counted /\ (r.exists => c.exists)
    BY <2>2, <2>3 DEF RowShape
  <2> QED BY <2>1, <2>2, <2>3, <2>4 DEF RowCounts
<1>9. ASSUME NEW q \in Processes PROVE TxCounts(q, tx[q])'
  <2>1. CASE q = Refresh
    BY <1>1, <2>1 DEF TxCounts
  <2>2. CASE q # Refresh
    <3>1. PICK v : v = tx[q] /\ tx'[q] = v /\ TxCounts(q, v)
      BY <1>3, <2>2 DEF CountsOK
    <3>2. locks[State] = q => locks'[State] = q
      BY <1>3, <2>2
    <3>3. q = Live => LiveCounts(v)'
      BY <1>7, <3>1, <3>2 DEF TxCounts, LiveCounts, WillHold
    <3>4. q = Rebuild => RebuildCounts(v)'
      BY <1>2, <1>8, <3>1, <3>2 DEF TxCounts, RebuildCounts, WillHold
    <3> QED BY <3>1, <3>3, <3>4 DEF TxCounts, LiveCounts, RebuildCounts, WillHold
  <2> QED BY <2>1, <2>2
<1>10. AlignedIsExact' /\ RangeOK' /\ Checkpoint' <= MaxHeight
  BY <1>2, <1>3, <1>7, <1>8 DEF CountsOK, AlignedIsExact, RangeOK
<1> QED BY <1>2, <1>3, <1>8, <1>9, <1>10 DEF CountsOK, RowCounts

\* Nothing that the counters depend on changes.
LEMMA CountStays ==
    ASSUME CountsOK, UNCHANGED <<stored, rows, cat, locks, tx, operator>>
    PROVE  CountsOK'
<1>1. Checkpoint' = Checkpoint
  BY DEF Checkpoint
<1>2. \A q \in Processes : TxCounts(q, tx[q])'
  BY <1>1 DEF CountsOK, TxCounts, LiveCounts, RebuildCounts, WillHold
<1> QED BY <1>1, <1>2 DEF CountsOK, LocksOK, RangeOK, RowCounts, AlignedIsExact

\* At the beginning nothing is counted.
LEMMA InitCounts == Init => CountsOK
<1> SUFFICES ASSUME Init PROVE CountsOK
  OBVIOUS
<1>1. PICK n \in LegacyHeights : stored \in [1..n -> BOOLEAN]
  BY DEF Init
<1>2. n \in Nat /\ n <= MaxHeight
  BY RealmAssumption
<1>3. Checkpoint = n
  BY <1>1, <1>2, CheckpointIs DEF Checkpoint
<1>4. cat.through = NoRow /\ \A p \in PathSet : rows[p] = EmptyRow
  BY DEF Init
<1>5. \A p \in PathSet : RowCounts(rows[p], Checkpoint)
  BY <1>2, <1>3, <1>4 DEF RowCounts, EmptyRow, NoRow
<1>6. \A q \in Processes : TxCounts(q, tx[q])
  <2>1. \A q \in Processes : tx[q] = Idle
    BY DEF Init
  <2> QED BY <2>1, IdleCounts
<1>7. LocksOK /\ RangeOK /\ AlignedIsExact
  BY <1>2, <1>3, <1>4 DEF Init, LocksOK, RangeOK, AlignedIsExact, NoRow
<1> QED BY <1>2, <1>3, <1>5, <1>6, <1>7 DEF CountsOK

\* Every step keeps the counters right.
LEMMA CountNext == RealmInv /\ CountInv /\ [Next]_vars => CountInv'
<1> SUFFICES ASSUME RealmInv, CountInv, [Next]_vars, operator' # "reindexes" PROVE CountsOK'
  BY DEF CountInv
<1>0. operator' = operator
  BY DEF Next, vars, Rollback, Lock, Begin, LockState, Cover, CommitWrite, RebuildCalls, RebuildRead,
         RebuildReset, RebuildCommit, RefreshBegin, RefreshCheck, RefreshCommit, End
<1> USE <1>0
<1>1. CountsOK /\ operator # "reindexes"
  BY DEF CountInv
<1>2. CASE UNCHANGED vars
  BY <1>1, <1>2, CountStays DEF vars
<1>3. ASSUME NEW p \in Processes, Rollback(p) PROVE CountsOK'
  BY <1>1, <1>3, EndCounts DEF Rollback, tables
<1>4. ASSUME NEW p \in Processes, NEW r \in Rows, Lock(p, r) PROVE CountsOK'
  BY <1>1, <1>4, LockCounts
<1>5. ASSUME NEW w \in Writers, NEW h \in Heights, NEW parsed \in BOOLEAN, Begin(w, h, parsed)
      PROVE  CountsOK'
  BY <1>1, <1>5, BeginCounts
<1>6. ASSUME NEW w \in Writers, LockState(w) PROVE CountsOK'
  BY <1>1, <1>6, LockStateCounts
<1>7. ASSUME NEW w \in Writers, Cover(w) PROVE CountsOK'
  BY <1>1, <1>7, CoverCounts
<1>8. ASSUME NEW w \in Writers, CommitWrite(w) PROVE CountsOK'
  BY <1>1, <1>8, CommitWriteCounts
<1>9. ASSUME NEW from \in Heights, NEW through \in Heights, RebuildCalls(from, through)
      PROVE  CountsOK'
  BY <1>1, <1>9, CountStays DEF RebuildCalls
<1>10. ASSUME NEW from \in Heights, NEW through \in Heights, RebuildRead(from, through)
       PROVE  CountsOK'
  BY <1>1, <1>10, RebuildReadCounts
<1>11. CASE RebuildReset
  BY <1>1, <1>11, RebuildResetCounts
<1>12. CASE RebuildCommit
  BY <1>1, <1>12, RebuildCommitCounts
<1>13. ASSUME NEW h \in DOMAIN VisibleAt, RefreshBegin(h) PROVE CountsOK'
  BY <1>1, <1>13, RefreshMoves DEF RefreshBegin, tables
<1>14. CASE RefreshCheck
  <2>1. UNCHANGED <<stored, rows, cat>> /\ Refresh \in Processes
    BY <1>14, Names DEF RefreshCheck, tables
  <2>2. CASE End(Refresh)
    BY <1>1, <2>1, <2>2, EndCounts
  <2>3. CASE ~End(Refresh)
    <3>1. /\ \E r : tx' = [tx EXCEPT ![Refresh] = r]
          /\ UNCHANGED <<locks, operator>>
      BY <1>14, <2>3 DEF RefreshCheck
    <3> QED BY <1>1, <2>1, <3>1, RefreshMoves
  <2> QED BY <2>2, <2>3
<1>15. CASE RefreshCommit
  BY <1>1, <1>15, RefreshCommitCounts
<1> QED BY <1>2, <1>3, <1>4, <1>5, <1>6, <1>7, <1>8, <1>9, <1>10, <1>11, <1>12, <1>13, <1>14, <1>15
        DEF Next

\* Whenever check_realm_activity_coverage.py reports "aligned", the counters
\* are those of the covered heights, however live writing, the rebuilds, the
\* refreshes and rollbacks interleave (rebuild_realm_activity.py,
\* advance_realm_activity_coverage).
THEOREM AlignedStaysExact == Spec => []AlignedIsExact
<1>1. Init => RealmInv /\ CountInv
  BY InitInv, InitCounts DEF CountInv
<1>2. RealmInv /\ CountInv /\ [Next]_vars => RealmInv' /\ CountInv'
  BY NextInv, CountNext
<1>3. CountInv => AlignedIsExact
  BY DEF CountInv, CountsOK, AlignedIsExact
<1> QED BY <1>1, <1>2, <1>3, PTL DEF Spec

=============================================================================

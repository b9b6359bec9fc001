-------------------------- MODULE CollectorsProofs --------------------------
(***************************************************************************)
(* Proofs about what turns answers of endpoints into rows: the height      *)
(* parser with its decoder process, and the collectors that a timer        *)
(* starts.  Each for any number of processes, any chain data and any bound.*)
(***************************************************************************)
EXTENDS HeightParser, RealmMetadata, Valopers, NetworkDistribution,
        DataLemmas

-----------------------------------------------------------------------------
(* RealmMetadata.  Only the lock's holder runs; the heights of the rows    *)
(* never decrease, so what a run published stays published.                *)

MetadataRuns ==
    [phase : {"selected", "collecting"}, height : 0..MaxHeight, started : 0..MaxWallTime,
     selected : SUBSET Paths, todo : SUBSET Paths, published : SUBSET Paths]

MetadataTyped ==
    /\ catalog \in 0..MaxHeight /\ visible \subseteq Paths /\ clock \in 0..MaxWallTime
    /\ rows \in [Paths -> MetadataRows \cup {Null}]
    /\ files \in [Paths -> {ContentAt(h) : h \in 0..MaxHeight} \cup {Null}]
    /\ state \in RefreshStates \cup {Null}
    /\ runs = [c \in Collectors |-> runs[c]]
    /\ \A c \in Collectors : runs[c].phase \in {"idle", "locked"} \/ runs[c] \in MetadataRuns

MetadataAlone == \A c \in Collectors : runs[c].phase # "idle" => lock = c

RowCovers(p, height) == rows[p] # Null /\ rows[p].height >= height

MetadataCollected ==
    \A c \in Collectors : runs[c].phase \in {"selected", "collecting"} =>
        \A p \in runs[c].published : RowCovers(p, runs[c].height)

RowCapsTyped == \A p \in Paths : rows[p] # Null =>
    rows[p].caps \in [Applicable(p) -> [value : Int \cup {Null}, height : Int \cup {Null}]]

MetadataInv ==
    /\ MetadataTyped /\ MetadataAlone /\ MetadataCollected /\ RowCapsTyped
    /\ MetadataTruthful /\ RunStateSound

\* Nothing is stored and nobody runs at first.
LEMMA MetadataInitInv == MetadataInit => MetadataInv
<1> SUFFICES ASSUME MetadataInit PROVE MetadataInv
  OBVIOUS
<1>1. \A c \in Collectors : runs[c].phase = "idle"
  BY DEF MetadataInit, NoRun
<1>2. MetadataTyped
  BY <1>1, MetadataAssumption DEF MetadataInit, MetadataTyped
<1>3. MetadataAlone /\ MetadataCollected /\ RowCapsTyped /\ MetadataTruthful /\ RunStateSound
  BY <1>1 DEF MetadataInit, MetadataAlone, MetadataCollected, RowCapsTyped, MetadataTruthful, RunStateSound
<1> QED BY <1>2, <1>3 DEF MetadataInv

\* A step of one run that writes no row: the invariant asks only about that
\* run and the refresh state.
LEMMA RunMoves ==
    ASSUME MetadataInv, NEW c \in Collectors, UNCHANGED <<catalog, visible, clock, rows, files>>,
           runs' = [d \in Collectors |-> runs'[d]],
           \A d \in Collectors \ {c} : runs'[d] = runs[d],
           lock \in {c, Null}, lock' = c \/ runs'[c].phase = "idle",
           runs'[c].phase \in {"idle", "locked"} \/ runs'[c] \in MetadataRuns,
           runs'[c].phase \in {"selected", "collecting"} =>
              \A p \in runs'[c].published : RowCovers(p, runs'[c].height),
           runs'[c].phase = "collecting" =>
              /\ state' # Null /\ state'.status = "running"
              /\ state'.height = runs'[c].height /\ state'.started = runs'[c].started,
           state' \in RefreshStates \cup {Null},
           state' # Null /\ state'.status = "complete" =>
              /\ state'.success = state'.height
              /\ \A p \in state'.selected : RowCovers(p, state'.height)
    PROVE  MetadataInv'
<1>1. \A d \in Collectors \ {c} : runs[d].phase = "idle"
  BY MetadataAssumption DEF MetadataInv, MetadataAlone
<1>2. \A d \in Collectors : runs'[d].phase # "idle" => d = c
  BY <1>1
<1>3. MetadataTyped'
  BY <1>1 DEF MetadataInv, MetadataTyped
<1>4. MetadataAlone'
  BY <1>2 DEF MetadataAlone
<1>5. MetadataCollected'
  BY <1>2 DEF MetadataCollected, RowCovers
<1>6. RowCapsTyped' /\ MetadataTruthful'
  BY DEF MetadataInv, RowCapsTyped, MetadataTruthful
<1>7. RunStateSound'
  BY <1>2 DEF RunStateSound, RowCovers
<1> QED BY <1>3, <1>4, <1>5, <1>6, <1>7 DEF MetadataInv

\* The row of the refresh state that a run writes, and what survives in it.
LEMMA StateWritten ==
    ASSUME MetadataTyped, NEW r \in MetadataRuns,
           NEW status \in {"running", "complete", "partial", "failed"},
           state' = StateRow(RunState(r, status))
    PROVE  /\ state' \in RefreshStates /\ state' # Null
           /\ state'.height = r.height /\ state'.started = r.started /\ state'.status = status
           /\ state'.selected = r.selected
           /\ status = "complete" => state'.success = r.height
<1>1. PICK new : new = RunState(r, status)
  OBVIOUS
<1>2. new \in RefreshStates
  BY <1>1, MetadataAssumption DEF RunState, MetadataRuns, RefreshStates
<1>3. /\ new.height = r.height /\ new.started = r.started /\ new.status = status
      /\ new.selected = r.selected
      /\ status = "complete" => new.success = r.height /\ new.success # Null
  <2>1. r.height \in Int /\ Null \notin Int
    BY MetadataAssumption DEF MetadataRuns
  <2> QED BY <1>1, <2>1 DEF RunState
<1>4. Null \notin RefreshStates
  BY MetadataAssumption
<1>5. CASE new.success = Null /\ state # Null
  <2>1. state.success \in Int \cup {Null}
    BY <1>5 DEF MetadataTyped, RefreshStates
  <2>2. state' = [new EXCEPT !.success = state.success]
    BY <1>1, <1>5 DEF StateRow
  <2>3. /\ state' \in RefreshStates /\ state'.height = new.height /\ state'.started = new.started
        /\ state'.status = new.status /\ state'.selected = new.selected
    BY <1>2, <2>1, <2>2 DEF RefreshStates
  <2> QED BY <1>3, <1>4, <1>5, <2>3
<1>6. CASE ~(new.success = Null /\ state # Null)
  BY <1>1, <1>2, <1>3, <1>4, <1>6 DEF StateRow
<1> QED BY <1>5, <1>6

\* The end of a run, whatever it wrote to the refresh state before.
LEMMA RunEnds ==
    ASSUME MetadataInv, NEW c \in Collectors, runs[c].phase # "idle", End(c),
           UNCHANGED <<catalog, visible, clock, rows, files>>,
           state' \in RefreshStates \cup {Null},
           state' # Null /\ state'.status = "complete" =>
              /\ state'.success = state'.height
              /\ \A p \in state'.selected : RowCovers(p, state'.height)
    PROVE  MetadataInv'
<1>1. lock = c
  BY DEF MetadataInv, MetadataAlone
<1>2. /\ runs' = [d \in Collectors |-> runs'[d]]
      /\ \A d \in Collectors \ {c} : runs'[d] = runs[d]
      /\ runs'[c].phase = "idle"
  BY DEF End, NoRun, MetadataInv, MetadataTyped
<1> QED BY <1>1, <1>2, RunMoves

\* A snapshot is published: the row moves forward, and its files and retained
\* values are those of the heights they carry.
LEMMA PublishKeeps ==
    ASSUME MetadataInv, NEW c \in Collectors, NEW p \in Paths, NEW ok \in SUBSET Applicable(p),
           runs[c].phase = "collecting", publish(p, runs[c].height, ok, clock),
           runs' = [runs EXCEPT ![c].todo = @ \ {p}, ![c].published = @ \cup {p}],
           UNCHANGED <<catalog, visible, clock, state, lock>>
    PROVE  MetadataInv'
<1>1. PICK h \in 0..MaxHeight : h = runs[c].height /\ runs[c] \in MetadataRuns
  BY DEF MetadataInv, MetadataTyped, MetadataRuns
<1>2. PICK caps : caps = [a \in Applicable(p) |-> SuccessValue(rows[p], a, a \in ok, h)]
  OBVIOUS
<1>3. PICK row : row = [height |-> h, at |-> clock, hash |-> ContentAt(h),
               status |-> IF ok = Applicable(p) THEN "complete" ELSE "partial",
               ok |-> ok, caps |-> caps]
  OBVIOUS
<1>4. rows' = [rows EXCEPT ![p] = row]
  BY <1>1, <1>2, <1>3 DEF publish
<1>5. /\ row.height = h /\ row.at = clock /\ row.hash = ContentAt(h)
      /\ row.ok = ok /\ row.caps = caps /\ row.status \in {"complete", "partial"}
  BY <1>3
<1>6. \A q \in Paths : rows'[q] = IF q = p THEN row ELSE rows[q]
  BY <1>4 DEF MetadataInv, MetadataTyped
<1>7. Applicable(p) \in {Caps, PathCaps} /\ ok \subseteq Caps
  BY DEF Applicable, Caps
<1>8. caps \in [Applicable(p) -> [value : Int \cup {Null}, height : Int \cup {Null}]]
  <2>1. ASSUME NEW a \in Applicable(p)
        PROVE  SuccessValue(rows[p], a, a \in ok, h) \in [value : Int \cup {Null}, height : Int \cup {Null}]
    BY DEF SuccessValue, MetadataInv, RowCapsTyped
  <2> QED BY <1>2, <2>1
<1>9. row \in MetadataRows /\ row # Null
  <2>1. ContentAt(h) \in {ContentAt(k) : k \in 0..MaxHeight}
    OBVIOUS
  <2>2. caps \in UNION {[A -> [value : Int \cup {Null}, height : Int \cup {Null}]] :
                     A \in {Caps, PathCaps}}
    BY <1>7, <1>8
  <2>3. clock \in 0..MaxWallTime
    BY DEF MetadataInv, MetadataTyped
  <2>4. row \in MetadataRows
    BY <1>3, <1>7, <2>1, <2>2, <2>3 DEF MetadataRows
  <2> QED BY <2>4, MetadataAssumption
<1>10. /\ runs' = [d \in Collectors |-> runs'[d]]
       /\ \A d \in Collectors \ {c} : runs'[d] = runs[d]
       /\ runs'[c] \in MetadataRuns
       /\ runs'[c].phase = runs[c].phase /\ runs'[c].height = h
       /\ runs'[c].started = runs[c].started
       /\ runs'[c].published = runs[c].published \cup {p}
  BY <1>1 DEF MetadataInv, MetadataTyped, MetadataRuns
<1>11. \A d \in Collectors : runs'[d].phase = runs[d].phase
  BY <1>10
<1>12. files' \in [Paths -> {ContentAt(k) : k \in 0..MaxHeight} \cup {Null}]
  <2>1. ContentAt(h) \in {ContentAt(k) : k \in 0..MaxHeight}
    OBVIOUS
  <2> QED BY <1>1, <2>1 DEF publish, MetadataInv, MetadataTyped
<1>13. MetadataTyped'
  <2>1. rows' \in [Paths -> MetadataRows \cup {Null}]
    BY <1>4, <1>9 DEF MetadataInv, MetadataTyped
  <2>2. \A d \in Collectors : runs'[d].phase \in {"idle", "locked"} \/ runs'[d] \in MetadataRuns
    BY <1>10 DEF MetadataInv, MetadataTyped
  <2> QED BY <1>10, <1>12, <2>1, <2>2 DEF MetadataInv, MetadataTyped
<1>14. MetadataAlone'
  BY <1>11 DEF MetadataInv, MetadataAlone
<1>15. ASSUME NEW q \in Paths, NEW k \in Int, RowCovers(q, k)
       PROVE  rows'[q] # Null /\ rows'[q].height >= k
  <2>1. CASE q = p
    <3>1. rows[p].height \in Int
      BY <1>15, <2>1 DEF RowCovers, MetadataInv, MetadataTyped, MetadataRows
    <3>2. rows[p].height <= h
      BY <1>1, <1>15, <2>1, <3>1 DEF publish, NotStale, RowCovers
    <3> QED BY <1>5, <1>6, <1>9, <1>15, <2>1, <3>1, <3>2 DEF RowCovers
  <2> QED BY <2>1, <1>6, <1>15 DEF RowCovers
<1>16. MetadataCollected'
  <2> SUFFICES ASSUME NEW d \in Collectors, runs'[d].phase \in {"selected", "collecting"},
                      NEW q \in runs'[d].published
               PROVE  rows'[q] # Null /\ rows'[q].height >= runs'[d].height
    BY DEF MetadataCollected, RowCovers
  <2>1. d = c
    BY <1>11 DEF MetadataInv, MetadataAlone
  <2>2. CASE q = p
    BY <1>5, <1>6, <1>9, <1>10, <2>1, <2>2
  <2>3. CASE q # p
    <3>1. q \in runs[c].published /\ q \in Paths
      BY <1>1, <1>10, <2>1, <2>3 DEF MetadataRuns
    <3>2. RowCovers(q, h)
      BY <1>1, <3>1 DEF MetadataInv, MetadataCollected
    <3> QED BY <1>10, <1>15, <2>1, <3>1, <3>2
  <2> QED BY <2>2, <2>3
<1>17. RowCapsTyped'
  BY <1>5, <1>6, <1>8 DEF MetadataInv, RowCapsTyped
<1>18. MetadataTruthful'
  <2> SUFFICES ASSUME NEW q \in Paths, rows'[q] # Null
               PROVE  /\ files'[q] = rows'[q].hash /\ rows'[q].hash = ContentAt(rows'[q].height)
                      /\ \A a \in Applicable(q) :
                           /\ rows'[q].caps[a].value = rows'[q].caps[a].height
                           /\ a \in rows'[q].ok => rows'[q].caps[a].height = rows'[q].height
    BY DEF MetadataTruthful
  <2>1. CASE q # p
    <3>1. rows'[q] = rows[q] /\ files'[q] = files[q]
      BY <1>6, <2>1 DEF publish, MetadataInv, MetadataTyped
    <3> QED BY <3>1 DEF MetadataInv, MetadataTruthful
  <2>2. CASE q = p
    <3>1. files'[p] = ContentAt(h)
      <4>1. CASE rows[p] = Null \/ rows[p].hash # ContentAt(h)
        BY <1>1, <4>1 DEF publish, MetadataInv, MetadataTyped
      <4>2. CASE rows[p] # Null /\ rows[p].hash = ContentAt(h)
        <5>1. files' = files
          BY <1>1, <4>2 DEF publish
        <5> QED BY <4>2, <5>1 DEF MetadataInv, MetadataTruthful
      <4> QED BY <4>1, <4>2
    <3>2. ASSUME NEW a \in Applicable(p)
          PROVE  caps[a].value = caps[a].height /\ (a \in ok => caps[a].height = h)
      <4>1. caps[a] = SuccessValue(rows[p], a, a \in ok, h)
        BY <1>2
      <4>2. CASE a \in ok
        BY <4>1, <4>2 DEF SuccessValue
      <4>3. CASE a \notin ok /\ rows[p] = Null
        BY <4>1, <4>3 DEF SuccessValue
      <4>4. CASE a \notin ok /\ rows[p] # Null
        BY <4>1, <4>4 DEF SuccessValue, MetadataInv, MetadataTruthful
      <4> QED BY <4>2, <4>3, <4>4
    <3> QED BY <1>5, <1>6, <2>2, <3>1, <3>2
  <2> QED BY <2>1, <2>2
<1>19. RunStateSound'
  <2>1. \A d \in Collectors : runs'[d].phase = "collecting" =>
          /\ state # Null /\ state.status = "running"
          /\ state.height = runs'[d].height /\ state.started = runs'[d].started
    BY <1>1, <1>10, <1>11 DEF MetadataInv, RunStateSound
  <2>2. state # Null /\ state.status # "complete"
    BY DEF MetadataInv, RunStateSound
  <2> QED BY <2>1, <2>2 DEF RunStateSound
<1> QED BY <1>13, <1>14, <1>16, <1>17, <1>18, <1>19 DEF MetadataInv

\* Every step of the collector keeps its invariant.
LEMMA MetadataStep == MetadataInv /\ [MetadataNext]_metadataVars => MetadataInv'
<1> SUFFICES ASSUME MetadataInv, [MetadataNext]_metadataVars PROVE MetadataInv'
  OBVIOUS
<1> USE DEF RowCovers
<1>s. /\ state \in RefreshStates \cup {Null}
      /\ state # Null /\ state.status = "complete" =>
              /\ state.success = state.height
              /\ \A p \in state.selected : RowCovers(p, state.height)
  BY DEF MetadataInv, MetadataTyped, RunStateSound
<1>1. ASSUME UNCHANGED <<rows, files, state, lock, runs>>, catalog' \in 0..MaxHeight,
             visible' \subseteq Paths, clock' \in 0..MaxWallTime
      PROVE  MetadataInv'
  BY <1>1 DEF MetadataInv, MetadataTyped, MetadataAlone, MetadataCollected, RowCapsTyped,
              MetadataTruthful, RunStateSound
<1>2. CASE CatalogRefreshed
  BY <1>1, <1>2, MetadataAssumption DEF CatalogRefreshed, MetadataInv, MetadataTyped
<1>3. CASE ClockTick
  BY <1>1, <1>3, MetadataAssumption DEF ClockTick, MetadataInv, MetadataTyped
<1>4. CASE UNCHANGED metadataVars
  BY <1>1, <1>4 DEF metadataVars, MetadataInv, MetadataTyped
<1>5. ASSUME NEW c \in Collectors, TakeLock(c) PROVE MetadataInv'
  <2>1. /\ runs' = [d \in Collectors |-> runs'[d]]
        /\ \A d \in Collectors \ {c} : runs'[d] = runs[d]
        /\ runs'[c].phase = "locked" /\ lock = Null /\ lock' = c
        /\ UNCHANGED <<catalog, visible, clock, rows, files, state>>
    BY <1>5 DEF TakeLock, LockFree, MetadataInv, MetadataTyped
  <2> QED BY <1>s, <2>1, RunMoves
<1>6. ASSUME NEW c \in Collectors, SelectPaths(c) PROVE MetadataInv'
  <2>1. PICK selected \in SUBSET visible :
         runs' = [runs EXCEPT ![c] =
            [phase |-> "selected", height |-> catalog, started |-> clock,
             selected |-> selected, todo |-> selected, published |-> {}]]
    BY <1>6 DEF SelectPaths
  <2>2. PICK r : r = [phase |-> "selected", height |-> catalog, started |-> clock,
             selected |-> selected, todo |-> selected, published |-> {}]
    OBVIOUS
  <2>3. r \in MetadataRuns /\ r.phase = "selected" /\ r.published = {}
    BY <2>2 DEF MetadataRuns, MetadataInv, MetadataTyped
  <2>4. /\ runs' = [d \in Collectors |-> runs'[d]]
        /\ \A d \in Collectors \ {c} : runs'[d] = runs[d]
        /\ runs'[c] = r
    BY <2>1, <2>2 DEF MetadataInv, MetadataTyped
  <2>5. lock = c /\ UNCHANGED <<catalog, visible, clock, rows, files, state, lock>>
    BY <1>6 DEF SelectPaths, MetadataInv, MetadataAlone
  <2> QED BY <1>s, <2>3, <2>4, <2>5, RunMoves
<1>7. ASSUME NEW c \in Collectors, SelectFails(c) \/ CrashRun(c) PROVE MetadataInv'
  <2>1. /\ runs[c].phase # "idle" /\ End(c)
        /\ UNCHANGED <<catalog, visible, clock, rows, files, state>>
    BY <1>7 DEF SelectFails, CrashRun
  <2> QED BY <1>s, <2>1, RunEnds
<1>8. ASSUME NEW c \in Collectors, StartRun(c) PROVE MetadataInv'
  <2>1. /\ runs[c].phase = "selected" /\ runs[c] \in MetadataRuns /\ lock = c
        /\ UNCHANGED <<catalog, visible, clock, rows, files>>
    BY <1>8 DEF StartRun, MetadataInv, MetadataTyped, MetadataAlone
  <2>2. CASE End(c) /\ UNCHANGED state
    BY <1>s, <2>1, <2>2, RunEnds
  <2>3. CASE End(c) /\ state' = StateRow(RunState(runs[c], "failed"))
    <3>1. state' \in RefreshStates /\ state'.status = "failed"
      BY <2>1, <2>3, StateWritten DEF MetadataInv
    <3>2. state'.status # "complete"
      BY <3>1
    <3> QED BY <2>1, <2>3, <3>1, <3>2, RunEnds
  <2>4. CASE /\ persist_state(RunState(runs[c], "running"))
             /\ runs' = [runs EXCEPT ![c].phase = "collecting"]
             /\ UNCHANGED lock
    <3>1. /\ runs' = [d \in Collectors |-> runs'[d]]
          /\ \A d \in Collectors \ {c} : runs'[d] = runs[d]
          /\ runs'[c] \in MetadataRuns /\ runs'[c].height = runs[c].height
          /\ runs'[c].started = runs[c].started /\ runs'[c].published = runs[c].published
      BY <2>1, <2>4 DEF MetadataInv, MetadataTyped, MetadataRuns
    <3>2. /\ state' \in RefreshStates /\ state' # Null
          /\ state'.height = runs[c].height /\ state'.started = runs[c].started
          /\ state'.status = "running"
      BY <2>1, <2>4, StateWritten DEF persist_state, MetadataInv
    <3>3. \A p \in runs'[c].published : RowCovers(p, runs'[c].height)
      BY <2>1, <3>1 DEF MetadataInv, MetadataCollected
    <3>4. state'.status # "complete"
      BY <3>2
    <3> QED BY <2>1, <2>4, <3>1, <3>2, <3>3, <3>4, RunMoves
  <2> QED BY <1>8, <2>2, <2>3, <2>4 DEF StartRun, PersistFailed
<1>9. ASSUME NEW c \in Collectors, FinishRun(c) PROVE MetadataInv'
  <2>1. /\ runs[c].phase = "collecting" /\ runs[c] \in MetadataRuns /\ End(c)
        /\ UNCHANGED <<catalog, visible, clock, rows, files>>
    BY <1>9 DEF FinishRun, MetadataInv, MetadataTyped
  <2>2. PICK status : status = TerminalStatus(runs[c])
    OBVIOUS
  <2>3. /\ status \in {"running", "complete", "partial", "failed"}
        /\ status = "complete" => runs[c].published = runs[c].selected
    BY <2>2 DEF TerminalStatus
  <2>4. state' = StateRow(RunState(runs[c], status))
    BY <1>9, <2>2 DEF FinishRun, persist_state
  <2>5. /\ state' \in RefreshStates /\ state' # Null
        /\ state'.height = runs[c].height /\ state'.status = status
        /\ state'.selected = runs[c].selected
        /\ status = "complete" => state'.success = runs[c].height
    BY <2>1, <2>3, <2>4, StateWritten DEF MetadataInv
  <2>6. \A p \in runs[c].published : RowCovers(p, runs[c].height)
    BY <2>1 DEF MetadataInv, MetadataCollected
  <2> QED BY <2>1, <2>3, <2>5, <2>6, RunEnds
<1>10. ASSUME NEW c \in Collectors, AbortRun(c) PROVE MetadataInv'
  <2>1. /\ runs[c].phase = "collecting" /\ runs[c] \in MetadataRuns /\ End(c)
        /\ UNCHANGED <<catalog, visible, clock, rows, files>>
    BY <1>10 DEF AbortRun, MetadataInv, MetadataTyped
  <2>2. CASE UNCHANGED state
    BY <1>s, <2>1, <2>2, RunEnds
  <2>3. CASE state' = StateRow(RunState(runs[c], "failed"))
    <3>1. state' \in RefreshStates /\ state'.status = "failed"
      BY <2>1, <2>3, StateWritten DEF MetadataInv
    <3>2. state'.status # "complete"
      BY <3>1
    <3> QED BY <2>1, <3>1, <3>2, RunEnds
  <2> QED BY <1>10, <2>2, <2>3 DEF AbortRun, PersistFailed
<1>11. ASSUME NEW c \in Collectors, NEW p \in Paths, CollectPath(c, p) PROVE MetadataInv'
  <2>1. /\ runs[c].phase = "collecting" /\ runs[c] \in MetadataRuns /\ lock = c
        /\ UNCHANGED <<catalog, visible, clock, state, lock>>
    BY <1>11 DEF CollectPath, MetadataInv, MetadataTyped, MetadataAlone
  <2>2. CASE /\ runs' = [runs EXCEPT ![c].todo = @ \ {p}, ![c].published = @ \cup {}]
             /\ UNCHANGED <<rows, files>>
    <3>1. /\ runs' = [d \in Collectors |-> runs'[d]]
          /\ \A d \in Collectors \ {c} : runs'[d] = runs[d]
          /\ runs'[c] \in MetadataRuns /\ runs'[c].height = runs[c].height
          /\ runs'[c].phase = "collecting"
          /\ runs'[c].started = runs[c].started /\ runs'[c].published = runs[c].published
      BY <2>1, <2>2 DEF MetadataInv, MetadataTyped, MetadataRuns
    <3>2. \A q \in runs'[c].published : RowCovers(q, runs'[c].height)
      BY <2>1, <3>1 DEF MetadataInv, MetadataCollected
    <3>3. /\ state # Null /\ state.status = "running"
          /\ state.height = runs[c].height /\ state.started = runs[c].started
      BY <2>1 DEF MetadataInv, RunStateSound
    <3> QED BY <1>s, <2>1, <2>2, <3>1, <3>2, <3>3, RunMoves
  <2>3. CASE \E ok \in SUBSET Applicable(p) :
               /\ publish(p, runs[c].height, ok, clock)
               /\ runs' = [runs EXCEPT ![c].todo = @ \ {p}, ![c].published = @ \cup {p}]
    BY <2>1, <2>3, PublishKeeps
  <2> QED BY <1>11, <2>2, <2>3 DEF CollectPath
<1> QED BY <1>2, <1>3, <1>4, <1>5, <1>6, <1>7, <1>8, <1>9, <1>10, <1>11 DEF MetadataNext

\* What the metadata page shows is what the chain had at the height it
\* carries, for any number of collectors dying and restarting.
THEOREM MetadataIsTruthful == MetadataSpec => []MetadataTruthful
<1>1. MetadataInv => MetadataTruthful
  BY DEF MetadataInv
<1> QED BY <1>1, MetadataInitInv, MetadataStep, PTL DEF MetadataSpec

\* A collecting run owns the refresh state, and a complete refresh vouches for
\* every path it selected.
THEOREM RefreshStateIsSound == MetadataSpec => []RunStateSound
<1>1. MetadataInv => RunStateSound
  BY DEF MetadataInv
<1> QED BY <1>1, MetadataInitInv, MetadataStep, PTL DEF MetadataSpec

-----------------------------------------------------------------------------
(* Valopers.  A collection at height h holds the first pages of the        *)
(* registry at h, then all of it; its profiles are a prefix without a      *)
(* repeated key.                                                           *)

ValopersJobs ==
    [phase : {"list", "details"}, height : 1..TopHeight, page : Nat,
     entries : Seq(Profiles), profiles : Seq(Profiles)]

Listing(j) ==
    /\ j.page > 0 /\ j.profiles = <<>>
    /\ j.page = 1 \/ (j.page - 1) * PageSize < Len(Registry(j.height))
    /\ j.entries = SubSeq(Registry(j.height), 1, (j.page - 1) * PageSize)

Detailing(j) ==
    /\ j.page = PageCount(Registry(j.height)) /\ j.entries = Registry(j.height)
    /\ Len(j.profiles) <= Len(j.entries)
    /\ j.profiles = SubSeq(j.entries, 1, Len(j.profiles))
    /\ Unique(j.profiles, KeyOf)

JobSound(j) ==
    j.phase # "idle" =>
        /\ j \in ValopersJobs
        /\ j.phase = "list" => Listing(j)
        /\ j.phase = "details" => Detailing(j)

ValopersInv ==
    /\ jobs = [c \in Persisters |-> jobs[c]]
    /\ \A c \in Persisters : JobSound(jobs[c])
    /\ snapshot \in Snapshots \cup {Nothing} /\ applied \subseteq 1..TopHeight
    /\ SnapshotWhole

\* The number of pages: the last page is the first one to reach the end.
LEMMA PageCountBounds ==
    ASSUME NEW n \in Nat
    PROVE  LET q == (n + PageSize - 1) \div PageSize
           IN  /\ q \in Nat
               /\ n = 0 => q = 0
               /\ \A k \in Nat : (k < q <=> k * PageSize < n)
<1> USE ValopersAssumption
<1>1. PICK q \in Int : q = (n + PageSize - 1) \div PageSize
  OBVIOUS
<1>2. q * PageSize <= n + PageSize - 1 /\ n + PageSize - 1 < q * PageSize + PageSize
  BY <1>1, SMTT(30)
<1>3. q >= 0
  BY <1>1, <1>2, SMTT(30)
<1>4. n = 0 => q = 0
  BY <1>2, <1>3, SMTT(30)
<1>5. ASSUME NEW k \in Nat, k < q PROVE k * PageSize < n
  <2>1. (k + 1) * PageSize <= q * PageSize
    BY <1>5, SMTT(30)
  <2>2. (k + 1) * PageSize = k * PageSize + PageSize
    BY SMTT(30)
  <2> QED BY <1>2, <2>1, <2>2, SMTT(30)
<1>6. ASSUME NEW k \in Nat, k >= q PROVE k * PageSize >= n
  <2>1. k * PageSize >= q * PageSize
    BY <1>6, <1>3, SMTT(30)
  <2> QED BY <1>2, <2>1, SMTT(30)
<1>7. \A k \in Nat : k < q <=> k * PageSize < n
  BY <1>5, <1>6, SMTT(30)
<1> QED BY <1>1, <1>3, <1>4, <1>7

\* Nothing is collected or published at first.
LEMMA ValopersInitInv == ValopersInit => ValopersInv
<1> SUFFICES ASSUME ValopersInit PROVE ValopersInv
  OBVIOUS
<1>1. \A c \in Persisters : JobSound(jobs[c])
  BY DEF ValopersInit, NoJob, JobSound
<1> QED BY <1>1, ValopersAssumption DEF ValopersInit, ValopersInv, SnapshotWhole

\* A page is read: the entries are a longer prefix of the registry, or all.
LEMMA PageRead ==
    ASSUME NEW j, JobSound(j), j.phase = "list", NEW k,
           NEW served \in {j.page, 1}, NEW page,
           page = PageOf(Registry(j.height), served),
           Registry(j.height) # <<>> => PageAccepted(j, page, served),
           k = [j EXCEPT
                  !.entries = @ \o page,
                  !.page = IF served < PageCount(Registry(j.height)) THEN @ + 1
                           ELSE IF Registry(j.height) = <<>> THEN 0 ELSE @,
                  !.phase = IF served < PageCount(Registry(j.height)) THEN "list" ELSE "details"]
    PROVE  JobSound(k)
<1> USE ValopersAssumption
<1>1. PICK reg \in Seq(Profiles) : reg = Registry(j.height)
  BY DEF JobSound, ValopersJobs
<1>2. PICK p \in Nat : p = j.page /\ p > 0
  BY DEF JobSound, ValopersJobs, Listing
<1>3. PICK n \in Nat : n = Len(reg)
  BY LenProperties
<1>4. PICK q \in Nat : /\ q = PageCount(reg)
                       /\ n = 0 => q = 0
                       /\ \A i \in Nat : i < q <=> i * PageSize < n
  BY <1>3, PageCountBounds DEF PageCount
<1>5. /\ j \in ValopersJobs /\ j.profiles = <<>>
      /\ p = 1 \/ (p - 1) * PageSize < n
      /\ j.entries = SubSeq(reg, 1, (p - 1) * PageSize)
  BY <1>1, <1>2, <1>3 DEF JobSound, Listing
<1>6. PICK a \in Nat : a = (p - 1) * PageSize /\ a <= n /\ p * PageSize = a + PageSize
  <2>1. (p - 1) * PageSize \in Nat /\ p * PageSize = (p - 1) * PageSize + PageSize
    <3>1. PICK m \in Nat : m = p - 1 /\ p = m + 1
      BY <1>2
    <3>2. PageSize \in Nat
      BY ValopersAssumption
    <3>3. m * PageSize \in Nat
      BY <3>2, SMTT(30)
    <3>4. (m + 1) * PageSize = m * PageSize + PageSize
      BY <3>2, SMTT(30)
    <3> QED BY <3>1, <3>3, <3>4
  <2>2. p = 1 => (p - 1) * PageSize = 0
    BY SMTT(30)
  <2> QED BY <1>3, <1>5, <2>1, <2>2
<1>7. served = p
  <2>1. CASE reg = <<>>
    <3>1. n = 0
      BY <1>3, <2>1, EmptySeq
    <3>2. p = 1
      BY <1>5, <1>6, <3>1
    <3> QED BY <1>2, <3>2
  <2>2. CASE reg # <<>>
    BY <1>1, <1>2, <2>2 DEF PageAccepted
  <2> QED BY <2>1, <2>2
<1>8. served < PageCount(Registry(j.height)) <=> p < q
  BY <1>1, <1>4, <1>7
<1>9. PICK b \in Nat : b = (IF a + PageSize < n THEN a + PageSize ELSE n) /\ b >= a /\ b <= n
  <2>1. CASE a + PageSize < n
    BY <1>3, <1>6, <2>1
  <2>2. CASE ~(a + PageSize < n)
    BY <1>3, <1>6, <2>2
  <2> QED BY <2>1, <2>2
<1>10. page = SubSeq(reg, a + 1, b)
  BY <1>1, <1>3, <1>6, <1>7, <1>9 DEF PageOf
<1>11. SubSeq(reg, 1, a) \o page = SubSeq(reg, 1, b)
  <2>1. 1 \in 1..Len(reg) + 1 /\ a \in (1 - 1)..Len(reg) /\ b \in a..Len(reg)
    BY <1>3, <1>6, <1>9
  <2> QED BY <1>10, <2>1, ConcatAdjacentSubSeq
<1>12. SubSeq(reg, 1, b) \in Seq(Profiles)
  <2>1. \A i \in 1..b : reg[i] \in Profiles
    <3>1. \A i \in 1..Len(reg) : reg[i] \in Profiles
      BY ElementOfSeq
    <3> QED BY <1>3, <1>9, <3>1
  <2> QED BY <2>1, SubSeqProperties
<1>13. /\ k.entries = SubSeq(reg, 1, b) /\ k.profiles = <<>> /\ k.height = j.height
       /\ k.page = (IF p < q THEN p + 1 ELSE IF reg = <<>> THEN 0 ELSE p)
       /\ k.phase = (IF p < q THEN "list" ELSE "details")
  <2>1. DOMAIN j = {"phase", "height", "page", "entries", "profiles"}
    BY <1>5 DEF ValopersJobs
  <2>2. j.entries \o page = SubSeq(reg, 1, b)
    BY <1>5, <1>6, <1>11
  <2> QED BY <1>1, <1>2, <1>5, <1>8, <2>1, <2>2
<1>14. k \in ValopersJobs
  <2>1. k.page \in Nat /\ k.phase \in {"list", "details"}
    BY <1>2, <1>13
  <2>2. j.entries \o page \in Seq(Profiles)
    BY <1>5, <1>6, <1>11, <1>12
  <2> QED BY <1>5, <1>13, <2>1, <2>2 DEF ValopersJobs
<1>15. CASE p < q
  <2>1. p * PageSize < n
    BY <1>2, <1>4, <1>8, <1>15
  <2>2. b = p * PageSize
    BY <1>6, <1>9, <2>1
  <2>3. (p + 1) - 1 = p
    OBVIOUS
  <2>4. k.phase = "list" /\ k.page = p + 1
    BY <1>13, <1>15
  <2>5. k.page > 0 /\ (k.page - 1) * PageSize = b /\ b < n
    BY <1>2, <2>1, <2>2, <2>3, <2>4
  <2>6. Len(Registry(k.height)) = n /\ Registry(k.height) = reg
    BY <1>1, <1>3, <1>13
  <2>7. Listing(k)
    BY <1>13, <2>5, <2>6 DEF Listing
  <2> QED BY <1>14, <2>4, <2>7 DEF JobSound
<1>16. CASE ~(p < q)
  <2>1. ~(p * PageSize < n)
    BY <1>2, <1>4, <1>8, <1>16
  <2>2. b = n
    BY <1>6, <1>9, <2>1
  <2>3. k.phase = "details" /\ k.entries = reg
    BY <1>3, <1>13, <1>16, <2>2, SubSeqFull
  <2>4. k.page = q
    <3>1. CASE reg = <<>>
      BY <1>3, <1>4, <1>13, <1>16, <3>1, EmptySeq
    <3>2. CASE reg # <<>>
      <4>1. n > 0
        BY <1>3, <3>2, EmptySeq
      <4>2. (p - 1) * PageSize < n
        <5>1. CASE p = 1
          BY <4>1, <5>1, SMTT(30)
        <5> QED BY <5>1, <1>5
      <4>3. p - 1 \in Nat
        BY <1>2
      <4>4. p - 1 < q
        BY <1>4, <4>2, <4>3
      <4> QED BY <1>2, <1>8, <1>13, <1>16, <3>2, <4>4
    <3> QED BY <3>1, <3>2
  <2>5. Len(k.profiles) = 0 /\ Len(k.entries) \in Nat /\ k.profiles = SubSeq(k.entries, 1, 0)
    <3>1. SubSeq(k.entries, 1, 0) = <<>>
      BY SubSeqEmpty
    <3> QED BY <1>3, <1>13, <2>3, <3>1, EmptySeq
  <2>6. Unique(k.profiles, KeyOf)
    BY <1>13 DEF Unique
  <2>7. k.page = PageCount(Registry(k.height)) /\ k.entries = Registry(k.height)
    BY <1>1, <1>4, <1>13, <2>3, <2>4
  <2>8. Len(k.profiles) <= Len(k.entries) /\ k.profiles = SubSeq(k.entries, 1, Len(k.profiles))
    <3>1. Len(k.profiles) <= Len(k.entries)
      <4>1. \A m \in Nat : 0 <= m
        OBVIOUS
      <4> QED BY <2>5, <4>1, Zenon
    <3>2. k.profiles = SubSeq(k.entries, 1, Len(k.profiles))
      BY <2>5, Zenon
    <3> QED BY <3>1, <3>2
  <2>9. Detailing(k)
    BY <2>6, <2>7, <2>8 DEF Detailing
  <2> QED BY <1>14, <2>3, <2>9 DEF JobSound
<1> QED BY <1>15, <1>16

\* A profile is read: the profiles are a longer prefix, still without a
\* repeated key.
LEMMA DetailRead ==
    ASSUME NEW j, JobSound(j), j.phase = "details", Len(j.profiles) < Len(j.entries),
           NEW profile, profile = Registry(j.height)[Len(j.profiles) + 1],
           DetailAccepted(j, profile), NEW k, k = [j EXCEPT !.profiles = Append(@, profile)]
    PROVE  JobSound(k)
<1> USE ValopersAssumption
<1>1. PICK reg \in Seq(Profiles) : reg = Registry(j.height)
  BY DEF JobSound, ValopersJobs
<1>2. j \in ValopersJobs /\ j.entries = reg /\ j.profiles = SubSeq(reg, 1, Len(j.profiles))
  BY <1>1 DEF JobSound, Detailing
<1>3. PICK n \in Nat : n = Len(j.profiles) /\ n + 1 \in 1..Len(reg) /\ Len(reg) \in Nat
  <2>1. Len(j.profiles) \in Nat /\ Len(reg) \in Nat
    BY <1>2, LenProperties DEF ValopersJobs
  <2> QED BY <1>2, <2>1
<1>4. profile \in Profiles
  BY <1>1, <1>3, ElementOfSeq
<1>5. PICK ps \in Seq(Profiles) : ps = Append(j.profiles, profile) /\ Len(ps) = n + 1
  <2>1. j.profiles \in Seq(Profiles)
    BY <1>2 DEF ValopersJobs
  <2>2. Append(j.profiles, profile) \in Seq(Profiles) /\ Len(Append(j.profiles, profile)) = Len(j.profiles) + 1
    BY <1>4, <2>1, AppendProperties
  <2> QED BY <1>3, <2>2
<1>6. ps = SubSeq(reg, 1, n + 1)
  <2>1. 1 \in 1..Len(reg) /\ n + 1 \in 1..Len(reg) /\ (n + 1) - 1 = n
    BY <1>3
  <2>2. SubSeq(reg, 1, n + 1) = SubSeq(reg, 1, n) \o <<reg[n + 1]>>
    BY <2>1, SubSeqRecursiveSecond
  <2>3. ps = j.profiles \o <<profile>>
    BY <1>2, <1>4, <1>5, AppendIsConcat DEF ValopersJobs
  <2> QED BY <1>1, <1>2, <1>3, <2>2, <2>3
<1>7. /\ k.profiles = ps /\ k.entries = reg /\ k.height = j.height /\ k.page = j.page
      /\ k.phase = "details" /\ k \in ValopersJobs
  BY <1>2, <1>5 DEF ValopersJobs
<1>8. Unique(ps, KeyOf)
  BY <1>5 DEF DetailAccepted
<1>9. Detailing(k)
  BY <1>1, <1>3, <1>5, <1>6, <1>7, <1>8 DEF JobSound, Detailing
<1> QED BY <1>7, <1>9 DEF JobSound

\* Every step of a persister keeps the invariant.
LEMMA ValopersStep == ValopersInv /\ [ValopersNext]_valopersVars => ValopersInv'
<1> SUFFICES ASSUME ValopersInv, [ValopersNext]_valopersVars PROVE ValopersInv'
  OBVIOUS
<1> USE ValopersAssumption
<1>1. ASSUME NEW c \in Persisters, NEW j, JobSound(j), jobs' = [jobs EXCEPT ![c] = j],
             UNCHANGED <<snapshot, applied>>
      PROVE  ValopersInv'
  <2>1. \A d \in Persisters : jobs'[d] = IF d = c THEN j ELSE jobs[d]
    BY <1>1 DEF ValopersInv
  <2>2. jobs' = [d \in Persisters |-> jobs'[d]]
    BY <1>1 DEF ValopersInv
  <2>3. \A d \in Persisters : JobSound(jobs'[d])
    BY <1>1, <2>1 DEF ValopersInv
  <2> QED BY <1>1, <2>2, <2>3 DEF ValopersInv, SnapshotWhole
<1>2. JobSound(NoJob)
  BY DEF JobSound, NoJob
<1>3. ASSUME NEW c \in Persisters, Pin(c) PROVE ValopersInv'
  <2>1. PICK h \in 1..TopHeight : jobs' = [jobs EXCEPT ![c] =
            [phase |-> "list", height |-> h, page |-> 1, entries |-> <<>>, profiles |-> <<>>]]
    BY <1>3 DEF Pin
  <2>2. PICK j : j = [phase |-> "list", height |-> h, page |-> 1, entries |-> <<>>, profiles |-> <<>>]
    OBVIOUS
  <2>3. SubSeq(Registry(h), 1, 0) = <<>> /\ <<>> \in Seq(Profiles) /\ (1 - 1) * PageSize = 0
    BY SubSeqEmpty, EmptySeq
  <2>4. j \in ValopersJobs
    BY <2>2, <2>3 DEF ValopersJobs
  <2>5. Listing(j) /\ j.phase = "list"
    BY <2>2, <2>3 DEF Listing
  <2>6. JobSound(j)
    BY <2>4, <2>5 DEF JobSound
  <2> QED BY <1>1, <1>3, <2>1, <2>2, <2>6 DEF Pin
<1>4. ASSUME NEW c \in Persisters, CollectFails(c) PROVE ValopersInv'
  BY <1>1, <1>2, <1>4 DEF CollectFails
<1>5. ASSUME NEW c \in Persisters, ListPage(c) PROVE ValopersInv'
  <2>1. PICK j : j = jobs[c] /\ JobSound(j) /\ j.phase = "list"
    BY <1>5 DEF ListPage, ValopersInv
  <2>2. PICK served \in {j.page, 1} :
             LET page == PageOf(Registry(j.height), served)
                 more == served < PageCount(Registry(j.height))
             IN  /\ Registry(j.height) # <<>> => PageAccepted(j, page, served)
                 /\ jobs' = [jobs EXCEPT ![c] = [j EXCEPT
                       !.entries = @ \o page,
                       !.page = IF more THEN @ + 1 ELSE IF Registry(j.height) = <<>> THEN 0 ELSE @,
                       !.phase = IF more THEN "list" ELSE "details"]]
    BY <1>5, <2>1 DEF ListPage
  <2>3. PICK page : page = PageOf(Registry(j.height), served)
    OBVIOUS
  <2>5. PICK k : k = [j EXCEPT
                  !.entries = @ \o page,
                  !.page = IF served < PageCount(Registry(j.height)) THEN @ + 1
                           ELSE IF Registry(j.height) = <<>> THEN 0 ELSE @,
                  !.phase = IF served < PageCount(Registry(j.height)) THEN "list" ELSE "details"]
    OBVIOUS
  <2>6. (Registry(j.height) # <<>> => PageAccepted(j, page, served)) /\ jobs' = [jobs EXCEPT ![c] = k]
    BY <2>2, <2>3, <2>5, Zenon
  <2>7. JobSound(k)
    BY <2>1, <2>3, <2>5, <2>6, PageRead
  <2> QED BY <1>1, <1>5, <2>6, <2>7 DEF ListPage
<1>6. ASSUME NEW c \in Persisters, Detail(c) PROVE ValopersInv'
  <2>1. PICK j : j = jobs[c] /\ JobSound(j) /\ j.phase = "details"
    BY <1>6 DEF Detail, ValopersInv
  <2>2. PICK profile : profile = Registry(j.height)[Len(j.profiles) + 1]
    OBVIOUS
  <2>3. PICK k : k = [j EXCEPT !.profiles = Append(@, profile)]
    OBVIOUS
  <2>4. /\ Len(j.profiles) < Len(j.entries) /\ DetailAccepted(j, profile)
        /\ jobs' = [jobs EXCEPT ![c].profiles = Append(@, profile)]
    BY <1>6, <2>1, <2>2 DEF Detail
  <2>5. jobs' = [jobs EXCEPT ![c] = k]
    BY <2>1, <2>3, <2>4, Zenon
  <2>6. JobSound(k)
    BY <2>1, <2>2, <2>3, <2>4, DetailRead
  <2> QED BY <1>1, <1>6, <2>5, <2>6 DEF Detail
<1>7. ASSUME NEW c \in Persisters, Replace(c) PROVE ValopersInv'
  <2>1. PICK j : /\ j = jobs[c] /\ j \in ValopersJobs /\ Detailing(j)
                 /\ Len(j.profiles) = Len(j.entries) /\ NotOlder(j)
    BY <1>7 DEF Replace, ValopersInv, JobSound
  <2>2. PICK s : s = [height |-> j.height, pages |-> j.page, profiles |-> j.profiles]
    OBVIOUS
  <2>3. /\ snapshot' = s /\ applied' = applied \cup {j.height}
        /\ jobs' = [jobs EXCEPT ![c] = NoJob]
    BY <1>7, <2>1, <2>2 DEF Replace, Incoming
  <2>4. j.profiles = Registry(j.height)
    <3>1. j.entries \in Seq(Profiles)
      BY <2>1 DEF ValopersJobs
    <3>2. j.profiles = SubSeq(j.entries, 1, Len(j.entries))
      BY <2>1 DEF Detailing
    <3> QED BY <2>1, <3>1, <3>2, SubSeqFull DEF Detailing
  <2>5. j.height \in 1..TopHeight /\ j.page \in Nat
    BY <2>1 DEF ValopersJobs
  <2>6. s \in Snapshots /\ s # Nothing
    <3>1. s \in Snapshots
      BY <2>2, <2>4, <2>5 DEF Snapshots
    <3> QED BY <3>1
  <2>7. /\ s.profiles = Registry(s.height) /\ s.pages = PageCount(s.profiles)
        /\ Unique(s.profiles, KeyOf) /\ s.height = j.height
    BY <2>1, <2>2, <2>4 DEF Detailing
  <2>8. ASSUME NEW h \in applied \cup {j.height} PROVE s.height >= h
    <3>1. CASE h = j.height
      BY <2>5, <2>7, <3>1
    <3>2. CASE h \in applied
      <4>1. snapshot # Nothing /\ snapshot.height >= h /\ h \in Int
        BY <3>2 DEF ValopersInv, SnapshotWhole
      <4>2. snapshot.height \in Int
        BY <4>1 DEF ValopersInv, Snapshots
      <4>3. j.height >= snapshot.height
        BY <2>1, <4>1 DEF NotOlder
      <4> QED BY <2>5, <2>7, <4>1, <4>2, <4>3
    <3> QED BY <3>1, <3>2
  <2>9. SnapshotWhole'
    BY <2>3, <2>6, <2>7, <2>8 DEF SnapshotWhole
  <2>10. \A d \in Persisters : jobs'[d] = IF d = c THEN NoJob ELSE jobs[d]
    BY <2>3 DEF ValopersInv
  <2>11. jobs' = [d \in Persisters |-> jobs'[d]]
    BY <2>3 DEF ValopersInv
  <2>12. \A d \in Persisters : JobSound(jobs'[d])
    BY <1>2, <2>10 DEF ValopersInv
  <2>13. applied' \subseteq 1..TopHeight
    BY <2>3, <2>5 DEF ValopersInv
  <2> QED BY <2>3, <2>6, <2>9, <2>11, <2>12, <2>13 DEF ValopersInv
<1>8. CASE UNCHANGED valopersVars
  BY <1>8 DEF valopersVars, ValopersInv, SnapshotWhole
<1> QED BY <1>3, <1>4, <1>5, <1>6, <1>7, <1>8 DEF ValopersNext

\* The published profiles are the complete registry of one height, and no
\* reported publication is undone, for any registry and page size.
THEOREM SnapshotsAreWhole == ValopersSpec => []SnapshotWhole
<1>1. ValopersInv => SnapshotWhole
  BY DEF ValopersInv
<1> QED BY <1>1, ValopersInitInv, ValopersStep, PTL DEF ValopersSpec

-----------------------------------------------------------------------------
(* NetworkDistribution.  Only the lock's holder saves a snapshot; other    *)
(* processes only end transactions, which takes rows away and leaves the   *)
(* rest in order.                                                          *)

GeoRecords == [success : BOOLEAN, expires : Int]
Counts == {Cardinality(S) : S \in SUBSET Ips}
GeoUpdates == UNION {[A -> GeoRecords] : A \in SUBSET Ips}
NetResults == [at : Nat, ips : Counts, located : Counts]
NetRows ==
    [at : Nat, ips : Counts, located : Counts, raced : BOOLEAN,
     by : Scanners \cup {NoIp}, gone : SUBSET Scanners]

\* What the property asks of the snapshots.
RowsOrdered(s) ==
    \A j \in DOMAIN s : Bare(s[j]) /\ ~s[j].raced => \A i \in 1..(j - 1) : s[i].located = 0

AllBare(s) == \A i \in DOMAIN s : s[i].located = 0

Locked == [phase : {"locked"}, began : Nat]
Collected == [phase : {"collected"}, began : Nat, updates : GeoUpdates, result : NetResults]
Cached == [phase : {"cached"}, open : BOOLEAN, result : NetResults]
Saving == [phase : {"save"}, open : BOOLEAN, raced : BOOLEAN, result : NetResults]

\* A process that holds an unlocated snapshot and has seen no pending located
\* one will insert it into a table without a located one.
ScanSound(x) ==
    \/ x.phase \in {"idle", "saved", "end", "released"}
    \/ x \in Locked \cup Collected /\ x.began <= wall
    \/ x \in Cached
    \/ x \in Saving /\ (Bare(x.result) /\ ~x.raced => AllBare(snaps))

DistributionTyped ==
    /\ wall \in Nat /\ geo \in [Ips -> GeoRecords] /\ snaps \in Seq(NetRows)
    /\ scans = [c \in Scanners |-> scans[c]]

DistributionInv ==
    /\ DistributionTyped
    /\ RowsOrdered(snaps)
    /\ \A c \in Scanners : /\ scans[c].phase \notin {"idle", "released"} => holder = c
                           /\ ScanSound(scans[c])

\* There are finitely many addresses.
LEMMA CountsAreNat == Counts \subseteq Nat
BY DistributionAssumption, FS_Subset, FS_CardinalityType DEF Counts

\* The rows of t are rows of s, in the same order.
Alike(x, y) == x.ips = y.ips /\ x.located = y.located /\ x.raced = y.raced
Follows(s, t) ==
    \A l \in DOMAIN t : \E j \in DOMAIN s :
        Alike(t[l], s[j]) /\ \A k \in 1..(l - 1) : \E i \in 1..(j - 1) : Alike(t[k], s[i])

LEMMA FollowsOrdered ==
    ASSUME NEW s, NEW t, Follows(s, t), NEW n \in Nat, DOMAIN s = 1..n
    PROVE  /\ RowsOrdered(s) => RowsOrdered(t)
           /\ AllBare(s) => AllBare(t)
<1>1. ASSUME RowsOrdered(s), NEW l \in DOMAIN t, Bare(t[l]), ~t[l].raced, NEW k \in 1..(l - 1)
      PROVE  t[k].located = 0
  <2>1. PICK j \in DOMAIN s : Alike(t[l], s[j]) /\ \A m \in 1..(l - 1) : \E i \in 1..(j - 1) : Alike(t[m], s[i])
    BY <1>1 DEF Follows
  <2>2. PICK i \in 1..(j - 1) : Alike(t[k], s[i])
    BY <1>1, <2>1
  <2>3. Bare(s[j]) /\ ~s[j].raced
    BY <1>1, <2>1 DEF Alike, Bare
  <2>4. s[i].located = 0
    BY <1>1, <2>2, <2>3 DEF RowsOrdered
  <2> QED BY <2>2, <2>4 DEF Alike
<1>2. ASSUME AllBare(s), NEW l \in DOMAIN t PROVE t[l].located = 0
  BY <1>2 DEF Follows, AllBare, Alike
<1> QED BY <1>1, <1>2 DEF RowsOrdered, AllBare

\* Sub takes the elements at the given places, in their order.
LEMMA SubKeeps ==
    ASSUME NEW R, NEW s \in Seq(R), NEW K \in SUBSET DOMAIN s
    PROVE  /\ Sub(s, K) \in Seq(R)
           /\ \A k \in DOMAIN Sub(s, K) : Nth(K, k) \in K /\ Sub(s, K)[k] = s[Nth(K, k)]
           /\ \A l \in DOMAIN Sub(s, K) : \A k \in 1..(l - 1) : Nth(K, k) \in 1..(Nth(K, l) - 1)
<1>1. PICK n \in Nat : n = Len(s) /\ DOMAIN s = 1..n
  BY LenProperties
<1>2. K \subseteq 1..n /\ IsFiniteSet(K) /\ K \subseteq Nat
  <2>1. IsFiniteSet(1..n) /\ K \in SUBSET (1..n)
    BY <1>1, FS_Interval
  <2> QED BY <2>1, FS_Subset
<1>3. PICK m \in Nat : m = Cardinality(K)
  BY <1>2, FS_CardinalityType
<1>4. ASSUME NEW k \in 1..m
      PROVE  Nth(K, k) \in K /\ Cardinality({j \in K : j < Nth(K, k)}) = k - 1
  <2>1. PICK q \in Nat : q = k - 1 /\ q < Cardinality(K)
    BY <1>3
  <2>2. \E i \in K : Rank(K, i) = q
    BY <1>2, <2>1, RankExists
  <2> QED BY <2>1, <2>2, Zenon DEF Nth, Rank
<1>5. Sub(s, K) = [k \in 1..m |-> s[Nth(K, k)]]
  BY <1>3 DEF Sub
<1>6. \A k \in 1..m : s[Nth(K, k)] \in R
  BY <1>1, <1>2, <1>4, ElementOfSeq
<1>7. Sub(s, K) \in Seq(R) /\ DOMAIN Sub(s, K) = 1..m
  BY <1>5, <1>6
<1>8. ASSUME NEW l \in 1..m, NEW k \in 1..(l - 1) PROVE Nth(K, k) \in 1..(Nth(K, l) - 1)
  <2>1. k \in 1..m /\ k < l
    BY <1>8
  <2>2. PICK x \in K : x = Nth(K, k) /\ Cardinality({j \in K : j < x}) = k - 1
    BY <1>4, <2>1
  <2>3. PICK y \in K : y = Nth(K, l) /\ Cardinality({j \in K : j < y}) = l - 1
    BY <1>4
  <2>4. x \in 1..n /\ y \in 1..n
    BY <1>2
  <2>5. ASSUME y <= x PROVE FALSE
    <3>1. PICK A : A = {j \in K : j < x}
      OBVIOUS
    <3>2. PICK B : B = {j \in K : j < y}
      OBVIOUS
    <3>3. B \subseteq A /\ A \subseteq K
      BY <1>2, <2>4, <2>5, <3>1, <3>2
    <3>4. IsFiniteSet(A)
      BY <1>2, <3>3, FS_Subset
    <3>5. Cardinality(B) <= Cardinality(A)
      BY <3>3, <3>4, FS_Subset
    <3> QED BY <2>1, <2>2, <2>3, <3>1, <3>2, <3>5
  <2> QED BY <2>2, <2>3, <2>4, <2>5
<1>9. ASSUME NEW k \in 1..m PROVE Nth(K, k) \in K /\ Sub(s, K)[k] = s[Nth(K, k)]
  BY <1>4, <1>5
<1> QED BY <1>7, <1>8, <1>9

\* A selection of the rows in which the transactions are updated.
LEMMA SubFollows ==
    ASSUME NEW s \in Seq(NetRows), NEW K \in SUBSET DOMAIN s, NEW u,
           u = [i \in DOMAIN Sub(s, K) |-> u[i]],
           \A i \in DOMAIN Sub(s, K) : u[i] \in NetRows /\ Alike(u[i], Sub(s, K)[i])
    PROVE  u \in Seq(NetRows) /\ Follows(s, u)
<1>1. PICK t : t = Sub(s, K)
  OBVIOUS
<1>2. /\ t \in Seq(NetRows)
      /\ \A k \in DOMAIN t : Nth(K, k) \in K /\ t[k] = s[Nth(K, k)]
      /\ \A l \in DOMAIN t : \A k \in 1..(l - 1) : Nth(K, k) \in 1..(Nth(K, l) - 1)
  BY <1>1, SubKeeps
<1>3. PICK m \in Nat : DOMAIN t = 1..m
  BY <1>2, LenProperties
<1>4. u \in Seq(NetRows)
  BY <1>1, <1>3
<1>5. ASSUME NEW l \in DOMAIN u
      PROVE  \E j \in DOMAIN s :
               Alike(u[l], s[j]) /\ \A k \in 1..(l - 1) : \E i \in 1..(j - 1) : Alike(u[k], s[i])
  <2>1. l \in DOMAIN t /\ DOMAIN u = 1..m
    BY <1>1, <1>3, <1>5
  <2>2. Alike(u[l], s[Nth(K, l)]) /\ Nth(K, l) \in DOMAIN s
    BY <1>1, <1>2, <2>1
  <2>3. ASSUME NEW k \in 1..(l - 1) PROVE \E i \in 1..(Nth(K, l) - 1) : Alike(u[k], s[i])
    <3>1. k \in DOMAIN t
      BY <1>3, <2>1, <2>3
    <3>2. Alike(u[k], s[Nth(K, k)]) /\ Nth(K, k) \in 1..(Nth(K, l) - 1)
      BY <1>1, <1>2, <2>1, <2>3, <3>1
    <3> QED BY <3>2
  <2> QED BY <2>2, <2>3
<1> QED BY <1>4, <1>5 DEF Follows

\* A transaction ends.
LEMMA EndFollows ==
    ASSUME NEW s \in Seq(NetRows), NEW c \in Scanners
    PROVE  /\ Committed(s, c) \in Seq(NetRows) /\ Follows(s, Committed(s, c))
           /\ RolledBack(s, c) \in Seq(NetRows) /\ Follows(s, RolledBack(s, c))
<1>1. Committed(s, c) \in Seq(NetRows) /\ Follows(s, Committed(s, c))
  <2>1. PICK K : K = {i \in DOMAIN s : c \notin s[i].gone}
    OBVIOUS
  <2>2. PICK t : t = Sub(s, K) /\ t \in Seq(NetRows)
    BY <2>1, SubKeeps
  <2>3. PICK u : u = [i \in DOMAIN t |-> [t[i] EXCEPT !.by = IF t[i].by = c THEN NoIp ELSE t[i].by]]
    OBVIOUS
  <2>4. ASSUME NEW i \in DOMAIN t PROVE u[i] \in NetRows /\ Alike(u[i], t[i])
    <3>1. t[i] \in NetRows
      BY <2>2, LenProperties, ElementOfSeq
    <3>2. u[i] = [t[i] EXCEPT !.by = IF t[i].by = c THEN NoIp ELSE t[i].by]
      BY <2>3
    <3> QED BY <3>1, <3>2 DEF NetRows, Alike
  <2>5. u = [i \in DOMAIN t |-> u[i]] /\ K \in SUBSET DOMAIN s
    BY <2>1, <2>3
  <2>6. u \in Seq(NetRows) /\ Follows(s, u)
    BY <2>2, <2>4, <2>5, SubFollows
  <2> QED BY <2>1, <2>2, <2>3, <2>6 DEF Committed
<1>2. RolledBack(s, c) \in Seq(NetRows) /\ Follows(s, RolledBack(s, c))
  <2>1. PICK K : K = {i \in DOMAIN s : s[i].by # c}
    OBVIOUS
  <2>2. PICK t : t = Sub(s, K) /\ t \in Seq(NetRows)
    BY <2>1, SubKeeps
  <2>3. PICK u : u = [i \in DOMAIN t |-> [t[i] EXCEPT !.gone = t[i].gone \ {c}]]
    OBVIOUS
  <2>4. ASSUME NEW i \in DOMAIN t PROVE u[i] \in NetRows /\ Alike(u[i], t[i])
    <3>1. t[i] \in NetRows
      BY <2>2, LenProperties, ElementOfSeq
    <3>2. u[i] = [t[i] EXCEPT !.gone = t[i].gone \ {c}]
      BY <2>3
    <3> QED BY <3>1, <3>2 DEF NetRows, Alike
  <2>5. u = [i \in DOMAIN t |-> u[i]] /\ K \in SUBSET DOMAIN s
    BY <2>1, <2>3
  <2>6. u \in Seq(NetRows) /\ Follows(s, u)
    BY <2>2, <2>4, <2>5, SubFollows
  <2> QED BY <2>1, <2>2, <2>3, <2>6 DEF RolledBack
<1> QED BY <1>1, <1>2

\* The insert adds its row at the end; the delete only marks rows.
LEMMA InsertedLast ==
    ASSUME NEW s \in Seq(NetRows), NEW c \in Scanners, NEW row \in NetRows,
           RowsOrdered(s), Bare(row) /\ ~row.raced => AllBare(s)
    PROVE  Inserted(s, c, row) \in Seq(NetRows) /\ RowsOrdered(Inserted(s, c, row))
<1>1. PICK n \in Nat : n = Len(s) /\ DOMAIN s = 1..n
  BY LenProperties
<1>2. PICK t \in Seq(NetRows) : /\ t = Append(s, row) /\ Len(t) = n + 1
                                /\ \A i \in 1..n : t[i] = s[i]
                                /\ t[n + 1] = row
  BY <1>1, AppendProperties, ZenonT(40)
<1>3. DOMAIN t = 1..(n + 1) /\ \A i \in 1..(n + 1) : t[i] \in NetRows
  BY <1>2, LenProperties, ElementOfSeq
<1>4. PICK u : u = [i \in DOMAIN t |-> [t[i] EXCEPT !.gone =
            IF i \in Surplus(t, c) THEN t[i].gone \cup {c} ELSE t[i].gone]]
  OBVIOUS
<1>5. ASSUME NEW i \in 1..(n + 1) PROVE u[i] \in NetRows /\ Alike(u[i], t[i])
  <2>1. PICK g : g = IF i \in Surplus(t, c) THEN t[i].gone \cup {c} ELSE t[i].gone
    OBVIOUS
  <2>2. t[i] \in NetRows /\ g \in SUBSET Scanners
    BY <1>3, <2>1 DEF NetRows
  <2>3. u[i] = [t[i] EXCEPT !.gone = g]
    BY <1>3, <1>4, <2>1
  <2> QED BY <2>2, <2>3 DEF NetRows, Alike
<1>6. u \in Seq(NetRows) /\ DOMAIN u = 1..(n + 1)
  <2>1. u \in [1..(n + 1) -> NetRows]
    BY <1>3, <1>4, <1>5
  <2> QED BY <2>1
<1>7. ASSUME NEW j \in 1..(n + 1), Bare(u[j]), ~u[j].raced, NEW i \in 1..(j - 1)
      PROVE  u[i].located = 0
  <2>1. Bare(t[j]) /\ ~t[j].raced
    BY <1>5, <1>7 DEF Alike, Bare
  <2>2. i \in 1..n /\ t[i] = s[i] /\ Alike(u[i], s[i])
    BY <1>2, <1>5, <1>7
  <2>3. s[i].located = 0
    <3>1. CASE j = n + 1
      BY <1>1, <1>2, <2>1, <2>2, <3>1 DEF AllBare
    <3>2. CASE j \in 1..n
      BY <1>1, <1>2, <1>7, <2>1, <3>2 DEF RowsOrdered
    <3> QED BY <3>1, <3>2
  <2> QED BY <2>2, <2>3 DEF Alike
<1>8. RowsOrdered(u)
  BY <1>6, <1>7 DEF RowsOrdered
<1> QED BY <1>2, <1>4, <1>6, <1>8 DEF Inserted

\* The addresses a collection selects are public addresses.
LEMMA SelectedAreIps ==
    ASSUME NEW results \in [1..Sources -> SourceResults]
    PROVE  SelectedIps(results) \subseteq Ips
<1> SUFFICES ASSUME NEW n \in Nodes PROVE Selected(results)[n] \in Ips \cup {NoIp}
  BY DEF SelectedIps
<1> USE DistributionAssumption
<1>1. PICK R : R = {i \in DOMAIN results : results[i].ok /\ results[i].peers[n] # NoIp}
  OBVIOUS
<1>2. Selected(results)[n] =
        IF R = {} THEN NoIp ELSE results[CHOOSE i \in R : \A k \in R : i <= k].peers[n]
  BY <1>1 DEF Selected
<1>3. CASE R = {}
  BY <1>2, <1>3
<1>4. CASE R # {}
  <2>1. R \subseteq 1..Sources /\ R \subseteq Nat
    BY <1>1
  <2>0. \E j \in R : \A k \in R : j <= k
    BY <1>4, <2>1, LeastNat
  <2>2. PICK i \in R : i = CHOOSE j \in R : \A k \in R : j <= k
    BY <2>0, Zenon
  <2>3. results[i] \in SourceResults
    BY <2>1, <2>2
  <2>4. results[i].peers \in [Nodes -> Ips \cup {NoIp}]
    <3>1. CASE results[i] = [ok |-> FALSE, peers |-> [k \in Nodes |-> NoIp]]
      BY <3>1
    <3>2. CASE results[i] \in [ok : {TRUE}, peers : [Nodes -> Ips \cup {NoIp}]]
      BY <3>2
    <3> QED BY <2>3, <3>1, <3>2 DEF SourceResults
  <2> QED BY <1>2, <1>4, <2>2, <2>4
<1> QED BY <1>3, <1>4

\* Nothing is cached and nobody scans at first.
LEMMA DistributionInitInv == DistributionInit => DistributionInv
<1> SUFFICES ASSUME DistributionInit PROVE DistributionInv
  OBVIOUS
<1>1. snaps \in Seq(NetRows) /\ Len(snaps) = 0 /\ DOMAIN snaps = {}
  BY EmptySeq DEF DistributionInit
<1>2. DistributionTyped
  BY <1>1 DEF DistributionInit, DistributionTyped, GeoRecords, NoRecord
<1>3. \A c \in Scanners : scans[c].phase = "idle"
  BY DEF DistributionInit, NoScan
<1> QED BY <1>1, <1>2, <1>3 DEF DistributionInv, ScanSound, RowsOrdered

\* A step of one scan: the invariant asks about that scan, and about the
\* others only whether a table without a located snapshot stays one.
LEMMA ScanMoves ==
    ASSUME DistributionInv, NEW c \in Scanners, NEW x, UNCHANGED wall,
           geo' \in [Ips -> GeoRecords], scans' = [scans EXCEPT ![c] = x],
           snaps' \in Seq(NetRows), RowsOrdered(snaps'),
           holder = c \/ (AllBare(snaps) => AllBare(snaps')),
           ScanSound(x)', x.phase \notin {"idle", "released"} => holder' = c,
           \A d \in Scanners \ {c} : holder = d => holder' = d
    PROVE  DistributionInv'
<1>1. \A d \in Scanners : scans'[d] = IF d = c THEN x ELSE scans[d]
  BY DEF DistributionInv, DistributionTyped
<1>2. scans' = [d \in Scanners |-> scans'[d]]
  BY DEF DistributionInv, DistributionTyped
<1>3. ASSUME NEW d \in Scanners
      PROVE  /\ scans'[d].phase \notin {"idle", "released"} => holder' = d
             /\ ScanSound(scans[d])'
  <2>1. CASE d = c
    BY <1>1, <2>1
  <2>2. CASE d # c
    <3>1. scans'[d] = scans[d] /\ (scans[d].phase \notin {"idle", "released"} => holder = d)
          /\ ScanSound(scans[d])
      BY <1>1, <2>2 DEF DistributionInv
    <3>2. ScanSound(scans[d])'
      <4>1. CASE holder = c
        BY <2>2, <3>1, <4>1 DEF ScanSound
      <4>2. CASE AllBare(snaps) => AllBare(snaps')
        <5>1. AllBare(snaps) => AllBare(snaps)'
          BY <4>2 DEF AllBare
        <5>2. scans'[d] = scans[d] /\ wall' = wall
          BY <3>1
        <5> QED BY <3>1, <5>1, <5>2 DEF ScanSound
      <4> QED BY <4>1, <4>2
    <3> QED BY <2>2, <3>1, <3>2
  <2> QED BY <2>1, <2>2
<1>4. DistributionTyped'
  BY <1>2 DEF DistributionInv, DistributionTyped
<1>5. RowsOrdered(snaps)'
  BY DEF RowsOrdered
<1> QED BY <1>3, <1>4, <1>5 DEF DistributionInv

\* A cached record stays a record, and a valid success stays a success.
LEMMA CacheKeeps ==
    ASSUME DistributionInv, NEW ip \in Ips, NEW record \in GeoRecords, NEW began \in Nat,
           began <= wall
    PROVE  /\ CacheWrite(ip, record, began) \in GeoRecords
           /\ geo[ip].success /\ Unexpired(ip) => CacheWrite(ip, record, began).success
<1>1. geo[ip] \in GeoRecords /\ wall \in Nat
  BY DEF DistributionInv, DistributionTyped
<1>2. geo[ip].success \in BOOLEAN /\ geo[ip].expires \in Int
  BY <1>1 DEF GeoRecords
<1> QED BY <1>1, <1>2 DEF CacheWrite, Unexpired

\* A record of a lookup made now.
LEMMA RecordTyped ==
    ASSUME DistributionInv, NEW success \in BOOLEAN
    PROVE  Record(success) \in GeoRecords
<1>1. wall \in Nat /\ SuccessTtl \in Nat /\ FailureTtl \in Nat
  BY DistributionAssumption DEF DistributionInv, DistributionTyped
<1>2. wall + (IF success THEN SuccessTtl ELSE FailureTtl) \in Int
  BY <1>1
<1> QED BY <1>2 DEF Record, GeoRecords

\* The peers of the sources are collected.
LEMMA PeersCollected ==
    ASSUME DistributionInv, NEW c \in Scanners, CollectPeers(c)
    PROVE  DistributionInv'
<1>1. PICK results \in [1..Sources -> SourceResults] :
         LET ips == SelectedIps(results) IN
            \E found \in SUBSET Lookups(ips) :
              scans' = [scans EXCEPT ![c] =
                 [phase   |-> "collected", began |-> scans[c].began,
                  updates |-> [ip \in Lookups(ips) |-> Record(ip \in found)],
                  result  |-> [at |-> wall, ips |-> Cardinality(ips),
                     located |-> Cardinality(found \cup
                                   {ip \in ips : Unexpired(ip) /\ geo[ip].success})]]]
  BY DEF CollectPeers
<1>2. PICK ips : ips = SelectedIps(results) /\ ips \subseteq Ips
  BY SelectedAreIps
<1>3. PICK found \in SUBSET Lookups(ips) :
              scans' = [scans EXCEPT ![c] =
                 [phase   |-> "collected", began |-> scans[c].began,
                  updates |-> [ip \in Lookups(ips) |-> Record(ip \in found)],
                  result  |-> [at |-> wall, ips |-> Cardinality(ips),
                     located |-> Cardinality(found \cup
                                   {ip \in ips : Unexpired(ip) /\ geo[ip].success})]]]
  BY <1>1, <1>2
<1>4. Lookups(ips) \subseteq ips
  BY DEF Lookups
<1>5. PICK updates : updates = [ip \in Lookups(ips) |-> Record(ip \in found)]
  OBVIOUS
<1>6. updates \in GeoUpdates
  <2>1. \A ip \in Lookups(ips) : Record(ip \in found) \in GeoRecords
    <3> SUFFICES ASSUME NEW ip \in Lookups(ips) PROVE Record(ip \in found) \in GeoRecords
      OBVIOUS
    <3>1. (ip \in found) \in BOOLEAN
      OBVIOUS
    <3> QED BY <3>1, RecordTyped
  <2>2. updates \in [Lookups(ips) -> GeoRecords]
    BY <1>5, <2>1
  <2> QED BY <1>2, <1>4, <2>2 DEF GeoUpdates
<1>7. PICK located : located = Cardinality(found \cup {ip \in ips : Unexpired(ip) /\ geo[ip].success})
                     /\ located \in Counts
  <2>1. PICK L : L = found \cup {ip \in ips : Unexpired(ip) /\ geo[ip].success}
    OBVIOUS
  <2>2. L \subseteq Ips
    BY <1>2, <1>4, <2>1
  <2>3. Cardinality(L) \in Counts
    BY <2>2 DEF Counts
  <2> QED BY <2>1, <2>3
<1>8. PICK r : r = [at |-> wall, ips |-> Cardinality(ips), located |-> located]
  OBVIOUS
<1>9. r \in NetResults
  <2>1. Cardinality(ips) \in Counts /\ wall \in Nat
    BY <1>2 DEF Counts, DistributionInv, DistributionTyped
  <2> QED BY <1>7, <1>8, <2>1 DEF NetResults
<1>10. PICK began \in Nat : began = scans[c].began /\ began <= wall
  BY DEF CollectPeers, DistributionInv, ScanSound, Locked, Collected, Cached, Saving
<1>11. PICK x : x = [phase |-> "collected", began |-> began, updates |-> updates, result |-> r]
  OBVIOUS
<1>12. x \in Collected /\ x.phase = "collected" /\ x.began = began
  BY <1>6, <1>9, <1>11 DEF Collected
<1>13. scans' = [scans EXCEPT ![c] = x]
  BY <1>3, <1>5, <1>7, <1>8, <1>10, <1>11, Zenon
<1>14. holder = c /\ UNCHANGED <<wall, geo, snaps, holder>> /\ geo \in [Ips -> GeoRecords]
       /\ snaps \in Seq(NetRows) /\ RowsOrdered(snaps)
  BY DEF CollectPeers, DistributionInv, DistributionTyped
<1>15. ScanSound(x)'
  BY <1>10, <1>12, <1>14 DEF ScanSound
<1>16. snaps' \in Seq(NetRows) /\ RowsOrdered(snaps') /\ geo' \in [Ips -> GeoRecords]
  BY <1>14
<1> QED BY <1>12, <1>13, <1>14, <1>15, <1>16, ScanMoves

\* A step of the lock's holder, or of a process that ends, which changes
\* neither the cache nor the snapshots.
LEMMA ScanQuiet ==
    ASSUME DistributionInv, NEW c \in Scanners, NEW x, UNCHANGED <<wall, geo, snaps>>,
           scans' = [scans EXCEPT ![c] = x], ScanSound(x),
           x.phase \notin {"idle", "released"} => holder' = c,
           \A d \in Scanners \ {c} : holder = d => holder' = d
    PROVE  DistributionInv'
<1>1. ScanSound(x)'
  BY DEF ScanSound, AllBare
<1>2. /\ snaps' \in Seq(NetRows) /\ RowsOrdered(snaps') /\ geo' \in [Ips -> GeoRecords]
      /\ AllBare(snaps) => AllBare(snaps')
  BY DEF DistributionInv, DistributionTyped
<1> QED BY <1>1, <1>2, ScanMoves

\* A transaction ends and nothing else happens to the snapshots.
LEMMA ScanEnds ==
    ASSUME DistributionInv, NEW c \in Scanners, NEW x, UNCHANGED <<wall, geo>>,
           scans' = [scans EXCEPT ![c] = x], x.phase \in {"idle", "end"},
           snaps' = Committed(snaps, c) \/ snaps' = RolledBack(snaps, c),
           x.phase = "end" => holder' = c,
           \A d \in Scanners \ {c} : holder = d => holder' = d
    PROVE  DistributionInv'
<1>1. snaps \in Seq(NetRows) /\ RowsOrdered(snaps) /\ geo \in [Ips -> GeoRecords]
  BY DEF DistributionInv, DistributionTyped
<1>2. snaps' \in Seq(NetRows) /\ Follows(snaps, snaps')
  BY <1>1, EndFollows
<1>3. PICK n \in Nat : DOMAIN snaps = 1..n
  BY <1>1, LenProperties
<1>4. RowsOrdered(snaps') /\ (AllBare(snaps) => AllBare(snaps'))
  BY <1>1, <1>2, <1>3, FollowsOrdered
<1>5. ScanSound(x)'
  BY DEF ScanSound
<1> QED BY <1>1, <1>2, <1>4, <1>5, ScanMoves

\* The lock's holder inserts its snapshot.
LEMMA SnapshotSaved ==
    ASSUME DistributionInv, NEW c \in Scanners, SaveSnapshot(c)
    PROVE  DistributionInv'
<1>1. PICK x : x = scans[c] /\ x \in Saving /\ holder = c
               /\ (Bare(x.result) /\ ~x.raced => AllBare(snaps))
  BY DEF SaveSnapshot, DistributionInv, ScanSound, Locked, Collected, Cached
<1>2. PICK r \in NetResults : r = x.result
  BY <1>1 DEF Saving
<1>3. x.raced \in BOOLEAN
  BY <1>1 DEF Saving
<1>4. PICK row : row = [at |-> r.at, ips |-> r.ips, located |-> r.located,
                        raced |-> x.raced, by |-> c, gone |-> {}]
  OBVIOUS
<1>5. row \in NetRows /\ row.ips = r.ips /\ row.located = r.located /\ row.raced = x.raced
  BY <1>3, <1>4 DEF NetRows, NetResults
<1>6. Bare(row) /\ ~row.raced => AllBare(snaps)
  BY <1>1, <1>2, <1>5 DEF Bare
<1>7. snaps \in Seq(NetRows) /\ RowsOrdered(snaps) /\ geo \in [Ips -> GeoRecords]
  BY DEF DistributionInv, DistributionTyped
<1>8. snaps' = Inserted(snaps, c, row)
  BY <1>1, <1>2, <1>4 DEF SaveSnapshot
<1>9. snaps' \in Seq(NetRows) /\ RowsOrdered(snaps')
  BY <1>5, <1>6, <1>7, <1>8, InsertedLast
<1>10. PICK y : y = [phase |-> "saved", open |-> scans[c].open]
  OBVIOUS
<1>11. scans' = [scans EXCEPT ![c] = y] /\ UNCHANGED <<wall, geo, holder>> /\ y.phase = "saved"
  BY <1>10 DEF SaveSnapshot
<1>12. ScanSound(y)'
  BY <1>11 DEF ScanSound
<1> QED BY <1>1, <1>7, <1>9, <1>11, <1>12, ScanMoves

\* Every step keeps the invariant and degrades nothing.
LEMMA DistributionStep ==
    DistributionInv /\ [DistributionNext]_distributionVars =>
        DistributionInv' /\ [NothingDegraded]_distributionVars
<1> SUFFICES ASSUME DistributionInv, [DistributionNext]_distributionVars
             PROVE  DistributionInv' /\ [NothingDegraded]_distributionVars
  OBVIOUS
<1>g. geo \in [Ips -> GeoRecords] /\ snaps \in Seq(NetRows) /\ wall \in Nat
  BY DEF DistributionInv, DistributionTyped
<1>0. ASSUME DistributionInv', \A ip \in Ips : geo[ip].success /\ Unexpired(ip) => geo'[ip].success
      PROVE  NothingDegraded
  BY <1>0 DEF DistributionInv, RowsOrdered, NothingDegraded
<1>1. ASSUME DistributionInv', UNCHANGED geo PROVE NothingDegraded
  BY <1>0, <1>1
<1>2. CASE UNCHANGED distributionVars
  BY <1>2 DEF distributionVars, DistributionInv, DistributionTyped, ScanSound, RowsOrdered, AllBare
<1>3. CASE WallTick
  <2>1. wall' = wall + 1 /\ UNCHANGED <<geo, snaps, holder, scans>>
    BY <1>3 DEF WallTick
  <2>2. DistributionTyped' /\ RowsOrdered(snaps)'
    BY <1>g, <2>1 DEF DistributionInv, DistributionTyped, RowsOrdered
  <2>3. ASSUME NEW c \in Scanners PROVE ScanSound(scans[c])'
    <3>1. ScanSound(scans[c]) /\ scans'[c] = scans[c]
      BY <2>1 DEF DistributionInv
    <3>2. CASE scans[c] \in Locked \cup Collected /\ scans[c].began <= wall
      <4>1. scans[c].began \in Nat
        BY <3>2 DEF Locked, Collected
      <4>2. scans[c].began <= wall'
        BY <1>g, <2>1, <3>2, <4>1
      <4> QED BY <3>1, <3>2, <4>2 DEF ScanSound
    <3>3. CASE ~(scans[c] \in Locked \cup Collected /\ scans[c].began <= wall)
      BY <2>1, <3>1, <3>3 DEF ScanSound, AllBare
    <3> QED BY <3>2, <3>3
  <2>4. DistributionInv'
    BY <2>1, <2>2, <2>3 DEF DistributionInv
  <2> QED BY <1>1, <2>1, <2>4
<1>4. ASSUME NEW ip \in Ips, OtherChain(ip) PROVE DistributionInv' /\ NothingDegraded
  <2>1. PICK success \in BOOLEAN, began \in 0..wall :
           geo' = [geo EXCEPT ![ip] = CacheWrite(ip, Record(success), began)]
    BY <1>4 DEF OtherChain
  <2>2. PICK w : w = CacheWrite(ip, Record(success), began) /\ w \in GeoRecords
                 /\ (geo[ip].success /\ Unexpired(ip) => w.success)
    <3>1. Record(success) \in GeoRecords /\ began \in Nat /\ began <= wall
      BY <1>g, RecordTyped
    <3> QED BY <3>1, CacheKeeps
  <2>3. geo' \in [Ips -> GeoRecords] /\ \A o \in Ips : geo'[o] = IF o = ip THEN w ELSE geo[o]
    BY <1>g, <2>1, <2>2
  <2>4. UNCHANGED <<wall, snaps, holder, scans>>
    BY <1>4 DEF OtherChain
  <2>5. DistributionInv'
    BY <2>3, <2>4 DEF DistributionInv, DistributionTyped, ScanSound, RowsOrdered, AllBare
  <2> QED BY <1>0, <2>2, <2>3, <2>5
<1>5. ASSUME NEW c \in Scanners, StartScan(c) PROVE DistributionInv' /\ UNCHANGED geo
  <2>1. PICK x : x = [phase |-> "locked", began |-> wall] /\ scans' = [scans EXCEPT ![c] = x]
    BY <1>5 DEF StartScan
  <2>2. x.phase = "locked" /\ ScanSound(x)
    BY <1>g, <2>1 DEF ScanSound, Locked
  <2>3. holder = NoIp /\ holder' = c /\ UNCHANGED <<wall, geo, snaps>>
    BY <1>5 DEF StartScan, ScanLockFree
  <2>4. \A d \in Scanners \ {c} : holder = d => holder' = d
    BY <2>3, DistributionAssumption
  <2> QED BY <2>1, <2>2, <2>3, <2>4, ScanQuiet
<1>6. ASSUME NEW c \in Scanners, CollectPeers(c) PROVE DistributionInv' /\ UNCHANGED geo
  BY <1>6, PeersCollected DEF CollectPeers
<1>8. ASSUME NEW c \in Scanners, SaveCache(c) PROVE DistributionInv' /\ NothingDegraded
  <2>1. PICK y : y = scans[c] /\ y \in Collected /\ y.began \in Nat /\ y.began <= wall /\ holder = c
    BY <1>8 DEF SaveCache, DistributionInv, ScanSound, Locked, Collected, Cached, Saving
  <2>2. PICK u \in GeoUpdates : u = y.updates
    BY <2>1 DEF Collected
  <2>3. \A ip \in DOMAIN u : u[ip] \in GeoRecords
    BY DEF GeoUpdates
  <2>4. geo' = [ip \in Ips |-> IF ip \in DOMAIN u THEN CacheWrite(ip, u[ip], y.began) ELSE geo[ip]]
    BY <1>8, <2>1, <2>2 DEF SaveCache
  <2>5. ASSUME NEW ip \in Ips
        PROVE  /\ geo'[ip] \in GeoRecords
               /\ geo[ip].success /\ Unexpired(ip) => geo'[ip].success
    <3>1. CASE ip \in DOMAIN u
      BY <2>1, <2>3, <2>4, <3>1, CacheKeeps
    <3>2. CASE ip \notin DOMAIN u
      BY <1>g, <2>4, <3>2
    <3> QED BY <3>1, <3>2
  <2>6. geo' \in [Ips -> GeoRecords]
    <3>1. geo' = [ip \in Ips |-> geo'[ip]]
      BY <2>4
    <3> QED BY <2>5, <3>1
  <2>7. PICK x : x = [phase |-> "cached", open |-> u = <<>>, result |-> y.result]
    OBVIOUS
  <2>8. scans' = [scans EXCEPT ![c] = x] /\ UNCHANGED <<wall, snaps, holder>>
    BY <1>8, <2>1, <2>2, <2>7 DEF SaveCache
  <2>9. x \in Cached /\ x.phase = "cached"
    <3>1. y.result \in NetResults /\ (u = <<>>) \in BOOLEAN
      BY <2>1 DEF Collected
    <3> QED BY <2>7, <3>1 DEF Cached
  <2>10. ScanSound(x)'
    BY <2>9 DEF ScanSound
  <2>11. snaps' \in Seq(NetRows) /\ RowsOrdered(snaps')
    BY <2>8 DEF DistributionInv, DistributionTyped
  <2>12. DistributionInv'
    BY <2>1, <2>6, <2>8, <2>9, <2>10, <2>11, ScanMoves
  <2> QED BY <1>0, <2>5, <2>12
<1>9. ASSUME NEW c \in Scanners, CheckGeolocated(c) PROVE DistributionInv' /\ UNCHANGED geo
  <2>1. PICK y : y = scans[c] /\ y \in Cached /\ holder = c
    BY <1>9 DEF CheckGeolocated, DistributionInv, ScanSound, Locked, Collected, Cached, Saving
  <2>2. PICK r \in NetResults : r = y.result
    BY <2>1 DEF Cached
  <2>3. PICK o \in BOOLEAN : o = (y.open \/ Bare(r))
    OBVIOUS
  <2>4. PICK q \in BOOLEAN : q = (Bare(r) /\ PendingLocated(snaps))
    OBVIOUS
  <2>5. UNCHANGED <<wall, geo, snaps, holder>>
    BY <1>9 DEF CheckGeolocated
  <2>6. CASE Bare(r) /\ Geolocated(snaps)
    <3>1. PICK x : x = [phase |-> "end"]
      OBVIOUS
    <3>2. scans' = [scans EXCEPT ![c] = x] /\ x.phase = "end"
      BY <1>9, <2>1, <2>2, <2>6, <3>1 DEF CheckGeolocated
    <3>3. ScanSound(x)
      BY <3>2 DEF ScanSound
    <3> QED BY <2>1, <2>5, <3>2, <3>3, ScanQuiet
  <2>7. CASE ~(Bare(r) /\ Geolocated(snaps))
    <3>1. PICK x : x = [phase |-> "save", open |-> o, raced |-> q, result |-> r]
      OBVIOUS
    <3>2. x \in Saving /\ x.phase = "save" /\ x.raced = q /\ x.result = r
      BY <3>1 DEF Saving
    <3>3. scans' = [scans EXCEPT ![c] =
             [phase |-> "save", open |-> y.open \/ Bare(r),
              raced |-> Bare(r) /\ PendingLocated(snaps), result |-> r]]
      BY <1>9, <2>1, <2>2, <2>7 DEF CheckGeolocated
    <3>4. scans' = [scans EXCEPT ![c] = x]
      BY <2>3, <2>4, <3>1, <3>3
    <3>5. ASSUME Bare(r), ~q PROVE AllBare(snaps)
      <4>1. ~Geolocated(snaps) /\ ~PendingLocated(snaps)
        BY <2>4, <2>7, <3>5
      <4> SUFFICES ASSUME NEW i \in DOMAIN snaps PROVE snaps[i].located = 0
        BY DEF AllBare
      <4>2. ~(snaps[i].located > 0)
        BY <4>1 DEF Geolocated, PendingLocated
      <4>3. snaps[i] \in NetRows
        BY <1>g, LenProperties, ElementOfSeq
      <4>4. snaps[i].located \in Nat
        BY <4>3, CountsAreNat DEF NetRows
      <4> QED BY <4>2, <4>4
    <3>6. ScanSound(x)
      BY <3>2, <3>5 DEF ScanSound
    <3> QED BY <2>1, <2>5, <3>2, <3>4, <3>6, ScanQuiet
  <2> QED BY <2>5, <2>6, <2>7
<1>10. ASSUME NEW c \in Scanners, SaveSnapshot(c) PROVE DistributionInv' /\ UNCHANGED geo
  BY <1>10, SnapshotSaved DEF SaveSnapshot
<1>11. ASSUME NEW c \in Scanners, CommitSnapshot(c) PROVE DistributionInv' /\ UNCHANGED geo
  <2>0. PICK x : x = [phase |-> "end"]
    OBVIOUS
  <2>1. scans' = [scans EXCEPT ![c] = x] /\ x.phase = "end"
    BY <1>11, <2>0 DEF CommitSnapshot
  <2>2. holder = c /\ snaps' = Committed(snaps, c) /\ UNCHANGED <<wall, geo, holder>>
    BY <1>11 DEF CommitSnapshot, DistributionInv
  <2> QED BY <2>1, <2>2, ScanEnds
<1>12. ASSUME NEW c \in Scanners, ReleaseLock(c) PROVE DistributionInv' /\ UNCHANGED geo
  <2>0. PICK x : x = [phase |-> "released"]
    OBVIOUS
  <2>1. scans' = [scans EXCEPT ![c] = x] /\ x.phase = "released"
    BY <1>12, <2>0 DEF ReleaseLock
  <2>2. holder = c /\ UNCHANGED <<wall, geo, snaps>>
    BY <1>12 DEF ReleaseLock, DistributionInv
  <2>3. ScanSound(x)
    BY <2>1 DEF ScanSound
  <2> QED BY <2>1, <2>2, <2>3, ScanQuiet
<1>13. ASSUME NEW c \in Scanners, CloseConnection(c) PROVE DistributionInv' /\ UNCHANGED geo
  <2>1. /\ scans' = [scans EXCEPT ![c] = NoScan] /\ NoScan.phase = "idle"
        /\ snaps' = Committed(snaps, c) /\ UNCHANGED <<wall, geo, holder>>
    BY <1>13 DEF CloseConnection, NoScan
  <2> QED BY <2>1, ScanEnds
<1>14. ASSUME NEW c \in Scanners, EndScan(c) PROVE DistributionInv' /\ UNCHANGED geo
  <2>1. /\ scans' = [scans EXCEPT ![c] = NoScan] /\ NoScan.phase = "idle"
        /\ snaps' = RolledBack(snaps, c) /\ UNCHANGED <<wall, geo>>
        /\ \A d \in Scanners \ {c} : holder = d => holder' = d
    BY <1>14 DEF EndScan, NoScan
  <2> QED BY <2>1, ScanEnds
<1> QED BY <1>1, <1>2, <1>3, <1>4, <1>5, <1>6, <1>8, <1>9, <1>10, <1>11, <1>12, <1>13, <1>14
        DEF DistributionNext

\* For any number of collectors and any retention, an outage of GeoIP
\* replaces no valid lookup, and puts an unlocated snapshot after a located
\* one only through a commit that came after its lock was released.
THEOREM OutagesDegradeNothing == DistributionSpec => GeoNotDegraded
<1> QED BY DistributionInitInv, DistributionStep, PTL DEF DistributionSpec, GeoNotDegraded

-----------------------------------------------------------------------------
(* HeightParser.  The requests and answers in the pipes may be of earlier  *)
(* calls, so what is said about them is about their numbers: the number of *)
(* the call in progress belongs to its transaction alone.                  *)

RawTxs == Txs \cup {TooLarge, NotBase64}

NumberIsOwn(id, tx, last, c) ==
    /\ id <= last
    /\ c.phase \in {"start", "write"} => id # c.id
    /\ c.phase = "read" /\ id = c.id => tx = c.tx

AnswerLines ==
    [id : Nat, of : RawTxs, kind : {"summary", "safe_error", "bad"}, sent : Candidates \cup {None}]

Requests(last, c) == {r \in [id : Nat, tx : RawTxs] : NumberIsOwn(r.id, r.tx, last, c)}

Answers(last, c) ==
    {a \in AnswerLines : /\ a.kind = "summary" => a.sent \in Candidates
                         /\ NumberIsOwn(a.id, a.of, last, c)}

PipesOwn ==
    /\ input \in Seq(Requests(request_number, call))
    /\ output \in Seq(Answers(request_number, call))
    /\ buffer \in Seq(Answers(request_number, call))

HelperAlone ==
    /\ now \in Nat /\ starts \in Nat /\ request_number \in Nat
    /\ alive \subseteq {process} \ {0}

Summaries ==
    {generic_summary("invalid"), generic_summary("unparsed")} \cup
    {normalize_summary(c) : c \in Candidates}

\* What SummaryIsOwn asks of a summary.
TellsOmissions(c, s) ==
    /\ \/ s.truncated
       \/ s.shown = Len(c.sizes) /\ s.count \in {None, s.shown}
    /\ s.bytes <= MaxBytes

OwnRow(r) == r.sent # None => r.sent.of = r.tx /\ TellsOmissions(r.sent.sent, r.summary)

OwnRows ==
    {r \in [tx : RawTxs \cup {None}, sent : AnswerLines \cup {None}, summary : Summaries] : OwnRow(r)}

CallsOn(c) ==
    /\ block # None /\ Len(block.rows) < Len(block.txs)
    /\ c.tx = block.txs[Len(block.rows) + 1] /\ c.tx # NotBase64

CallSound ==
    \/ call = Idle
    \/ /\ call \in [phase : {"start", "write", "read"}, tx : RawTxs, id : Nat, deadline : Nat]
       /\ call.id = request_number /\ CallsOn(call)
    \/ /\ call \in [phase : {"done"}, tx : RawTxs, summary : Summaries \cup {None},
                    sent : AnswerLines \cup {None}]
       /\ CallsOn(call)
       /\ call.sent # None =>
            call.sent.of = call.tx /\ call.summary # None /\ TellsOmissions(call.sent.sent, call.summary)

BlockSound ==
    block # None =>
        /\ block \in [txs : Seq(RawTxs), rows : Seq(OwnRows)]
        /\ Len(block.rows) <= Len(block.txs)
        /\ \A i \in 1..Len(block.rows) :
             block.rows[i].tx = IF block.txs[i] = NotBase64 THEN None ELSE block.txs[i]

Verdicts == {"absent", "invalid", "commit", "nil"}

VotesFit(precommits, votes) ==
    \A v \in Validators :
        votes[v] = "commit" <=>
            \E i \in DOMAIN precommits :
                /\ precommits[i].id = "commit" /\ precommits[i].sig
                /\ \A j \in DOMAIN precommits : precommits[j].addr = v <=> j = i

Heights ==
    [txs : Seq(RawTxs), rows : Seq(OwnRows), precommits : SeqOf(Precommits, MaxPrecommits),
     votes : [Validators -> Verdicts], results : Delivers \cup {None}, resultsOf : {"stored"}]

StoredSound ==
    stored # None =>
        /\ stored \in Heights
        /\ Len(stored.rows) = Len(stored.txs)
        /\ stored.results # None => Len(stored.results) = Len(stored.txs)
        /\ VotesFit(stored.precommits, stored.votes)

ParserInv == HelperAlone /\ PipesOwn /\ CallSound /\ BlockSound /\ StoredSound

\* Dropping messages until a summary fits: what is left fits, and all were kept
\* unless the summary says otherwise.
LEMMA NormalizedTells ==
    ASSUME NEW c \in Candidates, normalize_summary(c).family = "gno"
    PROVE  TellsOmissions(c, normalize_summary(c))
<1> DEFINE kept == IF Len(c.sizes) <= MaxMessages THEN Len(c.sizes) ELSE MaxMessages
           F == {k \in 0..kept : c.base + SumOf(c.sizes, k) <= MaxBytes}
           shown == FittingMessages(c, kept)
           s == normalize_summary(c)
<1>1. MaxMessages \in Nat /\ Len(c.sizes) \in Nat /\ kept \in Nat /\ c.count \in Nat \cup {None}
      /\ None \notin Int
  BY DecoderAssumption
<1>2. generic_summary("unparsed").family = "unknown"
  BY DEF generic_summary
<1>3. /\ c.count = None \/ ~(c.count < Len(c.sizes))
      /\ shown # -1
      /\ s = [status |-> c.status, family |-> c.family, count |-> c.count, shown |-> shown,
              bytes |-> c.base + SumOf(c.sizes, shown),
              truncated |-> \/ c.truncated \/ Len(c.sizes) > MaxMessages
                            \/ (c.count # None /\ c.count > kept) \/ shown < kept]
  BY <1>2, Zenon DEF normalize_summary
<1>4. shown = IF F = {} THEN -1 ELSE CHOOSE k \in F : \A j \in F : j <= k
  BY DEF FittingMessages
<1>5. F # {} /\ shown = CHOOSE k \in F : \A j \in F : j <= k
  BY <1>3, <1>4
<1>6. \E k \in F : \A j \in F : j <= k
  <2>1. IsFiniteSet(0..kept)
    <3> HIDE DEF kept
    <3> QED BY <1>1, FS_Interval
  <2>2. IsFiniteSet(F) /\ F \subseteq Nat
    BY <1>1, <2>1, FS_Subset
  <2> QED BY <1>5, <2>2, GreatestNat
<1>7. shown \in F
  BY <1>5, <1>6, Zenon
<1>8. shown \in 0..kept /\ c.base + SumOf(c.sizes, shown) <= MaxBytes
  BY <1>7
<1> HIDE DEF kept, F, shown, s
<1>9. /\ s.count = c.count /\ s.shown = shown /\ s.bytes = c.base + SumOf(c.sizes, shown)
      /\ s.truncated = (\/ c.truncated \/ Len(c.sizes) > MaxMessages
                        \/ (c.count # None /\ c.count > kept) \/ shown < kept)
  BY <1>3, Zenon
<1>10. s.bytes <= MaxBytes
  BY <1>8, <1>9
<1>11. ASSUME ~s.truncated PROVE s.shown = Len(c.sizes) /\ s.count \in {None, s.shown}
  <2>1. ~(Len(c.sizes) > MaxMessages) /\ ~(c.count # None /\ c.count > kept) /\ ~(shown < kept)
    BY <1>9, <1>11
  <2>2. kept = Len(c.sizes)
    BY <1>1, <2>1 DEF kept
  <2>3. shown = Len(c.sizes)
    BY <1>1, <1>8, <2>1, <2>2
  <2>4. c.count # None => c.count = Len(c.sizes)
    BY <1>1, <1>3, <2>1, <2>2
  <2> QED BY <1>9, <2>3, <2>4
<1> QED BY <1>10, <1>11 DEF TellsOmissions, s

\* Two indexes of one validator's votes are a double vote.
LEMMA ClassifiedOnce ==
    ASSUME NEW precommits \in SeqOf(Precommits, MaxPrecommits)
    PROVE  /\ VotesFit(precommits, classify_votes(precommits))
           /\ classify_votes(precommits) \in [Validators -> Verdicts]
<1>0. PICK m \in 0..MaxPrecommits : precommits \in [1..m -> Precommits]
  BY DEF SeqOf
<1>1. DOMAIN precommits = 1..m /\ IsFiniteSet(1..m)
  BY <1>0, ParserAssumption, FS_Interval
<1> DEFINE Mine(v) == {i \in Votes(precommits) : precommits[i].addr = v}
<1>2. ASSUME NEW v \in Validators
      PROVE  /\ Mine(v) = {i \in DOMAIN precommits : precommits[i].addr = v}
             /\ IsFiniteSet(Mine(v))
  <2>1. \A i \in DOMAIN precommits : precommits[i].addr = v => precommits[i].id # "null"
    BY <1>0, <1>1, ParserAssumption
  <2>2. Mine(v) = {i \in DOMAIN precommits : precommits[i].addr = v}
    BY <2>1 DEF Votes
  <2> QED BY <1>1, <2>2, FS_Subset
<1>3. ASSUME NEW v \in Validators
      PROVE  classify_votes(precommits)[v] =
               IF Mine(v) = {} THEN "absent"
               ELSE IF Cardinality(Mine(v)) > 1 THEN "invalid"
               ELSE _classify_precommit(precommits[CHOOSE i \in Mine(v) : TRUE])
  BY DEF classify_votes
<1>4. ASSUME NEW p PROVE /\ _classify_precommit(p) = "commit" <=> p.id = "commit" /\ p.sig
                         /\ _classify_precommit(p) \in {"invalid", "commit", "nil"}
  BY DEF _classify_precommit
<1>5. ASSUME NEW v \in Validators
      PROVE  /\ classify_votes(precommits)[v] = "commit" <=>
                  \E i \in DOMAIN precommits :
                    /\ precommits[i].id = "commit" /\ precommits[i].sig
                    /\ \A j \in DOMAIN precommits : precommits[j].addr = v <=> j = i
             /\ classify_votes(precommits)[v] \in Verdicts
  <2>1. PICK M : M = Mine(v)
    OBVIOUS
  <2>2. IsFiniteSet(M) /\ M = {i \in DOMAIN precommits : precommits[i].addr = v}
    BY <1>2, <2>1
  <2>3. PICK w : w = classify_votes(precommits)[v]
    OBVIOUS
  <2>4. w = IF M = {} THEN "absent"
            ELSE IF Cardinality(M) > 1 THEN "invalid"
            ELSE _classify_precommit(precommits[CHOOSE i \in M : TRUE])
    <3> HIDE DEF Mine
    <3>1. classify_votes(precommits)[v] =
            IF Mine(v) = {} THEN "absent"
            ELSE IF Cardinality(Mine(v)) > 1 THEN "invalid"
            ELSE _classify_precommit(precommits[CHOOSE i \in Mine(v) : TRUE])
      BY <1>3
    <3> QED BY <2>1, <2>3, <3>1
  <2> DEFINE Once(i) == \A j \in DOMAIN precommits : precommits[j].addr = v <=> j = i
  <2>5. \A i \in DOMAIN precommits : Once(i) <=> M = {i}
    BY <2>2
  <2> HIDE DEF Mine, Once
  <2>6. /\ w = "commit" <=> \E i \in DOMAIN precommits :
                               (precommits[i].id = "commit" /\ precommits[i].sig) /\ Once(i)
        /\ w \in Verdicts
    <3>1. CASE M = {}
      <4>1. w = "absent"
        BY <2>4, <3>1
      <4>2. \A i \in DOMAIN precommits : ~Once(i)
        BY <2>5, <3>1
      <4> QED BY <4>1, <4>2 DEF Verdicts
    <3>2. CASE \E i : M = {i}
      <4>1. PICK i : M = {i}
        BY <3>2
      <4>2. Cardinality(M) = 1 /\ (CHOOSE j \in M : TRUE) = i
        BY <4>1, FS_Singleton
      <4>3. w = _classify_precommit(precommits[i])
        BY <2>4, <4>1, <4>2
      <4>4. i \in DOMAIN precommits /\ \A j \in DOMAIN precommits : Once(j) <=> j = i
        BY <2>2, <2>5, <4>1
      <4>5. w = "commit" <=> precommits[i].id = "commit" /\ precommits[i].sig
        BY <1>4, <4>3, Zenon
      <4>6. w \in {"invalid", "commit", "nil"}
        BY <1>4, <4>3, Zenon
      <4>7. w = "commit" <=> \E j \in DOMAIN precommits :
                               (precommits[j].id = "commit" /\ precommits[j].sig) /\ Once(j)
        BY <4>4, <4>5, Zenon
      <4> QED BY <4>6, <4>7 DEF Verdicts
    <3>3. CASE M # {} /\ ~\E i : M = {i}
      <4>1. Cardinality(M) \in Nat /\ Cardinality(M) # 0 /\ Cardinality(M) # 1
        BY <2>2, <3>3, FS_CardinalityType, FS_EmptySet, FS_Singleton
      <4>2. w = "invalid"
        BY <2>4, <3>3, <4>1
      <4>3. \A i \in DOMAIN precommits : ~Once(i)
        BY <2>5, <3>3
      <4> QED BY <4>2, <4>3 DEF Verdicts
    <3> QED BY <3>1, <3>2, <3>3
  <2> QED BY <2>3, <2>6, Zenon DEF Once
<1>6. classify_votes(precommits) = [v \in Validators |-> classify_votes(precommits)[v]]
  BY DEF classify_votes
<1> HIDE DEF Mine
<1> QED BY <1>5, <1>6, Zenon DEF VotesFit

\* Lines of a smaller set of lines.
LEMMA LinesWiden ==
    ASSUME NEW S, NEW T, S \subseteq T, NEW s \in Seq(S)
    PROVE  s \in Seq(T)
BY \A i \in 1..Len(s) : s[i] \in T

\* The pipes are left alone and the numbers keep their meaning.
LEMMA PipesCarry ==
    ASSUME PipesOwn, UNCHANGED <<input, output, buffer>>,
           \A id \in Nat, tx \in RawTxs :
             NumberIsOwn(id, tx, request_number, call) => NumberIsOwn(id, tx, request_number', call')
    PROVE  PipesOwn'
<1> USE DEF PipesOwn
<1>1. Requests(request_number, call) \subseteq Requests(request_number', call')
  BY DEF Requests
<1>2. Answers(request_number, call) \subseteq Answers(request_number', call')
  BY DEF Answers, AnswerLines
<1>3. input \in Seq(Requests(request_number', call'))
  BY <1>1, LinesWiden
<1>4. output \in Seq(Answers(request_number', call')) /\ buffer \in Seq(Answers(request_number', call'))
  BY <1>2, LinesWiden
<1> QED BY <1>3, <1>4

\* Pipes of a helper that is gone are empty.
LEMMA PipesCleared ==
    ASSUME input' = <<>>, output' = <<>>, buffer' = <<>>
    PROVE  PipesOwn'
BY DEF PipesOwn

\* A call that waits for the helper.
LEMMA Waiting ==
    ASSUME CallSound, call.phase \in {"start", "write", "read"}
    PROVE  /\ call \in [phase : {"start", "write", "read"}, tx : RawTxs, id : Nat, deadline : Nat]
           /\ call.id = request_number /\ CallsOn(call)
BY DEF CallSound, Idle

\* close and _fail: the helper's pipes go with it.
LEMMA FailInv ==
    ASSUME ParserInv, call.phase \in {"start", "write", "read"}, Fail, UNCHANGED parserVars
    PROVE  ParserInv'
<1> USE DEF ParserInv, Fail, CloseHelper, parserVars
<1>1. call.tx \in RawTxs /\ CallsOn(call)
  BY Waiting
<1>2. PipesOwn'
  BY PipesCleared
<1>3. HelperAlone'
  BY DEF HelperAlone
<1>4. call' = [phase |-> "done", tx |-> call.tx, summary |-> None, sent |-> None]
  BY DEF Return
<1>5. CallSound'
  <2>1. call' \in [phase : {"done"}, tx : RawTxs, summary : Summaries \cup {None},
                   sent : AnswerLines \cup {None}]
    BY <1>1, <1>4
  <2>2. CallsOn(call)'
    BY <1>1, <1>4 DEF CallsOn
  <2> QED BY <1>4, <2>1, <2>2 DEF CallSound
<1> QED BY <1>2, <1>3, <1>5 DEF BlockSound, StoredSound

\* A step of the call that touches no pipe and goes on with the same number.
LEMMA GoesOnInv ==
    ASSUME ParserInv, call.phase = "start",
           call' = [call EXCEPT !.phase = "write", !.deadline = now + Timeout],
           UNCHANGED <<now, request_number, input, output, buffer, parserVars>>,
           starts' \in Nat, alive' \subseteq {process'} \ {0}
    PROVE  ParserInv'
<1> USE DEF ParserInv, parserVars
<1>1. /\ call \in [phase : {"start", "write", "read"}, tx : RawTxs, id : Nat, deadline : Nat]
      /\ call.id = request_number /\ CallsOn(call)
  BY Waiting
<1>2. now + Timeout \in Nat
  BY DecoderAssumption DEF HelperAlone
<1>3. /\ call' \in [phase : {"start", "write", "read"}, tx : RawTxs, id : Nat, deadline : Nat]
      /\ call'.phase = "write" /\ call'.id = call.id /\ call'.tx = call.tx
  BY <1>1, <1>2
<1>4. PipesOwn'
  <2>1. \A id \in Nat, tx \in RawTxs :
          NumberIsOwn(id, tx, request_number, call) => NumberIsOwn(id, tx, request_number', call')
    BY <1>3 DEF NumberIsOwn
  <2> QED BY <2>1, PipesCarry
<1>5. CallSound'
  BY <1>1, <1>3 DEF CallSound, CallsOn
<1> QED BY <1>4, <1>5 DEF HelperAlone, BlockSound, StoredSound

\* _ensure_process.
LEMMA EnsureInv ==
    ASSUME ParserInv, ReuseHelper \/ StartHelper, UNCHANGED parserVars
    PROVE  ParserInv'
<1>1. CASE ReuseHelper
  BY <1>1, GoesOnInv DEF ReuseHelper, ParserInv, HelperAlone
<1>2. CASE StartHelper
  <2>1. starts' \in Nat /\ alive' \subseteq {process'} \ {0}
    BY <1>2 DEF StartHelper, ParserInv, HelperAlone
  <2> QED BY <1>2, <2>1, GoesOnInv DEF StartHelper
<1> QED BY <1>1, <1>2

\* _write: the request takes the number no line in the pipes has.
LEMMA WriteInv ==
    ASSUME ParserInv, WriteRequest, UNCHANGED parserVars
    PROVE  ParserInv'
<1> USE DEF ParserInv, parserVars
<1>1. /\ call \in [phase : {"start", "write", "read"}, tx : RawTxs, id : Nat, deadline : Nat]
      /\ call.id = request_number /\ CallsOn(call) /\ call.phase = "write"
  BY Waiting DEF WriteRequest
<1>2. /\ call' \in [phase : {"start", "write", "read"}, tx : RawTxs, id : Nat, deadline : Nat]
      /\ call'.phase = "read" /\ call'.id = call.id /\ call'.tx = call.tx
      /\ request_number' = request_number
  BY <1>1 DEF WriteRequest
<1>3. \A id \in Nat, tx \in RawTxs :
        NumberIsOwn(id, tx, request_number, call) => NumberIsOwn(id, tx, request_number', call')
  BY <1>1, <1>2 DEF NumberIsOwn
<1>4. PipesOwn'
  <2>1. Requests(request_number, call) \subseteq Requests(request_number', call')
    BY <1>3 DEF Requests
  <2>2. Answers(request_number, call) \subseteq Answers(request_number', call')
    BY <1>3 DEF Answers, AnswerLines
  <2>3. [id |-> call.id, tx |-> call.tx] \in Requests(request_number', call')
    BY <1>1, <1>2 DEF Requests, NumberIsOwn
  <2>4. input \in Seq(Requests(request_number', call'))
    BY <2>1, LinesWiden DEF PipesOwn
  <2>5. output \in Seq(Answers(request_number', call')) /\ buffer \in Seq(Answers(request_number', call'))
    BY <2>2, LinesWiden DEF PipesOwn
  <2>6. input' = Append(input, [id |-> call.id, tx |-> call.tx]) /\ output' = output /\ buffer' = buffer
    BY DEF WriteRequest
  <2> QED BY <2>3, <2>4, <2>5, <2>6 DEF PipesOwn
<1>5. CallSound'
  BY <1>1, <1>2 DEF CallSound, CallsOn
<1>6. HelperAlone'
  BY DEF WriteRequest, HelperAlone
<1> QED BY <1>4, <1>5, <1>6 DEF BlockSound, StoredSound

\* _read_line moves lines to the buffer.
LEMMA ReadInv ==
    ASSUME ParserInv, ReadChunk, UNCHANGED parserVars
    PROVE  ParserInv'
<1> USE DEF ParserInv, parserVars, ReadChunk
<1>1. PICK A : A = Answers(request_number, call)
  OBVIOUS
<1>2. output \in Seq(A)
  BY <1>1 DEF PipesOwn
<1>3. PICK k \in 1..Len(output) :
          /\ buffer' = SubSeq(output, 1, k)
          /\ output' = SubSeq(output, k + 1, Len(output))
  OBVIOUS
<1>4. buffer' \in Seq(A) /\ output' \in Seq(A)
  BY <1>2, <1>3
<1>5. PipesOwn'
  BY <1>1, <1>4 DEF PipesOwn
<1> QED BY <1>5 DEF HelperAlone, CallSound, CallsOn, BlockSound, StoredSound

\* The call has ended and its lines are left where they are.
LEMMA ReturnInv ==
    ASSUME ParserInv, call.phase = "read", buffer # <<>>,
           NEW summary \in Summaries \cup {None}, NEW sent \in AnswerLines \cup {None},
           sent # None => sent.of = call.tx /\ summary # None /\ TellsOmissions(sent.sent, summary),
           Return(summary, sent), buffer' = Tail(buffer),
           UNCHANGED <<now, retry_at, request_number, process, starts, alive, input, output, parserVars>>
    PROVE  ParserInv'
<1> USE DEF ParserInv, parserVars
<1>1. call.tx \in RawTxs /\ CallsOn(call)
  BY Waiting
<1>2. call' = [phase |-> "done", tx |-> call.tx, summary |-> summary, sent |-> sent]
  BY DEF Return
<1>3. /\ call' \in [phase : {"done"}, tx : RawTxs, summary : Summaries \cup {None},
                    sent : AnswerLines \cup {None}]
      /\ call'.tx = call.tx /\ call'.summary = summary /\ call'.sent = sent /\ call'.phase = "done"
  BY <1>1, <1>2
<1>4. CallSound'
  BY <1>1, <1>3 DEF CallSound, CallsOn
<1>5. \A id \in Nat, tx \in RawTxs :
        NumberIsOwn(id, tx, request_number, call) => NumberIsOwn(id, tx, request_number', call')
  BY <1>3 DEF NumberIsOwn
<1>6. PipesOwn'
  <2>1. Requests(request_number, call) \subseteq Requests(request_number', call')
    BY <1>5 DEF Requests
  <2>2. Answers(request_number, call) \subseteq Answers(request_number', call')
    BY <1>5 DEF Answers, AnswerLines
  <2>3. input \in Seq(Requests(request_number', call'))
    BY <2>1, LinesWiden DEF PipesOwn
  <2>4. output \in Seq(Answers(request_number', call')) /\ buffer \in Seq(Answers(request_number', call'))
    BY <2>2, LinesWiden DEF PipesOwn
  <2>5. Tail(buffer) \in Seq(Answers(request_number', call'))
    BY <2>4
  <2> QED BY <2>3, <2>4, <2>5 DEF PipesOwn
<1> QED BY <1>4, <1>6 DEF HelperAlone, BlockSound, StoredSound

\* _validate_response: the number tells whose answer it is.
LEMMA ValidateInv ==
    ASSUME ParserInv, ValidateAnswer, UNCHANGED parserVars
    PROVE  ParserInv'
<1>1. PICK line : line = Head(buffer)
  OBVIOUS
<1>2. call.phase = "read" /\ buffer # <<>>
  BY DEF ValidateAnswer
<1>3. line \in Answers(request_number, call)
  BY <1>1, <1>2 DEF ParserInv, PipesOwn
<1>4. line \in AnswerLines /\ NumberIsOwn(line.id, line.of, request_number, call)
      /\ (line.kind = "summary" => line.sent \in Candidates)
  BY <1>3 DEF Answers
<1>5. CASE /\ Acceptable(line)
           /\ Return(normalize_summary(line.sent), line)
           /\ buffer' = Tail(buffer)
           /\ UNCHANGED <<now, retry_at, request_number, process, starts, alive, input, output>>
  <2>1. line.id = call.id /\ line.sent \in Candidates /\ normalize_summary(line.sent).family = "gno"
    BY <1>4, <1>5, Zenon DEF Acceptable
  <2>2. line.of = call.tx
    BY <1>2, <1>4, <2>1 DEF NumberIsOwn
  <2>3. normalize_summary(line.sent) # None /\ normalize_summary(line.sent) \in Summaries
    BY <2>1, SummaryAssumption DEF Summaries
  <2>4. TellsOmissions(line.sent, normalize_summary(line.sent))
    BY <2>1, NormalizedTells
  <2> QED BY <1>2, <1>4, <1>5, <2>2, <2>3, <2>4, ReturnInv
<1>6. CASE /\ Undecodable(line)
           /\ Return(None, None)
           /\ buffer' = Tail(buffer)
           /\ UNCHANGED <<now, retry_at, request_number, process, starts, alive, input, output>>
  BY <1>2, <1>6, ReturnInv
<1>7. CASE Fail
  BY <1>2, <1>7, FailInv
<1> QED BY <1>1, <1>5, <1>6, <1>7, Zenon DEF ValidateAnswer

\* One step of decode.
LEMMA DecodeStepInv ==
    ASSUME ParserInv, DecodeStep, UNCHANGED parserVars
    PROVE  ParserInv'
<1>1. CASE ReuseHelper \/ StartHelper
  BY <1>1, EnsureInv
<1>2. CASE HelperUnavailable \/ BrokenPipe \/ TimedOut \/ EndOfFile
  BY <1>2, FailInv DEF HelperUnavailable, BrokenPipe, TimedOut, EndOfFile
<1>3. CASE WriteRequest
  BY <1>3, WriteInv
<1>4. CASE ReadChunk
  BY <1>4, ReadInv
<1>5. CASE ValidateAnswer
  BY <1>5, ValidateInv
<1> QED BY <1>1, <1>2, <1>3, <1>4, <1>5 DEF DecodeStep

\* The helper answers a request under its number, once or twice, or dies.
LEMMA HelperInv ==
    ASSUME ParserInv, HelperStep, UNCHANGED parserVars
    PROVE  ParserInv'
<1> USE DEF ParserInv, parserVars
<1>1. CASE HelperAnswers
  <2>1. PICK kind \in {"summary", "safe_error", "bad"}, sent \in Candidates, copies \in 1..2 :
          output' = output \o [i \in 1..copies |->
                      [id |-> Head(input).id, of |-> Head(input).tx, kind |-> kind,
                       sent |-> IF kind = "summary" THEN sent ELSE None]]
    BY <1>1 DEF HelperAnswers
  <2>2. PICK a : a = [id |-> Head(input).id, of |-> Head(input).tx, kind |-> kind,
                      sent |-> IF kind = "summary" THEN sent ELSE None]
    OBVIOUS
  <2>3. PICK A : A = Answers(request_number, call)
    OBVIOUS
  <2>4. Head(input) \in Requests(request_number, call) /\ Tail(input) \in Seq(Requests(request_number, call))
    BY <1>1 DEF HelperAnswers, PipesOwn
  <2>5. a \in A
    BY <2>2, <2>3, <2>4 DEF Requests, Answers, AnswerLines
  <2>6. output' = output \o [i \in 1..copies |-> a]
    BY <2>1, <2>2
  <2>7. [i \in 1..copies |-> a] \in Seq(A)
    BY <2>5
  <2>8. output' \in Seq(A)
    <3>1. output \in Seq(A)
      BY <2>3 DEF PipesOwn
    <3> QED BY <2>6, <2>7, <3>1
  <2>9. PipesOwn'
    BY <1>1, <2>3, <2>4, <2>8 DEF HelperAnswers, PipesOwn
  <2> QED BY <1>1, <2>9 DEF HelperAnswers, HelperAlone, CallSound, CallsOn, BlockSound, StoredSound
<1>2. CASE HelperDies
  BY <1>2 DEF HelperDies, HelperAlone, PipesOwn, CallSound, CallsOn, BlockSound, StoredSound
<1> QED BY <1>1, <1>2 DEF HelperStep

\* close between calls, and the clock.
LEMMA CloseTickInv ==
    ASSUME ParserInv, Close \/ Tick, UNCHANGED parserVars
    PROVE  ParserInv'
<1> USE DEF ParserInv, parserVars
<1>1. CASE Close
  <2>1. PipesOwn'
    BY <1>1, PipesCleared DEF Close, CloseHelper
  <2> QED BY <1>1, <2>1 DEF Close, CloseHelper, HelperAlone, CallSound, BlockSound, StoredSound
<1>2. CASE Tick
  BY <1>2 DEF Tick, HelperAlone, PipesOwn, CallSound, CallsOn, BlockSound, StoredSound
<1> QED BY <1>1, <1>2

\* A row for the next transaction.
LEMMA RowAdded ==
    ASSUME BlockSound, MoreTxs, NEW row \in OwnRows, AddRow(row),
           row.tx = IF NextTx = NotBase64 THEN None ELSE NextTx
    PROVE  BlockSound'
<1> USE DEF MoreTxs, NextTx, AddRow
<1>1. PICK b : b = block
  OBVIOUS
<1>2. /\ b \in [txs : Seq(RawTxs), rows : Seq(OwnRows)] /\ Len(b.rows) < Len(b.txs)
      /\ \A i \in 1..Len(b.rows) : b.rows[i].tx = IF b.txs[i] = NotBase64 THEN None ELSE b.txs[i]
  BY <1>1 DEF BlockSound
<1>3. PICK d : d = block'
  OBVIOUS
<1>4. d = [b EXCEPT !.rows = Append(b.rows, row)]
  BY <1>1, <1>3
<1>5. d \in [txs : Seq(RawTxs), rows : Seq(OwnRows)] /\ d.txs = b.txs /\ d.rows = Append(b.rows, row)
  <2>1. PICK rs : rs = Append(b.rows, row)
    OBVIOUS
  <2>2. rs \in Seq(OwnRows)
    BY <1>2, <2>1
  <2>3. d = [b EXCEPT !.rows = rs]
    BY <1>4, <2>1
  <2>4. d \in [txs : Seq(RawTxs), rows : Seq(OwnRows)] /\ d.txs = b.txs /\ d.rows = rs
    BY <1>2, <2>2, <2>3
  <2> QED BY <2>1, <2>4
<1>6. Len(d.rows) = Len(b.rows) + 1 /\ Len(b.rows) \in Nat /\ Len(b.txs) \in Nat
  BY <1>2, <1>5
<1>7. \A i \in 1..Len(d.rows) : d.rows[i].tx = IF d.txs[i] = NotBase64 THEN None ELSE d.txs[i]
  <2> SUFFICES ASSUME NEW i \in 1..Len(d.rows)
               PROVE  d.rows[i].tx = IF d.txs[i] = NotBase64 THEN None ELSE d.txs[i]
    OBVIOUS
  <2>1. CASE i = Len(b.rows) + 1
    <3>1. d.rows[i] = row
      BY <1>2, <1>5, <1>6, <2>1
    <3> QED BY <1>1, <1>5, <2>1, <3>1
  <2>2. CASE i # Len(b.rows) + 1
    <3>1. i \in 1..Len(b.rows)
      BY <1>6, <2>2
    <3>2. d.rows[i] = b.rows[i]
      BY <1>2, <1>5, <1>6, <3>1
    <3> QED BY <1>2, <1>5, <3>1, <3>2
  <2> QED BY <2>1, <2>2
<1>8. Len(d.rows) <= Len(d.txs)
  BY <1>2, <1>5, <1>6
<1> QED BY <1>3, <1>5, <1>7, <1>8 DEF BlockSound

\* parse_height begins with the block's transactions.
LEMMA ParseBlockInv == ParserInv /\ parse_block => ParserInv'
<1> SUFFICES ASSUME ParserInv, parse_block PROVE ParserInv'
  OBVIOUS
<1> USE DEF ParserInv, decoderVars
<1>1. PICK n \in 0..MaxTxs, txs \in [1..MaxTxs -> Txs \cup {TooLarge, NotBase64}] :
          block' = [txs |-> SubSeq(txs, 1, n), rows |-> <<>>]
  BY DEF parse_block
<1>2. MaxTxs \in Nat
  BY ParserAssumption
<1>3. SubSeq(txs, 1, n) \in Seq(RawTxs)
  <2>1. txs \in Seq(RawTxs) /\ Len(txs) = MaxTxs
    BY <1>2 DEF RawTxs
  <2> QED BY <1>2, <2>1
<1>4. PICK q : q = SubSeq(txs, 1, n)
  OBVIOUS
<1>5. block' = [txs |-> q, rows |-> <<>>] /\ q \in Seq(RawTxs)
  BY <1>1, <1>3, <1>4
<1>6. <<>> \in Seq(OwnRows) /\ Len(<<>>) = 0 /\ Len(q) \in Nat
  BY <1>5
<1>7. BlockSound'
  BY <1>5, <1>6 DEF BlockSound
<1>8. UNCHANGED decoderVars /\ call = Idle /\ stored' = None
  BY DEF parse_block
<1> QED BY <1>7, <1>8 DEF HelperAlone, PipesOwn, CallSound, StoredSound

\* parse_tx on a transaction that is no base64.
LEMMA UnreadableInv == ParserInv /\ ParseUnreadable => ParserInv'
<1> SUFFICES ASSUME ParserInv, ParseUnreadable PROVE ParserInv'
  OBVIOUS
<1> USE DEF ParserInv, decoderVars
<1>1. PICK row : row = [tx |-> None, sent |-> None, summary |-> generic_summary("invalid")]
  OBVIOUS
<1>2. row \in OwnRows /\ row.tx = None
  BY <1>1 DEF OwnRows, OwnRow, Summaries
<1>3. MoreTxs /\ NextTx = NotBase64 /\ AddRow(row) /\ call = Idle
      /\ UNCHANGED <<decoderVars, stored, heights>>
  BY <1>1 DEF ParseUnreadable
<1>4. BlockSound'
  BY <1>2, <1>3, RowAdded
<1> QED BY <1>3, <1>4 DEF HelperAlone, PipesOwn, CallSound, StoredSound

\* decode is called for the next transaction.
LEMMA ParseDecodeInv == ParserInv /\ ParseDecode => ParserInv'
<1> SUFFICES ASSUME ParserInv, ParseDecode PROVE ParserInv'
  OBVIOUS
<1> USE DEF ParserInv, parserVars
<1>1. MoreTxs /\ NextTx # NotBase64 /\ UNCHANGED parserVars
  BY DEF ParseDecode
<1>2. NextTx \in RawTxs /\ \A c : c.tx = NextTx => CallsOn(c)
  <2>1. block \in [txs : Seq(RawTxs), rows : Seq(OwnRows)] /\ Len(block.rows) < Len(block.txs)
    BY <1>1 DEF MoreTxs, BlockSound
  <2>2. Len(block.rows) + 1 \in 1..Len(block.txs)
    BY <2>1
  <2>3. NextTx \in RawTxs
    BY <2>1, <2>2 DEF NextTx
  <2> QED BY <1>1, <2>3 DEF MoreTxs, NextTx, CallsOn
<1>3. CASE DecodeRefused(NextTx)
  <2>1. call' = [phase |-> "done", tx |-> NextTx, summary |-> None, sent |-> None]
        /\ UNCHANGED <<now, retry_at, request_number, process, starts, alive, input, output, buffer>>
    BY <1>3 DEF DecodeRefused
  <2>2. /\ call' \in [phase : {"done"}, tx : RawTxs, summary : Summaries \cup {None},
                      sent : AnswerLines \cup {None}]
        /\ call'.tx = NextTx /\ call'.sent = None /\ call'.phase = "done"
    BY <1>2, <2>1
  <2>3. CallSound'
    BY <1>1, <1>2, <2>2 DEF CallSound, CallsOn
  <2>4. PipesOwn'
    BY <2>1, <2>2, PipesCarry DEF NumberIsOwn
  <2> QED BY <1>1, <2>1, <2>3, <2>4 DEF HelperAlone, BlockSound, StoredSound
<1>4. CASE DecodeBegin(NextTx)
  <2>1. /\ request_number' = request_number + 1
        /\ call' = [phase |-> "start", tx |-> NextTx, id |-> request_number + 1, deadline |-> 0]
        /\ UNCHANGED <<now, retry_at, process, starts, alive, input, output, buffer>>
    BY <1>4 DEF DecodeBegin
  <2>2. request_number \in Nat
    BY DEF HelperAlone
  <2>3. /\ call' \in [phase : {"start", "write", "read"}, tx : RawTxs, id : Nat, deadline : Nat]
        /\ call'.tx = NextTx /\ call'.id = request_number + 1 /\ call'.phase = "start"
    BY <1>2, <2>1, <2>2
  <2>4. CallSound'
    BY <1>1, <1>2, <2>1, <2>3 DEF CallSound, CallsOn
  <2>5. PipesOwn'
    <3>1. \A id \in Nat, tx \in RawTxs :
            NumberIsOwn(id, tx, request_number, call) => NumberIsOwn(id, tx, request_number', call')
      BY <2>1, <2>2, <2>3 DEF NumberIsOwn
    <3> QED BY <2>1, <3>1, PipesCarry
  <2> QED BY <1>1, <2>1, <2>2, <2>4, <2>5 DEF HelperAlone, BlockSound, StoredSound
<1> QED BY <1>3, <1>4 DEF ParseDecode

\* parse_tx with the decoder's result.
LEMMA ParseDecodedInv == ParserInv /\ ParseDecoded => ParserInv'
<1> SUFFICES ASSUME ParserInv, ParseDecoded PROVE ParserInv'
  OBVIOUS
<1> USE DEF ParserInv
<1>1. /\ call \in [phase : {"done"}, tx : RawTxs, summary : Summaries \cup {None},
                   sent : AnswerLines \cup {None}]
      /\ CallsOn(call)
      /\ call.sent # None =>
           call.sent.of = call.tx /\ call.summary # None /\ TellsOmissions(call.sent.sent, call.summary)
  BY DEF ParseDecoded, CallSound, Idle
<1>2. MoreTxs /\ NextTx = call.tx /\ NextTx # NotBase64
  BY <1>1 DEF CallsOn, MoreTxs, NextTx
<1>3. PICK row : row = [tx |-> NextTx, sent |-> call.sent,
                        summary |-> IF call.summary = None THEN generic_summary("unparsed")
                                                           ELSE call.summary]
  OBVIOUS
<1>4. row \in OwnRows /\ row.tx = NextTx
  <2>1. row \in [tx : RawTxs \cup {None}, sent : AnswerLines \cup {None}, summary : Summaries]
    BY <1>1, <1>2, <1>3 DEF Summaries
  <2>2. OwnRow(row)
    BY <1>1, <1>2, <1>3 DEF OwnRow
  <2> QED BY <1>3, <2>1, <2>2 DEF OwnRows
<1>5. AddRow(row) /\ call' = Idle
      /\ UNCHANGED <<now, retry_at, request_number, process, starts, alive,
                     input, output, buffer, stored, heights>>
  BY <1>3 DEF ParseDecoded
<1>6. BlockSound'
  BY <1>2, <1>4, <1>5, RowAdded
<1>7. PipesOwn'
  BY <1>1, <1>5, PipesCarry DEF NumberIsOwn, Idle
<1> QED BY <1>5, <1>6, <1>7 DEF HelperAlone, CallSound, StoredSound

\* Results are taken only when there is one per transaction.
LEMMA ResultsPerTx ==
    ASSUME NEW deliver, NEW n, parse_execution_results(deliver, n) # None
    PROVE  Len(deliver) = n
BY DEF parse_execution_results

\* The rest of parse_height: the rows are stored once all are there.
LEMMA ParseHeightInv == ParserInv /\ parse_height => ParserInv'
<1> SUFFICES ASSUME ParserInv, parse_height PROVE ParserInv'
  OBVIOUS
<1> USE DEF ParserInv, decoderVars
<1>1. block # None /\ ~MoreTxs /\ call = Idle /\ block' = None /\ UNCHANGED <<decoderVars, heights>>
  BY DEF parse_height
<1>2. block \in [txs : Seq(RawTxs), rows : Seq(OwnRows)] /\ Len(block.rows) = Len(block.txs)
  BY <1>1 DEF BlockSound, MoreTxs
<1>3. StoredSound'
  <2>1. CASE stored' = None
    BY <2>1 DEF StoredSound
  <2>2. CASE stored' # None
    <3>1. PICK precommits \in SeqOf(Precommits, MaxPrecommits), deliver \in Delivers :
            /\ parse_execution_results(deliver, Len(block.txs)) # None
            /\ \E results \in {deliver, None} :
                 stored' = [txs |-> block.txs, rows |-> block.rows, precommits |-> precommits,
                            votes |-> classify_votes(precommits),
                            results |-> results, resultsOf |-> "stored"]
      BY <2>2 DEF parse_height
    <3>2. PICK results \in {deliver, None} :
             stored' = [txs |-> block.txs, rows |-> block.rows, precommits |-> precommits,
                        votes |-> classify_votes(precommits),
                        results |-> results, resultsOf |-> "stored"]
      BY <3>1
    <3>3. Len(deliver) = Len(block.txs)
      BY <3>1, ResultsPerTx
    <3>4. VotesFit(precommits, classify_votes(precommits))
          /\ classify_votes(precommits) \in [Validators -> Verdicts]
      BY ClassifiedOnce
    <3>5. stored' \in Heights
      BY <1>2, <3>2, <3>4 DEF Heights
    <3>6. /\ stored'.txs = block.txs /\ stored'.rows = block.rows /\ stored'.results = results
          /\ stored'.precommits = precommits /\ stored'.votes = classify_votes(precommits)
      BY <3>2
    <3>7. Len(stored'.rows) = Len(stored'.txs)
          /\ (stored'.results # None => Len(stored'.results) = Len(stored'.txs))
      BY <1>2, <3>2, <3>3, <3>6
    <3> QED BY <3>4, <3>5, <3>6, <3>7 DEF StoredSound
  <2> QED BY <2>1, <2>2
<1> QED BY <1>1, <1>3 DEF HelperAlone, PipesOwn, CallSound, BlockSound

\* backfill_height adds the results of the same block.
LEMMA BackfillInv == ParserInv /\ backfill_height => ParserInv'
<1> SUFFICES ASSUME ParserInv, backfill_height PROVE ParserInv'
  OBVIOUS
<1> USE DEF ParserInv, decoderVars
<1>1. stored # None /\ block = None /\ UNCHANGED <<decoderVars, block, heights>>
  BY DEF backfill_height
<1>2. PICK theirs \in {"stored", "other"}, deliver \in Delivers :
         /\ SameBlock(theirs)
         /\ parse_execution_results(deliver, Len(stored.rows)) # None
         /\ stored' = [stored EXCEPT !.results = deliver, !.resultsOf = theirs]
  BY DEF backfill_height
<1>3. Len(deliver) = Len(stored.rows) /\ theirs = "stored"
  BY <1>2, ResultsPerTx DEF SameBlock
<1>4. stored \in Heights /\ Len(stored.rows) = Len(stored.txs) /\ VotesFit(stored.precommits, stored.votes)
  BY <1>1 DEF StoredSound
<1>5. /\ stored' \in Heights /\ stored'.results = deliver /\ stored'.txs = stored.txs
      /\ stored'.rows = stored.rows /\ stored'.precommits = stored.precommits
      /\ stored'.votes = stored.votes
  BY <1>2, <1>3, <1>4 DEF Heights
<1>6. StoredSound'
  BY <1>3, <1>4, <1>5 DEF StoredSound
<1> QED BY <1>1, <1>6 DEF HelperAlone, PipesOwn, CallSound, CallsOn, BlockSound

\* A restart numbers requests anew, with new pipes.
LEMMA CrashInv == ParserInv /\ Crash => ParserInv'
<1> SUFFICES ASSUME ParserInv, Crash PROVE ParserInv'
  OBVIOUS
<1>1. PipesOwn'
  BY PipesCleared DEF Crash
<1> QED BY <1>1 DEF ParserInv, Crash, HelperAlone, CallSound, BlockSound, StoredSound

\* Nothing runs and nothing is stored at first.
LEMMA ParserInitInv == Init => ParserInv
BY DEF Init, DecoderInit, ParserInv, HelperAlone, PipesOwn, CallSound, BlockSound, StoredSound

\* The invariant survives every step of the client, the helper and the parser.
LEMMA ParserNextInv == ParserInv /\ [Next]_vars => ParserInv'
<1> SUFFICES ASSUME ParserInv, [Next]_vars PROVE ParserInv'
  OBVIOUS
<1>1. CASE parse_block \/ ParseUnreadable \/ ParseDecode \/ ParseDecoded
  BY <1>1, ParseBlockInv, UnreadableInv, ParseDecodeInv, ParseDecodedInv
<1>2. CASE parse_height \/ backfill_height \/ Crash
  BY <1>2, ParseHeightInv, BackfillInv, CrashInv
<1>3. CASE (DecodeStep \/ Close \/ HelperStep \/ Tick) /\ UNCHANGED parserVars
  BY <1>3, DecodeStepInv, HelperInv, CloseTickInv
<1>4. CASE UNCHANGED vars
  BY <1>4 DEF vars, decoderVars, parserVars, ParserInv, HelperAlone, PipesOwn, CallSound, CallsOn,
              BlockSound, StoredSound
<1> QED BY <1>1, <1>2, <1>3, <1>4 DEF Next

\* The invariant holds always.
LEMMA ParserAlwaysInv == Spec => []ParserInv
BY ParserInitInv, ParserNextInv, PTL DEF Spec

\* decode never hands a transaction the answer to another one, whatever the
\* helper repeats, delays or loses and however often it or the indexer is
\* restarted, and a summary that leaves something out says so.
THEOREM SummariesAreOwn == Spec => []SummaryIsOwn
<1>1. ParserInv => SummaryIsOwn
  <2> SUFFICES ASSUME ParserInv PROVE SummaryIsOwn
    OBVIOUS
  <2>1. Rows \in Seq(OwnRows)
    BY DEF ParserInv, BlockSound, StoredSound, Rows, Heights
  <2>2. \A i \in DOMAIN Rows : OwnRow(Rows[i])
    BY <2>1 DEF OwnRows
  <2>3. block # None => \A i \in DOMAIN Rows :
          Rows[i].tx = IF block.txs[i] = NotBase64 THEN None ELSE block.txs[i]
    BY DEF ParserInv, BlockSound, Rows
  <2> HIDE DEF Rows
  <2> QED BY <2>2, <2>3, Zenon DEF SummaryIsOwn, OwnRow, TellsOmissions
<1> QED BY <1>1, ParserAlwaysInv, PTL

\* close, _fail and a restart of the indexer leave no decoder process behind.
THEOREM NoHelperStrays == Spec => []NoStrayHelper
<1>1. ParserInv => NoStrayHelper
  BY DEF ParserInv, HelperAlone, NoStrayHelper
<1> QED BY <1>1, ParserAlwaysInv, PTL

\* classify_votes records a signature for exactly the validators whose one vote
\* endorses the block, and results are those of the stored block, one per
\* transaction, whether parse_height or backfill_height wrote them.
THEOREM VotesAndResultsAlwaysFit == Spec => []VotesAndResultsFit
<1>1. ParserInv => VotesAndResultsFit
  <2> SUFFICES ASSUME ParserInv, stored # None PROVE VotesAndResultsFit
    BY DEF VotesAndResultsFit
  <2>1. /\ VotesFit(stored.precommits, stored.votes)
        /\ stored.results # None => Len(stored.results) = Len(stored.txs)
    BY DEF ParserInv, StoredSound
  <2>2. stored.resultsOf = "stored"
    BY DEF ParserInv, StoredSound, Heights
  <2> QED BY <2>1, <2>2, Zenon DEF VotesAndResultsFit, VotesFit
<1> QED BY <1>1, ParserAlwaysInv, PTL
=============================================================================

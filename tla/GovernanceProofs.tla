-------------------------- MODULE GovernanceProofs --------------------------
(***************************************************************************)
(* Proofs about Governance for any updaters, endpoints, histories,         *)
(* proposals, heights and faults.                                          *)
(***************************************************************************)
EXTENDS Governance, TLAPS

(* What the properties leave out and induction needs.  A terminal status   *)
(* that a process has read is still the stored one; a full discovery that  *)
(* waits for its persist is within the size limit.                         *)
ReadStands(q) ==
    \A p \in Proposals : q.known[p] \in Terminal => rows[p].status = q.known[p]

Sized(q) == q.pc = "persist" /\ q.full => FullFits(Seen(q.cur, q.at[q.cur]))

\* Every row is what some endpoint's history shows at the row's own height.
RowsServed ==
    \A p \in Stored : \E e \in Endpoints : SameContent(rows[p], Seen(e, rows[p].last)[p])

IInv ==
    /\ GovernanceTypeOK
    /\ LoadAccepts
    /\ OneSource
    /\ RowsServed
    /\ \A u \in Updaters : ReadStands(proc[u]) /\ Sized(proc[u])

-----------------------------------------------------------------------------
\* A listed proposal has a status.
LEMMA StatusOfListed ==
    ASSUME NEW r \in Render, r.list # Absent
    PROVE  StatusOf(r) \in Statuses
BY DEF Render, StatusOf, Statuses, Absent

\* A process that is not in a cycle.
LEMMA OffType == Off \in Cycle
BY GovernanceAssumption DEF Off, Cycle

\* The renders a candidate shows at one of its heights.
LEMMA SeenType ==
    ASSUME GovernanceTypeOK, NEW e \in Endpoints, NEW h \in Heights
    PROVE  Seen(e, h) \in [Proposals -> Render]
BY GovernanceAssumption DEF Seen, GovernanceTypeOK

\* The size of rows depends on their sizes only.
LEMMA FitsSame ==
    ASSUME NEW a, NEW b, \A p \in Proposals : RowBytes(a[p]) = RowBytes(b[p]), Fits(a)
    PROVE  Fits(b)
<1>1. Bytes(a) = Bytes(b)
  BY DEF Bytes
<1> QED BY <1>1 DEF Fits

\* Terminal statuses are final along MayBecome.
LEMMA TerminalFinal ==
    ASSUME NEW s \in Terminal, NEW t, MayBecome(s, t)
    PROVE  t = s
BY DEF MayBecome, Transitions, Terminal, Absent

\* UNKNOWN is never the target of a transition.
LEMMA UnknownFirst ==
    ASSUME NEW s \in Statuses, MayBecome(s, "UNKNOWN")
    PROVE  s = "UNKNOWN"
BY DEF MayBecome, Transitions, Terminal, Statuses, Absent

\* Nothing stored, every process off.
LEMMA InitHolds == Init => IInv
<1> SUFFICES ASSUME Init PROVE IInv
  OBVIOUS
<1>1. GovernanceTypeOK
  BY OffType, GovernanceAssumption DEF Init, GovernanceTypeOK, NoRow, Row, Heights, Off
<1>2. Stored = {}
  BY DEF Init, Stored, NoRow
<1>3. LoadAccepts /\ OneSource /\ RowsServed
  BY <1>2 DEF Init, LoadAccepts, OneSource, RowsServed
<1>4. \A u \in Updaters : ReadStands(proc[u]) /\ Sized(proc[u])
  BY DEF Init, ReadStands, Sized, Off, Absent, Terminal
<1> QED BY <1>1, <1>3, <1>4 DEF IInv

-----------------------------------------------------------------------------
\* A step that leaves the tables alone and gives u the cycle q.
LEMMA QuietStep ==
    ASSUME IInv, NEW u \in Updaters, NEW q \in Cycle,
           UNCHANGED <<state, rows, serves, tip>>,
           proc' = [proc EXCEPT ![u] = q], faults' \in 0..MaxFaults,
           q.pc = "persist" => q.cur \in Endpoints /\ q.at[q.cur] \in Heights,
           ReadStands(q), Sized(q)
    PROVE  IInv'
<1>1. GovernanceTypeOK'
  BY DEF IInv, GovernanceTypeOK
<1>2. LoadAccepts' /\ RowsServed'
  <2>1. Stored' = Stored
    BY DEF Stored
  <2> QED BY <2>1 DEF IInv, LoadAccepts, RowsServed, Seen
<1>3. OneSource'
  BY DEF IInv, OneSource, Stored, Seen
<1>4. ASSUME NEW v \in Updaters PROVE (ReadStands(proc[v]) /\ Sized(proc[v]))'
  <2>1. proc'[v] = IF v = u THEN q ELSE proc[v]
    BY DEF IInv, GovernanceTypeOK
  <2>2. ReadStands(proc'[v]) /\ Sized(proc'[v])
    BY <2>1 DEF IInv
  <2> QED BY <2>2 DEF ReadStands, Sized, Seen
<1> QED BY <1>1, <1>2, <1>3, <1>4 DEF IInv

\* A process between two cycles satisfies the invariant.
LEMMA IdleCycle ==
    ASSUME NEW pc \in {"off", "wait"}, NEW d \in BOOLEAN
    PROVE  LET q == [Off EXCEPT !.pc = pc, !.due = d]
           IN  q \in Cycle /\ q.pc # "persist" /\ ReadStands(q) /\ Sized(q)
<1> DEFINE q == [Off EXCEPT !.pc = pc, !.due = d]
<1>1. q \in Cycle
  BY OffType DEF Off, Cycle
<1>2. q.pc # "persist" /\ ReadStands(q) /\ Sized(q)
  BY DEF Off, ReadStands, Sized, Terminal, Absent
<1> QED BY <1>1, <1>2

-----------------------------------------------------------------------------
\* What a publication of u does: the facts that all later proofs use.
LEMMA PublishFacts ==
    ASSUME IInv, NEW u \in Updaters, PersistFull(u) \/ PersistQuick(u)
    PROVE  LET R == View(u) IN
           /\ proc[u].pc = "persist" /\ proc[u].cur \in Endpoints /\ HeightOf(u) \in Heights
           /\ state.height < HeightOf(u)
           /\ state' = [height |-> HeightOf(u), ids |-> Listed(R)]
           /\ R \in [Proposals -> Render]
           /\ Stored \subseteq Listed(R)
           /\ \E T \in SUBSET Listed(R) :
                /\ rows' = Written(R, T, HeightOf(u))
                /\ \A p \in T : MayBecome(rows[p].status, StatusOf(R[p]))
                /\ \A p \in Listed(R) \ T :
                     rows[p].status \in Terminal /\ rows[p].status = R[p].list
<1> DEFINE R == View(u)
<1>1. /\ proc[u].pc = "persist" /\ ~Retryable(u) /\ ~Conflict(u)
      /\ state.height < HeightOf(u)
      /\ state' = [height |-> HeightOf(u), ids |-> Listed(R)]
  BY DEF PersistFull, PersistQuick, Publish
<1>2. proc[u].cur \in Endpoints /\ HeightOf(u) \in Heights
  BY <1>1 DEF IInv, GovernanceTypeOK, HeightOf
<1>3. R \in [Proposals -> Render]
  BY <1>2, SeenType DEF IInv, View, HeightOf
<1>4. rows \in [Proposals -> Row] /\ state.height \in Nat /\ HeightOf(u) \in Nat
  BY <1>2 DEF IInv, GovernanceTypeOK, Heights
<1>5. state.height # HeightOf(u)
  BY <1>1, <1>4
<1>6. CASE PersistFull(u)
  <2>1. ~FullConflict(u)
    BY <1>1, <1>6 DEF PersistFull, Conflict
  <2>2. Stored \subseteq Listed(R)
    BY <2>1, <1>5 DEF FullConflict, Loses
  <2>3. ASSUME NEW p \in Listed(R) PROVE MayBecome(rows[p].status, StatusOf(R[p]))
    <3>1. CASE p \in Stored
      BY <2>1, <1>5, <3>1 DEF FullConflict
    <3>2. CASE p \notin Stored
      BY <3>2 DEF Stored, Listed, MayBecome
    <3> QED BY <3>1, <3>2
  <2>4. rows' = Written(R, Listed(R), HeightOf(u))
    BY <1>6 DEF PersistFull, Publish
  <2> QED BY <1>1, <1>2, <1>3, <2>2, <2>3, <2>4
<1>7. CASE PersistQuick(u)
  <2>1. ~QuickConflict(u)
    BY <1>1, <1>7 DEF PersistQuick, Conflict
  <2>2. ~QuickMismatch(u) /\ ~LaterDiffers(u)
    BY <1>1, <1>5, <1>7, <2>1 DEF PersistQuick, QuickConflict, Retryable
  <2>3. Stored \subseteq Listed(R)
    BY <2>2 DEF QuickMismatch, Loses
  <2>4. Targets(u) = Required(u) /\ Targets(u) \subseteq Listed(R)
    BY <2>2 DEF LaterDiffers, Targets, RefreshIds
  <2>5. ASSUME NEW p \in Listed(R) PROVE MayBecome(rows[p].status, R[p].list)
    <3>1. CASE p \in Stored
      BY <2>2, <3>1 DEF LaterDiffers
    <3>2. CASE p \notin Stored
      BY <3>2 DEF Stored, Listed, MayBecome
    <3> QED BY <3>1, <3>2
  <2>6. ASSUME NEW p \in Targets(u) PROVE MayBecome(rows[p].status, StatusOf(R[p]))
    <3>1. p \in Listed(R) /\ p \in Proposals
      BY <2>4 DEF Listed
    <3>2. CASE StatusOf(R[p]) = R[p].list
      BY <3>1, <3>2, <2>5
    <3>3. CASE StatusOf(R[p]) # R[p].list
      <4>1. R[p].list = "UNKNOWN"
        BY <2>2, <3>3 DEF QuickMismatch
      <4>2. rows[p].status \in {Absent, "UNKNOWN"}
        BY <4>1, <3>1, <2>5, <1>4, UnknownFirst DEF Row
      <4>3. StatusOf(R[p]) \in Statuses
        BY <3>1, <1>3, StatusOfListed DEF Listed
      <4> QED BY <4>2, <4>3 DEF MayBecome, Transitions, Statuses, Terminal
    <3> QED BY <3>2, <3>3
  <2>7. ASSUME NEW p \in Listed(R) \ Targets(u)
        PROVE  rows[p].status \in Terminal /\ rows[p].status = R[p].list
    <3>1. rows[p].status \in Terminal /\ R[p].list \in Terminal
      BY <2>4 DEF Required, RefreshIds, StoredStatuses, Listed
    <3> QED BY <3>1, <2>5, TerminalFinal
  <2>8. rows' = Written(R, Targets(u), HeightOf(u))
    BY <1>7 DEF PersistQuick, Publish
  <2> QED BY <1>1, <1>2, <1>3, <2>3, <2>4, <2>6, <2>7, <2>8
<1> QED BY <1>6, <1>7

\* What is written stays within the size limit.
LEMMA PublishFits ==
    ASSUME IInv, NEW u \in Updaters, PersistFull(u) \/ PersistQuick(u)
    PROVE  Fits(rows')
<1>1. CASE PersistFull(u)
  <2> DEFINE R == View(u)
             all == [p \in Proposals |->
                       IF R[p].list = Absent THEN NoRow
                       ELSE [status |-> StatusOf(R[p]), content |-> R[p].content, last |-> 0]]
  <2>1. proc[u].pc = "persist" /\ proc[u].full
    BY <1>1 DEF PersistFull, Publish
  <2>2. Fits(all)
    BY <2>1 DEF IInv, Sized, View, FullFits
  <2>3. rows' = Written(R, Listed(R), HeightOf(u)) /\ Stored \subseteq Listed(R)
    <3>1. rows' = Written(R, Listed(R), HeightOf(u)) /\ ~Conflict(u) /\ state.height < HeightOf(u)
      BY <1>1 DEF PersistFull, Publish
    <3> QED BY <3>1, <1>1, PublishFacts
  <2>4. ASSUME NEW p \in Proposals PROVE RowBytes(all[p]) = RowBytes(rows'[p])
    <3>1. CASE p \in Listed(R)
      BY <3>1, <2>3 DEF Written, RowBytes, Listed
    <3>2. CASE p \notin Listed(R)
      <4>1. rows'[p] = rows[p] /\ rows[p].status = Absent
        BY <3>2, <2>3 DEF Written, Stored
      <4>2. all[p] = NoRow
        BY <3>2 DEF Listed
      <4> QED BY <4>1, <4>2 DEF RowBytes, NoRow
    <3> QED BY <3>1, <3>2
  <2> HIDE DEF all
  <2> QED BY <2>2, <2>4, FitsSame
<1>2. CASE PersistQuick(u)
  <2>1. rows' = Written(View(u), Targets(u), HeightOf(u)) /\ ~Retryable(u) /\ ~Conflict(u) /\ ~proc[u].full
    BY <1>2 DEF PersistQuick, Publish
  <2>2. ~TooLarge(u)
    BY <2>1 DEF Retryable, Conflict, QuickConflict
  <2> QED BY <2>1, <2>2 DEF TooLarge
<1> QED BY <1>1, <1>2

\* The new rows, one by one.
LEMMA PublishRows ==
    ASSUME IInv, NEW u \in Updaters, PersistFull(u) \/ PersistQuick(u)
    PROVE  LET R == View(u) IN
           /\ rows' \in [Proposals -> Row]
           /\ Stored' = Listed(R)
           /\ \A p \in Proposals : MayBecome(rows[p].status, rows'[p].status)
           /\ \A p \in Listed(R) :
                \/ SameContent(rows'[p], R[p]) /\ rows'[p].last = HeightOf(u)
                \/ /\ rows'[p] = rows[p] /\ rows[p].last \in 1..state.height /\ p \in Stored
                   /\ rows[p].status \in Terminal /\ rows[p].status = R[p].list
<1> DEFINE R == View(u)
<1>1. PICK T \in SUBSET Listed(R) :
         /\ rows' = Written(R, T, HeightOf(u))
         /\ \A p \in T : MayBecome(rows[p].status, StatusOf(R[p]))
         /\ \A p \in Listed(R) \ T : rows[p].status \in Terminal /\ rows[p].status = R[p].list
  BY PublishFacts
<1>2. /\ HeightOf(u) \in Heights /\ R \in [Proposals -> Render] /\ Stored \subseteq Listed(R)
      /\ rows \in [Proposals -> Row]
  BY PublishFacts DEF IInv, GovernanceTypeOK
<1>3. ASSUME NEW p \in T
      PROVE  /\ rows'[p] \in Row /\ StatusOf(R[p]) \in Statuses
             /\ rows'[p].status = StatusOf(R[p]) /\ rows'[p].content = R[p].content
             /\ rows'[p].last = HeightOf(u)
  <2>1. p \in Proposals /\ p \in Listed(R)
    BY DEF Listed
  <2>2. StatusOf(R[p]) \in Statuses /\ R[p].content \in Contents
    BY <2>1, <1>2, StatusOfListed DEF Listed, Render
  <2>3. rows'[p] = [status |-> StatusOf(R[p]), content |-> R[p].content, last |-> HeightOf(u)]
    BY <1>1, <2>1 DEF Written
  <2>4. HeightOf(u) \in 0..MaxHeight
    BY <1>2, GovernanceAssumption DEF Heights
  <2> QED BY <2>2, <2>3, <2>4 DEF Row
<1>4. ASSUME NEW p \in Proposals \ T PROVE rows'[p] = rows[p]
  BY <1>1 DEF Written
<1>5. rows' \in [Proposals -> Row]
  <2>1. \A p \in Proposals : rows'[p] \in Row
    BY <1>2, <1>3, <1>4
  <2> QED BY <2>1, <1>1 DEF Written
<1>6. Stored' = Listed(R)
  <2>1. ASSUME NEW p \in Proposals PROVE (p \in Listed(R)) <=> rows'[p].status # Absent
    <3>1. CASE p \in T
      <4>1. rows'[p].status \in Statuses
        BY <3>1, <1>3
      <4> QED BY <3>1, <4>1 DEF Statuses, Absent
    <3>2. CASE p \in Listed(R) \ T
      BY <3>2, <1>1, <1>4 DEF Terminal, Absent
    <3>3. CASE p \notin Listed(R)
      BY <3>3, <1>2, <1>4 DEF Stored
    <3> QED BY <3>1, <3>2, <3>3
  <2> QED BY <2>1 DEF Stored, Listed
<1>7. ASSUME NEW p \in Proposals PROVE MayBecome(rows[p].status, rows'[p].status)
  <2>1. CASE p \in T
    BY <2>1, <1>1, <1>3
  <2>2. CASE p \notin T
    BY <2>2, <1>4 DEF MayBecome
  <2> QED BY <2>1, <2>2
<1>8. ASSUME NEW p \in Listed(R)
      PROVE  \/ SameContent(rows'[p], R[p]) /\ rows'[p].last = HeightOf(u)
             \/ /\ rows'[p] = rows[p] /\ rows[p].last \in 1..state.height /\ p \in Stored
                /\ rows[p].status \in Terminal /\ rows[p].status = R[p].list
  <2>1. CASE p \in T
    BY <2>1, <1>3 DEF SameContent
  <2>2. CASE p \notin T
    <3>1. rows'[p] = rows[p] /\ rows[p].status \in Terminal /\ rows[p].status = R[p].list
      BY <2>2, <1>1, <1>4 DEF Listed
    <3>2. p \in Stored
      BY <3>1 DEF Stored, Listed, Terminal, Absent
    <3> QED BY <3>1, <3>2 DEF IInv, LoadAccepts
  <2> QED BY <2>1, <2>2
<1> QED BY <1>5, <1>6, <1>7, <1>8

\* A publication preserves the invariant.
LEMMA PublishStep ==
    ASSUME IInv, NEW u \in Updaters, PersistFull(u) \/ PersistQuick(u)
    PROVE  IInv'
<1>1. PICK c \in Endpoints, h \in Heights, R \in [Proposals -> Render] :
        /\ R = Seen(c, h) /\ state.height < h
        /\ state' = [height |-> h, ids |-> Listed(R)]
        /\ rows' \in [Proposals -> Row] /\ Stored' = Listed(R)
        /\ \A p \in Proposals : MayBecome(rows[p].status, rows'[p].status)
        /\ \A p \in Listed(R) :
             \/ SameContent(rows'[p], R[p]) /\ rows'[p].last = h
             \/ /\ rows'[p] = rows[p] /\ rows[p].last \in 1..state.height /\ p \in Stored
                /\ rows[p].status \in Terminal /\ rows[p].status = R[p].list
  <2>1. View(u) = Seen(proc[u].cur, HeightOf(u))
    BY DEF View, HeightOf
  <2> QED BY <2>1, PublishFacts, PublishRows
<1>2. /\ UNCHANGED <<serves, tip, faults>>
      /\ proc' = [proc EXCEPT ![u] = [Off EXCEPT !.pc = "wait", !.due = ~proc[u].full /\ proc[u].due]]
  BY DEF PersistFull, PersistQuick, Publish, Succeed, Move
<1>3. state.height \in Nat /\ h \in Nat /\ h > 0 /\ h \in 0..MaxHeight /\ state'.height = h /\ state'.ids = Listed(R)
  BY <1>1, GovernanceAssumption DEF IInv, GovernanceTypeOK, Heights
<1>4. ASSUME NEW p \in Listed(R)
      PROVE  /\ p \in Proposals /\ rows'[p].last \in 1..h
             /\ rows'[p].status \in {R[p].list, StatusOf(R[p])}
             /\ rows'[p].status \notin Terminal => rows'[p].last = h
             /\ rows'[p].last = h => SameContent(rows'[p], R[p])
  <2>1. p \in Proposals
    BY DEF Listed
  <2>2. CASE SameContent(rows'[p], R[p]) /\ rows'[p].last = h
    BY <2>1, <2>2, <1>3 DEF SameContent
  <2>3. CASE /\ rows'[p] = rows[p] /\ rows[p].last \in 1..state.height
             /\ rows[p].status \in Terminal /\ rows[p].status = R[p].list
    BY <2>1, <2>3, <1>1, <1>3
  <2> QED BY <2>2, <2>3, <1>1
<1>5. LoadAccepts'
  <2>1. Fits(rows')
    BY PublishFits
  <2>2. Fits(rows)'
    BY <2>1 DEF Fits, Bytes, RowBytes
  <2> QED BY <1>1, <1>3, <1>4, <2>2 DEF LoadAccepts
<1>6. \A e, k : Seen(e, k)' = Seen(e, k)
  BY <1>2 DEF Seen
<1>7. OneSource'
  <2>1. /\ Stored' = Listed(Seen(c, state.height)')
        /\ \A p \in Stored' :
             /\ rows'[p].status \in {Seen(c, state.height)'[p].list, StatusOf(Seen(c, state.height)'[p])}
             /\ rows'[p].status \notin Terminal => rows'[p].last = state'.height
             /\ rows'[p].last = state'.height => SameContent(rows'[p], Seen(c, state.height)'[p])
    <3>1. Seen(c, state.height)' = R
      BY <1>1, <1>2, <1>3 DEF Seen
    <3> QED BY <1>1, <1>3, <1>4, <3>1
  <2> QED BY <2>1 DEF OneSource, Listed, SameContent, StatusOf
<1>8. RowsServed'
  <2>1. ASSUME NEW p \in Listed(R)
        PROVE  \E e \in Endpoints : SameContent(rows'[p], Seen(e, rows'[p].last)[p])
    <3>1. CASE SameContent(rows'[p], R[p]) /\ rows'[p].last = h
      BY <3>1, <1>1
    <3>2. CASE rows'[p] = rows[p] /\ p \in Stored
      BY <3>2 DEF IInv, RowsServed
    <3> QED BY <3>1, <3>2, <1>1
  <2> QED BY <2>1, <1>1, <1>2 DEF RowsServed, Seen, SameContent
<1>9. /\ proc' = [proc EXCEPT ![u] = proc'[u]] /\ proc'[u] \in Cycle
      /\ proc'[u].pc # "persist" /\ \A p \in Proposals : proc'[u].known[p] \notin Terminal
  BY <1>2, OffType DEF IInv, GovernanceTypeOK, Cycle, Off, Terminal, Absent
<1>10. GovernanceTypeOK'
  <2>1. state' \in [height : 0..MaxHeight, ids : SUBSET Proposals]
    BY <1>1, <1>3 DEF Listed
  <2>2. proc' \in [Updaters -> Cycle]
    BY <1>9 DEF IInv, GovernanceTypeOK
  <2>3. ASSUME NEW v \in Updaters, proc'[v].pc = "persist"
        PROVE  proc'[v].cur \in Endpoints /\ proc'[v].at[proc'[v].cur] \in Heights
    <3>1. v # u /\ proc'[v] = proc[v]
      BY <2>3, <1>9 DEF IInv, GovernanceTypeOK
    <3> QED BY <2>3, <3>1 DEF IInv, GovernanceTypeOK
  <2> QED BY <1>1, <1>2, <2>1, <2>2, <2>3 DEF IInv, GovernanceTypeOK
<1>11. ASSUME NEW v \in Updaters PROVE (ReadStands(proc[v]) /\ Sized(proc[v]))'
  <2>1. CASE v = u
    BY <2>1, <1>9 DEF ReadStands, Sized
  <2>2. CASE v # u
    <3>1. proc'[v] = proc[v]
      BY <2>2, <1>9 DEF IInv, GovernanceTypeOK
    <3>2. ASSUME NEW p \in Proposals, proc[v].known[p] \in Terminal
          PROVE  rows'[p].status = proc[v].known[p]
      BY <3>2, <1>1, TerminalFinal DEF IInv, ReadStands
    <3>3. Sized(proc[v])
      BY DEF IInv
    <3> QED BY <3>1, <3>2, <3>3, <1>2 DEF ReadStands, Sized, Seen
  <2> QED BY <2>1, <2>2
<1> QED BY <1>5, <1>7, <1>8, <1>10, <1>11 DEF IInv

-----------------------------------------------------------------------------
\* A process that goes back between two cycles preserves the invariant.
LEMMA IdleStep ==
    ASSUME IInv, NEW u \in Updaters, NEW pc \in {"off", "wait"}, NEW d \in BOOLEAN,
           Move(u, [Off EXCEPT !.pc = pc, !.due = d]),
           UNCHANGED <<state, rows>>, faults' \in 0..MaxFaults
    PROVE  IInv'
<1> DEFINE q == [Off EXCEPT !.pc = pc, !.due = d]
<1>1. q \in Cycle /\ q.pc # "persist" /\ ReadStands(q) /\ Sized(q)
  BY IdleCycle
<1>2. proc' = [proc EXCEPT ![u] = q] /\ UNCHANGED <<serves, tip>>
  BY DEF Move
<1> HIDE DEF q
<1> QED BY <1>1, <1>2, QuietStep

\* Start, Stop, Crash, and every way a cycle ends without writing.
LEMMA CycleEnds ==
    ASSUME IInv, NEW u \in Updaters,
           \/ Start(u) \/ Stop(u) \/ Crash(u) \/ DatabaseFails(u) \/ AllFailed(u)
           \/ InvalidDiscovery(u) \/ PersistConflict(u) \/ PersistUnchanged(u)
    PROVE  IInv'
<1>1. proc[u].due \in BOOLEAN /\ (~proc[u].full /\ proc[u].due) \in BOOLEAN /\ faults \in 0..MaxFaults
  BY DEF IInv, GovernanceTypeOK, Cycle
<1>2. Off = [Off EXCEPT !.pc = "off", !.due = TRUE]
      /\ [Off EXCEPT !.pc = "wait"] = [Off EXCEPT !.pc = "wait", !.due = TRUE]
  <2>1. Off.pc = "off" /\ Off.due = TRUE
    BY DEF Off
  <2>2. \A q \in Cycle : q.due = TRUE => [q EXCEPT !.pc = q.pc, !.due = TRUE] = q
    BY DEF Cycle
  <2>3. \A q \in Cycle : q.due = TRUE => [q EXCEPT !.pc = "wait"] = [q EXCEPT !.pc = "wait", !.due = TRUE]
    BY DEF Cycle
  <2> QED BY <2>1, <2>2, <2>3, OffType
<1>3. UNCHANGED <<state, rows>>
  BY DEF Start, Stop, Crash, DatabaseFails, AllFailed, InvalidDiscovery, PersistConflict, PersistUnchanged
<1>4. faults' \in 0..MaxFaults
  BY <1>1, GovernanceAssumption DEF Start, Stop, Crash, DatabaseFails, AllFailed, InvalidDiscovery,
     PersistConflict, PersistUnchanged
<1>5. \E pc \in {"off", "wait"}, d \in BOOLEAN : Move(u, [Off EXCEPT !.pc = pc, !.due = d])
  <2>1. CASE Start(u) \/ Stop(u) \/ Crash(u)
    BY <2>1, <1>2 DEF Start, Stop, Crash
  <2>2. CASE DatabaseFails(u) \/ AllFailed(u) \/ InvalidDiscovery(u) \/ PersistConflict(u)
    BY <2>2, <1>1 DEF DatabaseFails, AllFailed, InvalidDiscovery, PersistConflict, Abandon
  <2>3. CASE PersistUnchanged(u)
    BY <2>3, <1>1 DEF PersistUnchanged, Succeed
  <2> QED BY <2>1, <2>2, <2>3
<1> QED BY <1>3, <1>4, <1>5, IdleStep

\* The invariant is inductive.
LEMMA NextHolds == IInv /\ [Next]_vars => IInv'
<1> SUFFICES ASSUME IInv, [Next]_vars PROVE IInv'
  OBVIOUS
<1>1. GovernanceTypeOK /\ faults \in 0..MaxFaults
  BY DEF IInv, GovernanceTypeOK
<1>2. ASSUME NEW e \in Endpoints, Advance(e) PROVE IInv'
  <2>1. tip' \in [Endpoints -> Heights] /\ UNCHANGED <<state, rows, proc, serves, faults>>
    BY <1>2, <1>1, GovernanceAssumption DEF Advance, GovernanceTypeOK, Heights
  <2>2. GovernanceTypeOK'
    BY <2>1, <1>1 DEF GovernanceTypeOK
  <2> QED BY <2>1, <2>2, ZenonT(40) DEF IInv, LoadAccepts, OneSource, RowsServed, ReadStands, Sized, Stored, Seen
<1>3. ASSUME NEW u \in Updaters, FullDue(u) PROVE IInv'
  <2> DEFINE q == [proc[u] EXCEPT !.due = TRUE]
  <2>1. proc' = [proc EXCEPT ![u] = q] /\ UNCHANGED <<state, rows, serves, tip, faults>> /\ proc[u].pc = "wait"
    BY <1>3 DEF FullDue, Move
  <2>2. q \in Cycle /\ q.pc # "persist" /\ q.known = proc[u].known
    BY <2>1, <1>1 DEF GovernanceTypeOK, Cycle
  <2>3. ReadStands(q) /\ Sized(q)
    BY <2>2 DEF IInv, ReadStands, Sized
  <2> HIDE DEF q
  <2> QED BY <2>1, <2>2, <2>3, <1>1, QuietStep
<1>4. ASSUME NEW u \in Updaters, NEW healthy \in SUBSET Endpoints, Probe(u, healthy) PROVE IInv'
  <2>1. proc[u].due \in BOOLEAN /\ UNCHANGED <<state, rows, faults>>
    BY <1>4, <1>1 DEF Probe, GovernanceTypeOK, Cycle
  <2>2. CASE Abandon(u)
    BY <2>1, <2>2, <1>1, IdleStep DEF Abandon
  <2>3. CASE ~Abandon(u)
    <3> DEFINE q == [Off EXCEPT
                       !.pc = IF proc[u].due THEN "next" ELSE "read",
                       !.full = proc[u].due, !.due = proc[u].due,
                       !.at = [e \in Endpoints |-> IF e \in Candidates(healthy) THEN tip[e] ELSE 0]]
    <3>1. proc' = [proc EXCEPT ![u] = q] /\ UNCHANGED <<serves, tip>>
      BY <2>3, <1>4 DEF Probe, Move
    <3>2. [e \in Endpoints |-> IF e \in Candidates(healthy) THEN tip[e] ELSE 0] \in [Endpoints -> 0..MaxHeight]
      BY <1>1, GovernanceAssumption DEF GovernanceTypeOK, Heights
    <3>3. q \in Cycle /\ q.pc # "persist" /\ q.known = Off.known
      BY <3>2, <2>1, OffType DEF Off, Cycle
    <3>4. ReadStands(q) /\ Sized(q)
      BY <3>3 DEF ReadStands, Sized, Off, Terminal, Absent
    <3> HIDE DEF q
    <3> QED BY <3>1, <3>3, <3>4, <2>1, <1>1, QuietStep
  <2> QED BY <2>2, <2>3
<1>5. ASSUME NEW u \in Updaters, ReadStatuses(u) PROVE IInv'
  <2> DEFINE q == [proc[u] EXCEPT !.pc = "next", !.known = StoredStatuses]
  <2>1. proc' = [proc EXCEPT ![u] = q] /\ UNCHANGED <<state, rows, serves, tip, faults>>
    BY <1>5 DEF ReadStatuses, Move
  <2>2. StoredStatuses \in [Proposals -> Statuses \cup {Absent}]
    BY <1>1 DEF StoredStatuses, GovernanceTypeOK, Row
  <2>3. q \in Cycle /\ q.pc # "persist" /\ q.known = StoredStatuses
    BY <2>2, <1>1, ZenonT(40) DEF GovernanceTypeOK, Cycle
  <2>4. ReadStands(q) /\ Sized(q)
    BY <2>3 DEF ReadStands, Sized, StoredStatuses
  <2> HIDE DEF q
  <2> QED BY <2>1, <2>3, <2>4, <1>1, QuietStep
<1>6. ASSUME NEW u \in Updaters, NEW e \in Endpoints, Discover(u, e) PROVE IInv'
  <2> DEFINE q == [proc[u] EXCEPT !.pc = "persist", !.cur = e]
  <2>1. /\ proc' = [proc EXCEPT ![u] = q] /\ UNCHANGED <<state, rows, serves, tip, faults>>
        /\ proc[u].at[e] > 0 /\ Discoverable(u, e)
    BY <1>6 DEF Discover, Move
  <2>2. /\ q \in Cycle /\ q.cur = e /\ q.at = proc[u].at /\ q.known = proc[u].known /\ q.full = proc[u].full
    BY <1>1 DEF GovernanceTypeOK, Cycle
  <2>3. proc[u].at[e] \in Heights
    BY <2>1, <1>1, GovernanceAssumption DEF GovernanceTypeOK, Cycle, Heights
  <2>4. ReadStands(q) /\ Sized(q)
    BY <2>1, <2>2 DEF IInv, ReadStands, Sized, Discoverable
  <2> HIDE DEF q
  <2> QED BY <2>1, <2>2, <2>3, <2>4, <1>1, QuietStep
<1>7. ASSUME NEW u \in Updaters, NEW e \in Endpoints, Skip(u, e), UNCHANGED <<state, rows, faults>> PROVE IInv'
  <2> DEFINE q == [proc[u] EXCEPT !.pc = "next", !.cur = None, !.at[e] = 0]
  <2>1. proc' = [proc EXCEPT ![u] = q] /\ UNCHANGED <<serves, tip>>
    BY <1>7 DEF Skip, Move
  <2>2. q \in Cycle /\ q.pc # "persist" /\ q.known = proc[u].known
    <3>1. proc[u] \in Cycle
      BY <1>1 DEF GovernanceTypeOK
    <3>2. PICK a \in [Endpoints -> 0..MaxHeight] : a = [proc[u].at EXCEPT ![e] = 0]
      <4>1. [proc[u].at EXCEPT ![e] = 0] \in [Endpoints -> 0..MaxHeight]
        BY <3>1, GovernanceAssumption DEF Cycle
      <4> QED BY <4>1
    <3>3. q = [proc[u] EXCEPT !.pc = "next", !.cur = None, !.at = a]
      <4>1. [proc[u] EXCEPT !.pc = "next", !.cur = None].at = proc[u].at
        BY <3>1 DEF Cycle
      <4> QED BY <3>2, <4>1, Zenon
    <3> HIDE DEF q
    <3> QED BY <3>1, <3>3 DEF Cycle
  <2>3. ReadStands(q) /\ Sized(q)
    BY <2>2 DEF IInv, ReadStands, Sized
  <2> HIDE DEF q
  <2> QED BY <2>1, <2>2, <2>3, <1>1, <1>7, QuietStep
<1>8. ASSUME NEW u \in Updaters, NEW e \in Endpoints, DiscoverFails(u, e) PROVE IInv'
  BY <1>7, <1>8 DEF DiscoverFails
<1>9. ASSUME NEW u \in Updaters, PersistRetry(u) PROVE IInv'
  <2>1. proc[u].cur \in Endpoints
    BY <1>9, <1>1 DEF PersistRetry, GovernanceTypeOK
  <2> QED BY <2>1, <1>7, <1>9 DEF PersistRetry
<1>10. CASE UNCHANGED vars
  <2>1. GovernanceTypeOK'
    BY <1>10, <1>1 DEF GovernanceTypeOK, vars
  <2> QED BY <2>1, <1>10, ZenonT(40) DEF vars, IInv, LoadAccepts, OneSource, RowsServed, ReadStands, Sized, Stored, Seen
<1>11. ASSUME NEW u \in Updaters, Step(u) PROVE IInv'
  BY <1>11, <1>4, <1>5, <1>6, <1>8, <1>9, CycleEnds, PublishStep DEF Step
<1> QED BY <1>2, <1>3, <1>10, <1>11, CycleEnds DEF Next

\* The properties that follow from the invariant at one moment.
LEMMA Consequences == IInv => SnapshotExact /\ StaleReadSafe
<1> SUFFICES ASSUME IInv PROVE SnapshotExact /\ StaleReadSafe
  OBVIOUS
<1>1. SnapshotExact
  <2> SUFFICES ASSUME state.height > 0, Agree, NEW e \in Endpoints, Frozen(serves[e]), NEW p \in Stored
               PROVE  SameContent(rows[p], Seen(e, state.height)[p])
    BY DEF SnapshotExact
  <2> DEFINE R == Seen(e, state.height)
             k == rows[p].last
  <2>1. p \in Proposals /\ k \in 1..state.height /\ k \in Heights /\ state.height \in Heights /\ k <= state.height
    BY GovernanceAssumption DEF IInv, LoadAccepts, GovernanceTypeOK, Stored, Heights
  <2>2. PICK f \in Endpoints : SameContent(rows[p], Seen(f, k)[p])
    BY DEF IInv, RowsServed
  <2>3. SameContent(rows[p], Seen(e, k)[p])
    <3>1. serves[f] = serves[e]
      BY DEF Agree
    <3> QED BY <2>2, <3>1 DEF Seen
  <2>4. CASE k = state.height
    BY <2>3, <2>4
  <2>5. CASE k # state.height
    <3>1. rows[p].status \in Terminal
      BY <2>5 DEF IInv, OneSource
    <3>2. StatusOf(Renders[serves[e]][k][p]) \in Terminal
      BY <2>3, <3>1 DEF SameContent, Seen
    <3>3. Renders[serves[e]][state.height][p] = Renders[serves[e]][k][p]
      BY <2>1, <3>2 DEF Frozen
    <3> QED BY <2>3, <3>3 DEF Seen
  <2> QED BY <2>4, <2>5
<1>2. StaleReadSafe
  <2> SUFFICES ASSUME NEW u \in Updaters, NEW p \in Required(u) PROVE p \in Targets(u)
    BY DEF StaleReadSafe
  <2>1. /\ p \in Listed(View(u)) /\ p \in Proposals
        /\ ~(rows[p].status \in Terminal /\ View(u)[p].list \in Terminal)
    BY DEF Required, RefreshIds, StoredStatuses, Listed
  <2>2. proc[u].known[p] \in Terminal => rows[p].status = proc[u].known[p]
    BY <2>1 DEF IInv, ReadStands
  <2> QED BY <2>1, <2>2 DEF Targets, RefreshIds
<1> QED BY <1>1, <1>2

\* The tables only change by a publication.
LEMMA StepRefines == IInv /\ [Next]_vars => [Snapshot!Publish]_(Snapshot!vars)
<1> SUFFICES ASSUME IInv, [Next]_vars PROVE [Snapshot!Publish]_(Snapshot!vars)
  OBVIOUS
<1>1. CASE UNCHANGED <<state, rows>>
  BY <1>1 DEF Snapshot!vars, StoredStatuses
<1>2. ASSUME NEW u \in Updaters, PersistFull(u) \/ PersistQuick(u) PROVE Snapshot!Publish
  <2>1. HeightOf(u) \in Heights /\ state.height < HeightOf(u) /\ state'.height = HeightOf(u)
    BY <1>2, PublishFacts
  <2>2. state.height \in Nat
    BY DEF IInv, GovernanceTypeOK
  <2>3. state'.height \in (state.height + 1)..MaxHeight
    BY <2>1, <2>2, GovernanceAssumption DEF Heights
  <2>4. /\ rows' \in [Proposals -> Row]
        /\ \A p \in Proposals : MayBecome(rows[p].status, rows'[p].status)
    BY <1>2, PublishRows
  <2>5. StoredStatuses' \in [Proposals -> Statuses \cup {Absent}]
    BY <2>4 DEF StoredStatuses, Row
  <2>6. \A p \in Proposals : MayBecome(StoredStatuses[p], StoredStatuses'[p])
    BY <2>4 DEF StoredStatuses
  <2> QED BY <2>3, <2>5, <2>6 DEF Snapshot!Publish, Snapshot!MayBecome, Snapshot!Statuses, Snapshot!Absent,
             Snapshot!Transitions, Snapshot!Terminal, MayBecome, Statuses, Absent, Transitions, Terminal
<1>3. UNCHANGED <<state, rows>> \/ \E u \in Updaters : PersistFull(u) \/ PersistQuick(u)
  BY DEF Next, vars, Step, Advance, FullDue, Start, Stop, Crash, DatabaseFails, Probe, ReadStatuses, Discover,
     DiscoverFails, AllFailed, PersistRetry, InvalidDiscovery, PersistConflict, PersistUnchanged
<1> QED BY <1>1, <1>2, <1>3

-----------------------------------------------------------------------------
\* The types of Governance hold for every value of its constants.
THEOREM TypeCorrect == Spec => []GovernanceTypeOK
<1>1. IInv => GovernanceTypeOK
  BY DEF IInv
<1> QED BY <1>1, InitHolds, NextHolds, PTL DEF Spec

\* The stored snapshot always loads: overlapping full and quick cycles, crashes
\* between any two steps and disagreeing endpoints never leave a state that
\* _load refuses.
THEOREM AlwaysLoads == Spec => []LoadAccepts
<1>1. IInv => LoadAccepts
  BY DEF IInv
<1> QED BY <1>1, InitHolds, NextHolds, PTL DEF Spec

\* The stored snapshot is always that of one endpoint at one height.
THEOREM NeverMixed == Spec => []OneSource
<1>1. IInv => OneSource
  BY DEF IInv
<1> QED BY <1>1, InitHolds, NextHolds, PTL DEF Spec

\* If terminal proposals do not change on the chain, a snapshot pieced together
\* by quick cycles at several heights is exactly the chain's at its height.
THEOREM QuickCyclesExact == Spec => []SnapshotExact
BY InitHolds, NextHolds, Consequences, PTL DEF Spec

\* Reading the stored statuses without a lock never makes a quick cycle leave
\* out a proposal that must be refreshed.
THEOREM UnlockedReadSafe == Spec => []StaleReadSafe
BY InitHolds, NextHolds, Consequences, PTL DEF Spec

\* The updaters implement the abstract snapshot.
THEOREM ImplementsSnapshot == Spec => RefinesSnapshot
<1>1. Init => Snapshot!Init
  BY DEF Init, Snapshot!Init, StoredStatuses, NoRow, Snapshot!Absent, Absent
<1> QED BY <1>1, InitHolds, NextHolds, StepRefines, PTL DEF Spec, RefinesSnapshot, Snapshot!Spec
=============================================================================

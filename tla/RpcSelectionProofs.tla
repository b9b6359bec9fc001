------------------------ MODULE RpcSelectionProofs ------------------------
(***************************************************************************)
(* The endpoint selection for every configuration: any endpoints, any      *)
(* latencies and thresholds.  The pure part is that ranking the probes     *)
(* lists the usable endpoints and nothing else; on it rests the invariant  *)
(* that relates the order of a cycle, the endpoints it has activated, the  *)
(* streak and the comparisons that the streak stands for.                  *)
(***************************************************************************)
EXTENDS RpcSelection, DataLemmas

-----------------------------------------------------------------------------
(* Ranking                                                                 *)

\* The place of an endpoint in the configuration determines it.
LEMMA Positions ==
    ASSUME NEW e \in Endpoints
    PROVE  Position(e) \in Nat /\ Urls[Position(e)] = e
<1>1. \E i \in DOMAIN Urls : Urls[i] = e
  BY DEF Endpoints, Range
<1>2. Position(e) \in DOMAIN Urls /\ Urls[Position(e)] = e
  BY <1>1, Zenon DEF Position
<1>3. DOMAIN Urls = 1..Len(Urls) /\ Len(Urls) \in Nat
  BY SelectionAssumption, LenProperties
<1> QED BY <1>2, <1>3

\* There are finitely many endpoints.
LEMMA EndpointsFinite ==
    /\ IsFiniteSet(Endpoints)
    /\ \A S \in SUBSET Endpoints : IsFiniteSet(S)
<1>0. Urls \in Seq(Endpoints)
  BY SelectionAssumption
<1>1. DOMAIN Urls = 1..Len(Urls) /\ Len(Urls) \in Nat /\ Urls \in [DOMAIN Urls -> Endpoints]
  <2>1. Len(Urls) \in Nat /\ Urls \in [1..Len(Urls) -> Endpoints]
    BY <1>0, LenProperties
  <2> QED BY <2>1
<1>2. IsFiniteSet(DOMAIN Urls)
  <2>1. 1 \in Int /\ Len(Urls) \in Int
    BY <1>1
  <2>2. IsFiniteSet(1..Len(Urls))
    BY <2>1, FS_Interval, Zenon
  <2> QED BY <1>1, <2>2
<1>3. Urls \in Surjection(DOMAIN Urls, Endpoints)
  BY <1>1 DEF Surjection, Endpoints, Range
<1>4. IsFiniteSet(Endpoints)
  BY <1>2, <1>3, FS_Surjection
<1> QED BY <1>4, FS_Subset

\* Latencies of usable endpoints, and a part of these endpoints.
Measured(lat, S) ==
    /\ S \subseteq Endpoints
    /\ \A e \in S : lat[e] \in Nat

\* _probe_rank is a total order: every place in the ranking is taken.
LEMMA PlaceTaken ==
    ASSUME NEW lat, NEW S, Measured(lat, S), NEW k \in Nat, k < Cardinality(S)
    PROVE  \E e \in S : Place(lat, S, e) = k
<1> DEFINE R == {p \in S \X S : RanksBefore(lat, p[1], p[2])}
<1>1. \A x, y \in S : <<x, y>> \in R <=> RanksBefore(lat, x, y)
  OBVIOUS
<1>2. \A e \in S : lat[e] \in Nat /\ Position(e) \in Nat /\ Urls[Position(e)] = e
  BY Positions DEF Measured
<1>3. \A x \in S : <<x, x>> \notin R
  BY <1>1, <1>2 DEF RanksBefore
<1>4. \A x, y \in S : x = y \/ <<x, y>> \in R \/ <<y, x>> \in R
  <2> SUFFICES ASSUME NEW x \in S, NEW y \in S, x # y
               PROVE  RanksBefore(lat, x, y) \/ RanksBefore(lat, y, x)
    BY <1>1
  <2>1. Position(x) # Position(y)
    BY <1>2
  <2> QED BY <1>2, <2>1 DEF RanksBefore
<1>5. \A x, y, z \in S : <<x, y>> \in R /\ <<y, z>> \in R => <<x, z>> \in R
  BY <1>1, <1>2 DEF RanksBefore
<1>6. IsFiniteSet(S)
  BY EndpointsFinite DEF Measured
<1>7. PICK e \in S : Before(S, R, e) = k
  <2> HIDE DEF R
  <2> QED BY <1>3, <1>4, <1>5, <1>6, PlaceExists
<1>8. {d \in S : <<d, e>> \in R} = {d \in S : RanksBefore(lat, d, e)}
  BY <1>1
<1> QED BY <1>7, <1>8 DEF Before, Place

\* suitable_rpc_probes lists every endpoint once, and no other.
LEMMA RankedLists ==
    ASSUME NEW lat, NEW S, Measured(lat, S)
    PROVE  /\ Ranked(lat, S) \in Seq(S)
           /\ IsInjective(Ranked(lat, S))
           /\ Len(Ranked(lat, S)) = Cardinality(S)
           /\ S # {} => Len(Ranked(lat, S)) > 0
<1>1. Cardinality(S) \in Nat /\ (S # {} => Cardinality(S) > 0)
  <2>1. IsFiniteSet(S)
    BY EndpointsFinite DEF Measured
  <2> QED BY <2>1, FS_CardinalityType, FS_EmptySet
<1> DEFINE At(i) == CHOOSE e \in S : Place(lat, S, e) = i - 1
<1>2. ASSUME NEW i \in 1..Cardinality(S)
      PROVE  At(i) \in S /\ Place(lat, S, At(i)) = i - 1
  <2>1. i - 1 \in Nat /\ i - 1 < Cardinality(S)
    BY <1>1
  <2>2. \E e \in S : Place(lat, S, e) = i - 1
    BY <2>1, PlaceTaken
  <2> QED BY <2>2, Zenon
<1>3. Ranked(lat, S) = [i \in 1..Cardinality(S) |-> At(i)]
  BY DEF Ranked
<1> HIDE DEF At
<1>4. Ranked(lat, S) \in Seq(S) /\ Len(Ranked(lat, S)) = Cardinality(S)
  BY <1>1, <1>2, <1>3
<1>5. IsInjective(Ranked(lat, S))
  <2>1. \A a, b \in 1..Cardinality(S) : At(a) = At(b) => a = b
    BY <1>1, <1>2
  <2> QED BY <1>3, <2>1 DEF IsInjective
<1> QED BY <1>1, <1>4, <1>5

\* The alternative compared with the selected endpoint is another usable one,
\* and there is none unless the selected one is usable.
LEMMA ChallengerUsable ==
    ASSUME NEW s, NEW lat, Measured(lat, DOMAIN lat)
    PROVE  Challenger(s, lat) # None =>
              /\ s \in DOMAIN lat
              /\ Challenger(s, lat) \in DOMAIN lat \ {s}
<1> SUFFICES ASSUME Challenger(s, lat) # None
             PROVE  s \in DOMAIN lat /\ Challenger(s, lat) \in DOMAIN lat \ {s}
  OBVIOUS
<1>1. PICK others : others = Ranked(lat, DOMAIN lat \ {s})
  OBVIOUS
<1>2. s \in DOMAIN lat /\ others # <<>> /\ Challenger(s, lat) = Head(others)
  BY <1>1 DEF Challenger
<1>3. others \in Seq(DOMAIN lat \ {s})
  <2>1. Measured(lat, DOMAIN lat \ {s})
    BY DEF Measured
  <2> QED BY <1>1, <2>1, RankedLists
<1>4. Head(others) \in DOMAIN lat \ {s}
  BY <1>2, <1>3, HeadTailProperties
<1> QED BY <1>2, <1>4

\* order_indexer_candidates lists usable endpoints only, each once.  The
\* selected endpoint is first when it is usable, or second after a candidate
\* whose streak is complete.
LEMMA OrderedLists ==
    ASSUME NEW lat, Measured(lat, DOMAIN lat), NEW st \in Selection,
           st.candidate # None => /\ st.selected \in DOMAIN lat
                                  /\ st.candidate \in DOMAIN lat \ {st.selected}
    PROVE  /\ Ordered(st, lat) \in Seq(DOMAIN lat)
           /\ IsInjective(Ordered(st, lat))
           /\ st.selected \in DOMAIN lat =>
                 \/ Ordered(st, lat)[1] = st.selected
                 \/ /\ Len(Ordered(st, lat)) >= 2
                    /\ Ordered(st, lat)[1] = st.candidate
                    /\ Ordered(st, lat)[2] = st.selected
                    /\ st.candidate # None /\ st.streak >= Confirmations
<1>1. PICK lead : lead = Lead(st, lat)
  OBVIOUS
<1>2. PICK rest : rest = Ranked(lat, DOMAIN lat \ Range(lead))
  OBVIOUS
<1>3. Ordered(st, lat) = lead \o rest
  BY <1>1, <1>2 DEF Ordered
<1>4. rest \in Seq(DOMAIN lat \ Range(lead)) /\ rest \in Seq(DOMAIN lat) /\ IsInjective(rest)
  <2>1. Measured(lat, DOMAIN lat \ Range(lead))
    BY DEF Measured
  <2>2. rest \in Seq(DOMAIN lat \ Range(lead)) /\ IsInjective(rest)
    BY <1>2, <2>1, RankedLists
  <2> QED BY <2>2
<1>5. ASSUME NEW l, l = lead, l \in Seq(DOMAIN lat), IsInjective(l)
      PROVE  /\ lead \o rest \in Seq(DOMAIN lat)
             /\ IsInjective(lead \o rest)
             /\ Len(lead \o rest) >= Len(l)
             /\ \A i \in 1..Len(l) : (lead \o rest)[i] = l[i]
  <2>1. PICK o : o = l \o rest
    OBVIOUS
  <2>2. /\ o \in Seq(DOMAIN lat)
        /\ Len(o) = Len(l) + Len(rest) /\ Len(l) \in Nat /\ Len(rest) \in Nat
        /\ \A i \in 1..Len(o) : o[i] = IF i <= Len(l) THEN l[i] ELSE rest[i - Len(l)]
        /\ DOMAIN o = 1..Len(o) /\ DOMAIN l = 1..Len(l) /\ DOMAIN rest = 1..Len(rest)
    BY <1>4, <1>5, <2>1, ConcatProperties
  <2>3. \A i \in 1..Len(l) : o[i] = l[i] /\ l[i] \in Range(lead)
    BY <1>5, <2>2 DEF Range
  <2>4. \A i \in 1..Len(o) : i > Len(l) =>
           i - Len(l) \in 1..Len(rest) /\ o[i] = rest[i - Len(l)] /\ o[i] \notin Range(lead)
    <3> SUFFICES ASSUME NEW i \in 1..Len(o), i > Len(l)
                 PROVE  i - Len(l) \in 1..Len(rest) /\ o[i] = rest[i - Len(l)] /\ o[i] \notin Range(lead)
      OBVIOUS
    <3>1. i - Len(l) \in 1..Len(rest) /\ o[i] = rest[i - Len(l)]
      BY <2>2
    <3>2. rest[i - Len(l)] \in DOMAIN lat \ Range(lead)
      BY <1>4, <2>2, <3>1, ElementOfSeq
    <3> QED BY <3>1, <3>2
  <2>5. IsInjective(o)
    <3> SUFFICES ASSUME NEW a \in 1..Len(o), NEW b \in 1..Len(o), o[a] = o[b]
                 PROVE  a = b
      BY <2>2 DEF IsInjective
    <3>1. CASE a <= Len(l) /\ b <= Len(l)
      <4>1. a \in DOMAIN l /\ b \in DOMAIN l /\ l[a] = l[b]
        BY <2>2, <2>3, <3>1
      <4> QED BY <1>5, <4>1 DEF IsInjective
    <3>2. CASE a > Len(l) /\ b > Len(l)
      <4>1. /\ a - Len(l) \in DOMAIN rest /\ b - Len(l) \in DOMAIN rest
            /\ rest[a - Len(l)] = rest[b - Len(l)]
        BY <2>2, <2>4, <3>2
      <4>2. a - Len(l) = b - Len(l)
        BY <1>4, <4>1 DEF IsInjective
      <4> QED BY <2>2, <4>2
    <3>3. CASE a <= Len(l) /\ b > Len(l)
      <4>1. a \in 1..Len(l)
        BY <2>2, <3>3
      <4> QED BY <2>3, <2>4, <3>3, <4>1
    <3>4. CASE b <= Len(l) /\ a > Len(l)
      <4>1. b \in 1..Len(l)
        BY <2>2, <3>4
      <4> QED BY <2>3, <2>4, <3>4, <4>1
    <3> QED BY <2>2, <3>1, <3>2, <3>3, <3>4
  <2> QED BY <1>5, <2>1, <2>2, <2>3, <2>5
<1>6. CASE st.candidate # None /\ st.streak >= Confirmations
  <2>1. lead = <<st.candidate, st.selected>>
    BY <1>1, <1>6 DEF Lead
  <2>2. PICK c, s : c = st.candidate /\ s = st.selected
    OBVIOUS
  <2>3. c \in DOMAIN lat /\ s \in DOMAIN lat /\ c # s
    BY <1>6, <2>2
  <2>4. <<c, s>> \in Seq(DOMAIN lat) /\ Len(<<c, s>>) = 2 /\ DOMAIN <<c, s>> = 1..2
    BY <2>3
  <2>5. IsInjective(<<c, s>>)
    BY <2>3 DEF IsInjective
  <2>6. lead = <<c, s>>
    BY <2>1, <2>2
  <2>7. /\ lead \o rest \in Seq(DOMAIN lat) /\ IsInjective(lead \o rest)
        /\ Len(lead \o rest) >= 2
        /\ \A i \in 1..2 : (lead \o rest)[i] = <<c, s>>[i]
    BY <1>5, <2>4, <2>5, <2>6
  <2>8. (lead \o rest)[1] = c /\ (lead \o rest)[2] = s
    BY <2>7
  <2> QED BY <1>3, <1>6, <2>2, <2>7, <2>8
<1>7. CASE ~(st.candidate # None /\ st.streak >= Confirmations) /\ st.selected \in DOMAIN lat
  <2>1. lead = <<st.selected>>
    BY <1>1, <1>7 DEF Lead
  <2>2. PICK s : s = st.selected
    OBVIOUS
  <2>3. <<s>> \in Seq(DOMAIN lat) /\ Len(<<s>>) = 1 /\ DOMAIN <<s>> = 1..1
    BY <1>7, <2>2
  <2>4. IsInjective(<<s>>)
    <3>1. \A a, b \in 1..1 : a = b
      OBVIOUS
    <3>2. PICK l : l = <<s>>
      OBVIOUS
    <3>3. DOMAIN l = 1..1
      BY <3>2, <2>3
    <3>4. IsInjective(l)
      BY <3>1, <3>3 DEF IsInjective
    <3> QED BY <3>2, <3>4, Zenon
  <2>5. lead = <<s>>
    BY <2>1, <2>2
  <2>6. PICK l : l = <<s>> /\ l \in Seq(DOMAIN lat) /\ IsInjective(l) /\ Len(l) = 1 /\ l[1] = s
    <3>1. <<s>>[1] = s
      OBVIOUS
    <3> QED BY <2>3, <2>4, <3>1, Zenon
  <2>7. /\ lead \o rest \in Seq(DOMAIN lat) /\ IsInjective(lead \o rest)
        /\ \A i \in 1..Len(l) : (lead \o rest)[i] = l[i]
    <3>1. l = lead /\ l \in Seq(DOMAIN lat) /\ IsInjective(l)
      BY <2>5, <2>6, Zenon
    <3> QED BY <1>5, <3>1, Zenon
  <2>8. (lead \o rest)[1] = s
    <3>1. 1 \in 1..1
      OBVIOUS
    <3>2. 1 \in 1..Len(l)
      BY <2>6, <3>1, Zenon
    <3> QED BY <2>6, <2>7, <3>2, Zenon
  <2> QED BY <1>3, <2>2, <2>7, <2>8
<1>8. CASE ~(st.candidate # None /\ st.streak >= Confirmations) /\ st.selected \notin DOMAIN lat
  <2>1. lead = <<>>
    BY <1>1, <1>8 DEF Lead
  <2>2. <<>> \in Seq(DOMAIN lat) /\ IsInjective(<<>>)
    BY DEF IsInjective
  <2>3. lead \o rest \in Seq(DOMAIN lat) /\ IsInjective(lead \o rest)
    BY <1>5, <2>1, <2>2
  <2> QED BY <1>3, <1>8, <2>3
<1> QED BY <1>6, <1>7, <1>8

-----------------------------------------------------------------------------
(* The invariant                                                           *)

Cycles ==
    [pc : {"down", "wait", "done", "try", "serve"}, order : Seq(Endpoints),
     tip : UNION {[S -> Nat] : S \in SUBSET Endpoints}, height : Nat,
     active : Endpoints \cup {None}, activated : SUBSET Endpoints,
     excluded : SUBSET Endpoints, fallback : BOOLEAN]

Comparisons ==
    [pair : (Endpoints \cup {None}) \X (Endpoints \cup {None}), times : 0..Confirmations]

SelectionTyped ==
    /\ state \in Selection
    /\ persisted \in Endpoints \cup {None}
    /\ cycle \in Cycles
    /\ IsInjective(cycle.order)
    /\ cycle.activated \cup cycle.excluded \subseteq Range(cycle.order)
    /\ Range(cycle.order) \subseteq DOMAIN cycle.tip
    /\ steady \in [Endpoints -> Latencies] \cup {None}
    /\ compared \in Comparisons
    /\ faults \in 0..MaxFaults

Running == cycle.pc \in {"try", "serve"}

\* An activated endpoint that can still serve is the active one, and it is
\* the one persisted: the cycle never comes back to an endpoint it has left.
OneServer ==
    Running =>
       /\ cycle.active # None => cycle.active \in cycle.activated
       /\ \A a \in cycle.activated : Eligible(a) => a = cycle.active /\ persisted = a

ServerPersisted ==
    cycle.pc = "serve" =>
       cycle.active # None /\ persisted = cycle.active /\ cycle.height >= 1

\* A stopped process remembers no selection.
DownForgets == cycle.pc = "down" => state.selected = None

\* The streak counts comparisons that really took place.
StreakCompared ==
    state.candidate # None =>
       /\ compared.pair = <<state.selected, state.candidate>>
       /\ compared.times >= state.streak \/ compared.times = Confirmations

Earned(a, b) == compared.pair = <<a, b>> /\ compared.times = Confirmations

\* Until a height is served, the order of the cycle is about the endpoint that
\* is still selected: only one that earned it comes before.
FirstHeight ==
    Running /\ cycle.height <= 1 =>
       /\ cycle.pc = "try" => cycle.activated \subseteq cycle.excluded
       /\ cycle.pc = "serve" => cycle.activated \subseteq cycle.excluded \cup {cycle.active}
       /\ state.selected \in Range(cycle.order) =>
             \/ cycle.order[1] = state.selected
             \/ /\ Len(cycle.order) >= 2
                /\ cycle.order[2] = state.selected
                /\ Earned(state.selected, cycle.order[1])
       /\ cycle.pc = "serve" /\ state.selected # cycle.active /\ Eligible(state.selected) =>
             Earned(state.selected, cycle.active)

\* Afterwards the selected endpoint is the one in use, while it can serve.
LaterHeights ==
    Running /\ cycle.height >= 2 =>
       state.selected = cycle.active \/ ~Eligible(state.selected)

\* All of it is needed: the property itself is about a finished cycle and says
\* nothing of the steps that lead there.
SelectionInv ==
    /\ SelectionTyped /\ OneServer /\ ServerPersisted /\ DownForgets
    /\ StreakCompared /\ FirstHeight /\ LaterHeights
    /\ RestartKeepsSelection

-----------------------------------------------------------------------------
(* Steps                                                                   *)

\* The tips of a cycle are numbers.
LEMMA TipTyped ==
    ASSUME NEW c \in Cycles, NEW e \in DOMAIN c.tip
    PROVE  c.tip[e] \in Nat
<1>1. c.tip \in UNION {[S -> Nat] : S \in SUBSET Endpoints}
  BY DEF Cycles
<1>2. PICK S \in SUBSET Endpoints : c.tip \in [S -> Nat]
  BY <1>1
<1> QED BY <1>2

\* Only endpoints are eligible.
LEMMA ElementsListed ==
    ASSUME cycle \in Cycles, NEW e \in Range(cycle.order)
    PROVE  e \in Endpoints
<1>1. cycle.order \in Seq(Endpoints)
  BY DEF Cycles
<1>2. PICK i \in DOMAIN cycle.order : cycle.order[i] = e
  BY DEF Range
<1> QED BY <1>1, <1>2

\* Within a cycle heights grow and endpoints are only excluded, so that an
\* endpoint that cannot serve never can again.
LEMMA EligibleShrinks ==
    ASSUME cycle \in Cycles, cycle' \in Cycles,
           cycle'.order = cycle.order, cycle'.tip = cycle.tip,
           cycle.excluded \subseteq cycle'.excluded, cycle.height <= cycle'.height,
           Range(cycle.order) \subseteq DOMAIN cycle.tip,
           NEW e, Eligible(e)'
    PROVE  Eligible(e)
<1>1. /\ e \in Range(cycle.order) \ cycle'.excluded
      /\ cycle.tip[e] >= cycle'.height
  BY DEF Eligible
<1>2. cycle.tip[e] \in Nat /\ cycle.height \in Nat /\ cycle'.height \in Nat
  BY <1>1, TipTyped DEF Cycles
<1>3. cycle.tip[e] >= cycle.height
  BY <1>1, <1>2
<1> QED BY <1>1, <1>3 DEF Eligible

\* A cycle that has ended, or none.
LEMMA NoCycleTyped ==
    ASSUME NEW pc \in {"down", "wait", "done"}
    PROVE  /\ NoCycle(pc) \in Cycles
           /\ NoCycle(pc).pc = pc
           /\ IsInjective(NoCycle(pc).order)
           /\ NoCycle(pc).activated \cup NoCycle(pc).excluded \subseteq Range(NoCycle(pc).order)
           /\ Range(NoCycle(pc).order) \subseteq DOMAIN NoCycle(pc).tip
<1>1. <<>> \in Seq(Endpoints) /\ IsInjective(<<>>) /\ Range(<<>>) = {}
  BY DEF IsInjective, Range
<1>2. <<>> \in UNION {[S -> Nat] : S \in SUBSET Endpoints}
  <2>1. <<>> \in [{} -> Nat]
    OBVIOUS
  <2>2. {} \in SUBSET Endpoints
    OBVIOUS
  <2> QED BY <2>1, <2>2
<1>3. /\ NoCycle(pc).pc = pc /\ NoCycle(pc).order = <<>> /\ NoCycle(pc).tip = <<>>
      /\ NoCycle(pc).activated = {} /\ NoCycle(pc).excluded = {}
  BY DEF NoCycle
<1>4. NoCycle(pc) \in Cycles
  BY <1>1, <1>2 DEF NoCycle, Cycles
<1> QED BY <1>1, <1>3, <1>4

\* record_selection_success adopts the endpoint; an endpoint that was selected
\* already keeps its streak, unless there was a fallback.
LEMMA RecordedAdopts ==
    ASSUME NEW st \in Selection, NEW e \in Endpoints, NEW f \in BOOLEAN
    PROVE  /\ Recorded(st, e, f) \in Selection
           /\ Recorded(st, e, f).selected = e
           /\ Recorded(st, e, f) = st \/ Recorded(st, e, f).candidate = None
  BY DEF Recorded, NoStreak, Selection

\* A streak that ends, and one that goes on over a change of other variables.
LEMMA StreakKept ==
    ASSUME StreakCompared, compared' = compared,
           state' = state \/ state'.candidate = None
    PROVE  StreakCompared'
  BY DEF StreakCompared

\* The end of a cycle, or of the process.
LEMMA CycleEnds ==
    ASSUME SelectionInv, NEW pc \in {"down", "wait", "done"}, cycle' = NoCycle(pc),
           state' \in Selection, persisted' \in Endpoints \cup {None},
           steady' = steady, compared' \in Comparisons, faults' \in 0..MaxFaults,
           StreakCompared',
           pc = "down" => state'.selected = None,
           pc = "done" => persisted' # None /\ persisted' = state'.selected
    PROVE  SelectionInv'
<1>1. SelectionTyped'
  BY NoCycleTyped DEF SelectionInv, SelectionTyped
<1>2. cycle'.pc = pc
  BY NoCycleTyped
<1>3. ~Running'
  BY <1>2 DEF Running
<1>4. OneServer' /\ FirstHeight' /\ LaterHeights'
  BY <1>3 DEF OneServer, FirstHeight, LaterHeights
<1>5. ServerPersisted' /\ DownForgets' /\ RestartKeepsSelection'
  BY <1>2 DEF ServerPersisted, DownForgets, RestartKeepsSelection
<1> QED BY <1>1, <1>4, <1>5 DEF SelectionInv

\* Starting takes the persisted endpoint.
LEMMA StartInv == SelectionInv /\ Start => SelectionInv'
<1> SUFFICES ASSUME SelectionInv, Start PROVE SelectionInv'
  OBVIOUS
<1>1. /\ state' = Loaded(persisted) /\ cycle' = NoCycle("wait") /\ compared' = NotCompared
      /\ persisted' = persisted /\ steady' = steady /\ faults' = faults
  BY DEF Start
<1>2. /\ persisted \in Endpoints \cup {None} /\ faults \in 0..MaxFaults
  BY DEF SelectionInv, SelectionTyped
<1>3. state' \in Selection /\ state'.candidate = None
  BY <1>1, <1>2 DEF Loaded, Selection
<1>4. compared' \in Comparisons
  BY <1>1, SelectionAssumption DEF NotCompared, Comparisons
<1>5. StreakCompared'
  BY <1>3 DEF StreakCompared
<1> QED BY <1>1, <1>2, <1>3, <1>4, <1>5, CycleEnds

\* Ending without success changes nothing that is kept.
LEMMA LeaveInv == SelectionInv /\ (AllFailed \/ DatabaseFailure) => SelectionInv'
<1> SUFFICES ASSUME SelectionInv, AllFailed \/ DatabaseFailure PROVE SelectionInv'
  OBVIOUS
<1>1. /\ state \in Selection /\ persisted \in Endpoints \cup {None} /\ compared \in Comparisons
      /\ faults \in 0..MaxFaults /\ StreakCompared
  BY DEF SelectionInv, SelectionTyped
<1>2. /\ cycle' = NoCycle("wait") /\ state' = state /\ persisted' = persisted
      /\ steady' = steady /\ compared' = compared
  BY DEF AllFailed, DatabaseFailure
<1>3. faults' \in 0..MaxFaults
  BY <1>1, SelectionAssumption DEF AllFailed, DatabaseFailure
<1>4. StreakCompared'
  BY <1>1, <1>2, StreakKept
<1> QED BY <1>1, <1>2, <1>3, <1>4, CycleEnds

\* A stopped process keeps only the row.
LEMMA StopInv == SelectionInv /\ Stop => SelectionInv'
<1> SUFFICES ASSUME SelectionInv, Stop PROVE SelectionInv'
  OBVIOUS
<1>1. persisted \in Endpoints \cup {None} /\ faults \in 0..MaxFaults
  BY DEF SelectionInv, SelectionTyped
<1>2. /\ cycle' = NoCycle("down") /\ state' = Loaded(None) /\ compared' = NotCompared
      /\ persisted' = persisted /\ steady' = steady
  BY DEF Stop
<1>3. faults' \in 0..MaxFaults
  BY <1>1, SelectionAssumption DEF Stop
<1>4. state' \in Selection /\ state'.candidate = None /\ state'.selected = None
  BY <1>2 DEF Loaded, Selection
<1>5. compared' \in Comparisons
  BY <1>2, SelectionAssumption DEF NotCompared, Comparisons
<1>6. StreakCompared'
  BY <1>4 DEF StreakCompared
<1> QED BY <1>1, <1>2, <1>3, <1>4, <1>5, <1>6, CycleEnds

\* Steady conditions are not the process's own.
LEMMA SettleInv ==
    ASSUME SelectionInv, NEW lat \in [Endpoints -> Latencies], Settle(lat)
    PROVE  SelectionInv'
<1>1. /\ steady' = lat /\ UNCHANGED <<state, persisted, cycle, compared, faults>>
  BY DEF Settle
<1> QED BY <1>1 DEF SelectionInv, SelectionTyped, OneServer, ServerPersisted, DownForgets,
      StreakCompared, FirstHeight, LaterHeights, RestartKeepsSelection, Running, Eligible, Earned

\* Before a height is served, the turn is the selected endpoint's, if it can
\* serve, or that of the one that earned its place before it.
LEMMA FirstTurn ==
    ASSUME SelectionInv, cycle.pc = "try", cycle.height <= 1, NEW e, IsTurn(e),
           Eligible(state.selected), e # state.selected
    PROVE  Earned(state.selected, e)
<1>1. Running /\ OneServer /\ FirstHeight /\ SelectionTyped
  BY DEF Running, SelectionInv
<1>2. state.selected \in Range(cycle.order)
  BY DEF Eligible
<1>3. cycle.activated \subseteq cycle.excluded
  BY <1>1 DEF FirstHeight
<1>4. ~(cycle.active # None /\ Eligible(cycle.active))
  BY <1>1, <1>3 DEF OneServer, Eligible
<1>5. \A i, j \in DOMAIN cycle.order :
         cycle.order[i] = e /\ Eligible(cycle.order[j]) => i <= j
  BY <1>4 DEF IsTurn
<1>6. cycle.order \in Seq(Endpoints)
  BY <1>1 DEF SelectionTyped, Cycles
<1>7. DOMAIN cycle.order = 1..Len(cycle.order) /\ Len(cycle.order) \in Nat
  BY <1>6, LenProperties
<1>8. PICK i \in DOMAIN cycle.order : cycle.order[i] = e
  BY DEF IsTurn, Eligible, Range
<1>9. CASE cycle.order[1] = state.selected
  <2>1. 1 \in DOMAIN cycle.order
    BY <1>7, <1>8
  <2>2. i <= 1
    BY <1>5, <1>8, <1>9, <2>1
  <2>3. i = 1
    BY <1>7, <1>8, <2>2
  <2> QED BY <1>8, <1>9, <2>3
<1>10. CASE /\ Len(cycle.order) >= 2 /\ cycle.order[2] = state.selected
            /\ Earned(state.selected, cycle.order[1])
  <2>1. 2 \in DOMAIN cycle.order
    BY <1>7, <1>10
  <2>2. i <= 2
    BY <1>5, <1>8, <1>10, <2>1
  <2>3. i = 1
    BY <1>7, <1>8, <1>10, <2>2
  <2> QED BY <1>8, <1>10, <2>3
<1> QED BY <1>1, <1>2, <1>9, <1>10 DEF FirstHeight

\* An endpoint takes over, newly activated or again: the steps from "try" to
\* "serve".
LEMMA TakesOver ==
    ASSUME SelectionInv, cycle.pc = "try", cycle.height # 0, NEW e \in Endpoints, IsTurn(e),
           e \in cycle.activated \/ persisted' = e,
           e \in cycle.activated => persisted' = persisted,
           cycle' = [cycle EXCEPT !.pc = "serve", !.active = e, !.activated = @ \cup {e}],
           UNCHANGED <<state, steady, compared, faults>>
    PROVE  SelectionInv'
<1>1. /\ Running /\ OneServer /\ FirstHeight /\ SelectionTyped /\ LaterHeights /\ StreakCompared
  BY DEF Running, SelectionInv
<1>2. cycle \in Cycles
  BY <1>1 DEF SelectionTyped
<1>3. /\ cycle'.pc = "serve" /\ cycle'.active = e /\ cycle'.activated = cycle.activated \cup {e}
      /\ cycle'.order = cycle.order /\ cycle'.tip = cycle.tip /\ cycle'.height = cycle.height
      /\ cycle'.excluded = cycle.excluded /\ cycle' \in Cycles
  BY <1>2 DEF Cycles
<1>4. \A d : Eligible(d)' <=> Eligible(d)
  BY <1>3 DEF Eligible
<1>5. Eligible(e)
  BY DEF IsTurn
<1>6. persisted' = e
  BY <1>1, <1>5 DEF OneServer
<1>7. SelectionTyped'
  <2>1. e \in Range(cycle.order)
    BY <1>5 DEF Eligible
  <2>2. cycle'.activated \cup cycle'.excluded \subseteq Range(cycle'.order)
    BY <1>1, <1>3, <2>1 DEF SelectionTyped
  <2> QED BY <1>1, <1>3, <1>6, <2>2 DEF SelectionTyped
<1>8. ASSUME NEW a \in cycle.activated, Eligible(a) PROVE a = e
  <2>1. a = cycle.active
    BY <1>1, <1>8 DEF OneServer
  <2>2. cycle.active # None
    BY <1>2, <2>1, SelectionAssumption DEF Cycles
  <2> QED BY <1>8, <2>1, <2>2 DEF IsTurn
<1>9. OneServer'
  BY <1>3, <1>4, <1>6, <1>8 DEF OneServer
<1>10. ServerPersisted'
  BY <1>2, <1>3, <1>6, SelectionAssumption DEF ServerPersisted, Cycles
<1>11. FirstHeight'
  <2> SUFFICES ASSUME cycle.height <= 1 PROVE FirstHeight'
    BY <1>3 DEF FirstHeight
  <2>1. cycle.activated \subseteq cycle.excluded
    BY <1>1 DEF FirstHeight
  <2>2. cycle'.activated \subseteq cycle'.excluded \cup {cycle'.active}
    BY <1>3, <2>1
  <2>3. state.selected # e /\ Eligible(state.selected) => Earned(state.selected, e)
    BY FirstTurn
  <2> QED BY <1>1, <1>3, <1>4, <2>2, <2>3 DEF FirstHeight, Earned
<1>12. LaterHeights'
  <2> SUFFICES ASSUME cycle.height >= 2, Eligible(state.selected) PROVE state.selected = e
    BY <1>3, <1>4 DEF LaterHeights
  <2>1. state.selected = cycle.active
    BY <1>1 DEF LaterHeights
  <2>2. cycle.active # None
    <3>1. state.selected \in Endpoints
      BY <1>2, ElementsListed, <2>1 DEF Eligible
    <3> QED BY <2>1, <3>1, SelectionAssumption
  <2> QED BY <2>1, <2>2 DEF IsTurn
<1>13. StreakCompared'
  BY <1>1 DEF StreakCompared
<1>14. DownForgets' /\ RestartKeepsSelection'
  BY <1>3 DEF DownForgets, RestartKeepsSelection
<1> QED BY <1>7, <1>9, <1>10, <1>11, <1>12, <1>13, <1>14 DEF SelectionInv

\* _activate_candidate.
LEMMA ActivateInv ==
    ASSUME SelectionInv, NEW e \in Endpoints, Activate(e)
    PROVE  SelectionInv'
<1>1. /\ cycle.pc = "try" /\ IsTurn(e) /\ e \notin cycle.activated /\ persisted' = e
      /\ steady' = steady /\ compared' = compared /\ faults' = faults
  BY DEF Activate
<1>2. /\ cycle \in Cycles /\ state \in Selection /\ compared \in Comparisons
      /\ faults \in 0..MaxFaults /\ StreakCompared
  BY DEF SelectionInv, SelectionTyped
<1>3. CASE cycle.height = 0
  <2>1. state' = Recorded(state, e, cycle.fallback) /\ cycle' = NoCycle("done")
    BY <1>3 DEF Activate
  <2>2. cycle.fallback \in BOOLEAN
    BY <1>2 DEF Cycles
  <2>3. /\ state' \in Selection /\ state'.selected = e
        /\ state' = state \/ state'.candidate = None
    BY <1>2, <2>1, <2>2, RecordedAdopts
  <2>4. StreakCompared'
    BY <1>1, <1>2, <2>3, StreakKept
  <2> QED BY <1>1, <1>2, <2>1, <2>3, <2>4, CycleEnds, SelectionAssumption
<1>4. CASE cycle.height # 0
  <2>1. /\ cycle' = [cycle EXCEPT !.pc = "serve", !.active = e, !.activated = @ \cup {e}]
        /\ state' = state
    BY <1>4 DEF Activate
  <2> QED BY <1>1, <1>4, <2>1, TakesOver
<1> QED BY <1>3, <1>4

\* The endpoint in use goes on.
LEMMA ReuseInv ==
    ASSUME SelectionInv, NEW e \in Endpoints, Reuse(e)
    PROVE  SelectionInv'
<1>1. /\ cycle.pc = "try" /\ IsTurn(e) /\ e \in cycle.activated
      /\ cycle' = [cycle EXCEPT !.pc = "serve", !.active = e]
      /\ UNCHANGED <<state, persisted, steady, compared, faults>>
  BY DEF Reuse
<1>2. cycle \in Cycles /\ cycle.height \in Nat /\ FirstHeight
  BY DEF SelectionInv, SelectionTyped, Cycles
<1>3. cycle.height # 0
  <2> SUFFICES ASSUME cycle.height = 0 PROVE FALSE
    OBVIOUS
  <2>1. cycle.activated \subseteq cycle.excluded
    BY <1>1, <1>2 DEF FirstHeight, Running
  <2> QED BY <1>1, <2>1 DEF IsTurn, Eligible
<1>4. cycle.activated \cup {e} = cycle.activated
  BY <1>1
<1>5. cycle' = [cycle EXCEPT !.pc = "serve", !.active = e, !.activated = @ \cup {e}]
  BY <1>1, <1>2, <1>4 DEF Cycles
<1> QED BY <1>1, <1>3, <1>5, TakesOver

\* A height is served: the endpoint is adopted, and the cycle goes on or ends.
LEMMA ServeInv == SelectionInv /\ Serve => SelectionInv'
<1> SUFFICES ASSUME SelectionInv, Serve PROVE SelectionInv'
  OBVIOUS
<1>1. /\ cycle.pc = "serve" /\ state' = Recorded(state, cycle.active, cycle.fallback)
      /\ persisted' = persisted /\ steady' = steady /\ compared' = compared /\ faults' = faults
  BY DEF Serve
<1>2. /\ cycle \in Cycles /\ state \in Selection /\ compared \in Comparisons
      /\ faults \in 0..MaxFaults /\ StreakCompared /\ SelectionTyped /\ OneServer
      /\ cycle.active # None /\ persisted = cycle.active /\ cycle.height >= 1
  BY <1>1 DEF SelectionInv, SelectionTyped, ServerPersisted
<1>3. cycle.active \in Endpoints /\ cycle.fallback \in BOOLEAN
  BY <1>2 DEF Cycles
<1>4. /\ state' \in Selection /\ state'.selected = cycle.active
      /\ state' = state \/ state'.candidate = None
  BY <1>1, <1>2, <1>3, RecordedAdopts
<1>5. StreakCompared'
  BY <1>1, <1>2, <1>4, StreakKept
<1>6. CASE cycle' = NoCycle("done")
  BY <1>1, <1>2, <1>3, <1>4, <1>5, <1>6, CycleEnds, SelectionAssumption
<1>7. CASE cycle' = [cycle EXCEPT !.pc = "try", !.height = @ + 1, !.fallback = FALSE]
  <2>1. /\ cycle'.pc = "try" /\ cycle'.active = cycle.active /\ cycle'.activated = cycle.activated
        /\ cycle'.order = cycle.order /\ cycle'.tip = cycle.tip
        /\ cycle'.height = cycle.height + 1
        /\ cycle'.excluded = cycle.excluded /\ cycle' \in Cycles
    <3>1. cycle \in Cycles
      BY <1>2
    <3>2. cycle.height + 1 \in Nat
      BY <3>1 DEF Cycles
    <3>3. PICK h \in Nat : h = cycle.height + 1
      BY <3>2
    <3>4. cycle' = [cycle EXCEPT !.pc = "try", !.height = h, !.fallback = FALSE]
      BY <1>7, <3>3
    <3> QED BY <3>1, <3>3, <3>4 DEF Cycles
  <2>2. cycle.height \in Nat
    BY <1>2 DEF Cycles
  <2>3. ASSUME NEW d, Eligible(d)' PROVE Eligible(d)
    BY <1>2, <2>1, <2>2, <2>3, EligibleShrinks DEF SelectionTyped
  <2>4. SelectionTyped'
    BY <1>1, <1>2, <1>4, <2>1 DEF SelectionTyped
  <2>5. OneServer'
    BY <1>1, <1>2, <2>1, <2>3 DEF OneServer, Running
  <2>6. ServerPersisted' /\ DownForgets' /\ RestartKeepsSelection'
    BY <2>1 DEF ServerPersisted, DownForgets, RestartKeepsSelection
  <2>7. FirstHeight'
    BY <1>2, <2>1, <2>2 DEF FirstHeight
  <2>8. LaterHeights'
    BY <1>4, <2>1 DEF LaterHeights
  <2> QED BY <1>5, <2>4, <2>5, <2>6, <2>7, <2>8 DEF SelectionInv
<1> QED BY <1>6, <1>7 DEF Serve

\* reject: the endpoint is excluded, and no longer persisted if it was.
LEMMA FailInv ==
    ASSUME SelectionInv, NEW e \in Endpoints, Fail(e)
    PROVE  SelectionInv'
<1>1. /\ state' = NoStreak(state)
      /\ persisted' = IF persisted = e THEN None ELSE persisted
      /\ cycle' = [cycle EXCEPT !.pc = "try", !.excluded = @ \cup {e}, !.fallback = TRUE]
      /\ steady' = steady /\ compared' = compared /\ faults' = faults
  BY DEF Fail, Reject
<1>2. /\ cycle \in Cycles /\ state \in Selection /\ SelectionTyped /\ OneServer /\ FirstHeight
      /\ LaterHeights /\ ServerPersisted
  BY DEF SelectionInv, SelectionTyped
<1>3. state' \in Selection /\ state'.selected = state.selected /\ state'.candidate = None
  BY <1>1, <1>2 DEF NoStreak, Selection
<1>4. /\ cycle'.pc = "try" /\ cycle'.active = cycle.active /\ cycle'.activated = cycle.activated
      /\ cycle'.order = cycle.order /\ cycle'.tip = cycle.tip /\ cycle'.height = cycle.height
      /\ cycle'.excluded = cycle.excluded \cup {e} /\ cycle' \in Cycles
  BY <1>1, <1>2 DEF Cycles
<1>5. Running /\ cycle.height \in Nat
  BY <1>2 DEF Fail, Running, Cycles
<1>6. ASSUME NEW d, Eligible(d)' PROVE Eligible(d) /\ d # e
  <2>1. Eligible(d)
    BY <1>2, <1>4, <1>5, <1>6, EligibleShrinks DEF SelectionTyped
  <2>2. d # e
    BY <1>4, <1>6 DEF Eligible
  <2> QED BY <2>1, <2>2
<1>7. ASSUME NEW a \in cycle.activated, Eligible(a)' PROVE FALSE
  <2>1. Eligible(a) /\ a # e /\ a = cycle.active
    BY <1>2, <1>5, <1>6, <1>7 DEF OneServer
  <2>2. a # None
    BY <1>2, SelectionAssumption DEF Cycles
  <2>3. CASE cycle.pc = "serve" /\ e = cycle.active
    BY <2>1, <2>3
  <2>4. CASE cycle.pc = "try" /\ IsTurn(e) /\ e \notin cycle.activated
    BY <2>1, <2>2, <2>4 DEF IsTurn
  <2> QED BY <2>3, <2>4 DEF Fail
<1>8. SelectionTyped'
  <2>1. e \in Range(cycle.order)
    <3>1. CASE cycle.pc = "serve" /\ e = cycle.active
      <4>1. e \in cycle.activated
        BY <1>2, <1>5, <3>1 DEF OneServer, ServerPersisted
      <4> QED BY <1>2, <4>1 DEF SelectionTyped
    <3>2. CASE cycle.pc = "try" /\ IsTurn(e) /\ e \notin cycle.activated
      BY <3>2 DEF IsTurn, Eligible
    <3> QED BY <3>1, <3>2 DEF Fail
  <2>2. persisted' \in Endpoints \cup {None}
    BY <1>1, <1>2 DEF SelectionTyped
  <2> QED BY <1>1, <1>2, <1>3, <1>4, <2>1, <2>2 DEF SelectionTyped
<1>9. OneServer'
  BY <1>2, <1>4, <1>5, <1>7 DEF OneServer
<1>10. ServerPersisted' /\ DownForgets' /\ RestartKeepsSelection'
  BY <1>4 DEF ServerPersisted, DownForgets, RestartKeepsSelection
<1>11. StreakCompared'
  BY <1>3 DEF StreakCompared
<1>12. FirstHeight'
  <2> SUFFICES ASSUME cycle.height <= 1 PROVE FirstHeight'
    BY <1>4 DEF FirstHeight
  <2>1. cycle.activated \subseteq cycle.excluded \cup {e}
    <3>1. CASE cycle.pc = "serve" /\ e = cycle.active
      BY <1>2, <1>5, <3>1 DEF FirstHeight
    <3>2. CASE cycle.pc = "try"
      BY <1>2, <1>5, <3>2 DEF FirstHeight
    <3> QED BY <3>1, <3>2 DEF Fail
  <2> QED BY <1>1, <1>2, <1>3, <1>4, <1>5, <2>1 DEF FirstHeight, Earned
<1>13. LaterHeights'
  BY <1>2, <1>3, <1>4, <1>5, <1>6 DEF LaterHeights
<1> QED BY <1>8, <1>9, <1>10, <1>11, <1>12, <1>13 DEF SelectionInv

\* A new cycle: one more comparison, and the order that follows from it.
LEMMA ProbeInv ==
    ASSUME SelectionInv, NEW lat, Measured(lat, DOMAIN lat), NEW tip \in [DOMAIN lat -> Nat],
           Probe(lat, tip)
    PROVE  SelectionInv'
<1>1. PICK c, st :
         /\ c = Challenger(state.selected, lat) /\ st = Counted(state, c)
         /\ state' = st
         /\ cycle' = [NoCycle("try") EXCEPT
                        !.order = Ordered(st, lat), !.tip = tip,
                        !.height = IF \E e \in DOMAIN tip : tip[e] > 0 THEN 1 ELSE 0]
         /\ compared' = [pair |-> <<state.selected, c>>,
                         times |-> IF compared.pair # <<state.selected, c>> THEN 1
                                   ELSE IF compared.times = Confirmations
                                        THEN Confirmations
                                        ELSE compared.times + 1]
         /\ persisted' = persisted /\ steady' = steady /\ faults' = faults
  BY DEF Probe
<1>2. /\ state \in Selection /\ compared \in Comparisons /\ StreakCompared /\ SelectionTyped
  BY DEF SelectionInv, SelectionTyped
<1>3. /\ DOMAIN lat \subseteq Endpoints /\ None \notin DOMAIN lat
      /\ c # None => state.selected \in DOMAIN lat /\ c \in DOMAIN lat \ {state.selected}
  BY <1>1, ChallengerUsable, SelectionAssumption DEF Measured
<1>4. /\ st \in Selection /\ st.selected = state.selected /\ st.candidate = c
      /\ c # None => st.streak = IF state.candidate = c THEN state.streak + 1 ELSE 1
  <2>1. c \in Endpoints \cup {None}
    BY <1>3
  <2>2. state \in Selection /\ st = Counted(state, c)
    BY <1>1, <1>2
  <2>3. CASE c = None
    BY <2>2, <2>3 DEF Counted, NoStreak, Selection
  <2>4. CASE c # None
    <3>1. PICK k : k = IF state.candidate = c THEN state.streak + 1 ELSE 1
      OBVIOUS
    <3>2. k \in Nat
      BY <2>2, <3>1 DEF Selection
    <3>3. st = [state EXCEPT !.candidate = c, !.streak = k]
      BY <2>2, <2>4, <3>1 DEF Counted
    <3> QED BY <2>1, <2>2, <2>4, <3>1, <3>2, <3>3 DEF Selection
  <2> QED BY <2>3, <2>4
<1>5. compared' \in Comparisons
  <2>1. /\ c \in Endpoints \cup {None} /\ state.selected \in Endpoints \cup {None}
        /\ compared.times \in 0..Confirmations /\ Confirmations \in Nat \ {0}
    BY <1>2, <1>3, SelectionAssumption DEF Selection, Comparisons
  <2>2. compared'.times \in 0..Confirmations
    BY <1>1, <2>1
  <2>3. <<state.selected, c>> \in (Endpoints \cup {None}) \X (Endpoints \cup {None})
    BY <2>1
  <2> QED BY <1>1, <2>2, <2>3 DEF Comparisons
<1>6. StreakCompared'
  <2> SUFFICES ASSUME c # None PROVE StreakCompared'
    BY <1>1, <1>4 DEF StreakCompared
  <2>1. compared'.pair = <<st.selected, st.candidate>>
    BY <1>1, <1>4
  <2>2. /\ compared.times \in 0..Confirmations /\ Confirmations \in Nat \ {0}
        /\ state.streak \in Nat
    BY <1>2, SelectionAssumption DEF Selection, Comparisons
  <2>3. compared'.times >= st.streak \/ compared'.times = Confirmations
    <3>1. CASE state.candidate = c
      <4>1. /\ compared.pair = <<state.selected, c>>
            /\ compared.times >= state.streak \/ compared.times = Confirmations
        BY <1>2, <3>1 DEF StreakCompared
      <4>2. compared'.times = IF compared.times = Confirmations
                              THEN Confirmations ELSE compared.times + 1
        BY <1>1, <4>1
      <4> QED BY <1>4, <2>2, <3>1, <4>1, <4>2
    <3>2. CASE state.candidate # c
      <4>1. st.streak = 1
        BY <1>4, <3>2
      <4>2. compared'.times >= 1
        BY <1>1, <2>2
      <4> QED BY <4>1, <4>2
    <3> QED BY <3>1, <3>2
  <2> QED BY <1>1, <2>1, <2>3 DEF StreakCompared
<1>7. PICK o : /\ o = Ordered(st, lat) /\ o \in Seq(DOMAIN lat) /\ IsInjective(o)
               /\ st.selected \in DOMAIN lat =>
                     \/ o[1] = st.selected
                     \/ /\ Len(o) >= 2 /\ o[1] = st.candidate /\ o[2] = st.selected
                        /\ st.candidate # None /\ st.streak >= Confirmations
  BY <1>3, <1>4, OrderedLists
<1>8. o \in Seq(Endpoints) /\ Range(o) \subseteq DOMAIN lat
  BY <1>3, <1>7 DEF Range
<1>9. tip \in UNION {[S -> Nat] : S \in SUBSET Endpoints} /\ DOMAIN tip = DOMAIN lat
  <2>1. DOMAIN lat \in SUBSET Endpoints
    BY <1>3
  <2> QED BY <2>1
<1>10. /\ cycle'.pc = "try" /\ cycle'.order = o /\ cycle'.tip = tip /\ cycle'.active = None
       /\ cycle'.activated = {} /\ cycle'.excluded = {}
       /\ cycle'.height \in {0, 1} /\ cycle' \in Cycles
  BY <1>1, <1>7, <1>8, <1>9 DEF NoCycle, Cycles
<1>11. SelectionTyped'
  BY <1>1, <1>2, <1>4, <1>5, <1>7, <1>8, <1>9, <1>10 DEF SelectionTyped
<1>12. OneServer' /\ ServerPersisted' /\ DownForgets' /\ RestartKeepsSelection' /\ LaterHeights'
  BY <1>10 DEF OneServer, ServerPersisted, DownForgets, RestartKeepsSelection, LaterHeights
<1>13. FirstHeight'
  <2> SUFFICES ASSUME st.selected \in Range(o)
               PROVE  o[1] = st.selected
                      \/ (Len(o) >= 2 /\ o[2] = st.selected /\ Earned(st.selected, o[1])')
    BY <1>1, <1>10 DEF FirstHeight, Earned
  <2>1. st.selected \in DOMAIN lat
    BY <1>8
  <2> SUFFICES ASSUME /\ Len(o) >= 2 /\ o[1] = st.candidate /\ o[2] = st.selected
                      /\ st.candidate # None /\ st.streak >= Confirmations
               PROVE  Earned(st.selected, o[1])'
    BY <1>7, <2>1
  <2>2. /\ compared'.pair = <<st.selected, o[1]>>
        /\ compared'.times >= st.streak \/ compared'.times = Confirmations
    BY <1>1, <1>6 DEF StreakCompared
  <2>3. compared'.times \in 0..Confirmations /\ Confirmations \in Nat /\ st.streak \in Nat
    BY <1>4, <1>5, SelectionAssumption DEF Comparisons, Selection
  <2>4. compared'.times = Confirmations
    BY <2>2, <2>3
  <2> QED BY <2>2, <2>4 DEF Earned
<1> QED BY <1>6, <1>11, <1>12, <1>13 DEF SelectionInv

-----------------------------------------------------------------------------
(* The theorems                                                            *)

\* Nothing runs at first.
LEMMA InitInv == Init => SelectionInv
<1> SUFFICES ASSUME Init PROVE SelectionInv
  OBVIOUS
<1>1. /\ state = Loaded(None) /\ persisted = None /\ cycle = NoCycle("down") /\ steady = None
      /\ compared = NotCompared /\ faults = 0
  BY DEF Init
<1>2. state \in Selection /\ state.selected = None /\ state.candidate = None
  BY <1>1 DEF Loaded, Selection
<1>3. compared \in Comparisons /\ faults \in 0..MaxFaults
  BY <1>1, SelectionAssumption DEF NotCompared, Comparisons
<1>4. SelectionTyped /\ cycle.pc = "down"
  BY <1>1, <1>2, <1>3, NoCycleTyped DEF SelectionTyped
<1> QED BY <1>2, <1>4 DEF SelectionInv, OneServer, ServerPersisted, DownForgets, StreakCompared,
      FirstHeight, LaterHeights, RestartKeepsSelection, Running

\* Every round of probes measures usable endpoints.
LEMMA ProbeAnyInv == SelectionInv /\ ProbeAny => SelectionInv'
<1> SUFFICES ASSUME SelectionInv, ProbeAny PROVE SelectionInv'
  OBVIOUS
<1>1. Latencies \subseteq Nat /\ BatchSize \in Nat
  BY SelectionAssumption
<1>2. CASE steady = None
  <2>1. PICK lat \in Probes : \E tip \in Tips(DOMAIN lat) : Probe(lat, tip)
    BY <1>2 DEF ProbeAny
  <2>2. PICK tip \in Tips(DOMAIN lat) : Probe(lat, tip)
    BY <2>1
  <2>3. PICK S \in SUBSET Endpoints : lat \in [S -> Latencies]
    BY DEF Probes
  <2>4. Measured(lat, DOMAIN lat)
    BY <1>1, <2>3 DEF Measured
  <2>5. tip \in [DOMAIN lat -> Nat]
    BY <1>1 DEF Tips
  <2> QED BY <2>2, <2>4, <2>5, ProbeInv
<1>3. CASE steady # None
  <2>1. PICK tip \in LevelTips : Probe(steady, tip)
    BY <1>3 DEF ProbeAny
  <2>2. steady \in [Endpoints -> Latencies]
    BY <1>3 DEF SelectionInv, SelectionTyped
  <2>3. Measured(steady, DOMAIN steady)
    BY <1>1, <2>2 DEF Measured
  <2>4. tip \in [DOMAIN steady -> Nat]
    BY <1>1, <2>2 DEF LevelTips
  <2> QED BY <2>1, <2>3, <2>4, ProbeInv
<1> QED BY <1>2, <1>3

\* Every step keeps the invariant.
LEMMA NextInv == SelectionInv /\ [Next]_vars => SelectionInv'
<1> SUFFICES ASSUME SelectionInv, [Next]_vars PROVE SelectionInv'
  OBVIOUS
<1>1. CASE Step
  <2>1. CASE Start
    BY <2>1, StartInv
  <2>2. CASE ProbeAny
    BY <2>2, ProbeAnyInv
  <2>3. CASE \E e \in Endpoints : Activate(e) \/ Reuse(e)
    BY <2>3, ActivateInv, ReuseInv
  <2>4. CASE Serve
    BY <2>4, ServeInv
  <2>5. CASE AllFailed
    BY <2>5, LeaveInv
  <2> QED BY <1>1, <2>1, <2>2, <2>3, <2>4, <2>5 DEF Step
<1>2. CASE \E e \in Endpoints : Fail(e)
  BY <1>2, FailInv
<1>3. CASE DatabaseFailure
  BY <1>3, LeaveInv
<1>4. CASE Stop
  BY <1>4, StopInv
<1>5. CASE \E lat \in [Endpoints -> Latencies] : Settle(lat)
  BY <1>5, SettleInv
<1>6. CASE UNCHANGED vars
  BY <1>6 DEF vars, SelectionInv, SelectionTyped, OneServer, ServerPersisted, DownForgets,
      StreakCompared, FirstHeight, LaterHeights, RestartKeepsSelection, Running, Eligible, Earned
<1> QED BY <1>1, <1>2, <1>3, <1>4, <1>5, <1>6 DEF Next

\* The invariant of the selection.
LEMMA SelectionInvariant == Spec => []SelectionInv
  BY InitInv, NextInv, PTL DEF Spec

\* After a successful cycle the persisted endpoint is the selected one, for any
\* endpoints, latencies and thresholds, whatever failed on the way: a restart
\* goes on with the endpoint in use.
THEOREM RestartsKeepTheSelection == Spec => []RestartKeepsSelection
<1>1. SelectionInv => RestartKeepsSelection
  BY DEF SelectionInv
<1> QED BY <1>1, SelectionInvariant, PTL

\* The types of the state; the endpoints of a cycle are listed once.
THEOREM SelectionTypes == Spec => []TypeOK
<1>1. SelectionInv => TypeOK
  BY DEF SelectionInv, SelectionTyped, Cycles, TypeOK
<1> QED BY <1>1, SelectionInvariant, PTL

\* A step that leaves a working endpoint.
LEMMA SwitchStep == SelectionInv /\ [Next]_vars => [LeavesForBetter]_vars
<1> SUFFICES ASSUME SelectionInv, Next,
                    state.selected # None, state'.selected \notin {state.selected, None},
                    Eligible(state.selected)
             PROVE  compared = [pair |-> <<state.selected, state'.selected>>, times |-> Confirmations]
  BY DEF LeavesForBetter
<1>1. /\ SelectionTyped /\ state \in Selection /\ cycle \in Cycles /\ compared \in Comparisons
      /\ FirstHeight /\ LaterHeights /\ ServerPersisted /\ DownForgets
  BY DEF SelectionInv, SelectionTyped
<1>2. cycle.fallback \in BOOLEAN /\ cycle.height \in Nat
  BY <1>1 DEF Cycles
<1>3. ASSUME NEW b, Earned(state.selected, b)
      PROVE  compared = [pair |-> <<state.selected, b>>, times |-> Confirmations]
  BY <1>1, <1>3 DEF Earned, Comparisons
<1>4. CASE \E e \in Endpoints : Activate(e)
  <2>1. PICK e \in Endpoints : Activate(e)
    BY <1>4
  <2>2. cycle.pc = "try" /\ IsTurn(e) /\ cycle.height = 0 /\ state'.selected = e
    <3>1. cycle.height = 0
      BY <2>1 DEF Activate
    <3>2. state' = Recorded(state, e, cycle.fallback)
      BY <2>1, <3>1 DEF Activate
    <3> QED BY <1>1, <1>2, <2>1, <3>1, <3>2, RecordedAdopts DEF Activate
  <2>3. Earned(state.selected, e)
    BY <2>2, FirstTurn
  <2> QED BY <1>3, <2>2, <2>3
<1>5. CASE Serve
  <2>1. cycle.active \in Endpoints /\ cycle.pc = "serve"
    BY <1>1, <1>5 DEF Serve, ServerPersisted, Cycles
  <2>2. state'.selected = cycle.active
    BY <1>1, <1>2, <1>5, <2>1, RecordedAdopts DEF Serve
  <2>3. cycle.height <= 1
    BY <1>1, <1>2, <2>1, <2>2 DEF LaterHeights, Running
  <2>4. Earned(state.selected, cycle.active)
    BY <1>1, <2>1, <2>2, <2>3 DEF FirstHeight, Running
  <2> QED BY <1>3, <2>2, <2>4
<1>6. CASE Start
  BY <1>1, <1>6 DEF Start, DownForgets
<1>7. CASE ProbeAny
  <2>1. PICK c : state' = Counted(state, c)
    BY <1>7 DEF ProbeAny, Probe
  <2>2. state'.selected = state.selected
    BY <1>1, <2>1 DEF Counted, NoStreak, Selection
  <2> QED BY <2>2
<1>8. CASE \E e \in Endpoints : Fail(e)
  <2>1. state' = NoStreak(state)
    BY <1>8 DEF Fail, Reject
  <2> QED BY <1>1, <2>1 DEF NoStreak, Selection
<1>9. CASE Stop
  BY <1>9 DEF Stop, Loaded
<1>10. CASE \/ \E e \in Endpoints : Reuse(e)
            \/ AllFailed \/ DatabaseFailure
            \/ \E lat \in [Endpoints -> Latencies] : Settle(lat)
  <2>1. state' = state
    BY <1>10 DEF Reuse, AllFailed, DatabaseFailure, Settle
  <2> QED BY <2>1
<1> QED BY <1>4, <1>5, <1>6, <1>7, <1>8, <1>9, <1>10 DEF Next, Step

\* The process leaves an endpoint that could still serve only for one that was
\* its best and clearly faster alternative in each of the last Confirmations
\* comparisons, for any number of confirmations.
THEOREM SwitchesAreEarned == Spec => SwitchEarned
<1>1. SelectionInv /\ [Next]_vars => [LeavesForBetter]_vars
  BY SwitchStep
<1> QED BY <1>1, SelectionInvariant, PTL DEF Spec, SwitchEarned

=============================================================================

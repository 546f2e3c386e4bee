---------------------------- MODULE RolloutProofs ----------------------------
(***************************************************************************)
(* Theorems about ArkClusterController, continued: under OneAtATime at     *)
(* most one map is swapping, as long as no deadline is left behind.        *)
(***************************************************************************)
EXTENDS ArkClusterControllerProofs, WellFoundedInduction

-----------------------------------------------------------------------------
(* The list status.maps and its first map that is mid-update. *)

\* The order of the list is a strict total one of the maps in it; a map that is not in the list
\* is neither mid-update nor draining.
Order(st) ==
  /\ st.before \subseteq st.ids \X st.ids
  /\ \A m \in st.ids : <<m, m>> \notin st.before
  /\ \A m, n \in st.ids : m # n => <<m, n>> \in st.before \/ <<n, m>> \in st.before
  /\ \A k, m, n \in st.ids : <<k, m>> \in st.before /\ <<m, n>> \in st.before => <<k, n>> \in st.before
  /\ \A m \in Maps \ st.ids : st.maps[m].phase \notin MidFlightPhases /\ st.maps[m].deadline = NoDeadline

LEMMA LeastNumber ==
  ASSUME NEW S \in SUBSET Nat, S # {}
  PROVE  \E x \in S : \A y \in S : x <= y
<1> DEFINE Less == {ss \in Nat \X Nat : ss[1] < ss[2]}
<1>1. IsWellFoundedOn(Less, Nat)
  <2>1. OpToRel(<, Nat) = Less
    BY DEF OpToRel
  <2> QED
    BY <2>1, NatLessThanWellFounded
<1>2. \A x, y \in Nat : y < x => <<y, x>> \in Less
  OBVIOUS
<1> HIDE DEF Less
<1>3. \E x \in S : \A y \in S : ~(<<y, x>> \in Less)
  BY <1>1, WFMin
<1>4. \E x \in S : \A y \in S : ~(y < x)
  BY <1>2, <1>3, Zenon
<1> QED
  BY <1>4

\* A list that holds maps of some kind has a first one of that kind: the one with the fewest of
\* its kind before it.
LEMMA FirstExists ==
  ASSUME NEW st \in Status, Order(st), NEW S \in SUBSET st.ids, S # {}
  PROVE  \E m \in S : \A n \in S \ {m} : <<m, n>> \in st.before
<1> DEFINE Pred(m) == {n \in S : <<n, m>> \in st.before}
           Sizes == {Cardinality(Pred(m)) : m \in S}
<1>1. \A m \in S : IsFiniteSet(Pred(m)) /\ Cardinality(Pred(m)) \in Nat
  <2>1. S \subseteq Maps
    BY DEF Status
  <2>2. IsFiniteSet(S)
    BY <2>1, MapsAssumption, FS_Subset
  <2>3. \A m \in S : Pred(m) \in SUBSET S
    OBVIOUS
  <2> HIDE DEF Pred
  <2> QED
    BY <2>2, <2>3, FS_Subset, FS_CardinalityType
<1>2. PICK m \in S : \A n \in S : Cardinality(Pred(m)) <= Cardinality(Pred(n))
  <2>1. Sizes \in SUBSET Nat /\ Sizes # {}
    <3> HIDE DEF Pred
    <3> QED
      BY <1>1
  <2>2. PICK x \in Sizes : \A y \in Sizes : x <= y
    <3> HIDE DEF Sizes
    <3> QED
      BY <2>1, LeastNumber
  <2> QED
    <3> HIDE DEF Pred
    <3> QED
      BY <2>2
<1>3. \A n \in S : n \notin Pred(m)
  <2> SUFFICES ASSUME NEW n \in S, n \in Pred(m) PROVE FALSE
    OBVIOUS
  <2>1. Pred(n) \in SUBSET Pred(m) /\ n \notin Pred(n)
    BY DEF Order
  <2>2. Cardinality(Pred(m)) <= Cardinality(Pred(n))
    BY <1>2
  <2> HIDE DEF Pred
  <2>3. Cardinality(Pred(n)) <= Cardinality(Pred(m))
        /\ (Cardinality(Pred(m)) = Cardinality(Pred(n)) => Pred(m) = Pred(n))
    BY <1>1, <2>1, FS_Subset
  <2>4. Cardinality(Pred(n)) \in Nat /\ Cardinality(Pred(m)) \in Nat
    BY <1>1
  <2>5. Pred(m) = Pred(n)
    BY <2>2, <2>3, <2>4
  <2> QED
    BY <2>1, <2>5
<1>4. \A n \in S \ {m} : <<m, n>> \in st.before
  BY <1>3 DEF Order
<1> QED
  BY <1>4

Mid(st, m) == st.maps[m].phase \in MidFlightPhases

\* midFlightMap is NoMap only if no map is mid-update, and otherwise the first of them.
LEMMA MidFlightFirst ==
  ASSUME Rollout = "OneAtATime", NEW st \in Status, Order(st)
  PROVE  /\ MidFlight(st) = NoMap => \A m \in Maps : ~Mid(st, m)
         /\ MidFlight(st) # NoMap =>
              /\ MidFlight(st) \in Maps /\ Mid(st, MidFlight(st))
              /\ \A m \in Maps : Mid(st, m) /\ m # MidFlight(st) => <<MidFlight(st), m>> \in st.before
<1> DEFINE mid == {m \in st.ids : st.maps[m].phase \in MidFlightPhases}
           first == {m \in mid : \A n \in mid \ {m} : <<m, n>> \in st.before}
<1>1. mid \in SUBSET st.ids /\ first \in SUBSET Maps
  BY DEF Status
<1>2. \A m \in Maps : Mid(st, m) <=> m \in mid
  BY DEF Order, Mid
<1>3. MidFlight(st) = IF first = {} THEN NoMap ELSE CHOOSE m \in first : TRUE
  BY DEF MidFlight
<1>4. CASE first = {}
  <2>1. mid = {}
    <3>1. mid # {} => \E m \in mid : \A n \in mid \ {m} : <<m, n>> \in st.before
      <4> HIDE DEF mid
      <4> QED
        BY <1>1, FirstExists
    <3> QED
      BY <1>4, <3>1
  <2>2. MidFlight(st) = NoMap
    BY <1>3, <1>4
  <2> QED
    BY <1>2, <2>1, <2>2
<1>5. CASE first # {}
  <2>1. MidFlight(st) \in first
    <3> HIDE DEF first
    <3> QED
      BY <1>3, <1>5
  <2>2. MidFlight(st) # NoMap
    BY <1>1, <2>1, MapsAssumption
  <2>3. \A n \in mid \ {MidFlight(st)} : <<MidFlight(st), n>> \in st.before
    BY <2>1
  <2>4. MidFlight(st) \in Maps /\ MidFlight(st) \in mid
    BY <1>1, <2>1
  <2> HIDE DEF mid, first
  <2> QED
    BY <1>2, <2>2, <2>3, <2>4
<1> QED
  BY <1>4, <1>5

-----------------------------------------------------------------------------
(* What the turn of a map does to the list. *)

\* The list new is st with an entry for m, and other maps' entries are as they were.
Follows(st, new, m) ==
  /\ new.ids = st.ids \cup {m}
  /\ new.before = IF m \in st.ids THEN st.before ELSE st.before \cup (st.ids \X {m})
  /\ \A n \in Maps \ {m} : new.maps[n] = st.maps[n]

LEMMA EntryFollows ==
  ASSUME op \in Ops, NEW m \in Maps
  PROVE  /\ Follows(op.status, entry(m), m)
         /\ mapStatus(m).phase = op.status.maps[m].phase
         /\ mapStatus(m).deadline = op.status.maps[m].deadline
<1> DEFINE st == op.status
           e == EnsureMapStatus(st, m)
<1>1. st \in Status
  BY DEF Ops
<1>2. e \in Status /\ e.maps = st.maps
  BY <1>1 DEF EnsureMapStatus, Status
<1>3. /\ e.ids = st.ids \cup {m}
      /\ e.before = IF m \in st.ids THEN st.before ELSE st.before \cup (st.ids \X {m})
  BY <1>1 DEF EnsureMapStatus, Status
<1>4. entry(m) = [e EXCEPT !.maps[m].active = IF @ = "" THEN "server-a" ELSE @]
  BY DEF entry, Enter
<1> HIDE DEF e
<1>5. entry(m).ids = e.ids /\ entry(m).before = e.before
  BY <1>2, <1>4 DEF Status
<1>6. entry(m).maps = [st.maps EXCEPT ![m].active = IF @ = "" THEN "server-a" ELSE @]
  BY <1>2, <1>4 DEF Status
<1>7. st.maps \in [Maps -> MapStatus] /\ st.maps[m] \in MapStatus
  BY <1>1 DEF Status
<1>8. /\ \A n \in Maps \ {m} : entry(m).maps[n] = st.maps[n]
      /\ entry(m).maps[m] = [st.maps[m] EXCEPT !.active = IF @ = "" THEN "server-a" ELSE @]
  BY <1>6, <1>7
<1>9. mapStatus(m).phase = st.maps[m].phase /\ mapStatus(m).deadline = st.maps[m].deadline
  BY <1>7, <1>8 DEF mapStatus, MapStatus
<1> QED
  BY <1>3, <1>5, <1>8, <1>9 DEF Follows

LEMMA SetFollows ==
  ASSUME op \in Ops, NEW m \in Maps, NEW new \in MapStatus
  PROVE  Follows(op.status, Set(m, new), m) /\ Set(m, new).maps[m] = new
<1>1. entry(m) \in Status /\ Follows(op.status, entry(m), m)
  BY EntryFollows, MapStatusType
<1>2. Set(m, new) = [entry(m) EXCEPT !.maps[m] = new]
  BY DEF Set
<1>3. /\ Set(m, new).ids = entry(m).ids /\ Set(m, new).before = entry(m).before
      /\ Set(m, new).maps = [entry(m).maps EXCEPT ![m] = new]
  BY <1>1, <1>2 DEF Status
<1>4. Set(m, new).maps[m] = new /\ \A n \in Maps \ {m} : Set(m, new).maps[n] = entry(m).maps[n]
  BY <1>1, <1>3 DEF Status
<1> QED
  BY <1>1, <1>3, <1>4 DEF Follows

LEMMA FollowsOrder ==
  ASSUME NEW st \in Status, NEW new \in Status, NEW m \in Maps, Order(st), Follows(st, new, m)
  PROVE  Order(new)
<1>1. st.ids \subseteq Maps
  BY DEF Status
<1>2. \A n \in Maps \ new.ids : new.maps[n].phase \notin MidFlightPhases /\ new.maps[n].deadline = NoDeadline
  BY DEF Order, Follows
<1>3. CASE m \in st.ids
  <2>1. new.ids = st.ids /\ new.before = st.before
    BY <1>3 DEF Follows
  <2> QED
    BY <1>2, <2>1 DEF Order
<1>4. CASE m \notin st.ids
  <2>1. new.ids = st.ids \cup {m} /\ new.before = st.before \cup (st.ids \X {m})
    BY <1>4 DEF Follows
  <2>2. st.before \subseteq st.ids \X st.ids
    BY DEF Order
  <2>3. \A a, b : <<a, b>> \in new.before <=> <<a, b>> \in st.before \/ (a \in st.ids /\ b = m)
    BY <2>1
  <2>4. \A a, b : <<a, b>> \in st.before => a \in st.ids /\ b \in st.ids
    BY <2>2
  <2>5. new.before \subseteq new.ids \X new.ids
    BY <2>1, <2>2
  <2>6. \A a \in new.ids : <<a, a>> \notin new.before
    BY <1>4, <2>1, <2>3, <2>4 DEF Order
  <2>7. \A a, b \in new.ids : a # b => <<a, b>> \in new.before \/ <<b, a>> \in new.before
    BY <1>4, <2>1, <2>3 DEF Order
  <2>8. \A k, a, b \in new.ids : <<k, a>> \in new.before /\ <<a, b>> \in new.before => <<k, b>> \in new.before
    BY <1>4, <2>3, <2>4 DEF Order
  <2> QED
    BY <1>2, <2>5, <2>6, <2>7, <2>8 DEF Order
<1> QED
  BY <1>3, <1>4

LEMMA PruneOrder ==
  ASSUME NEW st \in Status, NEW keep, Order(st)
  PROVE  /\ Order(Aggregate(Prune(st, keep)))
         /\ \A m \in Maps : Aggregate(Prune(st, keep)).maps[m] = IF m \in keep THEN st.maps[m] ELSE NoMapStatus
         /\ Aggregate(Prune(st, keep)).before = st.before \cap (keep \X keep)
<1> DEFINE p == Prune(st, keep)
           a == Aggregate(p)
<1>1. /\ p.ids = st.ids \cap keep /\ p.before = st.before \cap (keep \X keep)
      /\ p.maps = [m \in Maps |-> IF m \in keep THEN st.maps[m] ELSE NoMapStatus]
  BY DEF Prune, Status
<1>2. p \in Status
  BY PruneType
<1> HIDE DEF p
<1>3. a.ids = p.ids /\ a.before = p.before /\ a.maps = p.maps
  BY <1>2 DEF Aggregate, Status
<1> HIDE DEF a
<1>4. NoMapStatus.phase = "" /\ NoMapStatus.deadline = NoDeadline
  BY DEF NoMapStatus
<1>5. \A m \in Maps \ a.ids : a.maps[m].phase \notin MidFlightPhases /\ a.maps[m].deadline = NoDeadline
  <2> SUFFICES ASSUME NEW m \in Maps, m \notin a.ids
               PROVE  a.maps[m].phase \notin MidFlightPhases /\ a.maps[m].deadline = NoDeadline
    OBVIOUS
  <2>1. a.maps[m] = IF m \in keep THEN st.maps[m] ELSE NoMapStatus
    BY <1>1, <1>3
  <2>2. "" \notin MidFlightPhases
    BY DEF MidFlightPhases
  <2>3. m \in keep => m \in Maps \ st.ids
    BY <1>1, <1>3
  <2>4. CASE m \in keep
    <3>1. a.maps[m] = st.maps[m] /\ m \in Maps \ st.ids
      BY <2>1, <2>3, <2>4
    <3>2. st.maps[m].phase \notin MidFlightPhases /\ st.maps[m].deadline = NoDeadline
      BY <3>1 DEF Order
    <3> QED
      BY <3>1, <3>2
  <2>5. CASE m \notin keep
    BY <1>4, <2>1, <2>2, <2>5
  <2> QED
    BY <2>4, <2>5
<1>6. a.before \subseteq a.ids \X a.ids
  BY <1>1, <1>3 DEF Order
<1>7. \A x, y \in a.ids : <<x, y>> \in a.before <=> <<x, y>> \in st.before
  BY <1>1, <1>3
<1>8. \A x \in a.ids : x \in st.ids
  BY <1>1, <1>3
<1>9. Order(a)
  BY <1>5, <1>6, <1>7, <1>8 DEF Order
<1> QED
  BY <1>1, <1>3, <1>9 DEF a, p

LEMMA AgedOrder ==
  ASSUME NEW st \in Status
  PROVE  /\ Aged(st).ids = st.ids /\ Aged(st).before = st.before
         /\ \A m \in Maps : /\ Aged(st).maps[m].phase = st.maps[m].phase
                            /\ st.maps[m].deadline = NoDeadline => Aged(st).maps[m].deadline = NoDeadline
<1>1. /\ Aged(st).ids = st.ids /\ Aged(st).before = st.before
      /\ Aged(st).maps = [m \in Maps |-> [st.maps[m] EXCEPT !.deadline = Sooner(st.maps[m].deadline)]]
  BY DEF Aged, Status
<1>2. Sooner(NoDeadline) = NoDeadline
  BY DEF Sooner, NoDeadline
<1>3. ASSUME NEW m \in Maps
      PROVE  /\ Aged(st).maps[m].phase = st.maps[m].phase
             /\ Aged(st).maps[m].deadline = Sooner(st.maps[m].deadline)
  <2>1. st.maps[m] \in MapStatus /\ Aged(st).maps[m] = [st.maps[m] EXCEPT !.deadline = Sooner(st.maps[m].deadline)]
    BY <1>1 DEF Status
  <2> QED
    BY <2>1 DEF MapStatus
<1> QED
  BY <1>1, <1>2, <1>3

-----------------------------------------------------------------------------
(* The invariant. *)

\* A map that is swapping is the first of those that are mid-update.
First(st) ==
  \A n \in Maps : st.maps[n].phase = "Swapping" =>
    \A m \in Maps \ {n} : Mid(st, m) => <<n, m>> \in st.before

\* During a pass only the map that midFlightMap named may be swapping, and it comes before the
\* others that are mid-update.
Lead(st, mid) ==
  \A m \in Maps :
    /\ st.maps[m].phase = "Swapping" => m = mid
    /\ mid # NoMap /\ m # mid /\ Mid(st, m) => <<mid, m>> \in st.before

\* If it named none, the maps whose turn is still to come have no deadline that could be reached.
Late(st, maps, from, mid) ==
  mid = NoMap => \A j \in DOMAIN maps : j >= from => st.maps[maps[j]].deadline = NoDeadline

NextTurn == IF op.pc = "map" THEN op.idx ELSE op.idx + 1

\* What a pass that may still write the status has in memory.
Underway ==
  /\ Order(op.status)
  /\ op.pc = "publish" => First(op.status)
  /\ op.pc # "publish" => /\ Lead(op.status, op.mid)
                          /\ Late(op.status, op.spec.maps, NextTurn, op.mid)

RollInv ==
  /\ TypeOK
  /\ Order(api.status) /\ First(api.status)
  /\ op.pc # "idle" /\ op.fresh => Underway

LEMMA LeadFirst ==
  ASSUME NEW st, NEW mid, Lead(st, mid)
  PROVE  First(st)
BY MapsAssumption DEF Lead, First

LEMMA FollowsLead ==
  ASSUME NEW st, NEW new, NEW m \in Maps, NEW mid, Lead(st, mid), Follows(st, new, m),
         new.maps[m].phase = "Swapping" => m = mid,
         Mid(new, m) => Mid(st, m) \/ mid \in {NoMap, m}
  PROVE  Lead(new, mid)
<1>1. \A p \in st.before : p \in new.before
  BY DEF Follows
<1> SUFFICES ASSUME NEW n \in Maps
             PROVE  /\ new.maps[n].phase = "Swapping" => n = mid
                    /\ mid # NoMap /\ n # mid /\ Mid(new, n) => <<mid, n>> \in new.before
  BY DEF Lead
<1>2. CASE n = m
  BY <1>1, <1>2 DEF Lead
<1>3. CASE n # m
  <2>1. new.maps[n] = st.maps[n]
    BY <1>3 DEF Follows
  <2> QED
    BY <1>1, <2>1 DEF Lead, Mid
<1> QED
  BY <1>2, <1>3

LEMMA FollowsLate ==
  ASSUME NEW st, NEW new, NEW maps \in Seq(Maps), \A i, j \in DOMAIN maps : maps[i] = maps[j] => i = j,
         NEW idx \in DOMAIN maps, NEW mid, Late(st, maps, idx, mid), Follows(st, new, maps[idx])
  PROVE  Late(new, maps, idx + 1, mid)
<1> SUFFICES ASSUME mid = NoMap, NEW j \in DOMAIN maps, j >= idx + 1
             PROVE  new.maps[maps[j]].deadline = NoDeadline
  BY DEF Late
<1>1. j # idx /\ j >= idx
  OBVIOUS
<1>2. maps[j] \in Maps /\ maps[j] # maps[idx]
  BY <1>1
<1>3. new.maps[maps[j]] = st.maps[maps[j]]
  BY <1>2 DEF Follows
<1> QED
  BY <1>1, <1>3 DEF Late

\* The lists of a pass.
LEMMA TurnList ==
  ASSUME Distinct, op \in Ops
  PROVE  /\ op.spec.maps \in Seq(Maps) /\ op.idx \in Nat /\ op.status \in Status
         /\ \A i, j \in DOMAIN op.spec.maps : op.spec.maps[i] = op.spec.maps[j] => i = j
<1>1. op.spec \in Specs /\ op.idx \in Nat /\ op.status \in Status
  BY DEF Ops
<1> QED
  BY <1>1, SpecsAssumption DEF Distinct

\* A turn of a map, whether it writes the status or not.
LEMMA TurnKeeps ==
  ASSUME Distinct, RollInv, TypeOK', NEW m \in Maps, At(m, "map"),
         NEW st \in Status, Follows(op.status, st, m),
         op.fresh => (st.maps[m].phase = "Swapping" => m = op.mid),
         op.fresh => (Mid(st, m) => Mid(op.status, m) \/ op.mid \in {NoMap, m}),
         op'.status = st, op'.spec = op.spec, op'.mid = op.mid, op'.fresh = op.fresh,
         \/ op'.pc = "map" /\ op'.idx = op.idx + 1
         \/ op'.pc \in {"announce", "delete", "discard"} /\ op'.idx = op.idx,
         \/ api'.status = api.status
         \/ op.fresh /\ api'.status = st
  PROVE  RollInv'
<1>1. op \in Ops /\ op.pc = "map" /\ op.idx \in DOMAIN op.spec.maps /\ m = op.spec.maps[op.idx]
  BY DEF RollInv, TypeOK, At
<1>2. Order(api.status) /\ First(api.status)
  BY DEF RollInv
<1>3. CASE ~op.fresh
  BY <1>2, <1>3 DEF RollInv
<1>4. CASE op.fresh
  <2>1. Order(op.status) /\ Lead(op.status, op.mid) /\ Late(op.status, op.spec.maps, op.idx, op.mid)
    BY <1>1, <1>4 DEF RollInv, Underway, NextTurn
  <2>2. Order(st)
    BY <1>1, <2>1, FollowsOrder DEF Ops
  <2>3. Lead(st, op.mid)
    BY <1>4, <2>1, FollowsLead
  <2>4. Late(st, op.spec.maps, op.idx + 1, op.mid)
    BY <1>1, <2>1, TurnList, FollowsLate
  <2>5. First(st)
    BY <2>3, LeadFirst
  <2>6. Order(api'.status) /\ First(api'.status)
    BY <1>2, <1>4, <2>2, <2>5
  <2>7. NextTurn' = op.idx + 1
    BY DEF NextTurn
  <2>8. Underway'
    BY <2>2, <2>3, <2>4, <2>7 DEF Underway
  <2> QED
    BY <2>6, <2>8 DEF RollInv
<1> QED
  BY <1>3, <1>4

\* A step that goes on with the same list.
LEMMA SameTurn ==
  ASSUME RollInv, TypeOK', api'.status = api.status, op.pc \notin {"idle", "publish"},
         op'.pc \notin {"idle", "publish"}, NextTurn' = NextTurn,
         op'.status = op.status, op'.spec = op.spec, op'.mid = op.mid, op'.fresh = op.fresh
  PROVE  RollInv'
<1>1. CASE ~op.fresh
  BY <1>1 DEF RollInv
<1>2. CASE op.fresh
  <2>1. Order(op.status) /\ Lead(op.status, op.mid) /\ Late(op.status, op.spec.maps, NextTurn, op.mid)
    BY <1>2 DEF RollInv, Underway
  <2>2. Underway'
    BY <2>1 DEF Underway
  <2> QED
    BY <2>2 DEF RollInv
<1> QED
  BY <1>1, <1>2

\* A step that leaves the status alone and the pass too, or gives it up, or makes it stale.
LEMMA AsideKeeps ==
  ASSUME RollInv, TypeOK', api'.status = api.status,
         op' = op \/ op' = Idle \/ op'.fresh = FALSE
  PROVE  RollInv'
<1>1. Idle.pc = "idle"
  BY DEF Idle
<1>2. CASE op' = op
  <2>1. Underway' = Underway
    BY <1>2 DEF Underway, NextTurn
  <2> QED
    BY <1>2, <2>1 DEF RollInv
<1>3. CASE op' = Idle \/ op'.fresh = FALSE
  BY <1>1, <1>3 DEF RollInv
<1> QED
  BY <1>2, <1>3

LEMMA WrapKeeps ==
  ASSUME RollInv, TypeOK', Wrap, api'.status = api.status
  PROVE  RollInv'
<1> DEFINE st == Aggregate(Prune(op.status, specMaps))
<1>1. op \in Ops /\ op.pc = "map" /\ op.status \in Status
  BY DEF RollInv, TypeOK, Wrap, Ops
<1>2. op' = [op EXCEPT !.pc = "publish", !.status = st]
  BY DEF Wrap
<1> HIDE DEF st
<1>3. op'.pc = "publish" /\ op'.status = st /\ op'.fresh = op.fresh
  BY <1>1, <1>2 DEF Ops
<1>4. CASE ~op.fresh
  BY <1>3, <1>4 DEF RollInv
<1>5. CASE op.fresh
  <2>1. Order(op.status) /\ Lead(op.status, op.mid)
    BY <1>1, <1>5 DEF RollInv, Underway
  <2>2. First(op.status)
    BY <2>1, LeadFirst
  <2>3. /\ Order(st) /\ st.before = op.status.before \cap (specMaps \X specMaps)
        /\ \A m \in Maps : st.maps[m] = IF m \in specMaps THEN op.status.maps[m] ELSE NoMapStatus
    BY <1>1, <2>1, PruneOrder DEF st
  <2>4. NoMapStatus.phase \notin MidFlightPhases /\ NoMapStatus.phase # "Swapping"
    BY DEF NoMapStatus, MidFlightPhases
  <2>5. First(st)
    BY <2>2, <2>3, <2>4 DEF First, Mid
  <2> QED
    BY <1>3, <2>3, <2>5 DEF RollInv, Underway
<1> QED
  BY <1>4, <1>5

-----------------------------------------------------------------------------
(* The steps. *)

\* The turn of a map that writes no status: how its phase may change.
LEMMA ReconcileMapList ==
  ASSUME TypeOK, NEW m \in Maps, ReconcileMap(m)
  PROVE  \E st \in Status :
           /\ NextMap(st) /\ Follows(op.status, st, m)
           /\ \/ st.maps[m].phase = op.status.maps[m].phase
              \/ ~Mid(st, m)
              \/ Mid(st, m) /\ st.maps[m].phase # "Swapping" /\ ~Held(m)
<1> DEFINE e == mapStatus(m)
           Good(st) == /\ NextMap(st) /\ Follows(op.status, st, m)
                       /\ \/ st.maps[m].phase = op.status.maps[m].phase
                          \/ ~Mid(st, m)
                          \/ Mid(st, m) /\ st.maps[m].phase # "Swapping" /\ ~Held(m)
<1>1. op \in Ops /\ op.idx \in DOMAIN op.spec.maps
  BY DEF TypeOK, ReconcileMap, At
<1>2. /\ e \in MapStatus /\ e.active \in Volumes /\ entry(m) \in Status
      /\ e.phase = op.status.maps[m].phase /\ Follows(op.status, entry(m), m)
  BY <1>1, TurnType, EntryFollows
<1>3. ASSUME NEW new \in MapStatus, NextMap(Set(m, new)),
             \/ new.phase = e.phase
             \/ new.phase \notin MidFlightPhases
             \/ new.phase \in {"InstallingInactive", "DrainingActive"} /\ ~Held(m)
      PROVE  \E st \in Status : Good(st)
  <2>1. Set(m, new) \in Status /\ Follows(op.status, Set(m, new), m) /\ Set(m, new).maps[m] = new
    BY <1>1, SetType, SetFollows
  <2>2. \/ Set(m, new).maps[m].phase = op.status.maps[m].phase
        \/ ~Mid(Set(m, new), m)
        \/ Mid(Set(m, new), m) /\ Set(m, new).maps[m].phase # "Swapping" /\ ~Held(m)
    BY <1>2, <1>3, <2>1 DEF Mid, MidFlightPhases
  <2> QED
    BY <1>3, <2>1, <2>2
<1> SUFFICES \E st \in Status : Good(st)
  OBVIOUS
<1> HIDE DEF e, Good
<1>4. CASE FirstInstall(m)
  <2>1. [e EXCEPT !.phase = "InstallingActive"] \in MapStatus
        /\ [e EXCEPT !.phase = "InstallingActive"].phase = "InstallingActive"
    BY <1>2 DEF MapStatus, MapPhases
  <2> QED
    BY <1>3, <1>4, <2>1 DEF FirstInstall, e, MidFlightPhases
<1>5. CASE FirstInstallFailed(m) \/ RollInstallFailed(m)
  <2> DEFINE new == [e EXCEPT !.phase = "Failed", !.conds = @ \cup {"InstallFailed"}]
  <2>1. new \in MapStatus /\ new.phase = "Failed"
    BY <1>2 DEF MapStatus, MapPhases, Conditions
  <2>2. NextMap(Set(m, new))
    BY <1>5 DEF FirstInstallFailed, RollInstallFailed, e
  <2> HIDE DEF new
  <2> QED
    BY <1>3, <2>1, <2>2 DEF MidFlightPhases
<1>6. CASE FirstPod(m)
  <2>1. [e EXCEPT !.phase = "Provisioning"] \in MapStatus
        /\ [e EXCEPT !.phase = "Provisioning"].phase = "Provisioning"
    BY <1>2 DEF MapStatus, MapPhases
  <2> QED
    BY <1>3, <1>6, <2>1 DEF FirstPod, e, MidFlightPhases
<1>7. CASE SteadyCrashLooping(m) \/ SteadyWarming(m)
  <2> DEFINE new == [e EXCEPT !.conds = @ \ {"PodReady"}]
  <2>1. new \in MapStatus /\ new.phase = e.phase
    BY <1>2 DEF MapStatus, Conditions
  <2>2. NextMap(Set(m, new))
    BY <1>7 DEF SteadyCrashLooping, SteadyWarming, e
  <2> HIDE DEF new
  <2> QED
    BY <1>3, <2>1, <2>2
<1>8. CASE SteadyReady(m)
  <2> DEFINE new == [e EXCEPT !.phase = "Running", !.lastGood = e.active, !.conds = @ \cup {"PodReady"}]
  <2>1. new \in MapStatus /\ new.phase = "Running"
    BY <1>2 DEF MapStatus, MapPhases, Conditions
  <2>2. NextMap(Set(m, new))
    BY <1>8 DEF SteadyReady, e
  <2> HIDE DEF new
  <2> QED
    BY <1>3, <2>1, <2>2 DEF MidFlightPhases
<1>9. CASE HoldBack(m)
  <2>1. entry(m).maps[m].phase = op.status.maps[m].phase
    BY <1>2 DEF e, mapStatus
  <2> QED
    BY <1>2, <1>9, <2>1 DEF HoldBack, Good
<1>10. CASE RollInstall(m)
  <2>1. [e EXCEPT !.phase = "InstallingInactive"] \in MapStatus
        /\ [e EXCEPT !.phase = "InstallingInactive"].phase = "InstallingInactive"
    BY <1>2 DEF MapStatus, MapPhases
  <2> QED
    BY <1>3, <1>10, <2>1 DEF RollInstall, e
<1>11. CASE WaitDrain(m)
  <2>1. [e EXCEPT !.phase = "DrainingActive"] \in MapStatus
        /\ [e EXCEPT !.phase = "DrainingActive"].phase = "DrainingActive"
    BY <1>2 DEF MapStatus, MapPhases
  <2> QED
    BY <1>3, <1>11, <2>1 DEF WaitDrain, e
<1> QED
  BY <1>4, <1>5, <1>6, <1>7, <1>8, <1>9, <1>10, <1>11 DEF ReconcileMap

LEMMA ReconcileMapRolls ==
  ASSUME Distinct, RollInv, TypeOK', NEW m \in Maps, ReconcileMap(m)
  PROVE  RollInv'
<1>1. TypeOK /\ op \in Ops /\ At(m, "map") /\ api' = api
  BY DEF RollInv, TypeOK, ReconcileMap, Quiet
<1>2. PICK st \in Status :
        /\ NextMap(st) /\ Follows(op.status, st, m)
        /\ \/ st.maps[m].phase = op.status.maps[m].phase
           \/ ~Mid(st, m)
           \/ Mid(st, m) /\ st.maps[m].phase # "Swapping" /\ ~Held(m)
  BY <1>1, ReconcileMapList
<1>3. /\ op'.pc = "map" /\ op'.status = st /\ op'.idx = op.idx + 1
      /\ op'.spec = op.spec /\ op'.mid = op.mid /\ op'.fresh = op.fresh
  BY <1>1, <1>2 DEF NextMap, Ops
<1>4. ASSUME op.fresh
      PROVE  /\ st.maps[m].phase = "Swapping" => m = op.mid
             /\ Mid(st, m) => Mid(op.status, m) \/ op.mid \in {NoMap, m}
  <2>1. Lead(op.status, op.mid)
    BY <1>1, <1>4 DEF RollInv, Underway, At
  <2>2. ~Held(m) => op.mid \in {NoMap, m}
    BY DEF Held
  <2>3. st.maps[m].phase = "Swapping" => Mid(st, m)
    BY DEF Mid, MidFlightPhases
  <2> QED
    BY <1>2, <2>1, <2>2, <2>3 DEF Lead, Mid
<1> QED
  BY <1>1, <1>2, <1>3, <1>4, TurnKeeps

\* A Job that cannot be read: the map is Failed, which is not mid-update.
LEMMA JobUnreadRolls ==
  ASSUME Distinct, RollInv, TypeOK', NEW m \in Maps, JobUnread(m)
  PROVE  RollInv'
<1> DEFINE new == [mapStatus(m) EXCEPT !.phase = "Failed",
                                       !.conds = mapStatus(m).conds \cup {"InstallFailed"}]
           st == Set(m, new)
<1>1. op \in Ops /\ At(m, "map") /\ api' = api /\ NextMap(st)
  BY DEF RollInv, TypeOK, JobUnread
<1>2. mapStatus(m) \in MapStatus
  BY <1>1, MapStatusType
<1>3. new \in MapStatus /\ new.phase = "Failed"
  BY <1>2 DEF MapStatus, MapPhases, Conditions
<1> HIDE DEF new
<1>4. st \in Status /\ Follows(op.status, st, m) /\ st.maps[m].phase = "Failed"
  BY <1>1, <1>3, SetType, SetFollows
<1> HIDE DEF st
<1>5. st.maps[m].phase # "Swapping" /\ ~Mid(st, m)
  BY <1>4 DEF Mid, MidFlightPhases
<1>6. /\ op'.pc = "map" /\ op'.status = st /\ op'.idx = op.idx + 1
      /\ op'.spec = op.spec /\ op'.mid = op.mid /\ op'.fresh = op.fresh
  BY <1>1 DEF NextMap, Ops
<1> QED
  BY <1>1, <1>4, <1>5, <1>6, TurnKeeps

\* The writes of the status in the middle of a pass.
LEMMA PersistRolls ==
  ASSUME Distinct, RollInv, TypeOK', NEW m \in Maps, At(m, "map"), NEW new \in MapStatus,
         persistStatus(Set(m, new)),
         op.fresh => (new.phase = "Swapping" => m = op.mid),
         op.fresh => (new.phase \in MidFlightPhases => Mid(op.status, m) \/ op.mid \in {NoMap, m}),
         \/ NextMap(Set(m, new))
         \/ \E pc \in {"announce", "delete", "discard"} : \E cur :
              op' = [op EXCEPT !.pc = pc, !.status = Set(m, new), !.cur = cur]
         \/ op' = [op EXCEPT !.pc = "announce", !.status = Set(m, new)]
  PROVE  RollInv'
<1> DEFINE st == Set(m, new)
<1>1. op \in Ops /\ api \in Object
  BY DEF RollInv, TypeOK
<1>2. st \in Status /\ Follows(op.status, st, m) /\ st.maps[m] = new
  BY <1>1, SetType, SetFollows
<1> HIDE DEF st
<1>3. api'.status = api.status \/ (op.fresh /\ api'.status = st)
  BY <1>1 DEF persistStatus, Object, st
<1>4. /\ op'.status = st /\ op'.spec = op.spec /\ op'.mid = op.mid /\ op'.fresh = op.fresh
      /\ \/ op'.pc = "map" /\ op'.idx = op.idx + 1
         \/ op'.pc \in {"announce", "delete", "discard"} /\ op'.idx = op.idx
  BY <1>1 DEF NextMap, Ops, st
<1>5. op.fresh => (st.maps[m].phase = "Swapping" => m = op.mid)
  BY <1>2
<1>6. op.fresh => (Mid(st, m) => Mid(op.status, m) \/ op.mid \in {NoMap, m})
  BY <1>2 DEF Mid
<1> QED
  BY <1>2, <1>3, <1>4, <1>5, <1>6, TurnKeeps

LEMMA StartDrainRolls ==
  ASSUME Distinct, RollInv, TypeOK', NEW m \in Maps, StartDrain(m)
  PROVE  RollInv'
<1> DEFINE new == [mapStatus(m) EXCEPT !.deadline = Grace, !.phase = "DrainingActive"]
<1>1. TypeOK /\ At(m, "map") /\ ~Held(m) /\ op.idx \in DOMAIN op.spec.maps
  BY DEF StartDrain, RollInv, At
<1>2. mapStatus(m) \in MapStatus
  BY <1>1, TurnType
<1>3. new \in MapStatus /\ new.phase = "DrainingActive"
  BY <1>2, GraceType DEF MapStatus, MapPhases
<1>4. /\ persistStatus(Set(m, new))
      /\ NextMap(Set(m, new)) \/ op' = [op EXCEPT !.pc = "announce", !.status = Set(m, new)]
  BY DEF StartDrain
<1>5. op.mid \in {NoMap, m}
  BY <1>1 DEF Held
<1> HIDE DEF new
<1> QED
  BY <1>1, <1>3, <1>4, <1>5, PersistRolls

\* A pass that found no map mid-update commits no swap, and one that did only that map's.
LEMMA CommitSwapRolls ==
  ASSUME Distinct, RollInv, TypeOK', NEW m \in Maps, CommitSwap(m)
  PROVE  RollInv'
<1> DEFINE new == [mapStatus(m) EXCEPT !.active = inactive(m), !.deadline = NoDeadline, !.phase = "Swapping"]
<1>1. TypeOK /\ op \in Ops /\ At(m, "map") /\ ~Held(m) /\ op.idx \in DOMAIN op.spec.maps
  BY DEF CommitSwap, RollInv, TypeOK, At
<1>2. mapStatus(m) \in MapStatus /\ inactive(m) \in Volumes
  BY <1>1, TurnType
<1>3. new \in MapStatus /\ new.phase = "Swapping"
  BY <1>2, GraceType DEF MapStatus, MapPhases
<1>4. persistStatus(Set(m, new))
  BY DEF CommitSwap
<1>5. \E h : op' = [op EXCEPT !.pc = "delete", !.status = Set(m, new), !.cur = {h}]
  BY DEF CommitSwap
<1>6. op.fresh => op.mid = m
  <2> SUFFICES ASSUME op.fresh, op.mid = NoMap PROVE FALSE
    BY <1>1 DEF Held
  <2>1. Late(op.status, op.spec.maps, op.idx, op.mid)
    BY <1>1 DEF RollInv, Underway, NextTurn, At
  <2>2. op.status.maps[m].deadline = NoDeadline
    <3>1. op.idx >= op.idx
      BY <1>1 DEF Ops
    <3> QED
      BY <1>1, <2>1, <3>1 DEF Late, At
  <2>3. op.status.maps[m].deadline = 0
    BY <1>1, EntryFollows DEF CommitSwap
  <2> QED
    BY <2>2, <2>3 DEF NoDeadline
<1> HIDE DEF new
<1> QED
  BY <1>1, <1>3, <1>4, <1>5, <1>6, PersistRolls

LEMMA RollbackRolls ==
  ASSUME Distinct, RollInv, TypeOK', NEW m \in Maps, Rollback(m)
  PROVE  RollInv'
<1> DEFINE new == [mapStatus(m) EXCEPT !.active = mapStatus(m).lastGood, !.conds = @ \cup {"RollbackOccurred"}]
<1>1. TypeOK /\ op \in Ops /\ At(m, "map") /\ op.idx \in DOMAIN op.spec.maps
  BY DEF Rollback, RollInv, TypeOK, At
<1>2. mapStatus(m) \in MapStatus /\ mapStatus(m).phase = op.status.maps[m].phase
  BY <1>1, TurnType, EntryFollows
<1>3. new \in MapStatus /\ new.phase = op.status.maps[m].phase
  BY <1>2 DEF MapStatus, Conditions
<1>4. persistStatus(Set(m, new))
  BY DEF Rollback
<1>5. op' = [op EXCEPT !.pc = "discard", !.status = Set(m, new), !.cur = {desiredHash(m)}]
  BY DEF Rollback
<1>6. op.fresh => (new.phase = "Swapping" => m = op.mid)
  BY <1>1, <1>3 DEF RollInv, Underway, At, Lead
<1>7. new.phase \in MidFlightPhases => Mid(op.status, m)
  BY <1>3 DEF Mid
<1> HIDE DEF new
<1> QED
  BY <1>1, <1>3, <1>4, <1>5, <1>6, <1>7, PersistRolls

\* A pass that starts names the first map that is mid-update; if there is none, no map has a
\* deadline.
LEMMA BeginRolls ==
  ASSUME Rollout = "OneAtATime", RollInv, DeadlineOnlyWhenDraining, TypeOK', Begin
  PROVE  RollInv'
<1> DEFINE st == api.status
<1>1. /\ st \in Status /\ Order(st) /\ First(st) /\ api' = api
      /\ op'.pc = "map" /\ op'.spec = cache.spec /\ op'.status = cache.status /\ op'.idx = 1
      /\ op'.mid = MidFlight(cache.status) /\ op'.fresh = (cache = api)
  BY DEF Begin, RollInv, TypeOK, Object
<1>2. CASE cache # api
  BY <1>1, <1>2 DEF RollInv
<1>3. CASE cache = api
  <2>1. op'.status = st /\ op'.mid = MidFlight(st)
    BY <1>1, <1>3
  <2>2. \A m \in Maps : st.maps[m].phase \in {"Swapping", "DrainingActive"} => Mid(st, m)
    BY DEF Mid, MidFlightPhases
  <2>3. /\ MidFlight(st) = NoMap => \A m \in Maps : ~Mid(st, m)
        /\ MidFlight(st) # NoMap =>
             /\ MidFlight(st) \in Maps /\ Mid(st, MidFlight(st))
             /\ \A m \in Maps : Mid(st, m) /\ m # MidFlight(st) => <<MidFlight(st), m>> \in st.before
    BY <1>1, MidFlightFirst
  <2>4. \A m, n \in Maps : ~(<<m, n>> \in st.before /\ <<n, m>> \in st.before)
    BY <1>1 DEF Order
  <2>5. Lead(st, MidFlight(st))
    <3> SUFFICES ASSUME NEW m \in Maps
                 PROVE  /\ st.maps[m].phase = "Swapping" => m = MidFlight(st)
                        /\ MidFlight(st) # NoMap /\ m # MidFlight(st) /\ Mid(st, m)
                             => <<MidFlight(st), m>> \in st.before
      BY DEF Lead
    <3>1. ASSUME st.maps[m].phase = "Swapping", m # MidFlight(st) PROVE FALSE
      <4>1. Mid(st, m)
        BY <2>2, <3>1
      <4>2. MidFlight(st) \in Maps /\ Mid(st, MidFlight(st)) /\ <<MidFlight(st), m>> \in st.before
        BY <2>3, <3>1, <4>1
      <4>3. <<m, MidFlight(st)>> \in st.before
        BY <1>1, <3>1, <4>2 DEF First
      <4> QED
        BY <2>4, <4>2, <4>3
    <3> QED
      BY <2>3, <3>1
  <2>6. Late(st, op'.spec.maps, 1, MidFlight(st))
    <3> SUFFICES ASSUME MidFlight(st) = NoMap, NEW j \in DOMAIN op'.spec.maps
                 PROVE  st.maps[op'.spec.maps[j]].deadline = NoDeadline
      BY DEF Late
    <3>1. op'.spec.maps \in Seq(Maps)
      BY SpecsAssumption DEF TypeOK, Ops
    <3>2. op'.spec.maps[j] \in Maps
      BY <3>1
    <3> QED
      BY <2>2, <2>3, <3>2 DEF DeadlineOnlyWhenDraining
  <2>7. Underway'
    BY <1>1, <2>1, <2>5, <2>6 DEF Underway, NextTurn
  <2> QED
    BY <1>1, <2>7 DEF RollInv
<1> QED
  BY <1>2, <1>3

\* The steps between two writes of the status.
LEMMA BetweenRolls ==
  ASSUME RollInv, TypeOK', NEW m \in Maps, Announce(m) \/ DeleteOld(m) \/ CreateNew(m) \/ DiscardBad(m)
  PROVE  RollInv'
<1>1. op \in Ops /\ api' = api
  BY DEF RollInv, TypeOK, Announce, DeleteOld, CreateNew, DiscardBad
<1>2. /\ op.pc \in {"announce", "delete", "create", "discard"} /\ op'.status = op.status
      /\ op'.spec = op.spec /\ op'.mid = op.mid /\ op'.fresh = op.fresh
      /\ \/ op'.pc = "map" /\ op'.idx = op.idx + 1
         \/ op'.pc = "create" /\ op'.idx = op.idx
  BY <1>1 DEF Announce, DeleteOld, CreateNew, DiscardBad, At, NextMap, Ops
<1>3. NextTurn' = NextTurn
  BY <1>2 DEF NextTurn
<1> QED
  BY <1>1, <1>2, <1>3, SameTurn

LEMMA PublishRolls ==
  ASSUME RollInv, TypeOK', Publish
  PROVE  RollInv'
<1>1. /\ op.pc = "publish" /\ api \in Object /\ op' = Idle /\ Idle.pc = "idle"
      /\ api' = IF op.fresh THEN [api EXCEPT !.status = op.status] ELSE api
  BY DEF Publish, RollInv, TypeOK, persistStatus, Idle
<1>2. CASE ~op.fresh
  BY <1>1, <1>2 DEF RollInv
<1>3. CASE op.fresh
  <2>1. Order(op.status) /\ First(op.status)
    BY <1>1, <1>3 DEF RollInv, Underway
  <2>2. api'.status = op.status
    BY <1>1, <1>3 DEF Object
  <2> QED
    BY <1>1, <2>1, <2>2 DEF RollInv
<1> QED
  BY <1>2, <1>3

LEMMA DeleteFailsRolls ==
  ASSUME RollInv, TypeOK', DeleteFails
  PROVE  RollInv'
<1>1. op \in Ops /\ api' = api
  BY DEF RollInv, TypeOK, DeleteFails
<1>2. CASE Wrap
  BY <1>1, <1>2, WrapKeeps
<1>3. CASE ~Wrap
  <2>1. /\ op.pc \in {"delete", "discard"} /\ op'.status = op.status
        /\ op'.spec = op.spec /\ op'.mid = op.mid /\ op'.fresh = op.fresh
        /\ \/ op'.pc = "map" /\ op'.idx = op.idx + 1
           \/ op'.pc = "create" /\ op'.idx = op.idx
    BY <1>1, <1>3 DEF DeleteFails, NextMap, Ops
  <2>2. NextTurn' = NextTurn
    BY <2>1 DEF NextTurn
  <2> QED
    BY <1>1, <2>1, <2>2, SameTurn
<1> QED
  BY <1>2, <1>3

\* Time brings deadlines nearer, and a map without one gets none.
LEMMA TickRolls ==
  ASSUME Distinct, RollInv, TypeOK', Tick
  PROVE  RollInv'
<1>1. op \in Ops /\ api \in Object /\ op.status \in Status /\ api.status \in Status
  BY DEF RollInv, TypeOK, Ops, Object
<1>2. /\ api'.status = Aged(api.status) /\ op'.status = Aged(op.status) /\ op'.pc = op.pc /\ op'.mid = op.mid
      /\ op'.spec = op.spec /\ op'.idx = op.idx /\ op'.fresh = op.fresh
  BY <1>1 DEF Tick, Ops, Object
<1>3. ASSUME NEW st \in Status, Order(st)
      PROVE  /\ Order(Aged(st))
             /\ First(st) => First(Aged(st))
             /\ \A mid : Lead(st, mid) => Lead(Aged(st), mid)
             /\ \A maps \in Seq(Maps) : \A from, mid : Late(st, maps, from, mid) => Late(Aged(st), maps, from, mid)
  <2> DEFINE new == Aged(st)
  <2>1. /\ new.ids = st.ids /\ new.before = st.before
        /\ \A m \in Maps : /\ new.maps[m].phase = st.maps[m].phase
                           /\ st.maps[m].deadline = NoDeadline => new.maps[m].deadline = NoDeadline
    BY AgedOrder
  <2> HIDE DEF new
  <2>2. Order(new)
    BY <1>3, <2>1 DEF Order
  <2>3. First(st) => First(new)
    BY <2>1 DEF First, Mid
  <2>4. \A mid : Lead(st, mid) => Lead(new, mid)
    BY <2>1 DEF Lead, Mid
  <2>5. \A maps \in Seq(Maps) : \A from, mid : Late(st, maps, from, mid) => Late(new, maps, from, mid)
    <3> SUFFICES ASSUME NEW maps \in Seq(Maps), NEW from, NEW mid, Late(st, maps, from, mid), mid = NoMap,
                        NEW j \in DOMAIN maps, j >= from
                 PROVE  new.maps[maps[j]].deadline = NoDeadline
      BY DEF Late
    <3>1. maps[j] \in Maps
      OBVIOUS
    <3>2. st.maps[maps[j]].deadline = NoDeadline
      BY DEF Late
    <3> QED
      BY <2>1, <3>1, <3>2
  <2> QED
    BY <2>2, <2>3, <2>4, <2>5 DEF new
<1>4. Order(api'.status) /\ First(api'.status)
  BY <1>1, <1>2, <1>3 DEF RollInv
<1>5. ASSUME op'.pc # "idle", op'.fresh PROVE Underway'
  <2>1. Underway
    BY <1>2, <1>5 DEF RollInv
  <2>2. op.spec.maps \in Seq(Maps)
    BY <1>1, TurnList
  <2>3. NextTurn' = NextTurn
    BY <1>2 DEF NextTurn
  <2> QED
    BY <1>1, <1>2, <1>3, <2>1, <2>2, <2>3 DEF Underway
<1> QED
  BY <1>4, <1>5 DEF RollInv

LEMMA RollStep ==
  ASSUME Rollout = "OneAtATime", Distinct, RollInv, DeadlineOnlyWhenDraining, [Next]_vars
  PROVE  RollInv'
<1>1. TypeOK'
  BY NextTypeOK DEF RollInv
<1>2. CASE Begin
  BY <1>1, <1>2, BeginRolls
<1>3. ASSUME NEW m \in Maps, ReconcileMap(m) PROVE RollInv'
  BY <1>1, <1>3, ReconcileMapRolls
<1>4. ASSUME NEW m \in Maps, StartDrain(m) PROVE RollInv'
  BY <1>1, <1>4, StartDrainRolls
<1>5. ASSUME NEW m \in Maps, CommitSwap(m) PROVE RollInv'
  BY <1>1, <1>5, CommitSwapRolls
<1>6. ASSUME NEW m \in Maps, Rollback(m) PROVE RollInv'
  BY <1>1, <1>6, RollbackRolls
<1>7. ASSUME NEW m \in Maps, Announce(m) \/ DeleteOld(m) \/ CreateNew(m) \/ DiscardBad(m) PROVE RollInv'
  BY <1>1, <1>7, BetweenRolls
<1>8. CASE gcOrphanedMaps
  <2>1. Wrap /\ api' = api
    BY <1>8 DEF gcOrphanedMaps
  <2> QED
    BY <1>1, <2>1, WrapKeeps
<1>9. CASE Publish
  BY <1>1, <1>9, PublishRolls
<1>10. CASE Pass
  BY <1>2, <1>3, <1>4, <1>5, <1>6, <1>7, <1>8, <1>9, <1>10, Zenon DEF Pass
<1>11. CASE Cluster
  <2>1. api' = api /\ op' = op
    BY <1>11 DEF Cluster, PodBecomesReady, PodCrashLoops, PodEvicted, PodGone, SetPod,
                 JobSucceeds, JobFails, JobExpires, SetJob, PVCReleased
  <2> QED
    BY <1>1, <2>1, AsideKeeps
<1>12. CASE EditSpec \/ ForeignWrite
  <2>1. op \in Ops /\ api \in Object
    BY DEF RollInv, TypeOK
  <2>2. api'.status = api.status
    BY <1>12, <2>1 DEF EditSpec, ForeignWrite, Object
  <2>3. op' = op \/ op'.fresh = FALSE
    BY <1>12, <2>1 DEF EditSpec, ForeignWrite, Outdate, Ops
  <2> QED
    BY <1>1, <2>2, <2>3, AsideKeeps
<1>13. CASE \E m \in Maps : EditConfig(m)
  BY <1>1, <1>13, AsideKeeps DEF EditConfig
<1>14. CASE Crash \/ Abort \/ FallBehind \/ CatchUp
  BY <1>1, <1>14, AsideKeeps DEF Crash, Abort, FallBehind, CatchUp
<1>15. CASE DeleteFails
  BY <1>1, <1>15, DeleteFailsRolls
<1>16. CASE Tick
  BY <1>1, <1>16, TickRolls
<1>17. CASE UNCHANGED vars
  BY <1>1, <1>17, AsideKeeps DEF vars
<1>18. ASSUME NEW m \in Maps, SwapLost(m) PROVE RollInv'
  <2>1. op' = Idle /\ api' = api
    BY <1>18 DEF SwapLost
  <2> QED
    BY <1>1, <2>1, AsideKeeps
<1>19. ASSUME NEW m \in Maps, JobUnread(m) PROVE RollInv'
  BY <1>1, <1>19, JobUnreadRolls
<1> QED
  BY <1>10, <1>11, <1>12, <1>13, <1>14, <1>15, <1>16, <1>17, <1>18, <1>19 DEF Next

LEMMA InitRoll == Init => RollInv
<1> SUFFICES ASSUME Init PROVE RollInv
  OBVIOUS
<1>1. api.status = NoStatus /\ op = Idle /\ op.pc = "idle"
  BY DEF Init, Idle
<1>2. /\ NoStatus.ids = {} /\ NoStatus.before = {}
      /\ \A m \in Maps : NoStatus.maps[m].phase = "" /\ NoStatus.maps[m].deadline = NoDeadline
  BY DEF NoStatus, NoMapStatus
<1>3. Order(NoStatus) /\ First(NoStatus)
  BY <1>2 DEF Order, First, MidFlightPhases
<1> QED
  BY <1>1, <1>3, InitTypeOK DEF RollInv

\* Two maps that are swapping would each come before the other.
LEMMA FirstIsAlone ==
  ASSUME RollInv
  PROVE  OneSwapping
<1> DEFINE S == {m \in Maps : api.status.maps[m].phase = "Swapping"}
<1>1. \A m, n \in S : m = n
  <2> SUFFICES ASSUME NEW m \in S, NEW n \in S, m # n PROVE FALSE
    OBVIOUS
  <2>1. Mid(api.status, m) /\ Mid(api.status, n)
    BY DEF Mid, MidFlightPhases
  <2>2. <<m, n>> \in api.status.before /\ <<n, m>> \in api.status.before
    BY <2>1 DEF RollInv, First
  <2> QED
    BY <2>2 DEF RollInv, Order
<1>2. S = {} \/ \E m : S = {m}
  BY <1>1
<1>3. Cardinality(S) <= 1
  <2> HIDE DEF S
  <2>1. Cardinality(S) \in {0, 1}
    BY <1>2, FS_EmptySet, FS_Singleton, Zenon
  <2> QED
    BY <2>1
<1> QED
  BY <1>3 DEF OneSwapping

\* Whatever crashes, conflicts, stale reads and failed calls there are, under OneAtATime at most
\* one map is swapping in the published status, as long as no deadline is left behind in it: the
\* list status.maps is totally ordered, and only its first map that is mid-update may swap.
THEOREM OneByOne == Rollout = "OneAtATime" /\ Distinct => (Spec => OneSwapAtATime)
<1> SUFFICES ASSUME Rollout = "OneAtATime", Distinct PROVE Spec => OneSwapAtATime
  OBVIOUS
<1>1. Init => RollInv
  BY InitRoll
<1>2. RollInv /\ DeadlineOnlyWhenDraining /\ [Next]_vars => RollInv'
  BY RollStep
<1>3. RollInv => OneSwapping
  BY FirstIsAlone
<1> QED
  BY <1>1, <1>2, <1>3, PTL DEF Spec, OneSwapAtATime
=============================================================================

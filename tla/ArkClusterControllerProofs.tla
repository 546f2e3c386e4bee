--------------------- MODULE ArkClusterControllerProofs ---------------------
(* Theorems about ArkClusterController, for every value of its constants. *)
EXTENDS ArkClusterController, FiniteSetTheorems, TLAPS

-----------------------------------------------------------------------------
(* The helpers keep the types of their arguments. *)

\* No list of maps names a map twice.
Distinct == \A s \in Specs : \A i, j \in DOMAIN s.maps : s.maps[i] = s.maps[j] => i = j

LEMMA GraceType == Grace \in Nat /\ NoDeadline \in Deadlines /\ Grace \in Deadlines
BY BoundsAssumption DEF Grace, NoDeadline, Deadlines

LEMMA NoStatusType == NoMapStatus \in MapStatus /\ NoStatus \in Status
<1>1. NoMapStatus \in MapStatus
  BY GraceType DEF NoMapStatus, MapStatus, MapPhases
<1>2. NoStatus \in Status
  BY <1>1 DEF NoStatus, Status, ClusterPhases
<1> QED
  BY <1>1, <1>2

LEMMA IdleType == Idle \in Ops
BY NoStatusType, SpecsAssumption DEF Idle, Ops

\* Enter makes the map's entry, gives it an active volume and touches no deadline.
LEMMA EnterType ==
  ASSUME NEW st \in Status, NEW m \in Maps
  PROVE  /\ Enter(st, m) \in Status
         /\ Enter(st, m).maps[m].active \in Volumes
         /\ \A n \in Maps : Enter(st, m).maps[n].deadline = st.maps[n].deadline
<1> DEFINE e == EnsureMapStatus(st, m)
<1>1. e \in Status /\ e.maps = st.maps
  BY DEF EnsureMapStatus, Status
<1>2. Enter(st, m) = [e EXCEPT !.maps[m].active = IF @ = "" THEN "server-a" ELSE @]
  BY DEF Enter
<1>3. e.maps[m] \in MapStatus /\ e.maps \in [Maps -> MapStatus]
  BY <1>1 DEF Status
<1> HIDE DEF e
<1>4. Enter(st, m).maps = [e.maps EXCEPT ![m].active = IF @ = "" THEN "server-a" ELSE @]
  BY <1>1, <1>2 DEF Status
<1>5. Enter(st, m).maps \in [Maps -> MapStatus]
  BY <1>3, <1>4 DEF MapStatus, Volumes
<1>6. Enter(st, m) \in Status
  BY <1>1, <1>2, <1>4, <1>5 DEF Status
<1>7. Enter(st, m).maps[m].active \in Volumes
  BY <1>3, <1>4 DEF MapStatus, Volumes
<1>8. ASSUME NEW n \in Maps PROVE Enter(st, m).maps[n].deadline = st.maps[n].deadline
  <2>1. CASE n # m
    BY <2>1, <1>1, <1>3, <1>4
  <2>2. CASE n = m
    <3>1. Enter(st, m).maps[m] = [e.maps[m] EXCEPT !.active = IF @ = "" THEN "server-a" ELSE @]
      BY <1>3, <1>4
    <3> QED
      BY <2>2, <3>1, <1>1, <1>3 DEF MapStatus
  <2> QED
    BY <2>1, <2>2
<1> QED
  BY <1>6, <1>7, <1>8

\* Set replaces the entry of one map and leaves the others as Enter left them.
LEMMA SetType ==
  ASSUME op \in Ops, NEW m \in Maps, NEW new \in MapStatus
  PROVE  /\ Set(m, new) \in Status
         /\ Set(m, new).maps[m] = new
         /\ \A n \in Maps \ {m} : Set(m, new).maps[n].deadline = op.status.maps[n].deadline
<1>1. op.status \in Status
  BY DEF Ops
<1>2. entry(m) \in Status /\ \A n \in Maps : entry(m).maps[n].deadline = op.status.maps[n].deadline
  BY <1>1, EnterType DEF entry
<1>3. Set(m, new) = [entry(m) EXCEPT !.maps[m] = new]
  BY DEF Set
<1>4. Set(m, new).maps = [entry(m).maps EXCEPT ![m] = new]
  BY <1>2, <1>3 DEF Status
<1>5. Set(m, new).maps \in [Maps -> MapStatus]
  BY <1>2, <1>4 DEF Status
<1>6. Set(m, new) \in Status
  BY <1>2, <1>3, <1>4, <1>5 DEF Status
<1>7. \A n \in Maps \ {m} : Set(m, new).maps[n].deadline = op.status.maps[n].deadline
  BY <1>2, <1>4 DEF Status
<1> QED
  BY <1>2, <1>4, <1>6, <1>7 DEF Status

\* The map's entry in the pass: typed, with an active volume, its deadline as it was read.
LEMMA MapStatusType ==
  ASSUME op \in Ops, NEW m \in Maps
  PROVE  /\ entry(m) \in Status
         /\ \A n \in Maps : entry(m).maps[n].deadline = op.status.maps[n].deadline
         /\ mapStatus(m) \in MapStatus
         /\ mapStatus(m).active \in Volumes
         /\ mapStatus(m).deadline = op.status.maps[m].deadline
<1>1. op.status \in Status
  BY DEF Ops
<1>2. entry(m) \in Status /\ entry(m).maps[m].active \in Volumes
      /\ \A n \in Maps : entry(m).maps[n].deadline = op.status.maps[n].deadline
  BY <1>1, EnterType DEF entry
<1>3. mapStatus(m) \in MapStatus
  BY <1>2 DEF mapStatus, Status
<1> QED
  BY <1>2, <1>3 DEF mapStatus

LEMMA PruneType ==
  ASSUME NEW st \in Status, NEW keep
  PROVE  /\ Prune(st, keep) \in Status
         /\ \A m \in Maps : Prune(st, keep).maps[m].deadline \in {st.maps[m].deadline, NoDeadline}
<1> DEFINE p == Prune(st, keep)
<1>1. p.maps = [m \in Maps |-> IF m \in keep THEN st.maps[m] ELSE NoMapStatus]
  BY DEF Prune, Status
<1>2. p.maps \in [Maps -> MapStatus]
  BY <1>1, NoStatusType DEF Status
<1>3. p \in Status
  BY <1>1, <1>2 DEF Prune, Status
<1>4. \A m \in Maps : p.maps[m].deadline \in {st.maps[m].deadline, NoDeadline}
  <2>1. NoMapStatus.deadline = NoDeadline
    BY DEF NoMapStatus
  <2> QED
    BY <1>1, <2>1
<1> QED
  BY <1>3, <1>4

LEMMA AggregateType ==
  ASSUME NEW st \in Status
  PROVE  Aggregate(st) \in Status /\ Aggregate(st).maps = st.maps
<1> DEFINE running == {m \in st.ids : st.maps[m].phase = "Running"}
           phase == AggregatePhase({st.maps[m].phase : m \in st.ids})
<1>1. Cardinality(running) \in Nat
  <2>1. running \subseteq Maps
    BY DEF Status
  <2> QED
    BY <2>1, MapsAssumption, FS_Subset, FS_CardinalityType
<1>2. phase \in ClusterPhases
  BY DEF AggregatePhase, ClusterPhases
<1>3. Aggregate(st) = [st EXCEPT !.ready = Cardinality(running), !.phase = phase]
  BY DEF Aggregate
<1> HIDE DEF running, phase
<1> QED
  BY <1>1, <1>2, <1>3 DEF Status

\* A tick brings every deadline nearer and keeps the rest.
LEMMA AgedType ==
  ASSUME NEW st \in Status
  PROVE  /\ Aged(st) \in Status
         /\ \A m \in Maps : /\ Aged(st).maps[m].deadline = Sooner(st.maps[m].deadline)
                            /\ Aged(st).maps[m].active = st.maps[m].active
<1>1. \A d \in Deadlines : Sooner(d) \in Deadlines
  BY GraceType DEF Sooner, Deadlines, NoDeadline
<1>2. Aged(st).maps = [m \in Maps |-> [st.maps[m] EXCEPT !.deadline = Sooner(st.maps[m].deadline)]]
  BY DEF Aged, Status
<1>3. ASSUME NEW m \in Maps
      PROVE  /\ Aged(st).maps[m] \in MapStatus
             /\ Aged(st).maps[m].deadline = Sooner(st.maps[m].deadline)
             /\ Aged(st).maps[m].active = st.maps[m].active
  <2>1. st.maps[m] \in MapStatus
    BY DEF Status
  <2>2. Aged(st).maps[m] = [st.maps[m] EXCEPT !.deadline = Sooner(st.maps[m].deadline)]
    BY <1>2
  <2> QED
    BY <2>1, <2>2, <1>1 DEF MapStatus
<1>4. Aged(st).maps \in [Maps -> MapStatus]
  BY <1>2, <1>3
<1>5. Aged(st) = [st EXCEPT !.maps = Aged(st).maps]
  BY <1>2 DEF Aged
<1>6. Aged(st) \in Status
  BY <1>4, <1>5 DEF Status
<1> QED
  BY <1>3, <1>6

\* The hash of a pod the pass may create or look for.
LEMMA HashType ==
  ASSUME op \in Ops, rev \in [Maps -> Revs], NEW m \in Maps, NEW vol \in Volumes,
         op.idx \in DOMAIN op.spec.maps
  PROVE  computePodHash(m, vol) \in Hash /\ computePodHash(m, vol).vol = vol
<1>1. op.spec \in Specs
  BY DEF Ops
<1>2. op.spec.image \in Images /\ op.spec.launch \in Launches
  BY <1>1, SpecsAssumption
<1>3. op.idx \in Indices
  BY <1>1 DEF Indices, MapLists
<1> QED
  BY <1>2, <1>3 DEF computePodHash, PodTemplateHash, Hash


-----------------------------------------------------------------------------
(* The parts of a step keep the types of the variables they assign. *)

PodsType == [Maps -> [Hash -> PodStates]]
JobsType == [Maps -> [Volumes -> [Images -> JobStates]]]
PvcType == [Maps -> {"absent", "bound", "terminating"}]
HistType == [notice : [Maps -> Deadlines], told : [Maps -> 0 .. 2],
             done : [Maps -> {"none", "swapped", "rolledBack"}]]

LEMMA ObserveType ==
  ASSUME cache \in Object, seen \in PodsType, api' \in Object, pods' \in PodsType, Observe
  PROVE  cache' \in Object /\ seen' \in PodsType
BY DEF Observe

LEMMA NextMapType ==
  ASSUME op \in Ops, NEW st \in Status, NextMap(st)
  PROVE  op' \in Ops /\ op'.pc = "map" /\ op'.status = st /\ op'.fresh = op.fresh
<1>1. op.idx + 1 \in Nat
  BY DEF Ops
<1>2. op' = [op EXCEPT !.pc = "map", !.status = st, !.idx = op.idx + 1, !.cur = {}]
  BY DEF NextMap
<1> QED
  BY <1>1, <1>2 DEF Ops

LEMMA PersistType ==
  ASSUME api \in Object, NEW st \in Status, persistStatus(st)
  PROVE  api' \in Object
BY DEF persistStatus, Object

LEMMA PvcEnsured ==
  ASSUME pvc \in PvcType, NEW m \in Maps, EnsurePVCs(m)
  PROVE  /\ pvc' \in PvcType
         /\ \A n \in Maps : pvc'[n] = "terminating" => pvc[n] = "terminating"
BY DEF EnsurePVCs, PvcType

LEMMA JobEnsured ==
  ASSUME jobs \in JobsType, NEW m \in Maps, NEW v \in Volumes, op.spec.image \in Images,
         EnsureInitJob(m, v)
  PROVE  /\ jobs' \in JobsType
         /\ \A n \in Maps, w \in Volumes, i \in Images :
              jobs'[n][w][i] = "Succeeded" => jobs[n][w][i] = "Succeeded"
<1>1. jobs[m] \in [Volumes -> [Images -> JobStates]] /\ jobs[m][v] \in [Images -> JobStates]
  BY DEF JobsType
<1> QED
  BY <1>1 DEF EnsureInitJob, JobsType, JobStates

LEMMA PodEnsured ==
  ASSUME pods \in PodsType, NEW m \in Maps, NEW h \in Hash, ensurePodForMap(m, h)
  PROVE  /\ pods' \in PodsType
         /\ \A n \in Maps, k \in Hash :
              pods'[n][k] \in Live => pods[n][k] \in Live \/ (n = m /\ k = h)
<1>1. pods[m] \in [Hash -> PodStates]
  BY DEF PodsType
<1> QED
  BY <1>1 DEF ensurePodForMap, PodsType, PodStates

LEMMA HistReset ==
  ASSUME hist \in HistType, NEW m \in Maps
  PROVE  [hist EXCEPT !.notice[m] = NoDeadline, !.told[m] = 0] \in HistType
<1>1. 0 \in 0 .. 2 /\ NoDeadline \in Deadlines
  BY GraceType
<1> QED
  BY <1>1 DEF HistType

LEMMA HistDone ==
  ASSUME hist \in HistType, NEW m \in Maps, NEW w \in {"swapped", "rolledBack"}
  PROVE  [hist EXCEPT !.notice[m] = NoDeadline, !.told[m] = 0, !.done[m] = w] \in HistType
<1>1. 0 \in 0 .. 2 /\ NoDeadline \in Deadlines
  BY GraceType
<1> QED
  BY <1>1 DEF HistType

LEMMA MidFlightType ==
  ASSUME NEW st \in Status
  PROVE  MidFlight(st) \in Maps \cup {NoMap}
<1> DEFINE mid == {m \in st.ids : st.maps[m].phase \in MidFlightPhases}
           first == {m \in mid : \A n \in mid \ {m} : <<m, n>> \in st.before}
<1>1. first \subseteq Maps
  BY DEF Status
<1>2. MidFlight(st) = IF Rollout = "Parallel" \/ first = {} THEN NoMap ELSE CHOOSE m \in first : TRUE
  BY DEF MidFlight
<1> HIDE DEF first
<1> QED
  BY <1>1, <1>2


\* What is known of the map whose turn it is.
LEMMA TurnType ==
  ASSUME TypeOK, NEW m \in Maps, op.idx \in DOMAIN op.spec.maps
  PROVE  /\ op.spec.image \in Images
         /\ mapStatus(m) \in MapStatus /\ mapStatus(m).active \in Volumes
         /\ inactive(m) \in Volumes
         /\ entry(m) \in Status
         /\ desiredHash(m) \in Hash /\ desiredHash(m).vol = mapStatus(m).active
<1>1. op \in Ops /\ rev \in [Maps -> Revs]
  BY DEF TypeOK
<1>2. op.spec.image \in Images
  BY <1>1, SpecsAssumption DEF Ops
<1>3. entry(m) \in Status /\ mapStatus(m) \in MapStatus /\ mapStatus(m).active \in Volumes
  BY <1>1, MapStatusType
<1>4. inactive(m) \in Volumes
  BY DEF inactive, otherSide, Volumes
<1>5. desiredHash(m) \in Hash /\ desiredHash(m).vol = mapStatus(m).active
  BY <1>1, <1>3, HashType DEF desiredHash
<1> QED
  BY <1>2, <1>3, <1>4, <1>5

-----------------------------------------------------------------------------
(* TypeOK is inductive. *)

LEMMA InitTypeOK == Init => TypeOK
<1> SUFFICES ASSUME Init PROVE TypeOK
  OBVIOUS
<1>1. api \in Object /\ cache \in Object
  BY NoStatusType, SpecsAssumption DEF Init, Object
<1>2. op \in Ops
  BY IdleType DEF Init
<1>3. hist \in HistType
  BY GraceType DEF Init, HistType
<1>4. pods \in PodsType /\ seen \in PodsType /\ jobs \in JobsType /\ pvc \in PvcType
  BY DEF Init, PodsType, PodStates, JobsType, JobStates, PvcType
<1>5. /\ installed \in [Maps -> SUBSET Volumes] /\ rev \in [Maps -> Revs]
      /\ lag \in SUBSET {"cluster", "pods"}
      /\ edits \in 0 .. MaxEdits /\ faults \in 0 .. MaxFaults
  BY BoundsAssumption DEF Init, Revs
<1> QED
  BY <1>1, <1>2, <1>3, <1>4, <1>5 DEF TypeOK, PodsType, JobsType, PvcType, HistType

\* reconcileMap, the paths that persist nothing.
LEMMA ReconcileMapType ==
  ASSUME TypeOK, NEW m \in Maps, ReconcileMap(m)
  PROVE  /\ TypeOK'
         /\ op'.pc = "map" /\ op'.fresh = op.fresh
         /\ \A n \in Maps : op'.status.maps[n].deadline = op.status.maps[n].deadline
<1> DEFINE e == mapStatus(m)
<1>1. op \in Ops /\ pvc \in PvcType /\ jobs \in JobsType /\ pods \in PodsType /\ hist \in HistType
  BY DEF TypeOK, PvcType, JobsType, PodsType, HistType
<1>2. At(m, "map") /\ op.idx \in DOMAIN op.spec.maps
  BY DEF ReconcileMap, At
<1>3. /\ op.spec.image \in Images /\ e \in MapStatus /\ e.active \in Volumes
      /\ inactive(m) \in Volumes /\ entry(m) \in Status /\ desiredHash(m) \in Hash
  BY <1>2, TurnType
<1>4. pvc' \in PvcType
  BY <1>1, PvcEnsured DEF ReconcileMap
<1>5. \A n \in Maps : entry(m).maps[n].deadline = op.status.maps[n].deadline
  BY <1>1, MapStatusType
<1>6. ASSUME NEW new \in MapStatus, new.deadline = e.deadline, NextMap(Set(m, new))
      PROVE  /\ op' \in Ops /\ op'.pc = "map" /\ op'.fresh = op.fresh
             /\ \A n \in Maps : op'.status.maps[n].deadline = op.status.maps[n].deadline
  <2>1. Set(m, new) \in Status /\ Set(m, new).maps[m] = new
        /\ \A n \in Maps \ {m} : Set(m, new).maps[n].deadline = op.status.maps[n].deadline
    BY <1>1, SetType
  <2>2. op' \in Ops /\ op'.pc = "map" /\ op'.fresh = op.fresh /\ op'.status = Set(m, new)
    BY <1>1, <1>6, <2>1, NextMapType
  <2>3. e.deadline = op.status.maps[m].deadline
    BY <1>1, MapStatusType
  <2> QED
    BY <1>6, <2>1, <2>2, <2>3
<1>7. Settled(m) => hist' \in HistType
  BY <1>1, HistReset DEF Settled
<1>8. SUFFICES /\ op' \in Ops /\ op'.pc = "map" /\ op'.fresh = op.fresh
               /\ \A n \in Maps : op'.status.maps[n].deadline = op.status.maps[n].deadline
               /\ pods' \in PodsType /\ jobs' \in JobsType /\ hist' \in HistType
  <2>1. UNCHANGED <<api, installed, rev, lag, edits, faults>> /\ Observe
    BY DEF ReconcileMap, Quiet
  <2>2. api' \in Object
    BY <2>1 DEF TypeOK
  <2>3. cache' \in Object /\ seen' \in PodsType
    BY <1>8, <2>1, <2>2, ObserveType DEF TypeOK, PodsType
  <2> QED
    BY <1>4, <1>8, <2>1, <2>2, <2>3 DEF TypeOK, PodsType, JobsType, PvcType, HistType
<1> USE DEF MapPhases, Conditions
<1>9. CASE FirstInstall(m)
  <2>1. jobs' \in JobsType
    BY <1>1, <1>3, <1>9, JobEnsured DEF FirstInstall
  <2>2. NextMap(Set(m, [e EXCEPT !.phase = "InstallingActive"])) /\ UNCHANGED <<pods, hist>>
    BY <1>9 DEF FirstInstall
  <2>3. [e EXCEPT !.phase = "InstallingActive"] \in MapStatus
        /\ [e EXCEPT !.phase = "InstallingActive"].deadline = e.deadline
    BY <1>3 DEF MapStatus
  <2> QED
    BY <1>1, <1>6, <2>1, <2>2, <2>3
<1>10. CASE FirstInstallFailed(m) \/ RollInstallFailed(m)
  <2> DEFINE new == [e EXCEPT !.phase = "Failed", !.conds = e.conds \cup {"InstallFailed"}]
  <2>1. NextMap(Set(m, new)) /\ UNCHANGED <<pods, jobs, hist>>
    BY <1>10 DEF FirstInstallFailed, RollInstallFailed
  <2>2. new \in MapStatus /\ new.deadline = e.deadline
    BY <1>3 DEF MapStatus
  <2> QED
    BY <1>1, <1>6, <2>1, <2>2
<1>11. CASE FirstPod(m)
  <2>1. pods' \in PodsType
    BY <1>1, <1>3, <1>11, PodEnsured DEF FirstPod
  <2>2. NextMap(Set(m, [e EXCEPT !.phase = "Provisioning"])) /\ UNCHANGED jobs /\ Settled(m)
    BY <1>11 DEF FirstPod
  <2>3. [e EXCEPT !.phase = "Provisioning"] \in MapStatus
        /\ [e EXCEPT !.phase = "Provisioning"].deadline = e.deadline
    BY <1>3 DEF MapStatus
  <2> QED
    BY <1>1, <1>6, <1>7, <2>1, <2>2, <2>3
<1>12. CASE SteadyCrashLooping(m) \/ SteadyWarming(m)
  <2> DEFINE new == [e EXCEPT !.conds = e.conds \ {"PodReady"}]
  <2>1. NextMap(Set(m, new)) /\ UNCHANGED <<pods, jobs>> /\ Settled(m)
    BY <1>12 DEF SteadyCrashLooping, SteadyWarming
  <2>2. new \in MapStatus /\ new.deadline = e.deadline
    BY <1>3 DEF MapStatus
  <2> QED
    BY <1>1, <1>6, <1>7, <2>1, <2>2
<1>13. CASE SteadyReady(m)
  <2> DEFINE new == [e EXCEPT !.phase = "Running", !.lastGood = e.active,
                              !.conds = e.conds \cup {"PodReady"}]
  <2>1. NextMap(Set(m, new)) /\ UNCHANGED <<pods, jobs>> /\ Settled(m)
    BY <1>13 DEF SteadyReady
  <2>2. new \in MapStatus /\ new.deadline = e.deadline
    BY <1>3 DEF MapStatus
  <2> QED
    BY <1>1, <1>6, <1>7, <2>1, <2>2
<1>14. CASE HoldBack(m)
  <2>1. NextMap(entry(m)) /\ UNCHANGED <<pods, jobs, hist>>
    BY <1>14 DEF HoldBack
  <2>2. op' \in Ops /\ op'.pc = "map" /\ op'.fresh = op.fresh /\ op'.status = entry(m)
    BY <1>1, <1>3, <2>1, NextMapType
  <2> QED
    BY <1>1, <1>5, <2>1, <2>2
<1>15. CASE RollInstall(m)
  <2>1. jobs' \in JobsType
    BY <1>1, <1>3, <1>15, JobEnsured DEF RollInstall
  <2>2. NextMap(Set(m, [e EXCEPT !.phase = "InstallingInactive"])) /\ UNCHANGED <<pods, hist>>
    BY <1>15 DEF RollInstall
  <2>3. [e EXCEPT !.phase = "InstallingInactive"] \in MapStatus
        /\ [e EXCEPT !.phase = "InstallingInactive"].deadline = e.deadline
    BY <1>3 DEF MapStatus
  <2> QED
    BY <1>1, <1>6, <2>1, <2>2, <2>3
<1>16. CASE WaitDrain(m)
  <2>1. NextMap(Set(m, [e EXCEPT !.phase = "DrainingActive"])) /\ UNCHANGED <<pods, jobs, hist>>
    BY <1>16 DEF WaitDrain
  <2>2. [e EXCEPT !.phase = "DrainingActive"] \in MapStatus
        /\ [e EXCEPT !.phase = "DrainingActive"].deadline = e.deadline
    BY <1>3 DEF MapStatus
  <2> QED
    BY <1>1, <1>6, <2>1, <2>2
<1> QED
  BY <1>9, <1>10, <1>11, <1>12, <1>13, <1>14, <1>15, <1>16 DEF ReconcileMap


\* The three steps that persist a status and go on to a world action.
LEMMA PersistingType ==
  ASSUME TypeOK, NEW m \in Maps, StartDrain(m) \/ CommitSwap(m) \/ Rollback(m)
  PROVE  TypeOK'
<1> DEFINE e == mapStatus(m)
<1>1. /\ op \in Ops /\ pvc \in PvcType /\ pods \in PodsType /\ hist \in HistType
      /\ api \in Object /\ cache \in Object /\ seen \in PodsType
  BY DEF TypeOK, PvcType, PodsType, HistType
<1>2. op.idx \in DOMAIN op.spec.maps
  BY DEF StartDrain, CommitSwap, Rollback, At
<1>3. /\ e \in MapStatus /\ e.active \in Volumes
      /\ inactive(m) \in Volumes /\ entry(m) \in Status /\ desiredHash(m) \in Hash
  BY <1>2, TurnType
<1>4. pvc' \in PvcType
  BY <1>1, PvcEnsured DEF StartDrain, CommitSwap, Rollback
<1>5. UNCHANGED <<jobs, installed, rev, lag, edits, faults>> /\ Observe
  BY DEF StartDrain, CommitSwap, Rollback
<1>6. SUFFICES api' \in Object /\ op' \in Ops /\ pods' \in PodsType /\ hist' \in HistType
  <2>1. cache' \in Object /\ seen' \in PodsType
    BY <1>1, <1>5, <1>6, ObserveType
  <2> QED
    BY <1>4, <1>5, <1>6, <2>1 DEF TypeOK, PodsType, PvcType, HistType
<1> USE DEF MapPhases, Conditions
<1>7. CASE StartDrain(m)
  <2> DEFINE new == [e EXCEPT !.deadline = Grace, !.phase = "DrainingActive"]
  <2>1. new \in MapStatus
    BY <1>3, GraceType DEF MapStatus
  <2>2. Set(m, new) \in Status
    BY <1>1, <2>1, SetType
  <2>3. api' \in Object
    BY <1>1, <1>7, <2>2, PersistType DEF StartDrain
  <2>4. op' = [op EXCEPT !.pc = "announce", !.status = Set(m, new)] \/ NextMap(Set(m, new))
    BY <1>7 DEF StartDrain
  <2>5. op' \in Ops
    BY <1>1, <2>2, <2>4, NextMapType DEF Ops
  <2>6. hist' \in HistType /\ pods' \in PodsType
    BY <1>1, <1>7, GraceType DEF StartDrain, HistType
  <2> QED
    BY <2>3, <2>5, <2>6
<1>8. CASE CommitSwap(m)
  <2> DEFINE new == [e EXCEPT !.active = inactive(m), !.deadline = NoDeadline, !.phase = "Swapping"]
  <2>1. new \in MapStatus
    BY <1>3, GraceType DEF MapStatus
  <2>2. Set(m, new) \in Status
    BY <1>1, <2>1, SetType
  <2>3. api' \in Object
    BY <1>1, <1>8, <2>2, PersistType DEF CommitSwap
  <2>4. PICK h \in livePods(m) : /\ op' = [op EXCEPT !.pc = "delete", !.status = Set(m, new), !.cur = {h}]
                                 /\ SaveAndExit(m, h)
    BY <1>8 DEF CommitSwap
  <2>5. h \in Hash
    BY <2>4 DEF livePods
  <2>6. op' \in Ops
    BY <1>1, <2>2, <2>4, <2>5 DEF Ops
  <2>7. pods' \in PodsType
    BY <1>1, <2>4, <2>5 DEF SaveAndExit, PodsType, PodStates
  <2>8. hist' \in HistType
    BY <1>1, <1>8, HistDone DEF CommitSwap
  <2> QED
    BY <2>3, <2>6, <2>7, <2>8
<1>9. CASE Rollback(m)
  <2> DEFINE new == [e EXCEPT !.active = e.lastGood, !.conds = e.conds \cup {"RollbackOccurred"}]
  <2>1. new \in MapStatus
    BY <1>3 DEF MapStatus
  <2>2. Set(m, new) \in Status
    BY <1>1, <2>1, SetType
  <2>3. api' \in Object
    BY <1>1, <1>9, <2>2, PersistType DEF Rollback
  <2>4. op' = [op EXCEPT !.pc = "discard", !.status = Set(m, new), !.cur = {desiredHash(m)}]
    BY <1>9 DEF Rollback
  <2>5. op' \in Ops
    BY <1>1, <1>3, <2>2, <2>4 DEF Ops
  <2>6. hist' \in HistType /\ pods' \in PodsType
    BY <1>1, <1>9, HistDone DEF Rollback
  <2> QED
    BY <2>3, <2>5, <2>6
<1> QED
  BY <1>7, <1>8, <1>9

\* Every other step of a pass.
LEMMA PassType ==
  ASSUME TypeOK, Pass
  PROVE  TypeOK'
<1>1. /\ op \in Ops /\ pvc \in PvcType /\ pods \in PodsType /\ hist \in HistType
      /\ api \in Object /\ cache \in Object /\ seen \in PodsType /\ rev \in [Maps -> Revs]
      /\ op.status \in Status
  BY DEF TypeOK, PvcType, PodsType, HistType, Ops
<1>2. CASE Begin
  <2>1. cache.spec \in Specs /\ cache.status \in Status
    BY <1>1 DEF Object
  <2>2. MidFlight(cache.status) \in Maps \cup {NoMap}
    BY <2>1, MidFlightType
  <2>3. op' \in Ops
    BY <1>2, <2>1, <2>2 DEF Begin, Ops
  <2>4. UNCHANGED <<api, pods, jobs, pvc, installed, rev, lag, edits, faults, hist>> /\ Observe
    BY <1>2 DEF Begin, world
  <2>5. cache' \in Object /\ seen' \in PodsType
    BY <1>1, <2>4, ObserveType
  <2> QED
    BY <2>3, <2>4, <2>5 DEF TypeOK, PodsType
<1>3. ASSUME NEW m \in Maps, ReconcileMap(m) PROVE TypeOK'
  BY <1>3, ReconcileMapType
<1>4. ASSUME NEW m \in Maps, StartDrain(m) \/ CommitSwap(m) \/ Rollback(m) PROVE TypeOK'
  BY <1>4, PersistingType
<1>5. ASSUME NEW m \in Maps, Announce(m) PROVE TypeOK'
  <2>1. op' \in Ops
    BY <1>1, <1>5, NextMapType DEF Announce
  <2>2. hist' \in HistType
    BY <1>1, <1>5 DEF Announce, HistType
  <2>3. UNCHANGED <<api, pods, jobs, pvc, installed, rev, lag, edits, faults>> /\ Observe
    BY <1>5 DEF Announce, world
  <2>4. cache' \in Object /\ seen' \in PodsType
    BY <1>1, <2>3, ObserveType
  <2> QED
    BY <2>1, <2>2, <2>3, <2>4 DEF TypeOK, PodsType, HistType
<1>6. ASSUME NEW m \in Maps, DeleteOld(m) \/ CreateNew(m) \/ DiscardBad(m) PROVE TypeOK'
  <2>1. UNCHANGED <<api, jobs, pvc, installed, rev, lag, edits, faults, hist>> /\ Observe
    BY <1>6 DEF DeleteOld, CreateNew, DiscardBad
  <2>2. op.idx \in DOMAIN op.spec.maps
    BY <1>6 DEF DeleteOld, CreateNew, DiscardBad, At
  <2>3. op' \in Ops
    <3>1. CASE DeleteOld(m)
      BY <1>1, <3>1 DEF DeleteOld, Ops
    <3>2. CASE CreateNew(m) \/ DiscardBad(m)
      BY <1>1, <3>2, NextMapType DEF CreateNew, DiscardBad
    <3> QED
      BY <1>6, <3>1, <3>2
  <2>4. pods' \in PodsType
    <3>1. CASE DeleteOld(m)
      BY <1>1, <3>1 DEF DeleteOld, PodsType, PodStates
    <3>2. CASE DiscardBad(m)
      BY <1>1, <3>2 DEF DiscardBad, PodsType, PodStates
    <3>3. CASE CreateNew(m)
      <4>1. pods' = [pods EXCEPT ![m][computePodHash(m, op.status.maps[m].active)] =
                                   IF @ = "none" THEN "starting" ELSE @]
        BY <3>3 DEF CreateNew, ensurePodForMap
      <4> QED
        BY <1>1, <4>1 DEF PodsType, PodStates
    <3> QED
      BY <1>6, <3>1, <3>2, <3>3
  <2>5. cache' \in Object /\ seen' \in PodsType
    BY <1>1, <2>1, <2>4, ObserveType
  <2> QED
    BY <2>1, <2>3, <2>4, <2>5 DEF TypeOK, PodsType
<1>7. CASE gcOrphanedMaps
  <2>1. Aggregate(Prune(op.status, specMaps)) \in Status
    BY <1>1, PruneType, AggregateType
  <2>2. op' \in Ops
    BY <1>1, <1>7, <2>1 DEF gcOrphanedMaps, Wrap, Ops
  <2>3. pods' \in PodsType /\ pvc' \in PvcType
    BY <1>1, <1>7 DEF gcOrphanedMaps, PodsType, PodStates, PvcType
  <2>4. rev' \in [Maps -> Revs]
    BY <1>1, <1>7, BoundsAssumption DEF gcOrphanedMaps, NextRev, Revs
  <2>5. UNCHANGED <<api, jobs, installed, lag, edits, faults, hist>> /\ Observe
    BY <1>7 DEF gcOrphanedMaps
  <2>6. cache' \in Object /\ seen' \in PodsType
    BY <1>1, <2>3, <2>5, ObserveType
  <2> QED
    BY <2>2, <2>3, <2>4, <2>5, <2>6 DEF TypeOK, PodsType, PvcType
<1>8. CASE Publish
  <2>1. api' \in Object
    BY <1>1, <1>8, PersistType DEF Publish
  <2>2. op' \in Ops
    BY <1>8, IdleType DEF Publish
  <2>3. UNCHANGED <<pods, jobs, pvc, installed, rev, lag, edits, faults, hist>> /\ Observe
    BY <1>8 DEF Publish, world
  <2>4. cache' \in Object /\ seen' \in PodsType
    BY <1>1, <2>1, <2>3, ObserveType
  <2> QED
    BY <2>1, <2>2, <2>3, <2>4 DEF TypeOK, PodsType
<1> QED
  BY <1>2, <1>3, <1>4, <1>5, <1>6, <1>7, <1>8 DEF Pass


LEMMA ClusterType ==
  ASSUME TypeOK, Cluster
  PROVE  TypeOK'
<1>1. /\ pods \in PodsType /\ jobs \in JobsType /\ pvc \in PvcType
      /\ api \in Object /\ cache \in Object /\ seen \in PodsType
      /\ installed \in [Maps -> SUBSET Volumes]
  BY DEF TypeOK, PvcType, PodsType, JobsType
<1>2. ASSUME NEW m \in Maps, NEW h \in Hash, NEW st \in PodStates, SetPod(m, h, st)
      PROVE  TypeOK'
  <2>1. pods' \in PodsType
    BY <1>1, <1>2 DEF SetPod, PodsType
  <2>2. UNCHANGED <<api, jobs, pvc, installed, rev, op, lag, edits, faults, hist>> /\ Observe
    BY <1>2 DEF SetPod
  <2>3. cache' \in Object /\ seen' \in PodsType
    BY <1>1, <2>1, <2>2, ObserveType
  <2> QED
    BY <2>1, <2>2, <2>3 DEF TypeOK, PodsType
<1>3. ASSUME NEW m \in Maps, NEW v \in Volumes, NEW i \in Images, NEW st \in JobStates,
             SetJob(m, v, i, st), installed' \in [Maps -> SUBSET Volumes]
      PROVE  TypeOK'
  <2>1. jobs' \in JobsType
    BY <1>1, <1>3 DEF SetJob, JobsType
  <2>2. UNCHANGED <<api, pods, pvc, rev, op, lag, edits, faults, hist>> /\ Observe
    BY <1>3 DEF SetJob
  <2>3. cache' \in Object /\ seen' \in PodsType
    BY <1>1, <2>2, ObserveType
  <2> QED
    BY <1>3, <2>1, <2>2, <2>3 DEF TypeOK, PodsType, JobsType
<1>4. ASSUME NEW m \in Maps, NEW h \in Hash,
             PodBecomesReady(m, h) \/ PodCrashLoops(m, h) \/ PodEvicted(m, h) \/ PodGone(m, h)
      PROVE  TypeOK'
  BY <1>2, <1>4 DEF PodBecomesReady, PodCrashLoops, PodEvicted, PodGone, PodStates
<1>5. ASSUME NEW m \in Maps, NEW v \in Volumes, NEW i \in Images,
             JobSucceeds(m, v, i) \/ JobFails(m, v, i) \/ JobExpires(m, v, i)
      PROVE  TypeOK'
  <2>1. installed' \in [Maps -> SUBSET Volumes]
    BY <1>1, <1>5 DEF JobSucceeds, JobFails, JobExpires
  <2> QED
    BY <1>3, <1>5, <2>1 DEF JobSucceeds, JobFails, JobExpires, JobStates
<1>6. ASSUME NEW m \in Maps, PVCReleased(m)
      PROVE  TypeOK'
  <2>1. pvc' \in PvcType /\ installed' \in [Maps -> SUBSET Volumes]
    BY <1>1, <1>6 DEF PVCReleased, PvcType
  <2>2. UNCHANGED <<api, pods, jobs, rev, op, lag, edits, faults, hist>> /\ Observe
    BY <1>6 DEF PVCReleased
  <2>3. cache' \in Object /\ seen' \in PodsType
    BY <1>1, <2>2, ObserveType
  <2> QED
    BY <2>1, <2>2, <2>3 DEF TypeOK, PodsType, PvcType
<1> QED
  BY <1>4, <1>5, <1>6 DEF Cluster

LEMMA WrapType ==
  ASSUME TypeOK, Wrap
  PROVE  op' \in Ops
<1>1. op \in Ops /\ op.status \in Status
  BY DEF TypeOK, Ops
<1>2. Aggregate(Prune(op.status, specMaps)) \in Status
  BY <1>1, PruneType, AggregateType
<1> QED
  BY <1>1, <1>2 DEF Wrap, Ops

LEMMA UserType ==
  ASSUME TypeOK, EditSpec \/ \E m \in Maps : EditConfig(m)
  PROVE  TypeOK'
<1>1. /\ pods \in PodsType /\ api \in Object /\ cache \in Object /\ seen \in PodsType
      /\ op \in Ops /\ hist \in HistType /\ rev \in [Maps -> Revs]
  BY DEF TypeOK, PodsType, HistType
<1>2. edits' \in 0 .. MaxEdits
  BY BoundsAssumption DEF TypeOK, EditSpec, EditConfig
<1>3. CASE EditSpec
  <2>1. api' \in Object
    BY <1>1, <1>3 DEF EditSpec, Object
  <2>2. op' \in Ops
    BY <1>1, <1>3 DEF EditSpec, Outdate, Ops
  <2>3. hist' \in HistType
    BY <1>1, <1>3 DEF EditSpec, HistType
  <2>4. UNCHANGED <<pods, jobs, pvc, installed, rev, lag, faults>> /\ Observe
    BY <1>3 DEF EditSpec, world
  <2>5. cache' \in Object /\ seen' \in PodsType
    BY <1>1, <2>1, <2>4, ObserveType
  <2> QED
    BY <1>2, <2>1, <2>2, <2>3, <2>4, <2>5 DEF TypeOK, PodsType, HistType
<1>4. ASSUME NEW m \in Maps, EditConfig(m) PROVE TypeOK'
  <2>1. rev' \in [Maps -> Revs]
    BY <1>1, <1>4, BoundsAssumption DEF EditConfig, NextRev, Revs
  <2>2. hist' \in HistType
    BY <1>1, <1>4 DEF EditConfig, HistType
  <2>3. UNCHANGED <<api, pods, jobs, pvc, installed, op, lag, faults>> /\ Observe
    BY <1>4 DEF EditConfig
  <2>4. cache' \in Object /\ seen' \in PodsType
    BY <1>1, <2>3, ObserveType
  <2> QED
    BY <1>2, <2>1, <2>2, <2>3, <2>4 DEF TypeOK, PodsType, HistType
<1> QED
  BY <1>3, <1>4

LEMMA FaultType ==
  ASSUME TypeOK, ForeignWrite \/ Crash \/ Abort \/ DeleteFails \/ FallBehind \/ CatchUp
  PROVE  TypeOK'
<1>1. /\ pods \in PodsType /\ api \in Object /\ cache \in Object /\ seen \in PodsType
      /\ op \in Ops /\ op.status \in Status
  BY DEF TypeOK, PodsType, Ops
<1>2. UNCHANGED <<api, pods, jobs, pvc, installed, rev, edits, hist>> /\ Observe
  BY DEF ForeignWrite, Crash, Abort, DeleteFails, FallBehind, CatchUp, Fault, world
<1>3. faults' \in 0 .. MaxFaults
  BY BoundsAssumption DEF TypeOK, ForeignWrite, Crash, Abort, DeleteFails, FallBehind, CatchUp, Fault
<1>4. lag' \in SUBSET {"cluster", "pods"}
  BY DEF TypeOK, ForeignWrite, Crash, Abort, DeleteFails, FallBehind, CatchUp
<1>5. op' \in Ops
  <2>1. CASE ForeignWrite
    BY <1>1, <2>1 DEF ForeignWrite, Outdate, Ops
  <2>2. CASE Crash \/ Abort
    BY <2>2, IdleType DEF Crash, Abort
  <2>3. CASE DeleteFails
    <3>1. CASE op' = [op EXCEPT !.pc = "create", !.cur = {}]
      BY <1>1, <3>1 DEF Ops
    <3>2. CASE NextMap(op.status)
      BY <1>1, <3>2, NextMapType
    <3>3. CASE Wrap
      BY <3>3, WrapType
    <3> QED
      BY <2>3, <3>1, <3>2, <3>3 DEF DeleteFails
  <2>4. CASE FallBehind \/ CatchUp
    BY <1>1, <2>4 DEF FallBehind, CatchUp
  <2> QED
    BY <2>1, <2>2, <2>3, <2>4
<1>6. cache' \in Object /\ seen' \in PodsType
  BY <1>1, <1>2, ObserveType
<1> QED
  BY <1>2, <1>3, <1>4, <1>5, <1>6 DEF TypeOK, PodsType

\* A swap lost after SaveAndExit: at most one ready pod restarts, and the pass is forgotten.
LEMMA SwapLostFacts ==
  ASSUME TypeOK, NEW m \in Maps, SwapLost(m)
  PROVE  /\ op.pc = "map" /\ op' = Idle /\ Observe
         /\ UNCHANGED <<api, jobs, pvc, installed, rev, edits, hist>>
         /\ faults' \in 0 .. MaxFaults /\ lag' \in SUBSET {"cluster", "pods"}
         /\ pods' \in PodsType
         /\ \A n \in Maps, k \in Hash :
              pods'[n][k] = pods[n][k] \/ (pods[n][k] = "ready" /\ pods'[n][k] = "starting")
<1>1. pods \in PodsType /\ faults \in 0 .. MaxFaults /\ lag \in SUBSET {"cluster", "pods"}
  BY DEF TypeOK, PodsType
<1>2. /\ op.pc = "map" /\ op' = Idle /\ Observe
      /\ UNCHANGED <<api, jobs, pvc, installed, rev, edits, hist>>
      /\ faults > 0 /\ faults' = faults - 1 /\ (lag' = {} \/ lag' = lag)
  BY DEF SwapLost, Fault, At
<1>3. PICK h \in livePods(m) : SaveAndExit(m, h)
  BY DEF SwapLost
<1>4. h \in Hash
  BY <1>3 DEF livePods
<1>5. pods' = pods \/ pods' = [pods EXCEPT ![m][h] = IF @ = "ready" THEN "starting" ELSE @]
  BY <1>3 DEF SaveAndExit
<1>6. pods' \in PodsType
  BY <1>1, <1>4, <1>5 DEF PodsType, PodStates
<1>7. \A n \in Maps, k \in Hash :
        pods'[n][k] = pods[n][k] \/ (pods[n][k] = "ready" /\ pods'[n][k] = "starting")
  BY <1>1, <1>4, <1>5 DEF PodsType
<1>8. faults' \in 0 .. MaxFaults
  BY <1>1, <1>2, BoundsAssumption
<1>9. lag' \in SUBSET {"cluster", "pods"}
  BY <1>1, <1>2
<1> QED
  BY <1>2, <1>6, <1>7, <1>8, <1>9

\* A Job that cannot be read: the pass goes on, and only the map's phase and conditions change.
LEMMA JobUnreadFacts ==
  ASSUME TypeOK, NEW m \in Maps, JobUnread(m)
  PROVE  /\ op.pc = "map" /\ op' \in Ops /\ op'.pc = "map" /\ op'.fresh = op.fresh /\ Observe
         /\ \A n \in Maps : op'.status.maps[n].deadline = op.status.maps[n].deadline
         /\ UNCHANGED <<api, pods, jobs, pvc, installed, rev, lag, edits, hist>>
         /\ faults' \in 0 .. MaxFaults
<1> DEFINE new == [mapStatus(m) EXCEPT !.phase = "Failed",
                                       !.conds = mapStatus(m).conds \cup {"InstallFailed"}]
<1>1. op \in Ops /\ faults \in 0 .. MaxFaults
  BY DEF TypeOK
<1>2. /\ op.pc = "map" /\ NextMap(Set(m, new)) /\ Observe
      /\ UNCHANGED <<api, pods, jobs, pvc, installed, rev, lag, edits, hist>>
      /\ faults > 0 /\ faults' = faults - 1
  BY DEF JobUnread, Fault, At
<1>3. mapStatus(m) \in MapStatus /\ mapStatus(m).deadline = op.status.maps[m].deadline
  BY <1>1, MapStatusType
<1>4. new \in MapStatus /\ new.deadline = mapStatus(m).deadline
  BY <1>3 DEF MapStatus, MapPhases, Conditions
<1> HIDE DEF new
<1>5. Set(m, new) \in Status /\ Set(m, new).maps[m] = new
      /\ \A n \in Maps \ {m} : Set(m, new).maps[n].deadline = op.status.maps[n].deadline
  BY <1>1, <1>4, SetType
<1>6. op' \in Ops /\ op'.pc = "map" /\ op'.fresh = op.fresh /\ op'.status = Set(m, new)
  BY <1>1, <1>2, <1>5, NextMapType
<1>7. \A n \in Maps : op'.status.maps[n].deadline = op.status.maps[n].deadline
  BY <1>3, <1>4, <1>5, <1>6
<1>8. faults' \in 0 .. MaxFaults
  BY <1>1, <1>2, BoundsAssumption
<1> QED
  BY <1>2, <1>6, <1>7, <1>8

LEMMA PassFaultType ==
  ASSUME TypeOK, NEW m \in Maps, SwapLost(m) \/ JobUnread(m)
  PROVE  TypeOK'
<1>1. pods \in PodsType /\ api \in Object /\ cache \in Object /\ seen \in PodsType
  BY DEF TypeOK, PodsType
<1>2. CASE SwapLost(m)
  <2>1. op' \in Ops /\ pods' \in PodsType
    BY <1>2, SwapLostFacts, IdleType
  <2>2. /\ Observe /\ UNCHANGED <<api, jobs, pvc, installed, rev, edits, hist>>
        /\ faults' \in 0 .. MaxFaults /\ lag' \in SUBSET {"cluster", "pods"}
    BY <1>2, SwapLostFacts
  <2>3. cache' \in Object /\ seen' \in PodsType
    BY <1>1, <2>1, <2>2, ObserveType
  <2> QED
    BY <2>1, <2>2, <2>3 DEF TypeOK, PodsType
<1>3. CASE JobUnread(m)
  <2>1. /\ Observe /\ UNCHANGED <<api, pods, jobs, pvc, installed, rev, lag, edits, hist>>
        /\ faults' \in 0 .. MaxFaults /\ op' \in Ops
    BY <1>3, JobUnreadFacts
  <2>2. cache' \in Object /\ seen' \in PodsType
    BY <1>1, <2>1, ObserveType
  <2> QED
    BY <2>1, <2>2 DEF TypeOK, PodsType
<1> QED
  BY <1>2, <1>3

LEMMA TickType ==
  ASSUME TypeOK, Tick
  PROVE  TypeOK'
<1>1. /\ api \in Object /\ cache \in Object /\ op \in Ops /\ hist \in HistType
      /\ api.status \in Status /\ cache.status \in Status /\ op.status \in Status
  BY DEF TypeOK, Object, Ops, HistType
<1>2. Aged(api.status) \in Status /\ Aged(cache.status) \in Status /\ Aged(op.status) \in Status
  BY <1>1, AgedType
<1>3. api' \in Object /\ cache' \in Object /\ op' \in Ops
  BY <1>1, <1>2 DEF Tick, Object, Ops
<1>4. \A d \in Deadlines : Sooner(d) \in Deadlines
  BY GraceType DEF Sooner, Deadlines, NoDeadline
<1>5. hist' \in HistType
  BY <1>1, <1>4 DEF Tick, HistType
<1>6. UNCHANGED <<pods, jobs, pvc, installed, rev, seen, lag, edits, faults>>
  BY DEF Tick, world
<1> QED
  BY <1>3, <1>5, <1>6 DEF TypeOK, HistType

LEMMA NextTypeOK == TypeOK /\ [Next]_vars => TypeOK'
<1> SUFFICES ASSUME TypeOK, [Next]_vars PROVE TypeOK'
  OBVIOUS
<1>1. CASE Pass
  BY <1>1, PassType
<1>2. CASE Cluster
  BY <1>2, ClusterType
<1>3. CASE EditSpec \/ \E m \in Maps : EditConfig(m)
  BY <1>3, UserType
<1>4. CASE ForeignWrite \/ Crash \/ Abort \/ DeleteFails \/ FallBehind \/ CatchUp
  BY <1>4, FaultType
<1>5. CASE Tick
  BY <1>5, TickType
<1>6. CASE UNCHANGED vars
  BY <1>6 DEF TypeOK, vars
<1>7. ASSUME NEW m \in Maps, SwapLost(m) \/ JobUnread(m) PROVE TypeOK'
  BY <1>7, PassFaultType
<1> QED
  BY <1>1, <1>2, <1>3, <1>4, <1>5, <1>6, <1>7 DEF Next

\* Type correctness: whatever faults, races and mishaps occur, the reconciler only ever builds
\* and publishes well-formed statuses and names pods by hashes of specs users wrote.
THEOREM Typing == Spec => []TypeOK
<1>1. Init => TypeOK
  BY InitTypeOK
<1>2. TypeOK /\ [Next]_vars => TypeOK'
  BY NextTypeOK
<1> QED
  BY <1>1, <1>2, PTL DEF Spec


-----------------------------------------------------------------------------
(***************************************************************************)
(* DeadlineNeverExtended.  Optimistic concurrency is what makes it true: a *)
(* pass that may still write (op.fresh) holds the deadlines that are in    *)
(* the API, because every change it makes to one is persisted at once; the *)
(* prune, which only clears, comes right before the last write.            *)
(***************************************************************************)

DeadlineInv ==
  op.fresh => \A m \in Maps :
    \/ op.status.maps[m].deadline = api.status.maps[m].deadline
    \/ op.pc = "publish" /\ op.status.maps[m].deadline = NoDeadline

\* A pass that persists a status in which some deadlines were set or cleared.
LEMMA PersistDeadlines ==
  ASSUME TypeOK, DeadlineInv, op.pc = "map", NEW st \in Status, persistStatus(st),
         op'.status = st, op'.fresh = op.fresh,
         \A n \in Maps : \/ st.maps[n].deadline = op.status.maps[n].deadline
                         \/ st.maps[n].deadline = NoDeadline
                         \/ op.status.maps[n].deadline = NoDeadline
  PROVE  DeadlineInv' /\ NotExtended
<1>1. \A n \in Maps : api.status.maps[n].deadline \in Deadlines
  BY DEF TypeOK, Object, Status, MapStatus
<1>2. CASE op.fresh
  <2>1. api'.status = st
    BY <1>2 DEF persistStatus, TypeOK, Object
  <2>2. \A n \in Maps : op.status.maps[n].deadline = api.status.maps[n].deadline
    BY <1>2 DEF DeadlineInv
  <2>3. DeadlineInv'
    BY <2>1 DEF DeadlineInv
  <2>4. NotExtended
    BY <1>1, <2>1, <2>2 DEF NotExtended, Deadlines, NoDeadline
  <2> QED
    BY <2>3, <2>4
<1>3. CASE ~op.fresh
  <2>1. api' = api
    BY <1>3 DEF persistStatus
  <2> QED
    BY <1>1, <1>3, <2>1, GraceType DEF DeadlineInv, NotExtended, Deadlines, NoDeadline
<1> QED
  BY <1>2, <1>3

\* A step that leaves the API's deadlines and the pass's alone.
LEMMA SameDeadlines ==
  ASSUME TypeOK, DeadlineInv, api'.status = api.status,
         \/ ~op'.fresh
         \/ /\ op'.fresh = op.fresh /\ op.pc # "publish"
            /\ \A n \in Maps : \/ op'.status.maps[n].deadline = op.status.maps[n].deadline
                               \/ op'.pc = "publish" /\ op'.status.maps[n].deadline = NoDeadline
         \/ op' = op
  PROVE  DeadlineInv' /\ NotExtended
<1>1. \A n \in Maps : api.status.maps[n].deadline \in Deadlines
  BY DEF TypeOK, Object, Status, MapStatus
<1>2. NotExtended
  BY <1>1, GraceType DEF NotExtended, Deadlines, NoDeadline
<1>3. DeadlineInv'
  BY DEF DeadlineInv
<1> QED
  BY <1>2, <1>3

LEMMA WrapDeadlines ==
  ASSUME TypeOK, Wrap
  PROVE  /\ op'.fresh = op.fresh /\ op.pc # "publish" /\ op'.pc = "publish"
         /\ \A n \in Maps : op'.status.maps[n].deadline \in {op.status.maps[n].deadline, NoDeadline}
<1>1. op \in Ops /\ op.status \in Status
  BY DEF TypeOK, Ops
<1>2. op' = [op EXCEPT !.pc = "publish", !.status = Aggregate(Prune(op.status, specMaps))] /\ op.pc = "map"
  BY DEF Wrap
<1>3. Prune(op.status, specMaps) \in Status
      /\ \A n \in Maps : Prune(op.status, specMaps).maps[n].deadline \in {op.status.maps[n].deadline, NoDeadline}
  BY <1>1, PruneType
<1>4. Aggregate(Prune(op.status, specMaps)).maps = Prune(op.status, specMaps).maps
  BY <1>3, AggregateType
<1>5. op'.status = Aggregate(Prune(op.status, specMaps)) /\ op'.fresh = op.fresh /\ op'.pc = "publish"
  BY <1>1, <1>2 DEF Ops
<1> QED
  BY <1>2, <1>3, <1>4, <1>5

LEMMA DrainDeadlines ==
  ASSUME TypeOK, DeadlineInv, NEW m \in Maps, StartDrain(m) \/ CommitSwap(m) \/ Rollback(m)
  PROVE  DeadlineInv' /\ NotExtended
<1> DEFINE e == mapStatus(m)
<1>1. op \in Ops
  BY DEF TypeOK
<1>2. op.pc = "map" /\ op.idx \in DOMAIN op.spec.maps
  BY DEF StartDrain, CommitSwap, Rollback, At
<1>3. e \in MapStatus /\ e.active \in Volumes /\ inactive(m) \in Volumes
      /\ e.deadline = op.status.maps[m].deadline
  BY <1>1, <1>2, TurnType, MapStatusType
<1> USE DEF MapPhases, Conditions
<1>4. ASSUME NEW new \in MapStatus, persistStatus(Set(m, new)), op'.status = Set(m, new),
             op'.fresh = op.fresh,
             new.deadline \in {e.deadline, NoDeadline} \/ e.deadline = NoDeadline
      PROVE  DeadlineInv' /\ NotExtended
  <2>1. Set(m, new) \in Status /\ Set(m, new).maps[m] = new
        /\ \A n \in Maps \ {m} : Set(m, new).maps[n].deadline = op.status.maps[n].deadline
    BY <1>1, SetType
  <2>2. \A n \in Maps : \/ Set(m, new).maps[n].deadline = op.status.maps[n].deadline
                        \/ Set(m, new).maps[n].deadline = NoDeadline
                        \/ op.status.maps[n].deadline = NoDeadline
    BY <1>3, <1>4, <2>1
  <2> QED
    BY <1>2, <1>4, <2>1, <2>2, PersistDeadlines
<1>5. CASE StartDrain(m)
  <2> DEFINE new == [e EXCEPT !.deadline = Grace, !.phase = "DrainingActive"]
  <2>1. new \in MapStatus
    BY <1>3, GraceType DEF MapStatus
  <2>2. persistStatus(Set(m, new)) /\ e.deadline = NoDeadline
        /\ (op' = [op EXCEPT !.pc = "announce", !.status = Set(m, new)] \/ NextMap(Set(m, new)))
    BY <1>5 DEF StartDrain
  <2>3. Set(m, new) \in Status
    BY <1>1, <2>1, SetType
  <2>4. op'.status = Set(m, new) /\ op'.fresh = op.fresh
    BY <1>1, <2>2, <2>3, NextMapType DEF Ops
  <2> QED
    BY <1>4, <2>1, <2>2, <2>4
<1>6. CASE CommitSwap(m)
  <2> DEFINE new == [e EXCEPT !.active = inactive(m), !.deadline = NoDeadline, !.phase = "Swapping"]
  <2>1. new \in MapStatus /\ new.deadline = NoDeadline
    BY <1>3, GraceType DEF MapStatus
  <2>2. persistStatus(Set(m, new))
        /\ \E h \in livePods(m) : op' = [op EXCEPT !.pc = "delete", !.status = Set(m, new), !.cur = {h}]
    BY <1>6 DEF CommitSwap
  <2>3. op'.status = Set(m, new) /\ op'.fresh = op.fresh
    BY <1>1, <2>2 DEF Ops
  <2> QED
    BY <1>4, <2>1, <2>2, <2>3
<1>7. CASE Rollback(m)
  <2> DEFINE new == [e EXCEPT !.active = e.lastGood, !.conds = e.conds \cup {"RollbackOccurred"}]
  <2>1. new \in MapStatus /\ new.deadline = e.deadline
    BY <1>3 DEF MapStatus
  <2>2. persistStatus(Set(m, new))
        /\ op' = [op EXCEPT !.pc = "discard", !.status = Set(m, new), !.cur = {desiredHash(m)}]
    BY <1>7 DEF Rollback
  <2>3. op'.status = Set(m, new) /\ op'.fresh = op.fresh
    BY <1>1, <2>2 DEF Ops
  <2> QED
    BY <1>4, <2>1, <2>2, <2>3
<1> QED
  BY <1>5, <1>6, <1>7


LEMMA DeadlineStep ==
  ASSUME TypeOK, DeadlineInv, Next
  PROVE  DeadlineInv' /\ NotExtended
<1>1. op \in Ops /\ op.status \in Status /\ api \in Object
  BY DEF TypeOK, Ops
<1>2. CASE Begin
  <2>1. api' = api /\ op'.fresh = (cache = api) /\ op'.status = cache.status
    BY <1>2 DEF Begin
  <2>2. DeadlineInv'
    BY <2>1 DEF DeadlineInv
  <2>3. \A n \in Maps : api.status.maps[n].deadline \in Deadlines
    BY DEF TypeOK, Object, Status, MapStatus
  <2>4. NotExtended
    BY <2>1, <2>3, GraceType DEF NotExtended, Deadlines, NoDeadline
  <2> QED
    BY <2>2, <2>4
<1>3. ASSUME NEW m \in Maps, ReconcileMap(m) PROVE DeadlineInv' /\ NotExtended
  <2>1. op'.pc = "map" /\ op'.fresh = op.fresh
        /\ \A n \in Maps : op'.status.maps[n].deadline = op.status.maps[n].deadline
    BY <1>3, ReconcileMapType
  <2>2. api' = api /\ op.pc # "publish"
    BY <1>3 DEF ReconcileMap, Quiet, At
  <2> QED
    BY <2>1, <2>2, SameDeadlines
<1>4. ASSUME NEW m \in Maps, StartDrain(m) \/ CommitSwap(m) \/ Rollback(m)
      PROVE  DeadlineInv' /\ NotExtended
  BY <1>4, DrainDeadlines
<1>5. ASSUME NEW m \in Maps, Announce(m) \/ DeleteOld(m) \/ CreateNew(m) \/ DiscardBad(m)
      PROVE  DeadlineInv' /\ NotExtended
  <2>1. api' = api /\ op.pc # "publish"
    BY <1>5 DEF Announce, DeleteOld, CreateNew, DiscardBad, At
  <2>2. op'.fresh = op.fresh /\ op'.status = op.status
    <3>1. CASE DeleteOld(m)
      BY <1>1, <3>1 DEF DeleteOld, Ops
    <3>2. CASE Announce(m) \/ CreateNew(m) \/ DiscardBad(m)
      BY <1>1, <3>2, NextMapType DEF Announce, CreateNew, DiscardBad
    <3> QED
      BY <1>5, <3>1, <3>2
  <2> QED
    BY <2>1, <2>2, SameDeadlines
<1>6. CASE gcOrphanedMaps
  <2>1. api' = api /\ Wrap
    BY <1>6 DEF gcOrphanedMaps
  <2> QED
    BY <2>1, WrapDeadlines, SameDeadlines
<1>7. CASE Publish
  <2>1. op.pc = "publish" /\ persistStatus(op.status) /\ op'.fresh = FALSE
    BY <1>7 DEF Publish, Idle
  <2>2. \A n \in Maps : api.status.maps[n].deadline \in Deadlines
    BY DEF TypeOK, Object, Status, MapStatus
  <2>3. NotExtended
    <3>1. CASE op.fresh
      <4>1. api'.status = op.status
        BY <1>1, <2>1, <3>1 DEF persistStatus, Object
      <4> QED
        BY <2>1, <2>2, <3>1, <4>1, GraceType DEF NotExtended, DeadlineInv, Deadlines, NoDeadline
    <3>2. CASE ~op.fresh
      BY <2>1, <2>2, <3>2, GraceType DEF NotExtended, persistStatus, Deadlines, NoDeadline
    <3> QED
      BY <3>1, <3>2
  <2> QED
    BY <2>1, <2>3 DEF DeadlineInv
<1>8. CASE Cluster
  <2>1. api' = api /\ op' = op
    BY <1>8 DEF Cluster, PodBecomesReady, PodCrashLoops, PodEvicted, PodGone, SetPod,
                JobSucceeds, JobFails, JobExpires, SetJob, PVCReleased
  <2> QED
    BY <2>1, SameDeadlines
<1>9. CASE EditSpec
  <2>1. api'.status = api.status
    BY <1>1, <1>9 DEF EditSpec, Object
  <2>2. ~op'.fresh \/ op' = op
    BY <1>1, <1>9 DEF EditSpec, Outdate, Ops
  <2> QED
    BY <2>1, <2>2, SameDeadlines
<1>10. ASSUME NEW m \in Maps, EditConfig(m) PROVE DeadlineInv' /\ NotExtended
  BY <1>10, SameDeadlines DEF EditConfig
<1>11. CASE ForeignWrite \/ Crash \/ Abort \/ FallBehind \/ CatchUp
  <2>1. api' = api
    BY <1>11 DEF ForeignWrite, Crash, Abort, FallBehind, CatchUp
  <2>2. ~op'.fresh \/ op' = op
    BY <1>1, <1>11 DEF ForeignWrite, Outdate, Crash, Abort, FallBehind, CatchUp, Idle, Ops
  <2> QED
    BY <2>1, <2>2, SameDeadlines
<1>12. CASE DeleteFails
  <2>1. api' = api
    BY <1>12 DEF DeleteFails
  <2>2. CASE Wrap
    BY <2>1, <2>2, WrapDeadlines, SameDeadlines
  <2>3. CASE op.pc = "delete" /\ op' = [op EXCEPT !.pc = "create", !.cur = {}]
    <3>1. op'.fresh = op.fresh /\ op'.status = op.status
      BY <1>1, <2>3 DEF Ops
    <3> QED
      BY <2>1, <2>3, <3>1, SameDeadlines
  <2>4. CASE op.pc = "discard" /\ NextMap(op.status)
    <3>1. op'.fresh = op.fresh /\ op'.status = op.status
      BY <1>1, <2>4, NextMapType
    <3> QED
      BY <2>1, <2>4, <3>1, SameDeadlines
  <2> QED
    BY <1>12, <2>2, <2>3, <2>4 DEF DeleteFails
<1>13. CASE Tick
  <2>1. api'.status = Aged(api.status) /\ op'.status = Aged(op.status)
        /\ op'.fresh = op.fresh /\ op'.pc = op.pc
    BY <1>1, <1>13 DEF Tick, Object, Ops
  <2>2. \A n \in Maps : /\ api'.status.maps[n].deadline = Sooner(api.status.maps[n].deadline)
                        /\ op'.status.maps[n].deadline = Sooner(op.status.maps[n].deadline)
    BY <1>1, <2>1, AgedType DEF Object
  <2>3. \A n \in Maps : api.status.maps[n].deadline \in Deadlines
    BY DEF TypeOK, Object, Status, MapStatus
  <2>4. DeadlineInv'
    BY <2>1, <2>2 DEF DeadlineInv, Sooner, NoDeadline
  <2>5. NotExtended
    BY <2>2, <2>3, GraceType DEF NotExtended, Sooner, Deadlines, NoDeadline
  <2> QED
    BY <2>4, <2>5
<1>14. ASSUME NEW m \in Maps, SwapLost(m) PROVE DeadlineInv' /\ NotExtended
  <2>1. api' = api /\ ~op'.fresh
    BY <1>14, SwapLostFacts DEF Idle
  <2> QED
    BY <2>1, SameDeadlines
<1>15. ASSUME NEW m \in Maps, JobUnread(m) PROVE DeadlineInv' /\ NotExtended
  BY <1>15, JobUnreadFacts, SameDeadlines
<1> QED
  BY <1>2, <1>3, <1>4, <1>5, <1>6, <1>7, <1>8, <1>9, <1>10, <1>11, <1>12, <1>13, <1>14, <1>15
     DEF Next, Pass

LEMMA DeadlineAlways == Spec => []DeadlineInv
<1>1. Init => DeadlineInv
  BY DEF Init, Idle, DeadlineInv
<1>2. TypeOK /\ DeadlineInv /\ [Next]_vars => DeadlineInv'
  <2>1. CASE UNCHANGED vars
    BY <2>1 DEF vars, DeadlineInv
  <2> QED
    BY <2>1, DeadlineStep
<1> QED
  BY <1>1, <1>2, Typing, PTL DEF Spec

\* Drain deadlines are restart-safe: for any number of crashes, conflicts, stale reads, API errors
\* and edits, a deadline in the status only comes nearer until the map is swapped or removed.
THEOREM DeadlineSafety == Spec => DeadlineNeverExtended
<1>1. TypeOK /\ DeadlineInv /\ [Next]_vars => [NotExtended]_vars
  BY DeadlineStep
<1> QED
  BY <1>1, DeadlineAlways, Typing, PTL DEF Spec, DeadlineNeverExtended

-----------------------------------------------------------------------------
(***************************************************************************)
(* InstalledBeforeServed, when volumes outlive their map (PersistOnDelete). *)
(* Not inductive as it stands: a pod is created on the word of a Job       *)
(* (JobsInstalled), after a swap on the word of the status the pass        *)
(* committed two API calls earlier (SwapInstalled), and neither word is    *)
(* taken back because no claim is ever released (VolumesKept).             *)
(***************************************************************************)

VolumesKept == \A m \in Maps : pvc[m] # "terminating"

JobsInstalled ==
  \A m \in Maps, v \in Volumes, i \in Images : jobs[m][v][i] = "Succeeded" => v \in installed[m]

SwapInstalled ==
  op.pc \in {"delete", "create"} =>
    /\ op.idx \in DOMAIN op.spec.maps
    /\ op.status.maps[op.spec.maps[op.idx]].active \in installed[op.spec.maps[op.idx]]

InstallInv == VolumesKept /\ JobsInstalled /\ InstalledBeforeServed /\ SwapInstalled

\* A step that creates no pod, finishes no Job and does not reach or change a swap.
LEMMA QuietInstall ==
  ASSUME InstallInv, UNCHANGED installed,
         \A m \in Maps : pvc'[m] = "terminating" => pvc[m] = "terminating",
         \A m \in Maps, v \in Volumes, i \in Images : jobs'[m][v][i] = "Succeeded" => jobs[m][v][i] = "Succeeded",
         \A m \in Maps, h \in Hash : pods'[m][h] \in Live => pods[m][h] \in Live,
         SwapInstalled'
  PROVE  InstallInv'
BY DEF InstallInv, VolumesKept, JobsInstalled, InstalledBeforeServed

LEMMA ReconcileMapInstall ==
  ASSUME TypeOK, InstallInv, NEW m \in Maps, ReconcileMap(m)
  PROVE  InstallInv'
<1>1. /\ op \in Ops /\ pvc \in PvcType /\ jobs \in JobsType /\ pods \in PodsType
      /\ installed \in [Maps -> SUBSET Volumes]
  BY DEF TypeOK, PvcType, JobsType, PodsType
<1>2. op.idx \in DOMAIN op.spec.maps /\ UNCHANGED installed
  BY DEF ReconcileMap, At, Quiet
<1>3. /\ op.spec.image \in Images /\ mapStatus(m).active \in Volumes /\ inactive(m) \in Volumes
      /\ desiredHash(m) \in Hash /\ desiredHash(m).vol = mapStatus(m).active
  BY <1>2, TurnType
<1>4. \A n \in Maps : pvc'[n] = "terminating" => pvc[n] = "terminating"
  BY <1>1, PvcEnsured DEF ReconcileMap
<1>5. op'.pc = "map"
  BY ReconcileMapType
<1>6. SwapInstalled'
  BY <1>5 DEF SwapInstalled
<1>7. CASE FirstPod(m)
  <2>1. UNCHANGED jobs /\ ensurePodForMap(m, desiredHash(m))
    BY <1>7 DEF FirstPod
  <2>2. mapStatus(m).active \in installed[m]
    BY <1>3, <1>7 DEF FirstPod, InitJobStatus, InstallInv, JobsInstalled
  <2>3. \A n \in Maps, k \in Hash : pods'[n][k] \in Live => pods[n][k] \in Live \/ (n = m /\ k = desiredHash(m))
    BY <1>1, <1>3, <2>1, PodEnsured
  <2>4. InstalledBeforeServed'
    BY <1>2, <1>3, <2>2, <2>3 DEF InstallInv, InstalledBeforeServed
  <2>5. VolumesKept' /\ JobsInstalled'
    BY <1>2, <1>4, <2>1 DEF InstallInv, VolumesKept, JobsInstalled
  <2> QED
    BY <1>6, <2>4, <2>5 DEF InstallInv
<1>8. CASE FirstInstall(m) \/ RollInstall(m)
  <2>1. UNCHANGED pods /\ (EnsureInitJob(m, mapStatus(m).active) \/ EnsureInitJob(m, inactive(m)))
    BY <1>8 DEF FirstInstall, RollInstall
  <2>2. \A n \in Maps, w \in Volumes, i \in Images : jobs'[n][w][i] = "Succeeded" => jobs[n][w][i] = "Succeeded"
    BY <1>1, <1>3, <2>1, JobEnsured
  <2> QED
    BY <1>2, <1>4, <1>6, <2>1, <2>2, QuietInstall
<1>9. CASE \/ FirstInstallFailed(m) \/ SteadyCrashLooping(m) \/ SteadyReady(m) \/ SteadyWarming(m)
           \/ HoldBack(m) \/ RollInstallFailed(m) \/ WaitDrain(m)
  <2>1. UNCHANGED <<pods, jobs>>
    BY <1>9 DEF FirstInstallFailed, SteadyCrashLooping, SteadyReady, SteadyWarming, HoldBack,
                RollInstallFailed, WaitDrain
  <2> QED
    BY <1>2, <1>4, <1>6, <2>1, QuietInstall
<1> QED
  BY <1>7, <1>8, <1>9 DEF ReconcileMap

LEMMA PersistingInstall ==
  ASSUME TypeOK, InstallInv, NEW m \in Maps, StartDrain(m) \/ CommitSwap(m) \/ Rollback(m)
  PROVE  InstallInv'
<1> DEFINE e == mapStatus(m)
<1>1. op \in Ops /\ pvc \in PvcType /\ pods \in PodsType
  BY DEF TypeOK, PvcType, PodsType
<1>2. /\ op.idx \in DOMAIN op.spec.maps /\ m = op.spec.maps[op.idx]
      /\ UNCHANGED <<jobs, installed>>
  BY DEF StartDrain, CommitSwap, Rollback, At
<1>3. op.spec.image \in Images /\ e \in MapStatus /\ inactive(m) \in Volumes
  BY <1>2, TurnType
<1>4. \A n \in Maps : pvc'[n] = "terminating" => pvc[n] = "terminating"
  BY <1>1, PvcEnsured DEF StartDrain, CommitSwap, Rollback
<1>5. \A n \in Maps, h \in Hash : pods'[n][h] \in Live => pods[n][h] \in Live
  <2>1. CASE StartDrain(m) \/ Rollback(m)
    BY <2>1 DEF StartDrain, Rollback
  <2>2. CASE CommitSwap(m)
    <3>1. PICK h \in livePods(m) : SaveAndExit(m, h)
      BY <2>2 DEF CommitSwap
    <3>2. h \in Hash
      BY <3>1 DEF livePods
    <3> QED
      BY <1>1, <3>1, <3>2 DEF SaveAndExit, PodsType, Live
  <2> QED
    BY <2>1, <2>2
<1>6. SwapInstalled'
  <2>1. CASE StartDrain(m) \/ Rollback(m)
    <3>1. op'.pc \in {"announce", "map", "discard"}
      <4>1. CASE StartDrain(m)
        <5>1. \E st : op' = [op EXCEPT !.pc = "announce", !.status = st]
                      \/ op' = [op EXCEPT !.pc = "map", !.status = st, !.idx = op.idx + 1, !.cur = {}]
          BY <4>1 DEF StartDrain, NextMap
        <5> QED
          BY <1>1, <5>1 DEF Ops
      <4>2. CASE Rollback(m)
        <5>1. \E st, c : op' = [op EXCEPT !.pc = "discard", !.status = st, !.cur = c]
          BY <4>2 DEF Rollback
        <5> QED
          BY <1>1, <5>1 DEF Ops
      <4> QED
        BY <2>1, <4>1, <4>2
    <3> QED
      BY <3>1 DEF SwapInstalled
  <2>2. CASE CommitSwap(m)
    <3> DEFINE new == [e EXCEPT !.active = inactive(m), !.deadline = NoDeadline, !.phase = "Swapping"]
    <3>1. PICK h \in livePods(m) : op' = [op EXCEPT !.pc = "delete", !.status = Set(m, new), !.cur = {h}]
      BY <2>2 DEF CommitSwap
    <3>2. new \in MapStatus /\ new.active = inactive(m)
      BY <1>3, GraceType DEF MapStatus, MapPhases
    <3>3. Set(m, new).maps[m] = new
      BY <1>1, <3>2, SetType
    <3>4. op'.idx = op.idx /\ op'.spec = op.spec /\ op'.status = Set(m, new)
      BY <1>1, <3>1 DEF Ops
    <3>5. inactive(m) \in installed[m]
      BY <1>3, <2>2 DEF CommitSwap, InitJobStatus, InstallInv, JobsInstalled
    <3>6. op'.status.maps[m].active = inactive(m)
      BY <3>2, <3>3, <3>4
    <3> HIDE DEF new
    <3> QED
      BY <1>2, <3>4, <3>5, <3>6 DEF SwapInstalled
  <2> QED
    BY <2>1, <2>2
<1> QED
  BY <1>2, <1>4, <1>5, <1>6, QuietInstall


LEMMA InstallStep ==
  ASSUME TypeOK, InstallInv, PersistOnDelete, Next
  PROVE  InstallInv'
<1>1. /\ op \in Ops /\ pods \in PodsType /\ jobs \in JobsType /\ pvc \in PvcType
      /\ installed \in [Maps -> SUBSET Volumes] /\ op.status \in Status
  BY DEF TypeOK, Ops, PodsType, JobsType, PvcType
<1>2. ASSUME UNCHANGED <<installed, pvc, jobs>>, op'.pc \notin {"delete", "create"} \/ op' = op,
             \A m \in Maps, h \in Hash : pods'[m][h] \in Live => pods[m][h] \in Live
      PROVE  InstallInv'
  <2>1. SwapInstalled'
    BY <1>2 DEF SwapInstalled, InstallInv
  <2> QED
    BY <1>2, <2>1, QuietInstall
<1>3. CASE Begin
  BY <1>2, <1>3 DEF Begin, world
<1>4. ASSUME NEW m \in Maps, ReconcileMap(m) PROVE InstallInv'
  BY <1>4, ReconcileMapInstall
<1>5. ASSUME NEW m \in Maps, StartDrain(m) \/ CommitSwap(m) \/ Rollback(m) PROVE InstallInv'
  BY <1>5, PersistingInstall
<1>6. ASSUME NEW m \in Maps, Announce(m) PROVE InstallInv'
  <2>1. op'.pc = "map" /\ UNCHANGED <<installed, pvc, jobs, pods>>
    BY <1>1, <1>6, NextMapType DEF Announce, world
  <2> QED
    BY <1>2, <2>1
<1>7. ASSUME NEW m \in Maps, DeleteOld(m) PROVE InstallInv'
  <2>1. op.pc = "delete" /\ op'.pc = "create" /\ op'.idx = op.idx /\ op'.spec = op.spec /\ op'.status = op.status
    BY <1>1, <1>7 DEF DeleteOld, At, Ops
  <2>2. SwapInstalled'
    BY <1>7, <2>1 DEF DeleteOld, SwapInstalled, InstallInv
  <2>3. \A n \in Maps, h \in Hash : pods'[n][h] \in Live => pods[n][h] \in Live
    BY <1>1, <1>7 DEF DeleteOld, PodsType, Live
  <2> QED
    BY <1>7, <2>2, <2>3, QuietInstall DEF DeleteOld
<1>8. ASSUME NEW m \in Maps, CreateNew(m) PROVE InstallInv'
  <2> DEFINE v == op.status.maps[m].active
  <2>1. op.pc = "create" /\ op.idx \in DOMAIN op.spec.maps /\ m = op.spec.maps[op.idx]
    BY <1>8 DEF CreateNew, At
  <2>2. v \in installed[m]
    BY <2>1 DEF InstallInv, SwapInstalled
  <2>3. v \in Volumes
    BY <1>1, <2>2
  <2>4. computePodHash(m, v) \in Hash /\ computePodHash(m, v).vol = v
    BY <1>1, <2>1, <2>3, HashType DEF TypeOK
  <2>5. \A n \in Maps, k \in Hash : pods'[n][k] \in Live => pods[n][k] \in Live \/ (n = m /\ k = computePodHash(m, v))
    BY <1>1, <1>8, <2>4, PodEnsured DEF CreateNew
  <2>6. UNCHANGED <<installed, pvc, jobs>>
    BY <1>8 DEF CreateNew
  <2>7. InstalledBeforeServed'
    BY <2>2, <2>4, <2>5, <2>6 DEF InstallInv, InstalledBeforeServed
  <2>8. op'.pc = "map"
    BY <1>1, <1>8, NextMapType DEF CreateNew
  <2> QED
    BY <2>6, <2>7, <2>8 DEF InstallInv, VolumesKept, JobsInstalled, SwapInstalled
<1>9. ASSUME NEW m \in Maps, DiscardBad(m) PROVE InstallInv'
  <2>1. op'.pc = "map" /\ UNCHANGED <<installed, pvc, jobs>>
    BY <1>1, <1>9, NextMapType DEF DiscardBad
  <2>2. \A n \in Maps, h \in Hash : pods'[n][h] \in Live => pods[n][h] \in Live
    BY <1>1, <1>9 DEF DiscardBad, PodsType, Live
  <2> QED
    BY <1>2, <2>1, <2>2
<1>10. CASE gcOrphanedMaps
  <2>1. op'.pc = "publish" /\ UNCHANGED <<installed, jobs>>
    BY <1>1, <1>10 DEF gcOrphanedMaps, Wrap, Ops
  <2>2. \A n \in Maps, h \in Hash : pods'[n][h] \in Live => pods[n][h] \in Live
    BY <1>1, <1>10 DEF gcOrphanedMaps, PodsType, Live
  <2>3. \A n \in Maps : pvc'[n] = "terminating" => pvc[n] = "terminating"
    BY <1>10 DEF gcOrphanedMaps
  <2>4. SwapInstalled'
    BY <2>1 DEF SwapInstalled
  <2> QED
    BY <2>1, <2>2, <2>3, <2>4, QuietInstall
<1>11. CASE Publish
  BY <1>2, <1>11 DEF Publish, Idle, world
<1>12. ASSUME NEW m \in Maps, NEW h \in Hash,
              PodBecomesReady(m, h) \/ PodCrashLoops(m, h) \/ PodEvicted(m, h) \/ PodGone(m, h)
       PROVE  InstallInv'
  <2>1. UNCHANGED <<installed, pvc, jobs, op>>
    BY <1>12 DEF PodBecomesReady, PodCrashLoops, PodEvicted, PodGone, SetPod
  <2>2. \A n \in Maps, k \in Hash : pods'[n][k] \in Live => pods[n][k] \in Live
    BY <1>1, <1>12 DEF PodBecomesReady, PodCrashLoops, PodEvicted, PodGone, SetPod, PodsType, Live
  <2> QED
    BY <1>2, <2>1, <2>2
<1>13. ASSUME NEW m \in Maps, NEW v \in Volumes, NEW i \in Images,
              JobSucceeds(m, v, i) \/ JobFails(m, v, i) \/ JobExpires(m, v, i)
       PROVE  InstallInv'
  <2>1. UNCHANGED <<pods, pvc, op>>
    BY <1>13 DEF JobSucceeds, JobFails, JobExpires, SetJob
  <2>2. \A n \in Maps : installed[n] \subseteq installed'[n]
    BY <1>1, <1>13 DEF JobSucceeds, JobFails, JobExpires
  <2>3. JobsInstalled'
    <3>1. CASE JobSucceeds(m, v, i)
      BY <1>1, <3>1 DEF JobSucceeds, SetJob, InstallInv, JobsInstalled, JobsType
    <3>2. CASE JobFails(m, v, i) \/ JobExpires(m, v, i)
      <4>1. PICK st \in {"Failed", "NotFound"} : jobs' = [jobs EXCEPT ![m][v][i] = st]
        BY <3>2 DEF JobFails, JobExpires, SetJob
      <4>2. \A n \in Maps, w \in Volumes, j \in Images : jobs'[n][w][j] = "Succeeded" => jobs[n][w][j] = "Succeeded"
        BY <1>1, <4>1 DEF JobsType
      <4> QED
        BY <2>2, <4>2 DEF InstallInv, JobsInstalled
    <3> QED
      BY <1>13, <3>1, <3>2
  <2>4. InstalledBeforeServed' /\ VolumesKept'
    BY <2>1, <2>2 DEF InstallInv, InstalledBeforeServed, VolumesKept
  <2>5. SwapInstalled'
    <3>1. CASE op.pc \in {"delete", "create"}
      <4>1. op.spec.maps[op.idx] \in Maps
        BY <1>1, <3>1, SpecsAssumption DEF InstallInv, SwapInstalled, Ops
      <4> QED
        BY <2>1, <2>2, <3>1, <4>1 DEF InstallInv, SwapInstalled
    <3>2. CASE op.pc \notin {"delete", "create"}
      BY <2>1, <3>2 DEF SwapInstalled
    <3> QED
      BY <3>1, <3>2
  <2> QED
    BY <2>3, <2>4, <2>5 DEF InstallInv
<1>14. ASSUME NEW m \in Maps, PVCReleased(m) PROVE InstallInv'
  BY <1>14 DEF PVCReleased, InstallInv, VolumesKept
<1>15. CASE EditSpec \/ ForeignWrite
  <2>1. UNCHANGED <<installed, pvc, jobs, pods>>
    BY <1>15 DEF EditSpec, ForeignWrite, Fault, world
  <2>2. op'.pc = op.pc /\ op'.idx = op.idx /\ op'.spec = op.spec /\ op'.status = op.status
    BY <1>1, <1>15 DEF EditSpec, ForeignWrite, Outdate, Ops
  <2>3. SwapInstalled'
    BY <2>1, <2>2 DEF InstallInv, SwapInstalled
  <2> QED
    BY <2>1, <2>3, QuietInstall
<1>16. ASSUME NEW m \in Maps, EditConfig(m) PROVE InstallInv'
  BY <1>2, <1>16 DEF EditConfig
<1>17. CASE Crash \/ Abort \/ FallBehind \/ CatchUp
  <2>1. UNCHANGED <<installed, pvc, jobs, pods>> /\ (op'.pc = "idle" \/ op' = op)
    BY <1>17 DEF Crash, Abort, FallBehind, CatchUp, Fault, Idle, world
  <2> QED
    BY <1>2, <2>1
<1>18. CASE DeleteFails
  <2>1. UNCHANGED <<installed, pvc, jobs, pods>>
    BY <1>18 DEF DeleteFails, Fault
  <2>2. CASE op.pc = "delete" /\ op' = [op EXCEPT !.pc = "create", !.cur = {}]
    <3>1. op'.idx = op.idx /\ op'.spec = op.spec /\ op'.status = op.status
      BY <1>1, <2>2 DEF Ops
    <3>2. SwapInstalled'
      BY <2>1, <2>2, <3>1 DEF InstallInv, SwapInstalled
    <3> QED
      BY <2>1, <3>2, QuietInstall
  <2>3. CASE NextMap(op.status)
    BY <1>1, <1>2, <2>1, <2>3, NextMapType
  <2>4. CASE Wrap
    <3>1. op'.pc = "publish"
      BY <1>1, <2>4 DEF Wrap, Ops
    <3> QED
      BY <1>2, <2>1, <3>1
  <2> QED
    BY <1>18, <2>2, <2>3, <2>4 DEF DeleteFails
<1>19. CASE Tick
  <2>1. UNCHANGED <<installed, pvc, jobs, pods>>
    BY <1>19 DEF Tick, world
  <2>2. op'.pc = op.pc /\ op'.idx = op.idx /\ op'.spec = op.spec /\ op'.status = Aged(op.status)
    BY <1>1, <1>19 DEF Tick, Ops
  <2>3. SwapInstalled'
    <3>1. CASE op.pc \in {"delete", "create"}
      <4>1. op.spec.maps[op.idx] \in Maps
        BY <1>1, <3>1, SpecsAssumption DEF InstallInv, SwapInstalled, Ops
      <4>2. Aged(op.status).maps[op.spec.maps[op.idx]].active = op.status.maps[op.spec.maps[op.idx]].active
        BY <1>1, <4>1, AgedType
      <4> QED
        BY <2>1, <2>2, <3>1, <4>2 DEF InstallInv, SwapInstalled
    <3>2. CASE op.pc \notin {"delete", "create"}
      BY <2>2, <3>2 DEF SwapInstalled
    <3> QED
      BY <3>1, <3>2
  <2> QED
    BY <2>1, <2>3, QuietInstall
<1>20. ASSUME NEW m \in Maps, SwapLost(m) PROVE InstallInv'
  <2>1. UNCHANGED <<installed, pvc, jobs>> /\ op'.pc = "idle"
    BY <1>20, SwapLostFacts DEF Idle
  <2>2. \A n \in Maps, k \in Hash : pods'[n][k] \in Live => pods[n][k] \in Live
    BY <1>20, SwapLostFacts DEF Live
  <2> QED
    BY <1>2, <2>1, <2>2
<1>21. ASSUME NEW m \in Maps, JobUnread(m) PROVE InstallInv'
  BY <1>2, <1>21, JobUnreadFacts
<1> QED
  BY <1>3, <1>4, <1>5, <1>6, <1>7, <1>8, <1>9, <1>10, <1>11, <1>12, <1>13, <1>14, <1>15, <1>16,
     <1>17, <1>18, <1>19, <1>20, <1>21 DEF Next, Pass, Cluster

LEMMA InstallAlways == PersistOnDelete => (Spec => []InstallInv)
<1> SUFFICES ASSUME PersistOnDelete PROVE Spec => []InstallInv
  OBVIOUS
<1>1. Init => InstallInv
  BY DEF Init, Idle, InstallInv, VolumesKept, JobsInstalled, InstalledBeforeServed, SwapInstalled, Live
<1>2. TypeOK /\ InstallInv /\ [Next]_vars => InstallInv'
  <2>1. CASE UNCHANGED vars
    BY <2>1 DEF vars, InstallInv, VolumesKept, JobsInstalled, InstalledBeforeServed, SwapInstalled
  <2> QED
    BY <2>1, InstallStep
<1> QED
  BY <1>1, <1>2, Typing, PTL DEF Spec

\* With persistOnDelete no server ever starts on a volume without a completed install, for any
\* number of maps, images, edits, removals, crashes, conflicts, stale reads and API errors.
THEOREM InstallSafety == PersistOnDelete => (Spec => []InstalledBeforeServed)
<1>1. InstallInv => InstalledBeforeServed
  BY DEF InstallInv
<1> QED
  BY <1>1, InstallAlways, PTL

=============================================================================

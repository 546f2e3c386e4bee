------------------------ MODULE ArkClusterController ------------------------
(***************************************************************************)
(* The ArkCluster reconciler (internal/controller/arkcluster_controller.go *)
(* with the helpers of internal/reconcile it calls) against the Kubernetes *)
(* API it works on.                                                        *)
(*                                                                         *)
(* One worker runs one pass at a time (`op`).  A pass reads the ArkCluster *)
(* from the informer cache, visits spec.maps in order, collects orphans    *)
(* and publishes the status.  It is cut where the code talks to the API    *)
(* between a persisted status and the world action that follows, because   *)
(* a crash, a conflict or another writer can come in exactly there.        *)
(*                                                                         *)
(* The API object carries a resourceVersion; a Status().Update made from   *)
(* an older version conflicts and the code swallows the conflict.  The     *)
(* model keeps `op.fresh`: nobody wrote the object since the version the   *)
(* pass holds.                                                             *)
(*                                                                         *)
(* A definition introduced as a "Mutation" is a wrong variant of the one   *)
(* after it, kept to confirm that a property can fail; nothing uses it.    *)
(***************************************************************************)
EXTENDS Integers, Sequences, FiniteSets, MapPhase

CONSTANTS
  Maps,             \* map ids (their slugs are distinct and no slug is a prefix of another)
  Images,           \* container images; an init Job is named after its image
  Launches,         \* launch settings: mods, options, session name, platforms, ...
  Specs,            \* the specs users write
  InitSpec,         \* the spec the cluster is created with
  MaxRev,           \* bound: resourceVersions of a map's ConfigMaps/Secrets, modulo MaxRev + 1
  GracefulShutdown, \* spec.updateStrategy.gracefulShutdown, in ticks; may be negative
  Rollout,          \* spec.updateStrategy.rollout
  PersistOnDelete,  \* spec.storage.persistOnDelete
  Ingress,          \* maps whose Service has a load-balancer address (RconAddress # "")
  Mishaps,          \* what pods and jobs may do: "jobFail", "podLoop", "evict", "expire"
  Faults,           \* what may go wrong with the operator: "crash", "race", "lag", "apiErr",
                    \* "jobErr" (a Job cannot be read)
  MaxEdits,         \* bound: spec edits plus ConfigMap/Secret edits
  MaxFaults         \* bound: faults in one behaviour

NoMap == ""
Volumes == {"server-a", "server-b"}
PodStates == {"none", "starting", "ready", "looping", "terminating"}
JobStates == {"NotFound", "Running", "Succeeded", "Failed"}

\* A pod that has no DeletionTimestamp.
Live == {"starting", "ready", "looping"}

MapLists == {s.maps : s \in Specs}
Indices == UNION {DOMAIN l : l \in MapLists}
Revs == 0 .. MaxRev

ASSUME MapsAssumption == NoMap \notin Maps /\ IsFiniteSet(Maps)
ASSUME SpecsAssumption ==
  /\ Specs \subseteq [image : Images, launch : Launches, maps : Seq(Maps)]
  /\ InitSpec \in Specs
ASSUME BoundsAssumption ==
  /\ MaxRev \in Nat /\ GracefulShutdown \in Int
  /\ MaxEdits \in Nat /\ MaxFaults \in Nat
  /\ PersistOnDelete \in BOOLEAN
  /\ Rollout \in {"OneAtATime", "Parallel"}

\* if grace.Duration < 0 { grace.Duration = 0 }
Grace == IF GracefulShutdown < 0 THEN 0 ELSE GracefulShutdown

\* DrainDeadline == nil; otherwise the ticks left until it.
NoDeadline == -1
Deadlines == NoDeadline .. Grace

(***************************************************************************)
(* The pod template hash.  The digest is taken to be collision free, so    *)
(* it is the record of its inputs: image, everything launchRev and the mod *)
(* list cover, the two ports (start + index), the resourceVersions and the *)
(* volume.                                                                 *)
(***************************************************************************)
PodTemplateHash(image, launch, index, revision, vol) ==
  [image |-> image, launch |-> launch, port |-> index, rev |-> revision, vol |-> vol]

Hash == [image : Images, launch : Launches, port : Indices, rev : Revs, vol : Volumes]

(***************************************************************************)
(* The status of the ArkCluster.  status.maps is a list: `ids` are the     *)
(* maps listed, `before` their order, and an unlisted map has NoMapStatus. *)
(* conds holds the conditions away from their default: PodReady=True,      *)
(* InstallSucceeded=False, RollbackOccurred=True.                          *)
(***************************************************************************)
Conditions == {"PodReady", "InstallFailed", "RollbackOccurred"}

MapStatus == [phase : MapPhases, active : Volumes \cup {""}, lastGood : Volumes \cup {""},
              deadline : Deadlines, conds : SUBSET Conditions]

NoMapStatus == [phase |-> "", active |-> "", lastGood |-> "",
                deadline |-> NoDeadline, conds |-> {}]

Status == [ids : SUBSET Maps, before : SUBSET (Maps \X Maps), maps : [Maps -> MapStatus],
           phase : ClusterPhases, ready : Nat]

NoStatus == [ids |-> {}, before |-> {}, maps |-> [m \in Maps |-> NoMapStatus],
             phase |-> "", ready |-> 0]

Object == [spec : Specs, status : Status]

VARIABLES
  api,        \* the ArkCluster in the API server
  cache,      \* the ArkCluster in the informer cache
  pods,       \* pods[m][h]: the pod of map m named after hash h
  seen,       \* the pods in the informer cache
  jobs,       \* jobs[m][v][i]: the init Job of map m, volume v, image i
  pvc,        \* pvc[m]: the three volume claims of map m
  installed,  \* installed[m]: the volumes, as they exist now, an install has completed on
  rev,        \* rev[m]: resourceVersions of the map's ConfigMaps and Secrets
  op,         \* the reconcile pass under way
  lag,        \* the informers that lag behind: subset of {"cluster", "pods"}
  edits,      \* edits left
  faults,     \* faults left
  hist        \* history, read by no action: what was announced, swapped, rolled back

world == <<pods, jobs, pvc, installed, rev>>
views == <<cache, seen>>
vars == <<api, cache, pods, seen, jobs, pvc, installed, rev, op, lag, edits, faults, hist>>

Idle == [pc |-> "idle", spec |-> InitSpec, status |-> NoStatus, fresh |-> FALSE,
         idx |-> 1, mid |-> NoMap, cur |-> {}]

Ops == [pc : {"idle", "map", "announce", "delete", "create", "discard", "publish"},
        spec : Specs, status : Status, fresh : BOOLEAN,
        idx : Nat, mid : Maps \cup {NoMap}, cur : SUBSET Hash]

Init ==
  /\ api = [spec |-> InitSpec, status |-> NoStatus]
  /\ cache = api
  /\ pods = [m \in Maps |-> [h \in Hash |-> "none"]]
  /\ seen = pods
  /\ jobs = [m \in Maps |-> [v \in Volumes |-> [i \in Images |-> "NotFound"]]]
  /\ pvc = [m \in Maps |-> "absent"]
  /\ installed = [m \in Maps |-> {}]
  /\ rev = [m \in Maps |-> 0]
  /\ op = Idle
  /\ lag = {}
  /\ edits = MaxEdits
  /\ faults = MaxFaults
  /\ hist = [notice |-> [m \in Maps |-> NoDeadline],
             told |-> [m \in Maps |-> 0],
             done |-> [m \in Maps |-> "none"]]

-----------------------------------------------------------------------------
(* Helpers of the reconciler. *)

otherSide(active) == IF active = "server-a" THEN "server-b" ELSE "server-a"

\* EnsureMapStatus: append an empty entry for a map that has none.
EnsureMapStatus(st, m) ==
  IF m \in st.ids THEN st
  ELSE [st EXCEPT !.ids = @ \cup {m}, !.before = @ \cup (st.ids \X {m})]

\* EnsureMapStatus, then ActiveVolume defaults to server-a.
Enter(st, m) ==
  LET entered == EnsureMapStatus(st, m)
  IN  [entered EXCEPT !.maps[m].active = IF @ = "" THEN "server-a" ELSE @]

\* midFlightMap: the first listed map that is mid-update, for OneAtATime.
MidFlight(st) ==
  LET mid == {m \in st.ids : st.maps[m].phase \in MidFlightPhases}
      first == {m \in mid : \A n \in mid \ {m} : <<m, n>> \in st.before}
  IN  IF Rollout = "Parallel" \/ first = {} THEN NoMap ELSE CHOOSE m \in first : TRUE

\* The list with only the maps in keep.
Prune(st, keep) ==
  [st EXCEPT !.ids = @ \cap keep,
             !.before = @ \cap (keep \X keep),
             !.maps = [m \in Maps |-> IF m \in keep THEN st.maps[m] ELSE NoMapStatus]]

\* TotalMaps aside: ReadyMaps (countReadyMaps) and Phase (AggregatePhase).
Aggregate(st) ==
  [st EXCEPT !.ready = Cardinality({m \in st.ids : st.maps[m].phase = "Running"}),
             !.phase = AggregatePhase({st.maps[m].phase : m \in st.ids})]

\* The map the pass is at, stopped before the API call that pc names.
At(m, pc) ==
  /\ op.pc = pc
  /\ op.idx \in DOMAIN op.spec.maps
  /\ m = op.spec.maps[op.idx]

\* The in-memory status once the map's entry exists.
entry(m) == Enter(op.status, m)
mapStatus(m) == entry(m).maps[m]

computePodHash(m, vol) ==
  PodTemplateHash(op.spec.image, op.spec.launch, op.idx, rev[m], vol)

desiredHash(m) == computePodHash(m, mapStatus(m).active)

\* listMapPods, reduced to the pods findActivePod looks at.
livePods(m) == {h \in Hash : seen[m][h] \in Live}

InitJobStatus(m, vol) == jobs[m][vol][op.spec.image]

\* EnsureSavesPVC, EnsureServerPVC a and b: create what is missing, leave a claim being deleted.
EnsurePVCs(m) == pvc' = [pvc EXCEPT ![m] = IF @ = "absent" THEN "bound" ELSE @]

\* EnsureInitJob when InitJobStatus said NotFound.
EnsureInitJob(m, vol) ==
  jobs' = [jobs EXCEPT ![m][vol][op.spec.image] = IF @ = "NotFound" THEN "Running" ELSE @]

\* ensurePodForMap: Create, and AlreadyExists (a terminating pod holds its name) is no error.
ensurePodForMap(m, h) ==
  pods' = [pods EXCEPT ![m][h] = IF @ = "none" THEN "starting" ELSE @]

\* Status().Update: a conflict is swallowed, the caller goes on as if it had written.
persistStatus(st) ==
  api' = IF op.fresh THEN [api EXCEPT !.status = st] ELSE api

\* On to the next map with this in-memory status.
NextMap(st) == op' = [op EXCEPT !.pc = "map", !.status = st, !.idx = @ + 1, !.cur = {}]

\* The map's in-memory entry with some fields changed.
Set(m, new) == [entry(m) EXCEPT !.maps[m] = new]

\* What the informers hold after a step.
Observe ==
  /\ cache' = IF "cluster" \in lag' THEN cache ELSE api'
  /\ seen' = IF "pods" \in lag' THEN seen ELSE pods'

-----------------------------------------------------------------------------
(* One reconcile pass. *)

\* Reconcile reads the object from the cache and computes midFlightMap once.
Begin ==
  /\ op.pc = "idle"
  /\ op' = [pc |-> "map", spec |-> cache.spec, status |-> cache.status,
            fresh |-> cache = api, idx |-> 1, mid |-> MidFlight(cache.status), cur |-> {}]
  /\ UNCHANGED <<api, world, lag, edits, faults, hist>>
  /\ Observe

\* What reconcileMap leaves alone on every path that does not persist.
Quiet == UNCHANGED <<api, installed, rev, lag, edits, faults>>

\* firstStart, Job NotFound or Running.
FirstInstall(m) ==
  /\ livePods(m) = {}
  /\ InitJobStatus(m, mapStatus(m).active) \in {"NotFound", "Running"}
  /\ EnsureInitJob(m, mapStatus(m).active)
  /\ NextMap(Set(m, [mapStatus(m) EXCEPT !.phase = "InstallingActive"]))
  /\ UNCHANGED <<pods, hist>>

\* firstStart, Job Failed.
FirstInstallFailed(m) ==
  /\ livePods(m) = {}
  /\ InitJobStatus(m, mapStatus(m).active) = "Failed"
  /\ NextMap(Set(m, [mapStatus(m) EXCEPT !.phase = "Failed",
                                         !.conds = @ \cup {"InstallFailed"}]))
  /\ UNCHANGED <<pods, jobs, hist>>

\* A fresh start and a steady pass end the roll the history variable was following.
Settled(m) == hist' = [hist EXCEPT !.notice[m] = NoDeadline, !.told[m] = 0]

\* Mutation: the pod is created while the Job still runs.
FirstPodEarly(m) ==
  /\ livePods(m) = {}
  /\ InitJobStatus(m, mapStatus(m).active) \in {"Running", "Succeeded"}
  /\ ensurePodForMap(m, desiredHash(m))
  /\ NextMap(Set(m, [mapStatus(m) EXCEPT !.phase = "Provisioning"]))
  /\ Settled(m)
  /\ UNCHANGED jobs

\* firstStart, Job Succeeded: create the pod on the active volume.
FirstPod(m) ==
  /\ livePods(m) = {}
  /\ InitJobStatus(m, mapStatus(m).active) = "Succeeded"
  /\ ensurePodForMap(m, desiredHash(m))
  /\ NextMap(Set(m, [mapStatus(m) EXCEPT !.phase = "Provisioning"]))
  /\ Settled(m)
  /\ UNCHANGED jobs

shouldRollback(m) == seen[m][desiredHash(m)] = "looping"

hasLastGood(m) == mapStatus(m).lastGood \notin {"", mapStatus(m).active}

\* steady, pod crash-looping with nothing to go back to.
SteadyCrashLooping(m) ==
  /\ desiredHash(m) \in livePods(m)
  /\ shouldRollback(m) /\ ~hasLastGood(m)
  /\ NextMap(Set(m, [mapStatus(m) EXCEPT !.conds = @ \ {"PodReady"}]))
  /\ Settled(m)
  /\ UNCHANGED <<pods, jobs>>

\* Mutation: the side ("a") is recorded instead of the volume ("server-a").
SteadyReadySide(m) ==
  /\ desiredHash(m) \in livePods(m)
  /\ seen[m][desiredHash(m)] = "ready"
  /\ NextMap(Set(m, [mapStatus(m) EXCEPT !.phase = "Running", !.conds = @ \cup {"PodReady"},
                       !.lastGood = IF mapStatus(m).active = "server-b" THEN "b" ELSE "a"]))
  /\ Settled(m)
  /\ UNCHANGED <<pods, jobs>>

\* steady, pod Ready: the active volume is known good.
SteadyReady(m) ==
  /\ desiredHash(m) \in livePods(m)
  /\ seen[m][desiredHash(m)] = "ready"
  /\ NextMap(Set(m, [mapStatus(m) EXCEPT !.phase = "Running", !.lastGood = mapStatus(m).active,
                                         !.conds = @ \cup {"PodReady"}]))
  /\ Settled(m)
  /\ UNCHANGED <<pods, jobs>>

\* steady, pod not Ready yet.
SteadyWarming(m) ==
  /\ desiredHash(m) \in livePods(m)
  /\ seen[m][desiredHash(m)] = "starting"
  /\ NextMap(Set(m, [mapStatus(m) EXCEPT !.conds = @ \ {"PodReady"}]))
  /\ Settled(m)
  /\ UNCHANGED <<pods, jobs>>

\* Drift: there is a pod, none of the live ones has the desired hash.
Drift(m) == livePods(m) # {} /\ desiredHash(m) \notin livePods(m)

\* Mutation: the map that is mid-update holds itself back too.
HeldAll(m) == op.mid # NoMap

\* OneAtATime: another map is mid-update.
Held(m) == op.mid # NoMap /\ op.mid # m

HoldBack(m) ==
  /\ Drift(m) /\ Held(m)
  /\ NextMap(entry(m))
  /\ UNCHANGED <<pods, jobs, hist>>

inactive(m) == otherSide(mapStatus(m).active)

\* Mutation: the install goes to the active volume.
RollInstallActive(m) ==
  /\ Drift(m) /\ ~Held(m)
  /\ InitJobStatus(m, inactive(m)) \in {"NotFound", "Running"}
  /\ EnsureInitJob(m, mapStatus(m).active)
  /\ NextMap(Set(m, [mapStatus(m) EXCEPT !.phase = "InstallingInactive"]))
  /\ UNCHANGED <<pods, hist>>

\* rollUpdate step A: the inactive volume needs its install.
RollInstall(m) ==
  /\ Drift(m) /\ ~Held(m)
  /\ InitJobStatus(m, inactive(m)) \in {"NotFound", "Running"}
  /\ EnsureInitJob(m, inactive(m))
  /\ NextMap(Set(m, [mapStatus(m) EXCEPT !.phase = "InstallingInactive"]))
  /\ UNCHANGED <<pods, hist>>

RollInstallFailed(m) ==
  /\ Drift(m) /\ ~Held(m)
  /\ InitJobStatus(m, inactive(m)) = "Failed"
  /\ NextMap(Set(m, [mapStatus(m) EXCEPT !.phase = "Failed",
                                         !.conds = @ \cup {"InstallFailed"}]))
  /\ UNCHANGED <<pods, jobs, hist>>

\* rollUpdate step B, deadline not reached.
WaitDrain(m) ==
  /\ Drift(m) /\ ~Held(m)
  /\ InitJobStatus(m, inactive(m)) = "Succeeded"
  /\ mapStatus(m).deadline > 0
  /\ NextMap(Set(m, [mapStatus(m) EXCEPT !.phase = "DrainingActive"]))
  /\ UNCHANGED <<pods, jobs, hist>>

\* The paths of reconcileMap that write no status before the end of the pass.
ReconcileMap(m) ==
  /\ At(m, "map")
  /\ EnsurePVCs(m)
  /\ \/ FirstInstall(m) \/ FirstInstallFailed(m) \/ FirstPod(m)
     \/ SteadyCrashLooping(m) \/ SteadyReady(m) \/ SteadyWarming(m)
     \/ HoldBack(m) \/ RollInstall(m) \/ RollInstallFailed(m) \/ WaitDrain(m)
  /\ Quiet
  /\ Observe


\* Mutation: every pass before the deadline starts the drain afresh.
StartDrainAgain(m) ==
  /\ At(m, "map")
  /\ Drift(m) /\ ~Held(m)
  /\ InitJobStatus(m, inactive(m)) = "Succeeded"
  /\ mapStatus(m).deadline # 0
  /\ LET st == Set(m, [mapStatus(m) EXCEPT !.deadline = Grace, !.phase = "DrainingActive"])
     IN  /\ persistStatus(st)
         /\ op' = [op EXCEPT !.pc = "announce", !.status = st]
  /\ EnsurePVCs(m)
  /\ hist' = [hist EXCEPT !.notice[m] = Grace]
  /\ UNCHANGED <<pods, jobs, installed, rev, lag, edits, faults>>
  /\ Observe

\* Mutation: the announcement goes out before the deadline is persisted.
StartDrainUnsaved(m) ==
  /\ At(m, "map")
  /\ Drift(m) /\ ~Held(m)
  /\ InitJobStatus(m, inactive(m)) = "Succeeded"
  /\ mapStatus(m).deadline = NoDeadline
  /\ op' = [op EXCEPT !.pc = "announce",
              !.status = Set(m, [mapStatus(m) EXCEPT !.deadline = Grace, !.phase = "DrainingActive"])]
  /\ EnsurePVCs(m)
  /\ hist' = [hist EXCEPT !.notice[m] = Grace]
  /\ UNCHANGED <<api, pods, jobs, installed, rev, lag, edits, faults>>
  /\ Observe

\* rollUpdate step B: persist the deadline, and only then announce.
StartDrain(m) ==
  /\ At(m, "map")
  /\ Drift(m) /\ ~Held(m)
  /\ InitJobStatus(m, inactive(m)) = "Succeeded"
  /\ mapStatus(m).deadline = NoDeadline
  /\ LET st == Set(m, [mapStatus(m) EXCEPT !.deadline = Grace, !.phase = "DrainingActive"])
     IN  /\ persistStatus(st)
         /\ IF Grace > 0 /\ m \in Ingress
            THEN op' = [op EXCEPT !.pc = "announce", !.status = st]
            ELSE NextMap(st)
  /\ EnsurePVCs(m)
  /\ hist' = [hist EXCEPT !.notice[m] = Grace]
  /\ UNCHANGED <<pods, jobs, installed, rev, lag, edits, faults>>
  /\ Observe

\* rcon.AnnounceShutdown (best effort: the count is of calls).
Announce(m) ==
  /\ At(m, "announce")
  /\ NextMap(op.status)
  /\ hist' = [hist EXCEPT !.told[m] = IF @ < 2 THEN @ + 1 ELSE @]
  /\ UNCHANGED <<api, world, lag, edits, faults>>
  /\ Observe

\* rcon.SaveAndExit: the server restarts, or the call failed and was ignored.
SaveAndExit(m, h) ==
  \/ pods' = pods
  \/ m \in Ingress /\ pods' = [pods EXCEPT ![m][h] = IF @ = "ready" THEN "starting" ELSE @]

\* Mutation: a deadline that is set counts as reached.
CommitSwapEarly(m) ==
  /\ At(m, "map")
  /\ Drift(m) /\ ~Held(m)
  /\ InitJobStatus(m, inactive(m)) = "Succeeded"
  /\ mapStatus(m).deadline # NoDeadline
  /\ LET st == Set(m, [mapStatus(m) EXCEPT !.active = inactive(m), !.deadline = NoDeadline,
                                           !.phase = "Swapping"])
     IN  /\ persistStatus(st)
         /\ \E h \in livePods(m) :
              /\ op' = [op EXCEPT !.pc = "delete", !.status = st, !.cur = {h}]
              /\ SaveAndExit(m, h)
  /\ EnsurePVCs(m)
  /\ hist' = [hist EXCEPT !.notice[m] = NoDeadline, !.told[m] = 0, !.done[m] = "swapped"]
  /\ UNCHANGED <<jobs, installed, rev, lag, edits, faults>>
  /\ Observe

\* rollUpdate step C: deadline reached.  SaveAndExit, then commit the swap in the status.
CommitSwap(m) ==
  /\ At(m, "map")
  /\ Drift(m) /\ ~Held(m)
  /\ InitJobStatus(m, inactive(m)) = "Succeeded"
  /\ mapStatus(m).deadline = 0
  /\ LET st == Set(m, [mapStatus(m) EXCEPT !.active = inactive(m), !.deadline = NoDeadline,
                                           !.phase = "Swapping"])
     IN  /\ persistStatus(st)
         /\ \E h \in livePods(m) :
              /\ op' = [op EXCEPT !.pc = "delete", !.status = st, !.cur = {h}]
              /\ SaveAndExit(m, h)
  /\ EnsurePVCs(m)
  /\ hist' = [hist EXCEPT !.notice[m] = NoDeadline, !.told[m] = 0, !.done[m] = "swapped"]
  /\ UNCHANGED <<jobs, installed, rev, lag, edits, faults>>
  /\ Observe

\* Mutation: the old pod is left to somebody else.
DeleteOldSkipped(m) ==
  /\ At(m, "delete")
  /\ op' = [op EXCEPT !.pc = "create", !.cur = {}]
  /\ UNCHANGED <<api, world, lag, edits, faults, hist>>
  /\ Observe

\* Delete with 60 s of grace; a pod that is gone, or going, stays so.
DeleteOld(m) ==
  /\ At(m, "delete")
  /\ pods' = [pods EXCEPT ![m] = [h \in Hash |->
                IF h \in op.cur /\ @[h] \in Live THEN "terminating" ELSE @[h]]]
  /\ op' = [op EXCEPT !.pc = "create", !.cur = {}]
  /\ UNCHANGED <<api, jobs, pvc, installed, rev, lag, edits, faults, hist>>
  /\ Observe

\* Mutation: the hash was computed before the swap.
CreateNewOldHash(m) ==
  /\ At(m, "create")
  /\ ensurePodForMap(m, computePodHash(m, otherSide(op.status.maps[m].active)))
  /\ NextMap(op.status)
  /\ UNCHANGED <<api, jobs, pvc, installed, rev, lag, edits, faults, hist>>
  /\ Observe

\* rollUpdate step D: the new pod, on the volume that is active now.
CreateNew(m) ==
  /\ At(m, "create")
  /\ ensurePodForMap(m, computePodHash(m, op.status.maps[m].active))
  /\ NextMap(op.status)
  /\ UNCHANGED <<api, jobs, pvc, installed, rev, lag, edits, faults, hist>>
  /\ Observe

\* rollback: commit the return to the last good volume ...
Rollback(m) ==
  /\ At(m, "map")
  /\ desiredHash(m) \in livePods(m)
  /\ shouldRollback(m) /\ hasLastGood(m)
  /\ LET st == Set(m, [mapStatus(m) EXCEPT !.active = mapStatus(m).lastGood,
                                           !.conds = @ \cup {"RollbackOccurred"}])
     IN  /\ persistStatus(st)
         /\ op' = [op EXCEPT !.pc = "discard", !.status = st, !.cur = {desiredHash(m)}]
  /\ EnsurePVCs(m)
  /\ hist' = [hist EXCEPT !.notice[m] = NoDeadline, !.told[m] = 0, !.done[m] = "rolledBack"]
  /\ UNCHANGED <<pods, jobs, installed, rev, lag, edits, faults>>
  /\ Observe

\* Mutation: the bad pod stays.
DiscardBadSkipped(m) ==
  /\ At(m, "discard")
  /\ NextMap(op.status)
  /\ UNCHANGED <<api, world, lag, edits, faults, hist>>
  /\ Observe

\* ... then delete the bad pod with no grace.
DiscardBad(m) ==
  /\ At(m, "discard")
  /\ pods' = [pods EXCEPT ![m] = [h \in Hash |-> IF h \in op.cur THEN "none" ELSE @[h]]]
  /\ NextMap(op.status)
  /\ UNCHANGED <<api, jobs, pvc, installed, rev, lag, edits, faults, hist>>
  /\ Observe

specMaps == {op.spec.maps[i] : i \in DOMAIN op.spec.maps}

\* A ConfigMap or Secret that is rewritten, or deleted and made again, gets a new revision.
NextRev(r) == (r + 1) % (MaxRev + 1)

\* The end of the loop over the maps: status.maps is pruned, ReadyMaps and Phase are computed.
Wrap ==
  /\ op.pc = "map"
  /\ op.idx \notin DOMAIN op.spec.maps
  /\ op' = [op EXCEPT !.pc = "publish", !.status = Aggregate(Prune(op.status, specMaps))]

\* Mutation: orphans are looked for in the status, from which they were pruned.
gcListedMaps ==
  /\ Wrap
  /\ pods' = [m \in Maps |-> [h \in Hash |->
                IF m \in op.status.ids \ specMaps /\ seen[m][h] # "none" /\ pods[m][h] \in Live
                THEN "terminating" ELSE pods[m][h]]]
  /\ pvc' = [m \in Maps |-> IF m \in op.status.ids \ specMaps /\ ~PersistOnDelete /\ pvc[m] = "bound"
                            THEN "terminating" ELSE pvc[m]]
  /\ rev' = [m \in Maps |-> IF m \in op.status.ids \ specMaps THEN NextRev(rev[m]) ELSE rev[m]]
  /\ UNCHANGED <<api, jobs, installed, lag, edits, faults, hist>>
  /\ Observe

(***************************************************************************)
(* gcOrphanedMaps: pods, claims (unless PersistOnDelete) and ConfigMaps of *)
(* maps that left the spec; the init Jobs stay.                            *)
(***************************************************************************)
gcOrphanedMaps ==
  /\ Wrap
  /\ pods' = [m \in Maps |-> [h \in Hash |->
                IF m \notin specMaps /\ seen[m][h] # "none" /\ pods[m][h] \in Live
                THEN "terminating" ELSE pods[m][h]]]
  /\ pvc' = [m \in Maps |-> IF m \notin specMaps /\ ~PersistOnDelete /\ pvc[m] = "bound"
                            THEN "terminating" ELSE pvc[m]]
  /\ rev' = [m \in Maps |-> IF m \in op.status.ids \ specMaps THEN NextRev(rev[m]) ELSE rev[m]]
  /\ UNCHANGED <<api, jobs, installed, lag, edits, faults, hist>>
  /\ Observe

\* The final Status().Update; it too swallows a conflict.  The pass ends.
Publish ==
  /\ op.pc = "publish"
  /\ persistStatus(op.status)
  /\ op' = Idle
  /\ UNCHANGED <<world, lag, edits, faults, hist>>
  /\ Observe

Pass ==
  \/ Begin
  \/ \E m \in Maps : \/ ReconcileMap(m)
                     \/ StartDrain(m) \/ Announce(m)
                     \/ CommitSwap(m) \/ DeleteOld(m) \/ CreateNew(m)
                     \/ Rollback(m) \/ DiscardBad(m)
  \/ gcOrphanedMaps
  \/ Publish

-----------------------------------------------------------------------------
(* What the cluster does on its own: kubelet, Job and PVC controllers.     *)

SetPod(m, h, st) ==
  /\ pods' = [pods EXCEPT ![m][h] = st]
  /\ UNCHANGED <<api, jobs, pvc, installed, rev, op, lag, edits, faults, hist>>
  /\ Observe

\* The probes pass only if there is a game to run.
PodBecomesReady(m, h) ==
  /\ pods[m][h] = "starting" /\ pvc[m] = "bound" /\ h.vol \in installed[m]
  /\ SetPod(m, h, "ready")

\* Three restarts with a failing exit code in five minutes; later the window passes.
PodCrashLoops(m, h) ==
  /\ "podLoop" \in Mishaps
  /\ \/ pods[m][h] \in {"starting", "ready"} /\ SetPod(m, h, "looping")
     \/ pods[m][h] = "looping" /\ SetPod(m, h, "starting")

\* A node drain or a user deletes the pod.
PodEvicted(m, h) ==
  /\ "evict" \in Mishaps /\ pods[m][h] \in Live
  /\ SetPod(m, h, "terminating")

PodGone(m, h) ==
  /\ pods[m][h] = "terminating"
  /\ SetPod(m, h, "none")

SetJob(m, v, i, st) ==
  /\ jobs' = [jobs EXCEPT ![m][v][i] = st]
  /\ UNCHANGED <<api, pods, pvc, rev, op, lag, edits, faults, hist>>
  /\ Observe

JobSucceeds(m, v, i) ==
  /\ jobs[m][v][i] = "Running" /\ pvc[m] # "absent"
  /\ SetJob(m, v, i, "Succeeded")
  /\ installed' = [installed EXCEPT ![m] = @ \cup {v}]

JobFails(m, v, i) ==
  /\ "jobFail" \in Mishaps /\ jobs[m][v][i] = "Running"
  /\ SetJob(m, v, i, "Failed")
  /\ UNCHANGED installed

\* ttlSecondsAfterFinished
JobExpires(m, v, i) ==
  /\ "expire" \in Mishaps /\ jobs[m][v][i] \in {"Succeeded", "Failed"}
  /\ SetJob(m, v, i, "NotFound")
  /\ UNCHANGED installed

\* A claim being deleted goes, with its data, once no pod and no running Job uses it; a pod
\* made meanwhile is not scheduled and does not count.
PVCReleased(m) ==
  /\ pvc[m] = "terminating"
  /\ \A h \in Hash : pods[m][h] \in {"none", "starting"}
  /\ \A v \in Volumes, i \in Images : jobs[m][v][i] # "Running"
  /\ pvc' = [pvc EXCEPT ![m] = "absent"]
  /\ installed' = [installed EXCEPT ![m] = {}]
  /\ UNCHANGED <<api, pods, jobs, rev, op, lag, edits, faults, hist>>
  /\ Observe

Cluster ==
  \E m \in Maps :
    \/ \E h \in Hash : PodBecomesReady(m, h) \/ PodCrashLoops(m, h) \/ PodEvicted(m, h) \/ PodGone(m, h)
    \/ \E v \in Volumes, i \in Images : JobSucceeds(m, v, i) \/ JobFails(m, v, i) \/ JobExpires(m, v, i)
    \/ PVCReleased(m)

-----------------------------------------------------------------------------
(* Users. *)

Busy == op.pc # "idle"

\* Any write to the object makes what a pass under way holds an old version.
Outdate == op' = IF Busy THEN [op EXCEPT !.fresh = FALSE] ELSE op

\* A spec edit; while a pass runs it is one of the races.
EditSpec ==
  /\ edits > 0
  /\ Busy => "race" \in Faults
  /\ \E s \in Specs \ {api.spec} : api' = [api EXCEPT !.spec = s]
  /\ Outdate
  /\ edits' = edits - 1
  /\ hist' = [hist EXCEPT !.done = [m \in Maps |-> "none"]]
  /\ UNCHANGED <<world, lag, faults>>
  /\ Observe

\* A ConfigMap or Secret a map's pods refer to is edited.
EditConfig(m) ==
  /\ edits > 0 /\ MaxRev > 0
  /\ rev' = [rev EXCEPT ![m] = NextRev(@)]
  /\ edits' = edits - 1
  /\ hist' = [hist EXCEPT !.done[m] = "none"]
  /\ UNCHANGED <<api, pods, jobs, pvc, installed, op, lag, faults>>
  /\ Observe

-----------------------------------------------------------------------------
(* Faults. *)

Fault(f) ==
  /\ f \in Faults /\ faults > 0
  /\ faults' = faults - 1
  /\ UNCHANGED <<jobs, pvc, installed, rev, edits, hist>>

\* Another writer (the mod-update controller, a user) writes the object during the pass.
ForeignWrite ==
  /\ Fault("race")
  /\ Busy /\ op.fresh
  /\ Outdate
  /\ UNCHANGED <<api, pods, lag>>
  /\ Observe

\* The operator dies during a pass; the next leader starts with synced caches.
Crash ==
  /\ Fault("crash")
  /\ Busy
  /\ op' = Idle /\ lag' = {}
  /\ UNCHANGED <<api, pods>>
  /\ Observe

\* An API call fails and Reconcile returns the error: what was not persisted is lost.
Abort ==
  /\ Fault("apiErr")
  /\ \/ op.pc \in {"create", "publish"}
     \/ op.pc = "map" /\ op.idx \in DOMAIN op.spec.maps
  /\ op' = Idle
  /\ UNCHANGED <<api, pods, lag>>
  /\ Observe

\* The same between SaveAndExit and the end of the write that commits the swap: the server was
\* told to exit, the status does not know.
SwapLost(m) ==
  /\ \/ Fault("crash") /\ lag' = {}
     \/ Fault("apiErr") /\ UNCHANGED lag
  /\ At(m, "map") /\ pvc[m] # "absent"
  /\ Drift(m) /\ ~Held(m)
  /\ InitJobStatus(m, inactive(m)) = "Succeeded"
  /\ mapStatus(m).deadline = 0
  /\ \E h \in livePods(m) : SaveAndExit(m, h)
  /\ op' = Idle
  /\ UNCHANGED api
  /\ Observe

\* InitJobStatus reports a Job that cannot be read as Failed, and the pass goes on.
JobUnread(m) ==
  /\ Fault("jobErr")
  /\ At(m, "map") /\ pvc[m] # "absent"
  /\ livePods(m) = {} \/ (Drift(m) /\ ~Held(m))
  /\ NextMap(Set(m, [mapStatus(m) EXCEPT !.phase = "Failed",
                                         !.conds = @ \cup {"InstallFailed"}]))
  /\ UNCHANGED <<api, pods, lag>>
  /\ Observe

\* A Delete fails, of the old pod, the bad pod or an orphan; the code ignores the error.
DeleteFails ==
  /\ Fault("apiErr")
  /\ \/ /\ op.pc = "delete"
        /\ op' = [op EXCEPT !.pc = "create", !.cur = {}]
     \/ /\ op.pc = "discard"
        /\ NextMap(op.status)
     \/ Wrap
  /\ UNCHANGED <<api, pods, lag>>
  /\ Observe

\* An informer stops following its watch ...
FallBehind ==
  /\ Fault("lag")
  /\ \E i \in {"cluster", "pods"} \ lag : lag' = lag \cup {i}
  /\ UNCHANGED <<api, pods, op>>
  /\ Observe

\* ... and catches up.
CatchUp ==
  /\ lag # {}
  /\ \E i \in lag : lag' = lag \ {i}
  /\ UNCHANGED <<api, world, op, edits, faults, hist>>
  /\ Observe

\* A deadline one tick nearer.
Sooner(d) == IF d > 0 THEN d - 1 ELSE d
Aged(st) ==
  [st EXCEPT !.maps = [m \in Maps |-> [st.maps[m] EXCEPT !.deadline = Sooner(st.maps[m].deadline)]]]

\* Time passes for every copy of a deadline; it is of interest only while one runs.
Tick ==
  /\ \E m \in Maps : \/ api.status.maps[m].deadline > 0
                     \/ op.status.maps[m].deadline > 0
  /\ api' = [api EXCEPT !.status = Aged(api.status)]
  /\ cache' = [cache EXCEPT !.status = Aged(cache.status)]
  /\ op' = [op EXCEPT !.status = Aged(op.status)]
  /\ hist' = [hist EXCEPT !.notice = [m \in Maps |-> Sooner(hist.notice[m])]]
  /\ UNCHANGED <<world, seen, lag, edits, faults>>

Next ==
  \/ Pass
  \/ Cluster
  \/ EditSpec
  \/ \E m \in Maps : EditConfig(m) \/ SwapLost(m) \/ JobUnread(m)
  \/ ForeignWrite \/ Crash \/ Abort \/ DeleteFails \/ FallBehind \/ CatchUp
  \/ Tick

Spec == Init /\ [][Next]_vars


-----------------------------------------------------------------------------
(***************************************************************************)
(* Fairness.  controller-runtime calls Reconcile again after every pass    *)
(* (RequeueAfter is always set, errors are retried), kubelet and the Job   *)
(* and PVC controllers finish what they started, watches catch up and time *)
(* passes.  Nothing is assumed of users, mishaps or faults.                *)
(***************************************************************************)
Fairness ==
  /\ WF_vars(Pass)
  /\ WF_vars(CatchUp)
  /\ WF_vars(Tick)
  /\ \A m \in Maps :
       /\ WF_vars(PVCReleased(m))
       /\ \A h \in Hash : /\ WF_vars(PodBecomesReady(m, h))
                          /\ WF_vars(PodGone(m, h))
       /\ \A v \in Volumes, i \in Images : WF_vars(JobSucceeds(m, v, i))

FairSpec == Spec /\ Fairness

-----------------------------------------------------------------------------
(* Properties. *)

\* Every variable keeps its type: the status the reconciler builds through
\* EnsureMapStatus, the map handlers and the prune is always a well-formed status.
TypeOK ==
  /\ api \in Object
  /\ cache \in Object
  /\ pods \in [Maps -> [Hash -> PodStates]]
  /\ seen \in [Maps -> [Hash -> PodStates]]
  /\ jobs \in [Maps -> [Volumes -> [Images -> JobStates]]]
  /\ pvc \in [Maps -> {"absent", "bound", "terminating"}]
  /\ installed \in [Maps -> SUBSET Volumes]
  /\ rev \in [Maps -> Revs]
  /\ op \in Ops
  /\ lag \in SUBSET {"cluster", "pods"}
  /\ edits \in 0 .. MaxEdits
  /\ faults \in 0 .. MaxFaults
  /\ hist \in [notice : [Maps -> Deadlines], told : [Maps -> 0 .. 2],
               done : [Maps -> {"none", "swapped", "rolledBack"}]]

\* No server pod is started on a volume on which no install has completed: firstStart waits
\* for the Job on the active volume, rollUpdate for the one on the inactive volume, and a
\* rollback returns to a volume that was installed.
InstalledBeforeServed ==
  \A m \in Maps, h \in Hash : pods[m][h] \in Live => h.vol \in installed[m]

\* No install writes to a volume a live server runs from: rollUpdate installs on the
\* inactive side only, firstStart only while the map has no pod.
InstallOffline ==
  \A m \in Maps, h \in Hash, i \in Images :
    pods[m][h] \in Live => jobs[m][h.vol][i] # "Running"

\* A map never has two pods that are not being deleted.
LivePodsOf(m) == {h \in Hash : pods[m][h] \in Live}
SingleServer ==
  \A m \in Maps : \A h, k \in LivePodsOf(m) : h = k

\* The map whose swap the next step commits: from the map's turn to the delete.
Swaps(m) == At(m, "map") /\ op'.pc = "delete"

\* The players of a server that is swapped out had the whole grace period, counted from the
\* drain of this very roll, before SaveAndExit.
GraceHonoured ==
  [][\A m \in Maps : Swaps(m) => hist.notice[m] = 0]_vars

\* One roll of a map announces the shutdown at most once, whatever is retried.
AnnounceOnce ==
  \A m \in Maps : hist.told[m] <= 1

NotExtended ==
  \A m \in Maps : api.status.maps[m].deadline # NoDeadline
                    => api'.status.maps[m].deadline <= api.status.maps[m].deadline

\* A drain deadline in the API is the only timer of a drain: until it is cleared it only
\* comes nearer, no restart, conflict or stale read ever starts it afresh.
DeadlineNeverExtended == [][NotExtended]_vars

\* After an automatic rollback the failed update is not tried again until somebody edits the
\* spec or a configuration.
NoRetryAfterRollback ==
  [][\A m \in Maps : Swaps(m) => hist.done[m] # "rolledBack"]_vars

\* One change takes a map through one swap: the players are not thrown out a second time.
OneSwapPerChange ==
  [][\A m \in Maps : Swaps(m) => hist.done[m] # "swapped"]_vars

\* status.maps[].drainDeadline is set while the map is draining and null otherwise.
DeadlineOnlyWhenDraining ==
  \A m \in Maps : api.status.maps[m].deadline # NoDeadline
                    => api.status.maps[m].phase = "DrainingActive"

\* rollout OneAtATime: at most one map is draining or swapping.
OneMapDown ==
  Cardinality({m \in Maps : api.status.maps[m].phase \in {"DrainingActive", "Swapping"}}) <= 1

\* rollout OneAtATime: at most one map is swapping.
OneSwapping ==
  Cardinality({m \in Maps : api.status.maps[m].phase = "Swapping"}) <= 1

\* rollout OneAtATime, what the published phases keep of it: two maps may drain together, but as
\* long as no deadline outlives its drain, midFlightMap lets at most one map be in phase Swapping,
\* whatever is interrupted.
OneSwapAtATime == []DeadlineOnlyWhenDraining => []OneSwapping

\* A map that swapped, for this change or one before, and that firstStart is not starting afresh.
Moved(n) ==
  /\ hist.done[n] = "swapped" \/ api.status.maps[n].phase = "Swapping"
  /\ api.status.maps[n].phase \notin {"Provisioning", "InstallingActive"}

\* The map whose server the pass is about to delete is the only one of them that is down.
OthersServe ==
  op.pc = "delete" =>
    \A n \in specMaps \ {op.spec.maps[op.idx]} :
      Moved(n) => \E h \in Hash : pods[n][h] = "ready"

\* rollout OneAtATime, what the players see of it: a roll takes a server down only when every
\* server that was moved before it is up again, not merely when its swap is committed, whatever
\* is interrupted or edited meanwhile.  Two things midFlightMap does not wait for are excepted: a
\* map whose new pod is left to firstStart (the operator died before making it, or its name was
\* still taken), and the swaps of a deadline that outlived its drain.
OneServerDown == []DeadlineOnlyWhenDraining => []OthersServe

\* The same of every server moved for this change.
OneServerDownAlways ==
  [](op.pc = "delete" =>
       \A n \in specMaps \ {op.spec.maps[op.idx]} :
         hist.done[n] = "swapped" => \E h \in Hash : pods[n][h] = "ready")

\* Every change of a published map phase is in the table of internal/statemachine.
PhaseTable ==
  [][\A m \in api.status.ids \cap api'.status.ids :
       AllowedTransition(api.status.maps[m].phase, api'.status.maps[m].phase)]_vars

\* The saves volume has one writer: no two pods of a map exist, terminating ones included.
SavesExclusive ==
  \A m \in Maps : Cardinality({h \in Hash : pods[m][h] # "none"}) <= 1

\* The pod the spec in the API asks for.
Serving(m, i) ==
  \E v \in Volumes :
    LET h == PodTemplateHash(api.spec.image, api.spec.launch, i, rev[m], v)
    IN  /\ v = api.status.maps[m].active
        /\ pods[m][h] = "ready"

Converged ==
  /\ \A i \in DOMAIN api.spec.maps : Serving(api.spec.maps[i], i)
  /\ api.status.phase = "Running"
  /\ api.status.ready = Len(api.spec.maps)

\* Once edits and faults stop, every map of the spec ends up served by a ready pod of the
\* desired template and the published status says so, for good.
Converges == <>[]Converged

\* The same where a map may leave and come back, and find its volumes emptied: whatever is edited
\* or interrupted, in the end either all maps are served and the status says so, or some pod
\* waits on a volume that holds no game.
ConvergesOnInstalled == <>[](Converged \/ ~InstalledBeforeServed)

\* ... and the pods of earlier templates are gone.
Alone == \A m \in Maps : Cardinality(LivePodsOf(m)) <= 1
StalePodsGo == <>[]Alone

\* A map that stays out of the spec leaves no pod, no claim (unless they are to persist) and
\* no status entry behind: gcOrphanedMaps finds them on some pass, whatever was under way.
Collected(m) ==
  /\ \A h \in Hash : pods[m][h] = "none"
  /\ PersistOnDelete \/ pvc[m] = "absent"
  /\ m \notin api.status.ids
Orphan(m) == \A i \in DOMAIN api.spec.maps : api.spec.maps[i] # m
OrphansCollected == <>[](\A m \in Maps : Orphan(m) => Collected(m))

-----------------------------------------------------------------------------
(***************************************************************************)
(* Refinement.  The active volume of a map without an entry in the status  *)
(* is the one Enter will give it.                                          *)
(***************************************************************************)
BG(m) == INSTANCE BlueGreen WITH
           active <- Enter(api.status, m).maps[m].active,
           writing <- {v \in Volumes : \E i \in Images : jobs[m][v][i] = "Running"},
           installed <- installed[m],
           serving <- {h.vol : h \in LivePodsOf(m)}

\* Every step of the reconciler, the cluster and its users is a step of the blue/green
\* promise or leaves it alone: whatever passes are repeated or given up, a server moves to a
\* volume only after that volume was installed and the move was committed to the status.
\* This is BG(m)!Spec for every map m, in a form that TLC checks.
Implements ==
  /\ \A m \in Maps : BG(m)!Init
  /\ [][\A m \in Maps : [BG(m)!Next]_(BG(m)!vars)]_vars

=============================================================================

--------------------------- MODULE BlueGreenProofs ---------------------------
(***************************************************************************)
(* Theorems about ArkClusterController, continued: one server per map, no  *)
(* install under a live server, and the refinement of BlueGreen.           *)
(***************************************************************************)
EXTENDS ArkClusterControllerProofs

-----------------------------------------------------------------------------
(* Caches that do not lag show what the API server holds. *)

Synced == lag = {} /\ cache = api /\ seen = pods

LEMMA SyncedStep ==
  ASSUME "lag" \notin Faults, Synced, Next
  PROVE  Synced'
<1>1. lag = {} /\ cache = api /\ seen = pods
  BY DEF Synced
<1>2. ASSUME Observe, UNCHANGED lag
      PROVE  Synced'
  BY <1>1, <1>2 DEF Observe, Synced
<1>3. CASE Begin \/ gcOrphanedMaps \/ Publish
  BY <1>2, <1>3 DEF Begin, gcOrphanedMaps, Publish
<1>4. ASSUME NEW m \in Maps,
             \/ ReconcileMap(m) \/ StartDrain(m) \/ Announce(m) \/ CommitSwap(m) \/ DeleteOld(m)
             \/ CreateNew(m) \/ Rollback(m) \/ DiscardBad(m)
      PROVE  Synced'
  BY <1>2, <1>4 DEF ReconcileMap, Quiet, StartDrain, Announce, CommitSwap, DeleteOld, CreateNew,
                    Rollback, DiscardBad
<1>5. CASE Cluster
  <2>1. Observe /\ UNCHANGED lag
    BY <1>5 DEF Cluster, PodBecomesReady, PodCrashLoops, PodEvicted, PodGone, SetPod,
                JobSucceeds, JobFails, JobExpires, SetJob, PVCReleased
  <2> QED
    BY <1>2, <2>1
<1>6. CASE EditSpec \/ (\E m \in Maps : EditConfig(m))
  BY <1>2, <1>6 DEF EditSpec, EditConfig
<1>7. CASE ForeignWrite \/ Abort \/ DeleteFails
  BY <1>2, <1>7 DEF ForeignWrite, Abort, DeleteFails
<1>8. CASE Crash
  BY <1>8 DEF Crash, Observe, Synced
<1>9. CASE FallBehind \/ CatchUp
  BY <1>1, <1>9 DEF FallBehind, Fault, CatchUp
<1>10. CASE Tick
  BY <1>1, <1>10 DEF Tick, world, Synced
<1>11. ASSUME NEW m \in Maps, SwapLost(m) \/ JobUnread(m)
       PROVE  Synced'
  <2>1. Observe /\ lag' = {}
    BY <1>1, <1>11 DEF SwapLost, JobUnread
  <2> QED
    BY <2>1 DEF Observe, Synced
<1> QED
  BY <1>3, <1>4, <1>5, <1>6, <1>7, <1>8, <1>9, <1>10, <1>11 DEF Next, Pass

LEMMA SyncedAlways == "lag" \notin Faults => (Spec => []Synced)
<1> SUFFICES ASSUME "lag" \notin Faults PROVE Spec => []Synced
  OBVIOUS
<1>1. Init => Synced
  BY DEF Init, Synced
<1>2. Synced /\ [Next]_vars => Synced'
  <2>1. CASE UNCHANGED vars
    BY <2>1 DEF vars, Synced
  <2> QED
    BY <2>1, SyncedStep
<1> QED
  BY <1>1, <1>2, PTL DEF Spec

-----------------------------------------------------------------------------
(***************************************************************************)
(* SingleServer.  Between the commit of a swap and the new pod the         *)
(* invariant must know that the pod about to be deleted is the only one,   *)
(* and that after the delete there is none.                                *)
(***************************************************************************)

\* The map a pass is at.
Turn == op.spec.maps[op.idx]

Handover ==
  op.pc \in {"delete", "create", "discard"} =>
    /\ op.idx \in DOMAIN op.spec.maps
    /\ \A h \in LivePodsOf(Turn) : op.pc # "create" /\ h \in op.cur

SingleInv == SingleServer /\ Handover

\* Steps that start no pod and do not touch a handover keep the invariant.
LEMMA QuietSingle ==
  ASSUME SingleInv,
         \A m \in Maps, h \in Hash : pods'[m][h] \in Live => pods[m][h] \in Live,
         Handover'
  PROVE  SingleInv'
BY DEF SingleInv, SingleServer, LivePodsOf

\* ... for instance when the pass stays where it is.
LEMMA SameHandover ==
  ASSUME TypeOK, Handover,
         \A m \in Maps, h \in Hash : pods'[m][h] \in Live => pods[m][h] \in Live,
         \/ op'.pc \notin {"delete", "create", "discard"}
         \/ /\ op'.pc = op.pc /\ op'.idx = op.idx /\ op'.spec = op.spec /\ op'.cur = op.cur
  PROVE  Handover'
<1>1. CASE op'.pc \notin {"delete", "create", "discard"}
  BY <1>1 DEF Handover
<1>2. CASE /\ op.pc \in {"delete", "create", "discard"}
           /\ op'.pc = op.pc /\ op'.idx = op.idx /\ op'.spec = op.spec /\ op'.cur = op.cur
  <2>1. Turn' = Turn
    BY <1>2 DEF Turn
  <2>2. Turn \in Maps
    BY <1>2, SpecsAssumption DEF Handover, Turn, TypeOK, Ops
  <2>3. LivePodsOf(Turn)' \subseteq LivePodsOf(Turn)
    BY <2>1, <2>2 DEF LivePodsOf
  <2> QED
    BY <1>2, <2>3 DEF Handover
<1> QED
  BY <1>1, <1>2

\* A pod that is created where there is none is the only one.
LEMMA OnlyPod ==
  ASSUME TypeOK, SingleInv, NEW m \in Maps, NEW h, LivePodsOf(m) = {},
         ensurePodForMap(m, h), op'.pc = "map"
  PROVE  SingleInv'
<1>1. \A n \in Maps, k \in Hash : pods'[n][k] \in Live => pods[n][k] \in Live \/ (n = m /\ k = h)
  BY DEF TypeOK, ensurePodForMap
<1>2. SingleServer'
  BY <1>1 DEF SingleInv, SingleServer, LivePodsOf
<1> QED
  BY <1>2 DEF SingleInv, Handover

\* The paths of a map's turn.
LEMMA TurnSingle ==
  ASSUME TypeOK, Synced, SingleInv, NEW m \in Maps,
         \/ ReconcileMap(m) \/ StartDrain(m) \/ CommitSwap(m) \/ Rollback(m)
  PROVE  SingleInv'
<1>1. op \in Ops /\ pods \in PodsType
  BY DEF TypeOK, PodsType
<1>2. op.idx \in DOMAIN op.spec.maps /\ m = Turn
  BY DEF ReconcileMap, StartDrain, CommitSwap, Rollback, At, Turn
<1>3. livePods(m) = LivePodsOf(m)
  BY DEF Synced, livePods, LivePodsOf
<1>4. CASE ReconcileMap(m)
  <2>1. op'.pc = "map"
    BY <1>4, ReconcileMapType
  <2>2. CASE FirstPod(m)
    BY <1>3, <2>1, <2>2, OnlyPod DEF FirstPod
  <2>3. CASE ~FirstPod(m)
    <3>1. UNCHANGED pods
      BY <1>4, <2>3 DEF ReconcileMap, FirstInstall, FirstInstallFailed, SteadyCrashLooping, SteadyReady,
                        SteadyWarming, HoldBack, RollInstall, RollInstallFailed, WaitDrain
    <3> QED
      BY <2>1, <3>1, SameHandover, QuietSingle DEF SingleInv
  <2> QED
    BY <2>2, <2>3
<1>5. CASE StartDrain(m)
  <2>1. \E st : \/ op' = [op EXCEPT !.pc = "announce", !.status = st]
                \/ op' = [op EXCEPT !.pc = "map", !.status = st, !.idx = op.idx + 1, !.cur = {}]
    BY <1>5 DEF StartDrain, NextMap
  <2>2. op'.pc \in {"announce", "map"} /\ UNCHANGED pods
    BY <1>1, <1>5, <2>1 DEF StartDrain, Ops
  <2> QED
    BY <2>2, SameHandover, QuietSingle DEF SingleInv
<1>6. CASE CommitSwap(m)
  <2>1. PICK h \in livePods(m) : \E st :
          op' = [op EXCEPT !.pc = "delete", !.status = st, !.cur = {h}] /\ SaveAndExit(m, h)
    BY <1>6 DEF CommitSwap
  <2>2. h \in Hash /\ h \in LivePodsOf(m)
    BY <1>3, <2>1 DEF LivePodsOf
  <2>3. \A n \in Maps, k \in Hash : pods'[n][k] \in Live => pods[n][k] \in Live
    BY <1>1, <2>1, <2>2 DEF SaveAndExit, PodsType, Live
  <2>4. op'.idx = op.idx /\ op'.spec = op.spec /\ op'.cur = {h} /\ op'.pc = "delete"
    BY <1>1, <2>1 DEF Ops
  <2>5. \A k \in LivePodsOf(m) : k = h
    BY <2>2 DEF SingleInv, SingleServer
  <2>6. \A k \in LivePodsOf(m)' : k = h
    BY <2>3, <2>5 DEF LivePodsOf
  <2>7. Handover'
    BY <1>2, <2>4, <2>6 DEF Handover, Turn
  <2> QED
    BY <2>3, <2>7, QuietSingle
<1>7. CASE Rollback(m)
  <2>1. PICK st : op' = [op EXCEPT !.pc = "discard", !.status = st, !.cur = {desiredHash(m)}]
    BY <1>7 DEF Rollback
  <2>2. op'.idx = op.idx /\ op'.spec = op.spec /\ op'.cur = {desiredHash(m)} /\ op'.pc = "discard"
    BY <1>1, <2>1 DEF Ops
  <2>3. desiredHash(m) \in LivePodsOf(m) /\ UNCHANGED pods
    BY <1>3, <1>7 DEF Rollback
  <2>4. \A k \in LivePodsOf(m)' : k = desiredHash(m)
    BY <2>3 DEF SingleInv, SingleServer, LivePodsOf
  <2>5. Handover'
    BY <1>2, <2>2, <2>4 DEF Handover, Turn
  <2> QED
    BY <2>3, <2>5, QuietSingle
<1> QED
  BY <1>4, <1>5, <1>6, <1>7

\* The cluster on its own brings no pod to life and starts no Job.
LEMMA ClusterPods ==
  ASSUME TypeOK, Cluster
  PROVE  \A n \in Maps, k \in Hash : pods'[n][k] \in Live => pods[n][k] \in Live
<1> DEFINE Goal == \A n \in Maps, k \in Hash : pods'[n][k] \in Live => pods[n][k] \in Live
<1>1. ASSUME NEW m \in Maps, NEW h \in Hash, NEW st, SetPod(m, h, st), st \in Live => pods[m][h] \in Live
      PROVE  Goal
  BY <1>1 DEF SetPod, TypeOK
<1>2. ASSUME NEW m \in Maps, NEW h \in Hash,
             PodBecomesReady(m, h) \/ PodCrashLoops(m, h) \/ PodEvicted(m, h) \/ PodGone(m, h)
      PROVE  Goal
  BY <1>1, <1>2 DEF PodBecomesReady, PodCrashLoops, PodEvicted, PodGone, Live
<1>3. CASE UNCHANGED pods
  BY <1>3
<1> QED
  BY <1>2, <1>3 DEF Cluster, JobSucceeds, JobFails, JobExpires, SetJob, PVCReleased

LEMMA ClusterJobs ==
  ASSUME TypeOK, Cluster
  PROVE  \A n \in Maps, w \in Volumes, j \in Images :
           jobs'[n][w][j] = "Running" => jobs[n][w][j] = "Running"
<1> DEFINE Goal == \A n \in Maps, w \in Volumes, j \in Images :
                     jobs'[n][w][j] = "Running" => jobs[n][w][j] = "Running"
<1>1. ASSUME NEW m \in Maps, NEW v \in Volumes, NEW i \in Images,
             JobSucceeds(m, v, i) \/ JobFails(m, v, i) \/ JobExpires(m, v, i)
      PROVE  Goal
  <2>1. PICK st \in {"Succeeded", "Failed", "NotFound"} : jobs' = [jobs EXCEPT ![m][v][i] = st]
    BY <1>1 DEF JobSucceeds, JobFails, JobExpires, SetJob
  <2>2. jobs \in JobsType
    BY DEF TypeOK, JobsType
  <2> QED
    BY <2>1, <2>2 DEF JobsType
<1>2. CASE UNCHANGED jobs
  BY <1>2
<1> QED
  BY <1>1, <1>2 DEF Cluster, PodBecomesReady, PodCrashLoops, PodEvicted, PodGone, SetPod, PVCReleased

LEMMA SingleStep ==
  ASSUME {"lag", "apiErr"} \cap Faults = {}, TypeOK, Synced, SingleInv, Next
  PROVE  SingleInv'
<1>1. op \in Ops /\ pods \in PodsType
  BY DEF TypeOK, PodsType
<1>2. ASSUME \A m \in Maps, h \in Hash : pods'[m][h] \in Live => pods[m][h] \in Live,
             \/ op'.pc \notin {"delete", "create", "discard"}
             \/ /\ op'.pc = op.pc /\ op'.idx = op.idx /\ op'.spec = op.spec /\ op'.cur = op.cur
      PROVE  SingleInv'
  BY <1>2, SameHandover, QuietSingle DEF SingleInv
<1>3. CASE Begin
  BY <1>2, <1>3 DEF Begin, world
<1>4. ASSUME NEW m \in Maps, ReconcileMap(m) \/ StartDrain(m) \/ CommitSwap(m) \/ Rollback(m)
      PROVE  SingleInv'
  BY <1>4, TurnSingle
<1>5. ASSUME NEW m \in Maps, Announce(m)
      PROVE  SingleInv'
  BY <1>1, <1>2, <1>5 DEF Announce, NextMap, Ops, world
<1>6. ASSUME NEW m \in Maps, DeleteOld(m)
      PROVE  SingleInv'
  <2>1. m = Turn /\ op.idx \in DOMAIN op.spec.maps /\ op.pc = "delete"
    BY <1>6 DEF DeleteOld, At, Turn
  <2>2. \A n \in Maps, h \in Hash : pods'[n][h] \in Live => pods[n][h] \in Live /\ (n = m => h \notin op.cur)
    BY <1>1, <1>6 DEF DeleteOld, PodsType, Live
  <2>3. op'.idx = op.idx /\ op'.spec = op.spec /\ op'.pc = "create"
    BY <1>1, <1>6 DEF DeleteOld, Ops
  <2>4. LivePodsOf(m)' = {}
    BY <2>1, <2>2 DEF SingleInv, Handover, LivePodsOf
  <2>5. Handover'
    BY <2>1, <2>3, <2>4 DEF Handover, Turn
  <2> QED
    BY <2>2, <2>5, QuietSingle
<1>7. ASSUME NEW m \in Maps, CreateNew(m)
      PROVE  SingleInv'
  <2>1. m = Turn /\ op.pc = "create"
    BY <1>7 DEF CreateNew, At, Turn
  <2>2. LivePodsOf(m) = {}
    BY <2>1 DEF SingleInv, Handover
  <2>3. op'.pc = "map"
    BY <1>1, <1>7 DEF CreateNew, NextMap, Ops
  <2> QED
    BY <1>7, <2>2, <2>3, OnlyPod DEF CreateNew
<1>8. ASSUME NEW m \in Maps, DiscardBad(m)
      PROVE  SingleInv'
  <2>1. \A n \in Maps, h \in Hash : pods'[n][h] \in Live => pods[n][h] \in Live
    BY <1>1, <1>8 DEF DiscardBad, PodsType, Live
  <2>2. op'.pc = "map"
    BY <1>1, <1>8 DEF DiscardBad, NextMap, Ops
  <2> QED
    BY <1>2, <2>1, <2>2
<1>9. CASE gcOrphanedMaps
  <2>1. \A n \in Maps, h \in Hash : pods'[n][h] \in Live => pods[n][h] \in Live
    BY <1>9 DEF gcOrphanedMaps, Live
  <2>2. op'.pc = "publish"
    BY <1>1, <1>9 DEF gcOrphanedMaps, Wrap, Ops
  <2> QED
    BY <1>2, <2>1, <2>2
<1>10. CASE Publish \/ Crash
  BY <1>2, <1>10 DEF Publish, Crash, Idle, world
<1>11. CASE Cluster
  <2>1. UNCHANGED op
    BY <1>11 DEF Cluster, PodBecomesReady, PodCrashLoops, PodEvicted, PodGone, SetPod,
                 JobSucceeds, JobFails, JobExpires, SetJob, PVCReleased
  <2>2. \A n \in Maps, k \in Hash : pods'[n][k] \in Live => pods[n][k] \in Live
    BY <1>11, ClusterPods
  <2> QED
    BY <1>2, <2>1, <2>2
<1>12. CASE EditSpec \/ ForeignWrite
  <2>1. UNCHANGED pods
    BY <1>12 DEF EditSpec, ForeignWrite, world
  <2>2. op'.pc = op.pc /\ op'.idx = op.idx /\ op'.spec = op.spec /\ op'.cur = op.cur
    BY <1>1, <1>12 DEF EditSpec, ForeignWrite, Outdate, Ops
  <2> QED
    BY <1>2, <2>1, <2>2
<1>13. CASE \E m \in Maps : EditConfig(m)
  BY <1>2, <1>13 DEF EditConfig
<1>14. CASE CatchUp
  BY <1>2, <1>14 DEF CatchUp, world
<1>15. CASE Tick
  <2>1. op'.pc = op.pc /\ op'.idx = op.idx /\ op'.spec = op.spec /\ op'.cur = op.cur
    BY <1>1, <1>15 DEF Tick, Ops
  <2> QED
    BY <1>2, <1>15, <2>1 DEF Tick, world
<1>16. CASE Abort \/ DeleteFails \/ FallBehind
  BY <1>16 DEF Abort, DeleteFails, FallBehind, Fault
<1>17. ASSUME NEW m \in Maps, SwapLost(m) \/ JobUnread(m)
       PROVE  SingleInv'
  <2>1. \A n \in Maps, k \in Hash : pods'[n][k] \in Live => pods[n][k] \in Live
    BY <1>17, SwapLostFacts, JobUnreadFacts DEF Live
  <2>2. op'.pc \in {"idle", "map"}
    BY <1>17, SwapLostFacts, JobUnreadFacts DEF Idle
  <2> QED
    BY <1>2, <2>1, <2>2
<1> QED
  BY <1>3, <1>4, <1>5, <1>6, <1>7, <1>8, <1>9, <1>10, <1>11, <1>12, <1>13, <1>14, <1>15, <1>16, <1>17
     DEF Next, Pass

LEMMA SingleAlways == {"lag", "apiErr"} \cap Faults = {} => (Spec => []SingleInv)
<1> SUFFICES ASSUME {"lag", "apiErr"} \cap Faults = {} PROVE Spec => []SingleInv
  OBVIOUS
<1>1. Init => SingleInv
  BY DEF Init, Idle, SingleInv, SingleServer, Handover, LivePodsOf, Live
<1>2. TypeOK /\ Synced /\ SingleInv /\ [Next]_vars => SingleInv'
  <2>1. CASE UNCHANGED vars
    BY <2>1 DEF vars, SingleInv, SingleServer, Handover, LivePodsOf, Turn
  <2> QED
    BY <2>1, SingleStep
<1>3. "lag" \notin Faults
  OBVIOUS
<1> QED
  BY <1>1, <1>2, <1>3, Typing, SyncedAlways, PTL DEF Spec

\* As long as the caches do not lag and no API call fails, a map never has two pods that are
\* not being deleted, whatever crashes, races, evictions and edits come in between: rollUpdate
\* deletes the pod it found before it creates one, firstStart creates one only where it found
\* none.
THEOREM SingleServerSafety ==
  {"lag", "apiErr"} \cap Faults = {} => (Spec => []SingleServer)
<1>1. SingleInv => SingleServer
  BY DEF SingleInv
<1> QED
  BY <1>1, SingleAlways, PTL

-----------------------------------------------------------------------------
(***************************************************************************)
(* InstallOffline.  A live server runs from the active volume of the       *)
(* status in the API, so an install on the other side is offline.  That is *)
(* so as long as every pass runs to its end on a status nobody else wrote: *)
(* between the commit of a swap and the delete the pod is on the side that *)
(* has just become inactive.                                               *)
(***************************************************************************)

\* The volume a map is to be served from: an entry that is missing or empty stands for server-a.
Side(st, m) == IF st.maps[m].active = "" THEN "server-a" ELSE st.maps[m].active

LEMMA EnterMaps ==
  ASSUME NEW st \in Status, NEW m \in Maps
  PROVE  /\ Enter(st, m).maps = [st.maps EXCEPT ![m].active = IF @ = "" THEN "server-a" ELSE @]
         /\ Enter(st, m).maps[m] = [st.maps[m] EXCEPT !.active = Side(st, m)]
<1>1. EnsureMapStatus(st, m) \in Status /\ EnsureMapStatus(st, m).maps = st.maps
  BY DEF EnsureMapStatus, Status
<1>2. Enter(st, m).maps = [st.maps EXCEPT ![m].active = IF @ = "" THEN "server-a" ELSE @]
  BY <1>1 DEF Enter, Status
<1>3. st.maps \in [Maps -> MapStatus] /\ st.maps[m] \in MapStatus
  BY DEF Status
<1>4. Enter(st, m).maps[m] = [st.maps[m] EXCEPT !.active = IF @ = "" THEN "server-a" ELSE @]
  BY <1>2, <1>3
<1>5. Enter(st, m).maps[m] = [st.maps[m] EXCEPT !.active = Side(st, m)]
  BY <1>3, <1>4 DEF Side, MapStatus
<1> QED
  BY <1>2, <1>5

\* Entering a map's turn changes nobody's side.
LEMMA EntrySide ==
  ASSUME op \in Ops, NEW m \in Maps
  PROVE  /\ mapStatus(m).active = Side(op.status, m)
         /\ mapStatus(m).lastGood = op.status.maps[m].lastGood
         /\ Side(op.status, m) \in Volumes
         /\ \A n \in Maps : /\ Side(entry(m), n) = Side(op.status, n)
                            /\ entry(m).maps[n].lastGood = op.status.maps[n].lastGood
         /\ \A n \in Maps \ {m} : entry(m).maps[n] = op.status.maps[n]
<1>1. op.status \in Status /\ op.status.maps \in [Maps -> MapStatus] /\ op.status.maps[m] \in MapStatus
  BY DEF Ops, Status
<1>2. mapStatus(m) = [op.status.maps[m] EXCEPT !.active = Side(op.status, m)]
  BY <1>1, EnterMaps DEF mapStatus, entry
<1>3. Side(op.status, m) \in Volumes
  BY <1>1 DEF Side, MapStatus, Volumes
<1>4. /\ mapStatus(m).active = Side(op.status, m)
      /\ mapStatus(m).lastGood = op.status.maps[m].lastGood
  BY <1>1, <1>2 DEF MapStatus
<1>5. \A n \in Maps \ {m} : entry(m).maps[n] = op.status.maps[n]
  <2>1. Enter(op.status, m).maps = [op.status.maps EXCEPT ![m].active = IF @ = "" THEN "server-a" ELSE @]
    BY <1>1, EnterMaps
  <2> QED
    BY <1>1, <2>1 DEF entry
<1>6. entry(m).maps[m] = mapStatus(m)
  BY DEF mapStatus
<1>7. Side(entry(m), m) = Side(op.status, m)
  BY <1>3, <1>4, <1>6 DEF Side, Volumes
<1>8. \A n \in Maps : /\ Side(entry(m), n) = Side(op.status, n)
                      /\ entry(m).maps[n].lastGood = op.status.maps[n].lastGood
  BY <1>4, <1>5, <1>6, <1>7 DEF Side
<1> QED
  BY <1>3, <1>4, <1>5, <1>8

LEMMA SetSide ==
  ASSUME op \in Ops, NEW m \in Maps, NEW new \in MapStatus, new.active \in Volumes
  PROVE  /\ Set(m, new) \in Status
         /\ Set(m, new).maps[m] = new
         /\ Side(Set(m, new), m) = new.active
         /\ \A n \in Maps \ {m} : /\ Set(m, new).maps[n] = op.status.maps[n]
                                  /\ Side(Set(m, new), n) = Side(op.status, n)
<1>1. Set(m, new) \in Status /\ Set(m, new).maps[m] = new
  BY SetType
<1>2. entry(m) \in Status
  BY MapStatusType
<1>3. Set(m, new).maps = [entry(m).maps EXCEPT ![m] = new]
  BY <1>2 DEF Set, Status
<1>4. \A n \in Maps \ {m} : Set(m, new).maps[n] = op.status.maps[n]
  BY <1>2, <1>3, EntrySide DEF Status
<1>5. Side(Set(m, new), m) = new.active
  BY <1>1 DEF Side, Volumes
<1> QED
  BY <1>1, <1>4, <1>5 DEF Side

\* What a turn that persists nothing does to the status in memory.
LEMMA TurnStatus ==
  ASSUME TypeOK, NEW m \in Maps, ReconcileMap(m)
  PROVE  \A n \in Maps :
           /\ Side(op'.status, n) = Side(op.status, n)
           /\ \/ op'.status.maps[n].lastGood = op.status.maps[n].lastGood
              \/ /\ n = m /\ desiredHash(m) \in livePods(m)
                 /\ op'.status.maps[m].lastGood = Side(op.status, m)
<1> DEFINE e == mapStatus(m)
           Goal == \A n \in Maps :
             /\ Side(op'.status, n) = Side(op.status, n)
             /\ \/ op'.status.maps[n].lastGood = op.status.maps[n].lastGood
                \/ /\ n = m /\ desiredHash(m) \in livePods(m)
                   /\ op'.status.maps[m].lastGood = Side(op.status, m)
<1>1. op \in Ops
  BY DEF TypeOK
<1>2. e \in MapStatus /\ e.active \in Volumes /\ entry(m) \in Status
  BY <1>1, MapStatusType
<1>3. e.active = Side(op.status, m) /\ e.lastGood = op.status.maps[m].lastGood
  BY <1>1, EntrySide
<1>4. ASSUME NEW new \in MapStatus, new.active = e.active, NextMap(Set(m, new)),
             \/ new.lastGood = e.lastGood
             \/ new.lastGood = e.active /\ desiredHash(m) \in livePods(m)
      PROVE  Goal
  <2>1. /\ Set(m, new) \in Status /\ Set(m, new).maps[m] = new /\ Side(Set(m, new), m) = new.active
        /\ \A n \in Maps \ {m} : /\ Set(m, new).maps[n] = op.status.maps[n]
                                 /\ Side(Set(m, new), n) = Side(op.status, n)
    BY <1>1, <1>2, <1>4, SetSide
  <2>2. op'.status = Set(m, new)
    BY <1>1, <1>4, <2>1, NextMapType
  <2> QED
    BY <1>3, <1>4, <2>1, <2>2 DEF Side
<1>6. CASE HoldBack(m)
  <2>1. op'.status = entry(m)
    BY <1>1, <1>2, <1>6, NextMapType DEF HoldBack
  <2> QED
    BY <1>1, <2>1, EntrySide
<1>7. CASE SteadyReady(m)
  <2> DEFINE new == [e EXCEPT !.phase = "Running", !.lastGood = e.active, !.conds = @ \cup {"PodReady"}]
  <2>1. NextMap(Set(m, new)) /\ desiredHash(m) \in livePods(m)
    BY <1>7 DEF SteadyReady
  <2>2. new \in MapStatus /\ new.active = e.active /\ new.lastGood = e.active
    BY <1>2 DEF MapStatus, MapPhases, Conditions
  <2> HIDE DEF new
  <2> QED
    BY <1>4, <2>1, <2>2
<1>8. CASE FirstInstall(m) \/ FirstPod(m) \/ RollInstall(m) \/ WaitDrain(m)
  <2>1. PICK ph \in {"InstallingActive", "Provisioning", "InstallingInactive", "DrainingActive"} :
          NextMap(Set(m, [e EXCEPT !.phase = ph]))
    BY <1>8 DEF FirstInstall, FirstPod, RollInstall, WaitDrain
  <2> DEFINE new == [e EXCEPT !.phase = ph]
  <2>2. new \in MapStatus /\ new.active = e.active /\ new.lastGood = e.lastGood
    BY <1>2 DEF MapStatus, MapPhases
  <2>3. NextMap(Set(m, new))
    BY <2>1
  <2> HIDE DEF new
  <2> QED
    BY <1>4, <2>2, <2>3
<1>9. CASE FirstInstallFailed(m) \/ RollInstallFailed(m)
  <2> DEFINE new == [e EXCEPT !.phase = "Failed", !.conds = @ \cup {"InstallFailed"}]
  <2>1. NextMap(Set(m, new))
    BY <1>9 DEF FirstInstallFailed, RollInstallFailed
  <2>2. new \in MapStatus /\ new.active = e.active /\ new.lastGood = e.lastGood
    BY <1>2 DEF MapStatus, MapPhases, Conditions
  <2> HIDE DEF new
  <2> QED
    BY <1>4, <2>1, <2>2
<1>10. CASE SteadyCrashLooping(m) \/ SteadyWarming(m)
  <2> DEFINE new == [e EXCEPT !.conds = @ \ {"PodReady"}]
  <2>1. NextMap(Set(m, new))
    BY <1>10 DEF SteadyCrashLooping, SteadyWarming
  <2>2. new \in MapStatus /\ new.active = e.active /\ new.lastGood = e.lastGood
    BY <1>2 DEF MapStatus
  <2> HIDE DEF new
  <2> QED
    BY <1>4, <2>1, <2>2
<1> QED
  BY <1>6, <1>7, <1>8, <1>9, <1>10 DEF ReconcileMap

\* What the turns that persist leave in the status, in memory and in the API.
LEMMA CommitStatus ==
  ASSUME TypeOK, NEW m \in Maps, StartDrain(m) \/ CommitSwap(m) \/ Rollback(m)
  PROVE  /\ op.pc = "map" /\ op.idx \in DOMAIN op.spec.maps /\ m = Turn
         /\ op'.status \in Status /\ op'.spec = op.spec /\ op'.fresh = op.fresh
         /\ api' = IF op.fresh THEN [api EXCEPT !.status = op'.status] ELSE api
         /\ \A n \in Maps \ {m} : op'.status.maps[n] = op.status.maps[n]
         /\ op'.status.maps[m].lastGood = op.status.maps[m].lastGood
         /\ StartDrain(m) => /\ op'.pc \in {"announce", "map"}
                             /\ op'.status.maps[m].active = Side(op.status, m)
         /\ CommitSwap(m) => /\ op'.pc = "delete" /\ op'.idx = op.idx
                             /\ op'.status.maps[m].active = inactive(m)
         /\ Rollback(m) => /\ op'.pc = "discard" /\ op'.idx = op.idx
                           /\ op'.status.maps[m].active = op.status.maps[m].lastGood
                           /\ op.status.maps[m].lastGood \in Volumes
                           /\ op.status.maps[m].lastGood # Side(op.status, m)
<1> DEFINE e == mapStatus(m)
<1>1. op \in Ops /\ api \in Object
  BY DEF TypeOK
<1>2. op.pc = "map" /\ op.idx \in DOMAIN op.spec.maps /\ m = Turn
  BY DEF StartDrain, CommitSwap, Rollback, At, Turn
<1>3. e \in MapStatus /\ e.active \in Volumes /\ inactive(m) \in Volumes
  BY <1>2, TurnType
<1>4. e.active = Side(op.status, m) /\ e.lastGood = op.status.maps[m].lastGood
  BY <1>1, EntrySide
<1>5. ASSUME NEW new \in MapStatus, new.active \in Volumes, new.lastGood = e.lastGood,
             persistStatus(Set(m, new)), op'.status = Set(m, new)
      PROVE  /\ op'.status \in Status /\ op'.status.maps[m] = new
             /\ api' = IF op.fresh THEN [api EXCEPT !.status = op'.status] ELSE api
             /\ \A n \in Maps \ {m} : op'.status.maps[n] = op.status.maps[n]
             /\ op'.status.maps[m].lastGood = op.status.maps[m].lastGood
  <2>1. /\ Set(m, new) \in Status /\ Set(m, new).maps[m] = new
        /\ \A n \in Maps \ {m} : Set(m, new).maps[n] = op.status.maps[n]
    BY <1>1, <1>5, SetSide
  <2>2. api' = IF op.fresh THEN [api EXCEPT !.status = op'.status] ELSE api
    BY <1>5 DEF persistStatus
  <2> QED
    BY <1>4, <1>5, <2>1, <2>2
<1>6. CASE StartDrain(m)
  <2> DEFINE new == [e EXCEPT !.deadline = Grace, !.phase = "DrainingActive"]
  <2>1. /\ persistStatus(Set(m, new))
        /\ \/ op' = [op EXCEPT !.pc = "announce", !.status = Set(m, new)]
           \/ op' = [op EXCEPT !.pc = "map", !.status = Set(m, new), !.idx = op.idx + 1, !.cur = {}]
    BY <1>6 DEF StartDrain, NextMap
  <2>2. new \in MapStatus /\ new.active = e.active /\ new.lastGood = e.lastGood
    BY <1>3, GraceType DEF MapStatus, MapPhases
  <2> HIDE DEF new
  <2>3. /\ op'.status = Set(m, new) /\ op'.spec = op.spec /\ op'.fresh = op.fresh
        /\ op'.pc \in {"announce", "map"}
    BY <1>1, <2>1 DEF Ops
  <2>4. ~CommitSwap(m) /\ ~Rollback(m)
    <3>1. e.deadline = NoDeadline /\ desiredHash(m) \notin livePods(m)
      BY <1>6 DEF StartDrain, Drift
    <3> QED
      BY <3>1 DEF CommitSwap, Rollback, NoDeadline
  <2> QED
    BY <1>2, <1>3, <1>4, <1>5, <2>1, <2>2, <2>3, <2>4
<1>7. CASE CommitSwap(m)
  <2> DEFINE new == [e EXCEPT !.active = inactive(m), !.deadline = NoDeadline, !.phase = "Swapping"]
  <2>1. /\ persistStatus(Set(m, new))
        /\ \E c : op' = [op EXCEPT !.pc = "delete", !.status = Set(m, new), !.cur = c]
    BY <1>7 DEF CommitSwap
  <2>2. new \in MapStatus /\ new.active = inactive(m) /\ new.lastGood = e.lastGood
    BY <1>3, GraceType DEF MapStatus, MapPhases
  <2> HIDE DEF new
  <2>3. /\ op'.status = Set(m, new) /\ op'.spec = op.spec /\ op'.fresh = op.fresh
        /\ op'.pc = "delete" /\ op'.idx = op.idx
    BY <1>1, <2>1 DEF Ops
  <2>4. ~StartDrain(m) /\ ~Rollback(m)
    <3>1. e.deadline = 0 /\ desiredHash(m) \notin livePods(m)
      BY <1>7 DEF CommitSwap, Drift
    <3> QED
      BY <3>1 DEF StartDrain, Rollback, NoDeadline
  <2> QED
    BY <1>2, <1>3, <1>4, <1>5, <2>1, <2>2, <2>3, <2>4
<1>8. CASE Rollback(m)
  <2> DEFINE new == [e EXCEPT !.active = e.lastGood, !.conds = @ \cup {"RollbackOccurred"}]
  <2>1. /\ persistStatus(Set(m, new))
        /\ \E c : op' = [op EXCEPT !.pc = "discard", !.status = Set(m, new), !.cur = c]
    BY <1>8 DEF Rollback
  <2>2. e.lastGood \in Volumes /\ e.lastGood # e.active
    BY <1>3, <1>8 DEF Rollback, hasLastGood, MapStatus
  <2>3. new \in MapStatus /\ new.active = e.lastGood /\ new.lastGood = e.lastGood
    BY <1>3, <2>2 DEF MapStatus, Conditions
  <2> HIDE DEF new
  <2>4. /\ op'.status = Set(m, new) /\ op'.spec = op.spec /\ op'.fresh = op.fresh
        /\ op'.pc = "discard" /\ op'.idx = op.idx
    BY <1>1, <2>1 DEF Ops
  <2>5. ~StartDrain(m) /\ ~CommitSwap(m)
    BY <1>8 DEF Rollback, StartDrain, CommitSwap, Drift
  <2> QED
    BY <1>2, <1>3, <1>4, <1>5, <2>1, <2>2, <2>3, <2>4, <2>5
<1> QED
  BY <1>6, <1>7, <1>8

\* The prune keeps the entries of the maps of the spec and drops the others.
LEMMA WrapStatus ==
  ASSUME TypeOK, Wrap
  PROVE  /\ op'.pc = "publish" /\ op'.fresh = op.fresh /\ op'.spec = op.spec
         /\ \A n \in Maps : op'.status.maps[n] = IF n \in specMaps THEN op.status.maps[n] ELSE NoMapStatus
<1> DEFINE p == Prune(op.status, specMaps)
<1>1. op \in Ops /\ op.status \in Status
  BY DEF TypeOK, Ops
<1>2. p \in Status /\ Aggregate(p).maps = p.maps
  BY <1>1, PruneType, AggregateType
<1>3. p.maps = [n \in Maps |-> IF n \in specMaps THEN op.status.maps[n] ELSE NoMapStatus]
  BY <1>1 DEF Prune, Status
<1>4. op' = [op EXCEPT !.pc = "publish", !.status = Aggregate(p)]
  BY DEF Wrap
<1> HIDE DEF p
<1>5. op'.pc = "publish" /\ op'.fresh = op.fresh /\ op'.spec = op.spec /\ op'.status = Aggregate(p)
  BY <1>1, <1>4 DEF Ops
<1> QED
  BY <1>2, <1>3, <1>5

\* Nobody else writes the object during a pass ...
FreshPass == Busy => op.fresh

\* ... so the pass and the API agree on every map's side, but for maps about to be dropped.
SidesKept ==
  Busy => \A m \in Maps :
    \/ Side(op.status, m) = Side(api.status, m)
    \/ op.pc = "publish" /\ m \notin specMaps /\ Side(op.status, m) = "server-a"

ServedSide ==
  \A m \in Maps : \A h \in LivePodsOf(m) :
    \/ h.vol = Side(api.status, m)
    \/ op.pc \in {"delete", "discard"} /\ m = Turn

OrphansStopped == op.pc = "publish" => \A m \in Maps \ specMaps : LivePodsOf(m) = {}

SwapReady ==
  op.pc \in {"delete", "create"} =>
    /\ op.status.maps[Turn].active \in Volumes
    /\ \A i \in Images : jobs[Turn][op.status.maps[Turn].active][i] # "Running"

OfflineInv == FreshPass /\ SidesKept /\ ServedSide /\ OrphansStopped /\ SwapReady /\ InstallOffline

\* Steps that start neither a pod nor a Job and do not move the pass.
LEMMA QuietOffline ==
  ASSUME TypeOK, SingleInv, OfflineInv,
         \A m \in Maps : Side(api'.status, m) = Side(api.status, m),
         \A m \in Maps, h \in Hash : pods'[m][h] \in Live => pods[m][h] \in Live,
         \A m \in Maps, v \in Volumes, i \in Images : jobs'[m][v][i] = "Running" => jobs[m][v][i] = "Running",
         op'.pc = op.pc, op'.idx = op.idx, op'.spec = op.spec, op'.fresh = op.fresh,
         \A m \in Maps : op'.status.maps[m].active = op.status.maps[m].active
  PROVE  OfflineInv'
<1>1. Turn' = Turn /\ specMaps' = specMaps /\ Busy' = Busy
  BY DEF Turn, specMaps, Busy
<1>2. \A m \in Maps : Side(op'.status, m) = Side(op.status, m)
  BY DEF Side
<1>3. \A m \in Maps : LivePodsOf(m)' \subseteq LivePodsOf(m)
  BY DEF LivePodsOf
<1>4. FreshPass' /\ SidesKept'
  BY <1>1, <1>2 DEF OfflineInv, FreshPass, SidesKept, Busy
<1>5. ServedSide' /\ OrphansStopped'
  BY <1>1, <1>3 DEF OfflineInv, ServedSide, OrphansStopped
<1>6. SwapReady'
  <2>1. op.pc \in {"delete", "create"} => Turn \in Maps
    BY SpecsAssumption DEF SingleInv, Handover, Turn, TypeOK, Ops
  <2> QED
    BY <1>1, <2>1 DEF OfflineInv, SwapReady
<1>7. InstallOffline'
  BY DEF OfflineInv, InstallOffline, Hash
<1> QED
  BY <1>4, <1>5, <1>6, <1>7 DEF OfflineInv

\* Steps of a pass that go on, with the status as it is in the API.
LEMMA PassOffline ==
  ASSUME OfflineInv, op'.pc \in {"map", "announce"}, op'.fresh,
         \A m \in Maps : Side(op'.status, m) = Side(api'.status, m),
         ServedSide', InstallOffline'
  PROVE  OfflineInv'
<1>1. FreshPass' /\ SidesKept'
  BY DEF FreshPass, SidesKept
<1>2. OrphansStopped' /\ SwapReady'
  BY DEF OrphansStopped, SwapReady
<1> QED
  BY <1>1, <1>2 DEF OfflineInv

\* Outside a handover every live pod of a map runs from its active volume.
LEMMA TurnServed ==
  ASSUME OfflineInv, op.pc \in {"map", "announce", "create"}
  PROVE  /\ op.fresh
         /\ \A n \in Maps : Side(op.status, n) = Side(api.status, n)
         /\ \A n \in Maps : \A h \in LivePodsOf(n) : h.vol = Side(op.status, n)
BY DEF OfflineInv, FreshPass, SidesKept, ServedSide, Busy

\* A pod is created on the active volume where no Job runs on it.
LEMMA PodOffline ==
  ASSUME TypeOK, OfflineInv, op.pc \in {"map", "create"}, NEW m \in Maps,
         NEW h \in Hash, h.vol = Side(op.status, m),
         \A i \in Images : jobs[m][h.vol][i] # "Running",
         ensurePodForMap(m, h), UNCHANGED <<api, jobs>>,
         op'.pc = "map", op'.fresh = op.fresh,
         \A n \in Maps : Side(op'.status, n) = Side(op.status, n)
  PROVE  OfflineInv'
<1>1. /\ op.fresh
      /\ \A n \in Maps : Side(op.status, n) = Side(api.status, n)
      /\ \A n \in Maps : \A k \in LivePodsOf(n) : k.vol = Side(op.status, n)
  BY TurnServed
<1>2. \A n \in Maps, k \in Hash : pods'[n][k] \in Live => pods[n][k] \in Live \/ (n = m /\ k = h)
  BY PodEnsured DEF TypeOK, PodsType
<1>3. ServedSide'
  BY <1>1, <1>2 DEF ServedSide, LivePodsOf
<1>4. InstallOffline'
  BY <1>2 DEF OfflineInv, InstallOffline
<1> QED
  BY <1>1, <1>3, <1>4, PassOffline

\* A map's turn that persists nothing.
LEMMA ReconcileMapOffline ==
  ASSUME \A i, j \in Images : i = j, TypeOK, Synced, OfflineInv, NEW m \in Maps, ReconcileMap(m)
  PROVE  OfflineInv'
<1>1. op \in Ops /\ jobs \in JobsType
  BY DEF TypeOK, JobsType
<1>2. op.pc = "map" /\ op.idx \in DOMAIN op.spec.maps /\ UNCHANGED api
  BY DEF ReconcileMap, At, Quiet
<1>3. /\ op.spec.image \in Images /\ mapStatus(m).active \in Volumes /\ inactive(m) \in Volumes
      /\ desiredHash(m) \in Hash /\ desiredHash(m).vol = mapStatus(m).active
  BY <1>2, TurnType
<1>4. mapStatus(m).active = Side(op.status, m)
  BY <1>1, EntrySide
<1>5. op'.pc = "map" /\ op'.fresh = op.fresh
  BY ReconcileMapType
<1>6. \A n \in Maps : Side(op'.status, n) = Side(op.status, n)
  BY TurnStatus
<1>7. /\ op.fresh
      /\ \A n \in Maps : Side(op.status, n) = Side(api.status, n)
      /\ \A n \in Maps : \A k \in LivePodsOf(n) : k.vol = Side(op.status, n)
  BY <1>2, TurnServed
<1>8. livePods(m) = LivePodsOf(m)
  BY DEF Synced, livePods, LivePodsOf
<1>9. CASE FirstPod(m)
  <2>1. \A i \in Images : jobs[m][desiredHash(m).vol][i] # "Running"
    BY <1>3, <1>9 DEF FirstPod, InitJobStatus
  <2> QED
    BY <1>2, <1>3, <1>4, <1>5, <1>6, <1>9, <2>1, PodOffline DEF FirstPod
<1>10. CASE ~FirstPod(m)
  <2>1. UNCHANGED pods
    BY <1>10 DEF ReconcileMap, FirstInstall, FirstInstallFailed, SteadyCrashLooping, SteadyReady,
                 SteadyWarming, HoldBack, RollInstall, RollInstallFailed, WaitDrain
  <2>2. ServedSide'
    BY <1>2, <1>7, <2>1 DEF ServedSide, LivePodsOf
  <2>3. InstallOffline'
    <3>1. ASSUME NEW v \in Volumes, EnsureInitJob(m, v), \A h \in LivePodsOf(m) : h.vol # v
          PROVE  InstallOffline'
      <4>1. \A n \in Maps, w \in Volumes, i \in Images :
              jobs'[n][w][i] = "Running" => jobs[n][w][i] = "Running" \/ (n = m /\ w = v)
        BY <1>1, <3>1 DEF EnsureInitJob, JobsType
      <4> QED
        BY <2>1, <3>1, <4>1 DEF OfflineInv, InstallOffline, LivePodsOf, Hash
    <3>2. CASE FirstInstall(m)
      BY <1>3, <1>8, <3>1, <3>2 DEF FirstInstall
    <3>3. CASE RollInstall(m)
      <4>1. inactive(m) # Side(op.status, m)
        BY <1>3, <1>4 DEF inactive, otherSide, Volumes
      <4> QED
        BY <1>3, <1>7, <3>1, <3>3, <4>1 DEF RollInstall
    <3>4. CASE UNCHANGED jobs
      BY <2>1, <3>4 DEF OfflineInv, InstallOffline
    <3> QED
      BY <1>10, <3>2, <3>3, <3>4
         DEF ReconcileMap, FirstInstallFailed, SteadyCrashLooping, SteadyReady,
             SteadyWarming, HoldBack, RollInstallFailed, WaitDrain
  <2> QED
    BY <1>2, <1>5, <1>6, <1>7, <2>2, <2>3, PassOffline
<1> QED
  BY <1>9, <1>10

\* The turns that persist: the start of a drain, the commit of a swap and of a rollback.
LEMMA CommitOffline ==
  ASSUME \A i, j \in Images : i = j, TypeOK, Synced, OfflineInv, NEW m \in Maps,
         StartDrain(m) \/ CommitSwap(m) \/ Rollback(m)
  PROVE  OfflineInv'
<1>1. /\ op \in Ops /\ api \in Object /\ pods \in PodsType
  BY DEF TypeOK, PodsType
<1>2. /\ op.pc = "map" /\ op.idx \in DOMAIN op.spec.maps /\ m = Turn
      /\ op'.status \in Status /\ op'.spec = op.spec /\ op'.fresh = op.fresh
      /\ api' = IF op.fresh THEN [api EXCEPT !.status = op'.status] ELSE api
      /\ \A n \in Maps \ {m} : op'.status.maps[n] = op.status.maps[n]
  BY CommitStatus
<1>3. /\ op.fresh
      /\ \A n \in Maps : Side(op.status, n) = Side(api.status, n)
      /\ \A n \in Maps : \A k \in LivePodsOf(n) : k.vol = Side(op.status, n)
  BY <1>2, TurnServed
<1>4. api'.status = op'.status
  BY <1>1, <1>2, <1>3 DEF Object
<1>5. \A n \in Maps \ {m} : Side(op'.status, n) = Side(op.status, n)
  BY <1>2 DEF Side
<1>6. UNCHANGED jobs
  BY DEF StartDrain, CommitSwap, Rollback
<1>7. \A n \in Maps, k \in Hash : pods'[n][k] \in Live => pods[n][k] \in Live
  <2>1. CASE CommitSwap(m)
    <3>1. PICK h \in livePods(m) : SaveAndExit(m, h)
      BY <2>1 DEF CommitSwap
    <3>2. h \in Hash
      BY <3>1 DEF livePods
    <3> QED
      BY <1>1, <3>1, <3>2 DEF SaveAndExit, PodsType, Live
  <2> QED
    BY <2>1 DEF StartDrain, Rollback
<1>8. InstallOffline'
  BY <1>6, <1>7 DEF OfflineInv, InstallOffline
<1>9. CASE StartDrain(m)
  <2>1. op'.pc \in {"announce", "map"} /\ op'.status.maps[m].active = Side(op.status, m)
    BY <1>9, CommitStatus
  <2>2. Side(op'.status, m) = Side(op.status, m)
    BY <2>1 DEF Side
  <2>3. ServedSide'
    BY <1>3, <1>4, <1>5, <1>7, <2>2 DEF ServedSide, LivePodsOf
  <2> QED
    BY <1>2, <1>3, <1>4, <1>8, <2>1, <2>3, PassOffline
<1>10. CASE CommitSwap(m) \/ Rollback(m)
  <2>1. /\ op'.pc \in {"delete", "discard"} /\ op'.idx = op.idx
        /\ CommitSwap(m) \/ op'.pc = "discard"
    BY <1>10, CommitStatus
  <2>2. Turn' = m
    BY <1>2, <2>1 DEF Turn
  <2>3. FreshPass' /\ SidesKept' /\ OrphansStopped'
    BY <1>2, <1>3, <1>4, <2>1 DEF FreshPass, SidesKept, OrphansStopped
  <2>4. ServedSide'
    BY <1>3, <1>4, <1>5, <1>7, <2>1, <2>2 DEF ServedSide, LivePodsOf
  <2>5. SwapReady'
    <3>1. CASE CommitSwap(m)
      <4>1. op'.status.maps[m].active = inactive(m)
        BY <3>1, CommitStatus
      <4>2. op.spec.image \in Images /\ inactive(m) \in Volumes
        BY <1>2, TurnType
      <4>3. \A i \in Images : jobs[m][inactive(m)][i] # "Running"
        BY <3>1, <4>2 DEF CommitSwap, InitJobStatus
      <4> QED
        BY <1>6, <2>2, <4>1, <4>2, <4>3 DEF SwapReady
    <3> QED
      BY <2>1, <3>1 DEF SwapReady
  <2> QED
    BY <1>8, <2>3, <2>4, <2>5 DEF OfflineInv
<1> QED
  BY <1>9, <1>10

LEMMA OfflineStep ==
  ASSUME Faults = {}, \A i, j \in Images : i = j, TypeOK, Synced, SingleInv, OfflineInv, Next
  PROVE  OfflineInv'
<1>1. op \in Ops /\ api \in Object /\ pods \in PodsType /\ jobs \in JobsType
  BY DEF TypeOK, PodsType, JobsType
<1>2. CASE Begin
  <2>1. op'.pc = "map" /\ op'.status = api.status /\ op'.fresh /\ UNCHANGED <<api, pods, jobs>>
    BY <1>2 DEF Begin, Synced, world
  <2>2. op.pc = "idle"
    BY <1>2 DEF Begin
  <2>3. ServedSide' /\ InstallOffline'
    BY <2>1, <2>2 DEF OfflineInv, ServedSide, InstallOffline, LivePodsOf
  <2> QED
    BY <2>1, <2>3, PassOffline
<1>3. ASSUME NEW m \in Maps, ReconcileMap(m)
      PROVE  OfflineInv'
  BY <1>3, ReconcileMapOffline
<1>4. ASSUME NEW m \in Maps, StartDrain(m) \/ CommitSwap(m) \/ Rollback(m)
      PROVE  OfflineInv'
  BY <1>4, CommitOffline
<1>5. ASSUME NEW m \in Maps, Announce(m)
      PROVE  OfflineInv'
  <2>1. op.pc = "announce" /\ UNCHANGED <<api, pods, jobs>>
    BY <1>5 DEF Announce, At, world
  <2>2. op'.pc = "map" /\ op'.status = op.status /\ op'.fresh = op.fresh
    BY <1>1, <1>5 DEF Announce, NextMap, Ops
  <2>3. ServedSide' /\ InstallOffline'
    BY <2>1, <2>2 DEF OfflineInv, ServedSide, InstallOffline, LivePodsOf
  <2> QED
    BY <2>1, <2>2, <2>3, TurnServed, PassOffline
<1>6. ASSUME NEW m \in Maps, DeleteOld(m) \/ DiscardBad(m)
      PROVE  OfflineInv'
  <2>1. op.pc \in {"delete", "discard"} /\ m = Turn /\ UNCHANGED <<api, jobs>>
    BY <1>6 DEF DeleteOld, DiscardBad, At, Turn
  <2>2. \A n \in Maps, h \in Hash : pods'[n][h] \in Live => pods[n][h] \in Live /\ (n = m => h \notin op.cur)
    BY <1>1, <1>6 DEF DeleteOld, DiscardBad, PodsType, Live
  <2>3. LivePodsOf(m)' = {}
    BY <2>1, <2>2 DEF SingleInv, Handover, LivePodsOf
  <2>4. op.fresh /\ \A n \in Maps : Side(op.status, n) = Side(api.status, n)
    BY <2>1 DEF OfflineInv, FreshPass, SidesKept, Busy
  <2>5. ServedSide'
    BY <2>1, <2>2, <2>3 DEF OfflineInv, ServedSide, LivePodsOf
  <2>6. InstallOffline'
    BY <2>1, <2>2 DEF OfflineInv, InstallOffline
  <2>7. CASE DiscardBad(m)
    <3>1. op'.pc = "map" /\ op'.status = op.status /\ op'.fresh = op.fresh
      BY <1>1, <2>7 DEF DiscardBad, NextMap, Ops
    <3> QED
      BY <2>1, <2>4, <2>5, <2>6, <3>1, PassOffline
  <2>8. CASE DeleteOld(m)
    <3>1. /\ op'.pc = "create" /\ op'.status = op.status /\ op'.fresh = op.fresh
          /\ op'.idx = op.idx /\ op'.spec = op.spec /\ op.pc = "delete"
      BY <1>1, <2>8 DEF DeleteOld, At, Ops
    <3>2. Turn' = Turn
      BY <3>1 DEF Turn
    <3>3. FreshPass' /\ SidesKept' /\ OrphansStopped'
      BY <2>1, <2>4, <3>1 DEF FreshPass, SidesKept, OrphansStopped
    <3>4. SwapReady'
      BY <2>1, <3>1, <3>2 DEF OfflineInv, SwapReady
    <3> QED
      BY <2>5, <2>6, <3>3, <3>4 DEF OfflineInv
  <2> QED
    BY <1>6, <2>7, <2>8
<1>7. ASSUME NEW m \in Maps, CreateNew(m)
      PROVE  OfflineInv'
  <2> DEFINE h == computePodHash(m, op.status.maps[m].active)
  <2>1. op.pc = "create" /\ m = Turn /\ op.idx \in DOMAIN op.spec.maps
    BY <1>7 DEF CreateNew, At, Turn
  <2>2. /\ op.status.maps[m].active \in Volumes
        /\ \A i \in Images : jobs[m][op.status.maps[m].active][i] # "Running"
    BY <2>1 DEF OfflineInv, SwapReady
  <2>3. h \in Hash /\ h.vol = op.status.maps[m].active
    BY <1>1, <2>1, <2>2, HashType DEF TypeOK
  <2>4. op.status.maps[m].active = Side(op.status, m)
    BY <2>2 DEF Side, Volumes
  <2>5. op'.pc = "map" /\ op'.status = op.status /\ op'.fresh = op.fresh
    BY <1>1, <1>7 DEF CreateNew, NextMap, Ops
  <2>6. ensurePodForMap(m, h) /\ UNCHANGED <<api, jobs>>
    BY <1>7 DEF CreateNew
  <2> HIDE DEF h
  <2> QED
    BY <2>1, <2>2, <2>3, <2>4, <2>5, <2>6, PodOffline
<1>8. CASE gcOrphanedMaps
  <2>1. Wrap /\ UNCHANGED <<api, jobs>>
    BY <1>8 DEF gcOrphanedMaps
  <2>2. \A n \in Maps, h \in Hash : pods'[n][h] \in Live => pods[n][h] \in Live /\ n \in specMaps
    BY <1>1, <1>8 DEF gcOrphanedMaps, Synced, Live
  <2>3. /\ op'.pc = "publish" /\ op'.fresh = op.fresh /\ op'.spec = op.spec
        /\ \A n \in Maps : op'.status.maps[n] = IF n \in specMaps THEN op.status.maps[n] ELSE NoMapStatus
    BY <2>1, WrapStatus
  <2>4. op.pc = "map" /\ specMaps' = specMaps
    BY <2>1, <2>3 DEF Wrap, specMaps
  <2>5. /\ op.fresh
        /\ \A n \in Maps : Side(op.status, n) = Side(api.status, n)
        /\ \A n \in Maps : \A h \in LivePodsOf(n) : h.vol = Side(op.status, n)
    BY <2>4, TurnServed
  <2>6. FreshPass' /\ SwapReady'
    BY <2>3, <2>5 DEF FreshPass, SwapReady
  <2>7. SidesKept'
    <3>1. NoMapStatus.active = ""
      BY DEF NoMapStatus
    <3>2. \A n \in Maps : Side(op'.status, n) = IF n \in specMaps THEN Side(op.status, n) ELSE "server-a"
      BY <2>3, <3>1 DEF Side
    <3> QED
      BY <2>1, <2>3, <2>4, <2>5, <3>2 DEF SidesKept
  <2>8. ServedSide' /\ OrphansStopped'
    BY <2>1, <2>2, <2>4, <2>5 DEF ServedSide, OrphansStopped, LivePodsOf
  <2>9. InstallOffline'
    BY <2>1, <2>2 DEF OfflineInv, InstallOffline
  <2> QED
    BY <2>6, <2>7, <2>8, <2>9 DEF OfflineInv
<1>9. CASE Publish
  <2>1. op.pc = "publish" /\ op'.pc = "idle" /\ UNCHANGED <<pods, jobs>>
    BY <1>9 DEF Publish, Idle, world
  <2>2. op.fresh
    BY <2>1 DEF OfflineInv, FreshPass, Busy
  <2>3. api'.status = op.status
    BY <1>1, <1>9, <2>2 DEF Publish, persistStatus, Object
  <2>4. ServedSide'
    <3>1. ASSUME NEW m \in Maps, NEW h \in LivePodsOf(m)
          PROVE  h.vol = Side(op.status, m)
      BY <2>1 DEF OfflineInv, ServedSide, SidesKept, OrphansStopped, Busy
    <3> QED
      BY <2>1, <2>3, <3>1 DEF ServedSide, LivePodsOf
  <2>5. InstallOffline'
    BY <2>1 DEF OfflineInv, InstallOffline
  <2> QED
    BY <2>1, <2>4, <2>5 DEF OfflineInv, FreshPass, SidesKept, OrphansStopped, SwapReady, Busy
<1>10. CASE Cluster
  <2>1. UNCHANGED <<api, op>>
    BY <1>10 DEF Cluster, PodBecomesReady, PodCrashLoops, PodEvicted, PodGone, SetPod,
                 JobSucceeds, JobFails, JobExpires, SetJob, PVCReleased
  <2>2. \A n \in Maps, k \in Hash : pods'[n][k] \in Live => pods[n][k] \in Live
    BY <1>10, ClusterPods
  <2>3. \A n \in Maps, w \in Volumes, i \in Images : jobs'[n][w][i] = "Running" => jobs[n][w][i] = "Running"
    BY <1>10, ClusterJobs
  <2> QED
    BY <2>1, <2>2, <2>3, QuietOffline
<1>11. CASE EditSpec \/ \E m \in Maps : EditConfig(m)
  <2>1. UNCHANGED <<pods, jobs>>
    BY <1>11 DEF EditSpec, EditConfig, world
  <2>2. api'.status = api.status
    BY <1>1, <1>11 DEF EditSpec, EditConfig, Object
  <2>3. op' = op
    BY <1>11 DEF EditSpec, EditConfig, Outdate
  <2> QED
    BY <2>1, <2>2, <2>3, QuietOffline
<1>12. CASE \/ ForeignWrite \/ Crash \/ Abort \/ DeleteFails \/ FallBehind
            \/ \E m \in Maps : SwapLost(m) \/ JobUnread(m)
  BY <1>12 DEF ForeignWrite, Crash, Abort, DeleteFails, FallBehind, SwapLost, JobUnread, Fault
<1>13. CASE CatchUp
  BY <1>13, QuietOffline DEF CatchUp, world
<1>14. CASE Tick
  <2>1. UNCHANGED <<pods, jobs>>
    BY <1>14 DEF Tick, world
  <2>2. /\ api'.status = Aged(api.status)
        /\ op'.pc = op.pc /\ op'.idx = op.idx /\ op'.spec = op.spec /\ op'.fresh = op.fresh
        /\ op'.status = Aged(op.status)
    BY <1>1, <1>14 DEF Tick, Object, Ops
  <2>3. api.status \in Status /\ op.status \in Status
    BY <1>1 DEF Object, Ops
  <2>4. \A m \in Maps : /\ op'.status.maps[m].active = op.status.maps[m].active
                        /\ api'.status.maps[m].active = api.status.maps[m].active
    BY <2>2, <2>3, AgedType
  <2>5. \A m \in Maps : Side(api'.status, m) = Side(api.status, m)
    BY <2>4 DEF Side
  <2> QED
    BY <2>1, <2>2, <2>4, <2>5, QuietOffline
<1> QED
  BY <1>2, <1>3, <1>4, <1>5, <1>6, <1>7, <1>8, <1>9, <1>10, <1>11, <1>12, <1>13, <1>14
     DEF Next, Pass

LEMMA OfflineAlways ==
  Faults = {} /\ (\A i, j \in Images : i = j) => (Spec => []OfflineInv)
<1> SUFFICES ASSUME Faults = {}, \A i, j \in Images : i = j PROVE Spec => []OfflineInv
  OBVIOUS
<1>1. Init => OfflineInv
  BY DEF Init, Idle, OfflineInv, FreshPass, SidesKept, ServedSide, OrphansStopped, SwapReady,
         InstallOffline, LivePodsOf, Live, Busy
<1>2. TypeOK /\ Synced /\ SingleInv /\ OfflineInv /\ [Next]_vars => OfflineInv'
  <2>1. TypeOK /\ SingleInv /\ OfflineInv /\ UNCHANGED vars => OfflineInv'
    BY QuietOffline DEF vars
  <2> QED
    BY <2>1, OfflineStep
<1>3. "lag" \notin Faults /\ {"lag", "apiErr"} \cap Faults = {}
  OBVIOUS
<1> QED
  BY <1>1, <1>2, <1>3, Typing, SyncedAlways, SingleAlways, PTL DEF Spec

\* An install never writes to a volume that a live server of the map runs from, as long as
\* every pass runs to its end undisturbed and the image stays the same: firstStart installs
\* where there is no pod, rollUpdate on the side that the status says is inactive, and the
\* commit of a swap and the replacement of the pod are not torn apart.
THEOREM OfflineSafety ==
  Faults = {} /\ (\A i, j \in Images : i = j) => (Spec => []InstallOffline)
<1>1. OfflineInv => InstallOffline
  BY DEF OfflineInv
<1> QED
  BY <1>1, OfflineAlways, PTL

-----------------------------------------------------------------------------
(***************************************************************************)
(* The refinement.  Two more facts are needed where the active volume      *)
(* changes: lastGood names an installed volume, and a map whose active     *)
(* volume is server-b has an installed server-a to fall back to when its   *)
(* entry is dropped.                                                       *)
(***************************************************************************)
GoodInstalled ==
  \A m \in Maps : /\ api.status.maps[m].lastGood \in installed[m] \cup {""}
                  /\ op.status.maps[m].lastGood \in installed[m] \cup {""}

FirstSideInstalled ==
  \A m \in Maps : Side(api.status, m) = "server-b" => "server-a" \in installed[m]

GoodInv == GoodInstalled /\ FirstSideInstalled

\* Everything known of a pass that is not disturbed.
CalmInv == TypeOK /\ Synced /\ SingleInv /\ OfflineInv /\ InstallInv

\* No claim is being deleted, so what is installed stays.
LEMMA InstalledGrows ==
  ASSUME TypeOK, InstallInv, Next
  PROVE  \A m \in Maps : installed[m] \subseteq installed'[m]
<1>1. CASE UNCHANGED installed
  BY <1>1
<1>2. CASE Cluster
  <2>1. ASSUME NEW m \in Maps, NEW v \in Volumes, NEW i \in Images, JobSucceeds(m, v, i)
        PROVE  \A n \in Maps : installed[n] \subseteq installed'[n]
    BY <2>1 DEF JobSucceeds, TypeOK
  <2>2. ASSUME NEW m \in Maps PROVE ~PVCReleased(m)
    BY DEF PVCReleased, InstallInv, VolumesKept
  <2> QED
    BY <1>1, <1>2, <2>1, <2>2 DEF Cluster, PodBecomesReady, PodCrashLoops, PodEvicted, PodGone,
                                  SetPod, JobFails, JobExpires
<1>3. CASE Pass
  <2>1. UNCHANGED installed
    BY <1>3 DEF Pass, Begin, ReconcileMap, Quiet, StartDrain, Announce, CommitSwap, DeleteOld, CreateNew,
                Rollback, DiscardBad, gcOrphanedMaps, Publish, world
  <2> QED
    BY <1>1, <2>1
<1>4. CASE ~Cluster /\ ~Pass
  <2>1. UNCHANGED installed
    BY <1>4 DEF Next, EditSpec, EditConfig, ForeignWrite, Crash, Abort, SwapLost, JobUnread, DeleteFails,
                FallBehind, Fault, CatchUp, Tick, world
  <2> QED
    BY <1>1, <2>1
<1> QED
  BY <1>2, <1>3, <1>4

\* The volume a live pod runs from is the active one at a map's turn, and is installed.
LEMMA TurnInstalled ==
  ASSUME CalmInv, op.pc = "map", NEW m \in Maps, livePods(m) # {}
  PROVE  Side(op.status, m) \in installed[m]
<1>1. PICK h \in LivePodsOf(m) : TRUE
  BY DEF CalmInv, Synced, livePods, LivePodsOf
<1>2. h.vol = Side(op.status, m)
  BY TurnServed DEF CalmInv
<1>3. h.vol \in installed[m]
  BY DEF CalmInv, InstallInv, InstalledBeforeServed, LivePodsOf
<1> QED
  BY <1>2, <1>3

\* Steps that change no side and no lastGood.
LEMMA QuietGood ==
  ASSUME GoodInv, \A m \in Maps : installed[m] \subseteq installed'[m],
         \A m \in Maps : /\ Side(api'.status, m) = Side(api.status, m)
                         /\ api'.status.maps[m].lastGood \in {api.status.maps[m].lastGood, ""}
                         /\ op'.status.maps[m].lastGood
                              \in {op.status.maps[m].lastGood, api.status.maps[m].lastGood, ""}
  PROVE  GoodInv'
<1>1. ASSUME NEW m \in Maps
      PROVE  /\ api'.status.maps[m].lastGood \in installed'[m] \cup {""}
             /\ op'.status.maps[m].lastGood \in installed'[m] \cup {""}
             /\ Side(api'.status, m) = "server-b" => "server-a" \in installed'[m]
  BY DEF GoodInv, GoodInstalled, FirstSideInstalled
<1> QED
  BY <1>1 DEF GoodInv, GoodInstalled, FirstSideInstalled

LEMMA GoodStep ==
  ASSUME Faults = {}, CalmInv, GoodInv, Next
  PROVE  GoodInv'
<1>1. /\ op \in Ops /\ api \in Object
      /\ op.status \in Status /\ api.status \in Status
  BY DEF CalmInv, TypeOK, Ops, Object
<1>2. \A m \in Maps : installed[m] \subseteq installed'[m]
  BY InstalledGrows DEF CalmInv
<1>3. CASE Begin
  <2>1. op'.status = api.status /\ UNCHANGED api
    BY <1>3 DEF Begin, CalmInv, Synced
  <2> QED
    BY <1>2, <2>1, QuietGood
<1>4. ASSUME NEW m \in Maps, ReconcileMap(m)
      PROVE  GoodInv'
  <2>1. UNCHANGED api /\ op.pc = "map"
    BY <1>4 DEF ReconcileMap, Quiet, At
  <2>2. \A n \in Maps :
           \/ op'.status.maps[n].lastGood = op.status.maps[n].lastGood
           \/ /\ n = m /\ desiredHash(m) \in livePods(m)
              /\ op'.status.maps[m].lastGood = Side(op.status, m)
    BY <1>4, TurnStatus DEF CalmInv
  <2>3. \A n \in Maps : op'.status.maps[n].lastGood \in installed'[n] \cup {""}
    <3>1. desiredHash(m) \in livePods(m) => Side(op.status, m) \in installed[m]
      BY <2>1, TurnInstalled
    <3> QED
      BY <1>2, <2>2, <3>1 DEF GoodInv, GoodInstalled
  <2> QED
    BY <1>2, <2>1, <2>3 DEF GoodInv, GoodInstalled, FirstSideInstalled
<1>5. ASSUME NEW m \in Maps, StartDrain(m) \/ CommitSwap(m) \/ Rollback(m)
      PROVE  GoodInv'
  <2>1. /\ op.pc = "map" /\ op.idx \in DOMAIN op.spec.maps
        /\ api' = IF op.fresh THEN [api EXCEPT !.status = op'.status] ELSE api
        /\ \A n \in Maps \ {m} : op'.status.maps[n] = op.status.maps[n]
        /\ op'.status.maps[m].lastGood = op.status.maps[m].lastGood
    BY <1>5, CommitStatus DEF CalmInv
  <2>2. op.fresh /\ \A n \in Maps : Side(op.status, n) = Side(api.status, n)
    BY <2>1, TurnServed DEF CalmInv
  <2>3. api'.status = op'.status
    BY <1>1, <2>1, <2>2 DEF Object
  <2>4. \A n \in Maps : op'.status.maps[n].lastGood = op.status.maps[n].lastGood
    BY <2>1
  <2>5. livePods(m) # {}
    BY <1>5 DEF StartDrain, CommitSwap, Rollback, Drift
  <2>6. Side(op.status, m) \in installed[m] /\ Side(op.status, m) \in Volumes
    BY <1>1, <2>1, <2>5, TurnInstalled, EntrySide
  <2>7. GoodInstalled'
    BY <1>2, <2>3, <2>4 DEF GoodInv, GoodInstalled
  <2>8. ASSUME NEW n \in Maps, Side(op'.status, n) = "server-b"
        PROVE  "server-a" \in installed'[n]
    <3>1. CASE n # m
      <4>1. Side(api.status, n) = "server-b"
        BY <2>1, <2>2, <2>8, <3>1 DEF Side
      <4> QED
        BY <1>2, <4>1 DEF GoodInv, FirstSideInstalled
    <3>2. CASE n = m /\ Side(op.status, m) = "server-a"
      BY <1>2, <2>6, <3>2
    <3>3. CASE n = m /\ Side(op.status, m) = "server-b"
      BY <1>2, <2>2, <3>3 DEF GoodInv, FirstSideInstalled
    <3> QED
      BY <2>6, <3>1, <3>2, <3>3 DEF Volumes
  <2>9. FirstSideInstalled'
    BY <2>3, <2>8 DEF FirstSideInstalled
  <2> QED
    BY <2>7, <2>9 DEF GoodInv
<1>6. ASSUME NEW m \in Maps, Announce(m) \/ DeleteOld(m) \/ CreateNew(m) \/ DiscardBad(m)
      PROVE  GoodInv'
  <2>1. UNCHANGED api /\ op'.status = op.status
    BY <1>1, <1>6 DEF Announce, DeleteOld, CreateNew, DiscardBad, NextMap, Ops
  <2> QED
    BY <1>2, <2>1, QuietGood
<1>7. CASE gcOrphanedMaps
  <2>1. Wrap /\ UNCHANGED api
    BY <1>7 DEF gcOrphanedMaps
  <2>2. \A n \in Maps : op'.status.maps[n] = IF n \in specMaps THEN op.status.maps[n] ELSE NoMapStatus
    BY <2>1, WrapStatus DEF CalmInv
  <2>3. NoMapStatus.lastGood = ""
    BY DEF NoMapStatus
  <2> QED
    BY <1>2, <2>1, <2>2, <2>3, QuietGood
<1>8. CASE Publish
  <2>1. op.pc = "publish"
    BY <1>8 DEF Publish
  <2>2. op.fresh
    BY <2>1 DEF CalmInv, OfflineInv, FreshPass, Busy
  <2>3. api'.status = op.status /\ op'.status = NoStatus
    BY <1>1, <1>8, <2>2 DEF Publish, persistStatus, Object, Idle
  <2>4. GoodInstalled'
    <3>1. \A m \in Maps : op'.status.maps[m].lastGood = ""
      <4>1. \A m \in Maps : NoStatus.maps[m] = NoMapStatus
        BY DEF NoStatus
      <4>2. NoMapStatus.lastGood = ""
        BY DEF NoMapStatus
      <4> QED
        BY <2>3, <4>1, <4>2
    <3> QED
      BY <1>2, <2>3, <3>1 DEF GoodInv, GoodInstalled
  <2>5. ASSUME NEW m \in Maps, Side(op.status, m) = "server-b"
        PROVE  "server-a" \in installed'[m]
    <3>1. Side(api.status, m) = "server-b"
      BY <2>1, <2>5 DEF CalmInv, OfflineInv, SidesKept, Busy
    <3> QED
      BY <1>2, <3>1 DEF GoodInv, FirstSideInstalled
  <2>6. FirstSideInstalled'
    BY <2>3, <2>5 DEF FirstSideInstalled
  <2> QED
    BY <2>4, <2>6 DEF GoodInv
<1>9. CASE Cluster
  <2>1. UNCHANGED <<api, op>>
    BY <1>9 DEF Cluster, PodBecomesReady, PodCrashLoops, PodEvicted, PodGone, SetPod,
                JobSucceeds, JobFails, JobExpires, SetJob, PVCReleased
  <2> QED
    BY <1>2, <2>1, QuietGood
<1>10. CASE EditSpec \/ \E m \in Maps : EditConfig(m)
  <2>1. api'.status = api.status
    BY <1>1, <1>10 DEF EditSpec, EditConfig, Object
  <2>2. op' = op
    BY <1>10 DEF EditSpec, EditConfig, Outdate
  <2> QED
    BY <1>2, <2>1, <2>2, QuietGood
<1>11. CASE \/ ForeignWrite \/ Crash \/ Abort \/ DeleteFails \/ FallBehind
            \/ \E m \in Maps : SwapLost(m) \/ JobUnread(m)
  BY <1>11 DEF ForeignWrite, Crash, Abort, DeleteFails, FallBehind, SwapLost, JobUnread, Fault
<1>12. CASE CatchUp
  BY <1>2, <1>12, QuietGood DEF CatchUp
<1>13. CASE Tick
  <2>1. api'.status = Aged(api.status) /\ op'.status = Aged(op.status)
    BY <1>1, <1>13 DEF Tick, Object, Ops
  <2>2. \A st \in Status, m \in Maps : /\ Aged(st).maps[m].active = st.maps[m].active
                                       /\ Aged(st).maps[m].lastGood = st.maps[m].lastGood
    <3> TAKE st \in Status, m \in Maps
    <3>1. st.maps[m] \in MapStatus
      BY DEF Status
    <3>2. Aged(st).maps = [n \in Maps |-> [st.maps[n] EXCEPT !.deadline = Sooner(st.maps[n].deadline)]]
      BY DEF Aged, Status
    <3>3. Aged(st).maps[m] = [st.maps[m] EXCEPT !.deadline = Sooner(st.maps[m].deadline)]
      BY <3>2
    <3> QED
      BY <3>1, <3>3 DEF MapStatus
  <2>3. \A m \in Maps : Side(api'.status, m) = Side(api.status, m)
    BY <1>1, <2>1, <2>2 DEF Side
  <2> QED
    BY <1>1, <1>2, <2>1, <2>2, <2>3, QuietGood
<1> QED
  BY <1>3, <1>4, <1>5, <1>6, <1>7, <1>8, <1>9, <1>10, <1>11, <1>12, <1>13 DEF Next, Pass

\* The abstract variables of a map.
Writing(m) == {v \in Volumes : \E i \in Images : jobs[m][v][i] = "Running"}
ServingOn(m) == {h.vol : h \in LivePodsOf(m)}

\* One abstract step of a map, in the terms of this module.
LEMMA AbstractStep ==
  ASSUME TypeOK, TypeOK', NEW m \in Maps,
         \/ /\ Side(api'.status, m) = Side(api.status, m)
            /\ \/ \E v \in Volumes : /\ v \notin ServingOn(m)
                                     /\ Writing(m)' = Writing(m) \cup {v}
                                     /\ installed'[m] = installed[m] /\ ServingOn(m)' = ServingOn(m)
               \/ \E v \in Volumes : /\ v \in Writing(m)
                                     /\ Writing(m)' = Writing(m) \ {v}
                                     /\ installed'[m] \in {installed[m], installed[m] \cup {v}}
                                     /\ ServingOn(m)' = ServingOn(m)
               \/ /\ Writing(m)' = Writing(m) /\ installed'[m] = installed[m]
                  /\ \/ ServingOn(m)' = ServingOn(m)
                     \/ ServingOn(m)' = {}
                     \/ /\ ServingOn(m) = {} /\ ServingOn(m)' = {Side(api.status, m)}
                        /\ Side(api.status, m) \in installed[m] \ Writing(m)
         \/ /\ Side(api'.status, m) \in installed[m] \ {Side(api.status, m)}
            /\ Writing(m)' = Writing(m) /\ installed'[m] = installed[m] /\ ServingOn(m)' = ServingOn(m)
  PROVE  [BG(m)!Next]_(BG(m)!vars)
<1>1. api.status \in Status /\ api'.status \in Status
  BY DEF TypeOK, Object
<1>2. \A st \in Status : Enter(st, m).maps[m].active = Side(st, m)
  <2> TAKE st \in Status
  <2>1. st.maps[m] \in MapStatus
    BY DEF Status
  <2>2. Enter(st, m).maps[m] = [st.maps[m] EXCEPT !.active = Side(st, m)]
    BY EnterMaps
  <2> QED
    BY <2>1, <2>2 DEF MapStatus
<1>3. /\ Enter(api.status, m).maps[m].active = Side(api.status, m)
      /\ Enter(api'.status, m).maps[m].active = Side(api'.status, m)
  BY <1>1, <1>2
<1> QED
  BY <1>3 DEF BG!Next, BG!vars, BG!StartInstall, BG!EndInstall, BG!Swap, BG!Start, BG!Stop, BG!Volumes,
              Writing, ServingOn, Volumes

\* Pods that stop are a Stop or, since there is at most one, no step at all.
LEMMA QuietRefines ==
  ASSUME TypeOK, TypeOK', SingleInv, NEW m \in Maps,
         Side(api'.status, m) = Side(api.status, m),
         jobs'[m] = jobs[m], installed'[m] = installed[m],
         \A h \in Hash : pods'[m][h] \in Live => pods[m][h] \in Live
  PROVE  [BG(m)!Next]_(BG(m)!vars)
<1>1. Writing(m)' = Writing(m)
  BY DEF Writing
<1>2. LivePodsOf(m)' \subseteq LivePodsOf(m)
  BY DEF LivePodsOf
<1>3. LivePodsOf(m)' = LivePodsOf(m) \/ LivePodsOf(m)' = {}
  BY <1>2 DEF SingleInv, SingleServer
<1>4. ServingOn(m)' = ServingOn(m) \/ ServingOn(m)' = {}
  BY <1>3 DEF ServingOn
<1> QED
  BY <1>1, <1>4, AbstractStep

\* A pod is started where there is none, on the active volume, installed and at rest.
LEMMA StartRefines ==
  ASSUME TypeOK, TypeOK', NEW m \in Maps, NEW h \in Hash,
         LivePodsOf(m) = {}, ensurePodForMap(m, h),
         h.vol = Side(api.status, m), h.vol \in installed[m],
         \A i \in Images : jobs[m][h.vol][i] # "Running",
         UNCHANGED <<api, jobs, installed>>
  PROVE  [BG(m)!Next]_(BG(m)!vars)
<1>1. \A k \in Hash : pods'[m][k] \in Live => pods[m][k] \in Live \/ k = h
  BY PodEnsured DEF TypeOK, PodsType
<1>2. LivePodsOf(m)' \subseteq {h}
  BY <1>1 DEF LivePodsOf
<1>3. ServingOn(m) = {} /\ (ServingOn(m)' = {} \/ ServingOn(m)' = {h.vol})
  BY <1>2 DEF ServingOn
<1>4. Writing(m)' = Writing(m) /\ h.vol \notin Writing(m)
  BY DEF Writing
<1> QED
  BY <1>3, <1>4, AbstractStep

LEMMA ReconcileMapRefines ==
  ASSUME \A i, j \in Images : i = j, CalmInv, TypeOK', NEW m \in Maps, ReconcileMap(m), NEW n \in Maps
  PROVE  [BG(n)!Next]_(BG(n)!vars)
<1>1. TypeOK /\ Synced /\ SingleInv /\ OfflineInv /\ InstallInv
  BY DEF CalmInv
<1>2. op \in Ops /\ jobs \in JobsType /\ pods \in PodsType
  BY <1>1 DEF TypeOK, JobsType, PodsType
<1>3. op.pc = "map" /\ op.idx \in DOMAIN op.spec.maps /\ UNCHANGED <<api, installed>>
  BY DEF ReconcileMap, At, Quiet
<1>4. /\ op.spec.image \in Images /\ mapStatus(m).active \in Volumes /\ inactive(m) \in Volumes
      /\ desiredHash(m) \in Hash /\ desiredHash(m).vol = mapStatus(m).active
  BY <1>1, <1>3, TurnType
<1>5. /\ \A k \in Maps : Side(op.status, k) = Side(api.status, k)
      /\ \A k \in Maps : \A h \in LivePodsOf(k) : h.vol = Side(op.status, k)
  BY <1>1, <1>3, TurnServed
<1>6. mapStatus(m).active = Side(api.status, m)
  BY <1>2, <1>5, EntrySide
<1>7. livePods(m) = LivePodsOf(m)
  BY <1>1 DEF Synced, livePods, LivePodsOf
<1>8. CASE FirstPod(m)
  <2>1. /\ livePods(m) = {} /\ jobs[m][mapStatus(m).active][op.spec.image] = "Succeeded"
        /\ ensurePodForMap(m, desiredHash(m)) /\ UNCHANGED jobs
    BY <1>8 DEF FirstPod, InitJobStatus
  <2>2. CASE n = m
    <3>1. \A i \in Images : jobs[m][mapStatus(m).active][i] # "Running"
      BY <1>4, <2>1
    <3>2. mapStatus(m).active \in installed[m]
      BY <1>1, <1>4, <2>1 DEF InstallInv, JobsInstalled
    <3> QED
      BY <1>1, <1>3, <1>4, <1>6, <1>7, <2>1, <2>2, <3>1, <3>2, StartRefines
  <2>3. CASE n # m
    <3>1. pods'[n] = pods[n]
      BY <1>2, <2>1, <2>3 DEF ensurePodForMap, PodsType
    <3> QED
      BY <1>1, <1>3, <2>1, <3>1, QuietRefines
  <2> QED
    BY <2>2, <2>3
<1>9. ASSUME NEW v \in Volumes, EnsureInitJob(m, v), UNCHANGED pods, \A h \in LivePodsOf(m) : h.vol # v
      PROVE  [BG(n)!Next]_(BG(n)!vars)
  <2>1. CASE n = m
    <3>1. Writing(m)' = Writing(m) \/ Writing(m)' = Writing(m) \cup {v}
      <4>1. CASE jobs[m][v][op.spec.image] = "NotFound"
        <5>1. jobs'[m] = [jobs[m] EXCEPT ![v][op.spec.image] = "Running"]
          BY <1>2, <1>9, <4>1 DEF EnsureInitJob, JobsType
        <5>2. \A w \in Volumes, i \in Images :
                 jobs'[m][w][i] = IF w = v /\ i = op.spec.image THEN "Running" ELSE jobs[m][w][i]
          BY <1>2, <5>1 DEF JobsType
        <5> QED
          BY <1>4, <5>2 DEF Writing
      <4>2. CASE jobs[m][v][op.spec.image] # "NotFound"
        <5>1. \A w \in Volumes, i \in Images : jobs'[m][w][i] = jobs[m][w][i]
          BY <1>2, <1>4, <1>9, <4>2 DEF EnsureInitJob, JobsType
        <5> QED
          BY <5>1 DEF Writing
      <4> QED
        BY <4>1, <4>2
    <3>2. v \notin ServingOn(m) /\ ServingOn(m)' = ServingOn(m)
      BY <1>9 DEF ServingOn, LivePodsOf
    <3> QED
      BY <1>1, <1>3, <2>1, <3>1, <3>2, AbstractStep
  <2>2. CASE n # m
    <3>1. jobs'[n] = jobs[n]
      BY <1>2, <1>9, <2>2 DEF EnsureInitJob, JobsType
    <3> QED
      BY <1>1, <1>3, <1>9, <3>1, QuietRefines
  <2> QED
    BY <2>1, <2>2
<1>10. CASE FirstInstall(m)
  BY <1>4, <1>7, <1>9, <1>10 DEF FirstInstall
<1>11. CASE RollInstall(m)
  <2>1. inactive(m) # Side(op.status, m)
    BY <1>4, <1>5, <1>6 DEF inactive, otherSide, Volumes
  <2> QED
    BY <1>4, <1>5, <1>9, <1>11, <2>1 DEF RollInstall
<1>12. CASE UNCHANGED <<pods, jobs>>
  BY <1>1, <1>3, <1>12, QuietRefines
<1> QED
  BY <1>8, <1>10, <1>11, <1>12
     DEF ReconcileMap, FirstInstallFailed, SteadyCrashLooping, SteadyReady,
         SteadyWarming, HoldBack, RollInstallFailed, WaitDrain

LEMMA CommitRefines ==
  ASSUME \A i, j \in Images : i = j, CalmInv, GoodInv, TypeOK', NEW m \in Maps,
         StartDrain(m) \/ CommitSwap(m) \/ Rollback(m), NEW n \in Maps
  PROVE  [BG(n)!Next]_(BG(n)!vars)
<1>1. TypeOK /\ Synced /\ SingleInv /\ OfflineInv /\ InstallInv
  BY DEF CalmInv
<1>2. op \in Ops /\ api \in Object /\ pods \in PodsType
  BY <1>1 DEF TypeOK, PodsType
<1>3. /\ op.pc = "map" /\ op.idx \in DOMAIN op.spec.maps
      /\ api' = IF op.fresh THEN [api EXCEPT !.status = op'.status] ELSE api
      /\ \A k \in Maps \ {m} : op'.status.maps[k] = op.status.maps[k]
  BY <1>1, CommitStatus
<1>4. op.fresh /\ \A k \in Maps : Side(op.status, k) = Side(api.status, k)
  BY <1>1, <1>3, TurnServed
<1>5. api'.status = op'.status
  BY <1>2, <1>3, <1>4 DEF Object
<1>6. UNCHANGED <<jobs, installed>>
  BY DEF StartDrain, CommitSwap, Rollback
<1>7. \A k \in Maps, h \in Hash : pods'[k][h] \in Live <=> pods[k][h] \in Live
  <2>1. CASE CommitSwap(m)
    <3>1. PICK h \in livePods(m) : SaveAndExit(m, h)
      BY <2>1 DEF CommitSwap
    <3>2. h \in Hash
      BY <3>1 DEF livePods
    <3> QED
      BY <1>2, <3>1, <3>2 DEF SaveAndExit, PodsType, Live
  <2> QED
    BY <2>1 DEF StartDrain, Rollback
<1>8. CASE Side(op'.status, n) = Side(op.status, n)
  BY <1>1, <1>4, <1>5, <1>6, <1>7, <1>8, QuietRefines
<1>9. CASE n = m /\ Side(op'.status, m) # Side(op.status, m)
  <2>1. Side(op'.status, m) \in installed[m]
    <3>1. CASE StartDrain(m)
      <4>1. op'.status.maps[m].active = Side(op.status, m)
        BY <1>1, <3>1, CommitStatus
      <4> QED
        BY <1>9, <4>1 DEF Side
    <3>2. CASE CommitSwap(m)
      <4>1. op'.status.maps[m].active = inactive(m) /\ inactive(m) \in Volumes
        BY <1>1, <1>3, <3>2, CommitStatus, TurnType
      <4>2. op.spec.image \in Images
        BY <1>1, <1>3, TurnType
      <4>3. inactive(m) \in installed[m]
        BY <1>1, <3>2, <4>1, <4>2 DEF CommitSwap, InitJobStatus, InstallInv, JobsInstalled
      <4> QED
        BY <4>1, <4>3 DEF Side, Volumes
    <3>3. CASE Rollback(m)
      <4>1. /\ op'.status.maps[m].active = op.status.maps[m].lastGood
            /\ op.status.maps[m].lastGood \in Volumes
        BY <1>1, <3>3, CommitStatus
      <4> QED
        BY <4>1 DEF Side, GoodInv, GoodInstalled, Volumes
    <3> QED
      BY <3>1, <3>2, <3>3
  <2>2. ServingOn(m)' = ServingOn(m) /\ Writing(m)' = Writing(m)
    <3>1. LivePodsOf(m)' = LivePodsOf(m)
      BY <1>7 DEF LivePodsOf
    <3> QED
      BY <1>6, <3>1 DEF ServingOn, Writing
  <2> QED
    BY <1>1, <1>4, <1>5, <1>6, <1>9, <2>1, <2>2, AbstractStep
<1> QED
  BY <1>3, <1>8, <1>9 DEF Side

LEMMA JobRefines ==
  ASSUME \A i, j \in Images : i = j, CalmInv, TypeOK', NEW m \in Maps, NEW v \in Volumes, NEW i \in Images,
         JobSucceeds(m, v, i) \/ JobFails(m, v, i) \/ JobExpires(m, v, i), NEW n \in Maps
  PROVE  [BG(n)!Next]_(BG(n)!vars)
<1>1. TypeOK /\ SingleInv
  BY DEF CalmInv
<1>2. jobs \in JobsType /\ installed \in [Maps -> SUBSET Volumes]
  BY <1>1 DEF TypeOK, JobsType
<1>3. UNCHANGED <<api, pods>>
  BY DEF JobSucceeds, JobFails, JobExpires, SetJob
<1>4. PICK st \in {"Succeeded", "Failed", "NotFound"} :
        /\ jobs' = [jobs EXCEPT ![m][v][i] = st]
        /\ \/ st = "Succeeded" /\ jobs[m][v][i] = "Running" /\ installed' = [installed EXCEPT ![m] = @ \cup {v}]
           \/ st # "Succeeded" /\ installed' = installed
  BY DEF JobSucceeds, JobFails, JobExpires, SetJob
<1>5. CASE n # m
  <2>1. jobs'[n] = jobs[n] /\ installed'[n] = installed[n]
    BY <1>2, <1>4, <1>5 DEF JobsType
  <2> QED
    BY <1>1, <1>3, <2>1, QuietRefines
<1>6. CASE n = m
  <2>1. \A w \in Volumes, j \in Images : jobs'[m][w][j] = IF w = v THEN st ELSE jobs[m][w][j]
    <3>1. jobs'[m] = [jobs[m] EXCEPT ![v][i] = st]
      BY <1>2, <1>4 DEF JobsType
    <3> QED
      BY <1>2, <3>1 DEF JobsType
  <2>2. Writing(m)' = Writing(m) \ {v}
    BY <1>4, <2>1 DEF Writing
  <2>3. ServingOn(m)' = ServingOn(m)
    BY <1>3 DEF ServingOn, LivePodsOf
  <2>4. CASE v \in Writing(m)
    <3>1. installed'[m] \in {installed[m], installed[m] \cup {v}}
      BY <1>2, <1>4
    <3> QED
      BY <1>1, <1>3, <1>6, <2>2, <2>3, <2>4, <3>1, AbstractStep
  <2>5. CASE v \notin Writing(m)
    <3>1. jobs[m][v][i] # "Running"
      BY <2>5 DEF Writing
    <3>2. installed'[m] = installed[m] /\ Writing(m)' = Writing(m)
      BY <1>4, <2>2, <2>5, <3>1
    <3> QED
      BY <1>1, <1>3, <1>6, <2>3, <3>2, AbstractStep
  <2> QED
    BY <2>4, <2>5
<1> QED
  BY <1>5, <1>6

LEMMA RefinementStep ==
  ASSUME Faults = {}, \A i, j \in Images : i = j, CalmInv, GoodInv, TypeOK', Next, NEW n \in Maps
  PROVE  [BG(n)!Next]_(BG(n)!vars)
<1>1. TypeOK /\ Synced /\ SingleInv /\ OfflineInv /\ InstallInv
  BY DEF CalmInv
<1>2. /\ op \in Ops /\ api \in Object /\ pods \in PodsType
      /\ op.status \in Status /\ api.status \in Status
  BY <1>1 DEF TypeOK, Ops, Object, PodsType
<1>3. ASSUME api'.status = api.status, UNCHANGED <<jobs, installed>>,
             \A m \in Maps, h \in Hash : pods'[m][h] \in Live => pods[m][h] \in Live
      PROVE  [BG(n)!Next]_(BG(n)!vars)
  BY <1>1, <1>3, QuietRefines
<1>4. ASSUME NEW m \in Maps, ReconcileMap(m)
      PROVE  [BG(n)!Next]_(BG(n)!vars)
  BY <1>4, ReconcileMapRefines
<1>5. ASSUME NEW m \in Maps, StartDrain(m) \/ CommitSwap(m) \/ Rollback(m)
      PROVE  [BG(n)!Next]_(BG(n)!vars)
  BY <1>5, CommitRefines
<1>6. ASSUME NEW m \in Maps, Announce(m) \/ DeleteOld(m) \/ DiscardBad(m)
      PROVE  [BG(n)!Next]_(BG(n)!vars)
  <2>1. UNCHANGED <<api, jobs, installed>>
    BY <1>6 DEF Announce, DeleteOld, DiscardBad, world
  <2>2. \A k \in Maps, h \in Hash : pods'[k][h] \in Live => pods[k][h] \in Live
    BY <1>2, <1>6 DEF Announce, DeleteOld, DiscardBad, world, PodsType, Live
  <2> QED
    BY <1>3, <2>1, <2>2
<1>7. ASSUME NEW m \in Maps, CreateNew(m)
      PROVE  [BG(n)!Next]_(BG(n)!vars)
  <2> DEFINE h == computePodHash(m, op.status.maps[m].active)
  <2>1. op.pc = "create" /\ m = Turn /\ op.idx \in DOMAIN op.spec.maps
    BY <1>7 DEF CreateNew, At, Turn
  <2>2. /\ op.status.maps[m].active \in Volumes
        /\ \A i \in Images : jobs[m][op.status.maps[m].active][i] # "Running"
    BY <1>1, <2>1 DEF OfflineInv, SwapReady
  <2>3. h \in Hash /\ h.vol = op.status.maps[m].active
    BY <1>1, <1>2, <2>1, <2>2, HashType DEF TypeOK
  <2>4. h.vol = Side(api.status, m)
    <3>1. Side(op.status, m) = Side(api.status, m)
      BY <1>1, <2>1, TurnServed
    <3> QED
      BY <2>2, <2>3, <3>1 DEF Side, Volumes
  <2>5. h.vol \in installed[m]
    BY <1>1, <2>1, <2>3 DEF InstallInv, SwapInstalled, Turn
  <2>6. ensurePodForMap(m, h) /\ UNCHANGED <<api, jobs, installed>>
    BY <1>7 DEF CreateNew
  <2> HIDE DEF h
  <2>7. LivePodsOf(m) = {}
    BY <1>1, <2>1 DEF SingleInv, Handover
  <2>8. CASE n = m
    BY <1>1, <2>2, <2>3, <2>4, <2>5, <2>6, <2>7, <2>8, StartRefines
  <2>9. CASE n # m
    <3>1. pods'[n] = pods[n]
      BY <1>2, <2>6, <2>9 DEF ensurePodForMap, PodsType
    <3> QED
      BY <1>1, <2>6, <3>1, QuietRefines
  <2> QED
    BY <2>8, <2>9
<1>8. CASE gcOrphanedMaps
  <2>1. \A k \in Maps, h \in Hash : pods'[k][h] \in Live => pods[k][h] \in Live
    BY <1>8 DEF gcOrphanedMaps, Live
  <2> QED
    BY <1>3, <1>8, <2>1 DEF gcOrphanedMaps
<1>9. CASE Publish
  <2>1. op.pc = "publish" /\ UNCHANGED <<pods, jobs, installed>>
    BY <1>9 DEF Publish, world
  <2>2. op.fresh /\ (Side(op.status, n) = Side(api.status, n) \/ Side(op.status, n) = "server-a")
    BY <1>1, <2>1 DEF OfflineInv, FreshPass, SidesKept, Busy
  <2>3. api'.status = op.status
    BY <1>2, <1>9, <2>2 DEF Publish, persistStatus, Object
  <2>4. CASE Side(op.status, n) = Side(api.status, n)
    BY <1>1, <2>1, <2>3, <2>4, QuietRefines
  <2>5. CASE Side(op.status, n) = "server-a" /\ Side(api.status, n) # "server-a"
    <3>1. Side(api.status, n) = "server-b"
      BY <1>2, <2>5 DEF Side, Status, MapStatus, Volumes
    <3>2. "server-a" \in installed[n]
      BY <3>1 DEF GoodInv, FirstSideInstalled
    <3>3. ServingOn(n)' = ServingOn(n) /\ Writing(n)' = Writing(n)
      BY <2>1 DEF ServingOn, Writing, LivePodsOf
    <3> QED
      BY <1>1, <2>1, <2>3, <2>5, <3>2, <3>3, AbstractStep
  <2> QED
    BY <2>2, <2>4, <2>5
<1>10. CASE Cluster
  <2>1. ASSUME NEW m \in Maps PROVE ~PVCReleased(m)
    BY <1>1 DEF PVCReleased, InstallInv, VolumesKept
  <2>2. CASE \E m \in Maps, h \in Hash :
               PodBecomesReady(m, h) \/ PodCrashLoops(m, h) \/ PodEvicted(m, h) \/ PodGone(m, h)
    <3>1. UNCHANGED <<api, jobs, installed>>
      BY <2>2 DEF PodBecomesReady, PodCrashLoops, PodEvicted, PodGone, SetPod
    <3> QED
      BY <1>1, <1>3, <1>10, <3>1, ClusterPods
  <2> QED
    BY <1>10, <2>1, <2>2, JobRefines DEF Cluster
<1>11. CASE Begin \/ EditSpec \/ (\E m \in Maps : EditConfig(m)) \/ CatchUp
  <2>1. api'.status = api.status /\ UNCHANGED <<pods, jobs, installed>>
    BY <1>2, <1>11 DEF Begin, EditSpec, EditConfig, CatchUp, world, Object
  <2> QED
    BY <1>3, <2>1
<1>12. CASE \/ ForeignWrite \/ Crash \/ Abort \/ DeleteFails \/ FallBehind
            \/ \E m \in Maps : SwapLost(m) \/ JobUnread(m)
  BY <1>12 DEF ForeignWrite, Crash, Abort, DeleteFails, FallBehind, SwapLost, JobUnread, Fault
<1>13. CASE Tick
  <2>1. api'.status = Aged(api.status) /\ UNCHANGED <<pods, jobs, installed>>
    BY <1>2, <1>13 DEF Tick, Object, world
  <2>2. Side(api'.status, n) = Side(api.status, n)
    <3>1. Aged(api.status).maps[n].active = api.status.maps[n].active
      BY <1>2, AgedType
    <3> QED
      BY <2>1, <3>1 DEF Side
  <2> QED
    BY <1>1, <2>1, <2>2, QuietRefines
<1> QED
  BY <1>4, <1>5, <1>6, <1>7, <1>8, <1>9, <1>10, <1>11, <1>12, <1>13 DEF Next, Pass

\* The controller keeps the blue/green promise for every number of maps, map lists, launch
\* settings, edits, evictions, crash loops and expired Jobs: while no pass is torn apart, the
\* image stays the same and claims are kept, each step of the reconciler, the cluster or a user
\* is, for each map, a step of BlueGreen or none.  The active volume changes only to an
\* installed one, an install starts only on a volume no server runs from, and a server starts
\* only on the active, installed volume when the old one is stopped.
THEOREM Refinement ==
  Faults = {} /\ PersistOnDelete /\ (\A i, j \in Images : i = j) => (Spec => Implements)
<1> SUFFICES ASSUME Faults = {}, PersistOnDelete, \A i, j \in Images : i = j
             PROVE  Spec => Implements
  OBVIOUS
<1>1. Init => \A m \in Maps : BG(m)!Init
  <2> SUFFICES ASSUME Init, NEW m \in Maps PROVE BG(m)!Init
    OBVIOUS
  <2>1. api.status = NoStatus /\ NoStatus.maps[m] = NoMapStatus /\ NoMapStatus.active = ""
    BY DEF Init, NoStatus, NoMapStatus
  <2>2. Enter(api.status, m).maps[m].active = "server-a"
    <3>1. Enter(NoStatus, m).maps[m] = [NoMapStatus EXCEPT !.active = Side(NoStatus, m)]
      BY <2>1, NoStatusType, EnterMaps
    <3> QED
      BY <2>1, <3>1 DEF Side, NoMapStatus
  <2>3. LivePodsOf(m) = {} /\ installed[m] = {} /\ \A v \in Volumes, i \in Images : jobs[m][v][i] # "Running"
    BY DEF Init, LivePodsOf, Live
  <2> QED
    BY <2>2, <2>3 DEF BG!Init
<1>2. Init => GoodInv
  <2> SUFFICES ASSUME Init PROVE GoodInv
    OBVIOUS
  <2>1. \A m \in Maps : NoStatus.maps[m] = NoMapStatus
    BY DEF NoStatus
  <2>2. NoMapStatus.active = "" /\ NoMapStatus.lastGood = ""
    BY DEF NoMapStatus
  <2>3. api.status = NoStatus /\ op.status = NoStatus
    BY DEF Init, Idle
  <2> QED
    BY <2>1, <2>2, <2>3 DEF GoodInv, GoodInstalled, FirstSideInstalled, Side
<1>3. CalmInv /\ GoodInv /\ [Next]_vars => GoodInv'
  <2>1. CASE UNCHANGED vars
    BY <2>1, QuietGood DEF vars
  <2> QED
    BY <2>1, GoodStep
<1>4. CalmInv /\ GoodInv /\ TypeOK' /\ [Next]_vars => [\A m \in Maps : [BG(m)!Next]_(BG(m)!vars)]_vars
  BY RefinementStep
<1>5. TypeOK /\ Synced /\ SingleInv /\ OfflineInv /\ InstallInv <=> CalmInv
  BY DEF CalmInv
<1>6. "lag" \notin Faults /\ {"lag", "apiErr"} \cap Faults = {}
  OBVIOUS
<1>7. Spec => []Synced /\ []SingleInv /\ []OfflineInv /\ []InstallInv
  BY <1>6, SyncedAlways, SingleAlways, OfflineAlways, InstallAlways, PTL
<1> QED
  BY <1>1, <1>2, <1>3, <1>4, <1>5, <1>7, Typing, PTL DEF Spec, Implements
=============================================================================

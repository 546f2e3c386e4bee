----------------------------- MODULE DrainProofs -----------------------------
(***************************************************************************)
(* Theorems about ArkClusterController, continued: one roll announces its  *)
(* shutdown once, and one change swaps a server once.                      *)
(***************************************************************************)
EXTENDS BlueGreenProofs

-----------------------------------------------------------------------------
(* Nobody else writes the object during a pass. *)

LEMMA FreshStep ==
  ASSUME "race" \notin Faults, TypeOK, Synced, FreshPass, Next
  PROVE  FreshPass'
<1>1. op \in Ops
  BY DEF TypeOK
<1>2. ASSUME op'.pc = "idle" \/ op'.fresh \/ (op'.fresh = op.fresh /\ op.pc # "idle")
      PROVE  FreshPass'
  BY <1>2 DEF FreshPass, Busy
<1>3. CASE Begin
  BY <1>2, <1>3 DEF Begin, Synced
<1>4. ASSUME NEW m \in Maps, ReconcileMap(m)
      PROVE  FreshPass'
  BY <1>2, <1>4, ReconcileMapType DEF ReconcileMap, At
<1>5. ASSUME NEW m \in Maps, StartDrain(m) \/ CommitSwap(m) \/ Rollback(m)
      PROVE  FreshPass'
  BY <1>2, <1>5, CommitStatus
<1>6. ASSUME NEW m \in Maps, Announce(m) \/ DeleteOld(m) \/ CreateNew(m) \/ DiscardBad(m)
      PROVE  FreshPass'
  <2>1. op'.fresh = op.fresh /\ op.pc # "idle"
    BY <1>1, <1>6 DEF Announce, DeleteOld, CreateNew, DiscardBad, At, NextMap, Ops
  <2> QED
    BY <1>2, <2>1
<1>7. CASE gcOrphanedMaps \/ DeleteFails
  <2>1. op'.fresh = op.fresh /\ op.pc # "idle"
    BY <1>1, <1>7 DEF gcOrphanedMaps, DeleteFails, Wrap, NextMap, Ops
  <2> QED
    BY <1>2, <2>1
<1>8. CASE Publish \/ Crash \/ Abort
  BY <1>2, <1>8 DEF Publish, Crash, Abort, Idle
<1>9. CASE op' = op
  BY <1>9 DEF FreshPass, Busy
<1>10. CASE Cluster
  <2>1. op' = op
    BY <1>10 DEF Cluster, PodBecomesReady, PodCrashLoops, PodEvicted, PodGone, SetPod,
                 JobSucceeds, JobFails, JobExpires, SetJob, PVCReleased
  <2> QED
    BY <1>9, <2>1
<1>11. CASE EditSpec
  BY <1>9, <1>11 DEF EditSpec, Outdate
<1>12. CASE ForeignWrite
  BY <1>12 DEF ForeignWrite, Fault
<1>13. CASE FallBehind \/ CatchUp \/ \E m \in Maps : EditConfig(m)
  BY <1>9, <1>13 DEF FallBehind, CatchUp, EditConfig
<1>14. CASE Tick
  <2>1. op'.fresh = op.fresh /\ op'.pc = op.pc
    BY <1>1, <1>14 DEF Tick, Ops
  <2> QED
    BY <2>1 DEF FreshPass, Busy
<1>15. ASSUME NEW m \in Maps, SwapLost(m) \/ JobUnread(m)
       PROVE  FreshPass'
  BY <1>2, <1>15, SwapLostFacts, JobUnreadFacts DEF Idle
<1> QED
  BY <1>3, <1>4, <1>5, <1>6, <1>7, <1>8, <1>10, <1>11, <1>12, <1>13, <1>14, <1>15 DEF Next, Pass

LEMMA FreshAlways == {"race", "lag"} \cap Faults = {} => (Spec => []FreshPass)
<1> SUFFICES ASSUME {"race", "lag"} \cap Faults = {} PROVE Spec => []FreshPass
  OBVIOUS
<1>1. Init => FreshPass
  BY DEF Init, Idle, FreshPass, Busy
<1>2. TypeOK /\ Synced /\ FreshPass /\ [Next]_vars => FreshPass'
  <2>1. CASE UNCHANGED vars
    BY <2>1 DEF vars, FreshPass, Busy
  <2> QED
    BY <2>1, FreshStep
<1>3. "lag" \notin Faults
  OBVIOUS
<1> QED
  BY <1>1, <1>2, <1>3, Typing, SyncedAlways, PTL DEF Spec

-----------------------------------------------------------------------------
(***************************************************************************)
(* AnnounceOnce.  The deadline is what remembers an announcement: a map    *)
(* that was told of its shutdown has a deadline in the status, which is    *)
(* persisted before the announcement, so no retry starts the drain again.  *)
(* A map that leaves the spec loses its deadline, but its pod with it.     *)
(***************************************************************************)

Draining(m) ==
  /\ api.status.maps[m].deadline # NoDeadline
  /\ op.pc = "publish" => op.status.maps[m].deadline # NoDeadline

Remembered == \A m \in Maps : hist.told[m] # 0 => Draining(m) \/ LivePodsOf(m) = {}

\* A drain that starts and a swap under way have announced nothing yet.
Untold ==
  op.pc \in {"announce", "delete", "create"} =>
    /\ op.idx \in DOMAIN op.spec.maps /\ hist.told[Turn] = 0
    /\ op.pc = "announce" => op.status.maps[Turn].deadline # NoDeadline

Listed(s) == {s.maps[i] : i \in DOMAIN s.maps}

ToldListed == \A m \in Maps : hist.told[m] # 0 => \E s \in Specs : m \in Listed(s)

AnnounceInv == AnnounceOnce /\ Remembered /\ Untold /\ ToldListed

\* No edit takes a map out of the spec or puts one in.
SameMaps == \A s, t \in Specs : Listed(s) = Listed(t)

\* Steps that announce nothing.
LEMMA NothingTold ==
  ASSUME AnnounceInv, Untold',
         \A m \in Maps :
           \/ hist'.told[m] = 0
           \/ /\ hist'.told[m] = hist.told[m]
              /\ \A h \in Hash : pods'[m][h] \in Live => pods[m][h] \in Live
              /\ Draining(m) => Draining(m)' \/ LivePodsOf(m)' = {}
  PROVE  AnnounceInv'
<1>1. AnnounceOnce' /\ ToldListed'
  BY DEF AnnounceInv, AnnounceOnce, ToldListed
<1>2. Remembered'
  <2> SUFFICES ASSUME NEW m \in Maps, hist'.told[m] # 0
               PROVE  Draining(m)' \/ LivePodsOf(m)' = {}
    BY DEF Remembered
  <2>1. /\ hist.told[m] # 0
        /\ \A h \in Hash : pods'[m][h] \in Live => pods[m][h] \in Live
        /\ Draining(m) => Draining(m)' \/ LivePodsOf(m)' = {}
    OBVIOUS
  <2>2. LivePodsOf(m) = {} => LivePodsOf(m)' = {}
    BY <2>1 DEF LivePodsOf
  <2> QED
    BY <2>1, <2>2 DEF AnnounceInv, Remembered
<1> QED
  BY <1>1, <1>2 DEF AnnounceInv

\* ... for instance those that leave the history, the deadlines and the place of the pass alone.
LEMMA AsideTold ==
  ASSUME AnnounceInv, hist'.told = hist.told,
         \A m \in Maps, h \in Hash : pods'[m][h] \in Live => pods[m][h] \in Live,
         api'.status = api.status,
         \/ op'.pc \notin {"announce", "delete", "create", "publish"}
         \/ op'.pc = op.pc /\ op'.idx = op.idx /\ op'.spec = op.spec /\ op'.status = op.status
  PROVE  AnnounceInv'
<1>1. Untold'
  BY DEF AnnounceInv, Untold, Turn
<1>2. \A m \in Maps : Draining(m) => Draining(m)'
  BY DEF Draining
<1> QED
  BY <1>1, <1>2, NothingTold

LEMMA SettledTold ==
  ASSUME TypeOK, NEW m \in Maps, Settled(m)
  PROVE  hist'.told[m] = 0 /\ \A n \in Maps \ {m} : hist'.told[n] = hist.told[n]
BY DEF TypeOK, Settled

\* The deadlines of a pass are those in the API until the prune.
LEMMA SameDeadline ==
  ASSUME FreshPass, DeadlineInv, op.pc \notin {"idle", "publish"}, NEW m \in Maps
  PROVE  op.status.maps[m].deadline = api.status.maps[m].deadline
BY DEF FreshPass, Busy, DeadlineInv

LEMMA ReconcileMapTold ==
  ASSUME TypeOK, AnnounceInv, NEW m \in Maps, ReconcileMap(m)
  PROVE  AnnounceInv'
<1>1. op'.pc = "map" /\ api' = api
  BY ReconcileMapType DEF ReconcileMap, Quiet
<1>2. Untold' /\ \A n \in Maps : Draining(n) => Draining(n)'
  BY <1>1 DEF Untold, Draining
<1>3. CASE FirstPod(m)
  <2>1. hist'.told[m] = 0 /\ \A n \in Maps \ {m} : hist'.told[n] = hist.told[n]
    BY <1>3, SettledTold DEF FirstPod
  <2>2. \A n \in Maps \ {m}, h \in Hash : pods'[n][h] = pods[n][h]
    BY <1>3 DEF FirstPod, ensurePodForMap, TypeOK
  <2> QED
    BY <1>2, <2>1, <2>2, NothingTold
<1>4. CASE ~FirstPod(m)
  <2>1. UNCHANGED pods /\ (UNCHANGED hist \/ Settled(m))
    BY <1>4 DEF ReconcileMap, FirstInstall, FirstInstallFailed, SteadyCrashLooping, SteadyReady,
                SteadyWarming, HoldBack, RollInstall, RollInstallFailed, WaitDrain
  <2>2. \A n \in Maps : hist'.told[n] \in {0, hist.told[n]}
    BY <2>1, SettledTold
  <2> QED
    BY <1>2, <2>1, <2>2, NothingTold
<1> QED
  BY <1>3, <1>4

\* The turns that persist.
LEMMA CommitTold ==
  ASSUME TypeOK, Synced, FreshPass, DeadlineInv, AnnounceInv, NEW m \in Maps,
         StartDrain(m) \/ CommitSwap(m) \/ Rollback(m)
  PROVE  AnnounceInv'
<1>1. op \in Ops /\ api \in Object /\ pods \in PodsType /\ hist \in HistType
  BY DEF TypeOK, PodsType, HistType
<1>2. /\ op.pc = "map" /\ op.idx \in DOMAIN op.spec.maps /\ m = Turn
      /\ op'.status \in Status /\ op'.spec = op.spec
      /\ api' = IF op.fresh THEN [api EXCEPT !.status = op'.status] ELSE api
      /\ \A n \in Maps \ {m} : op'.status.maps[n] = op.status.maps[n]
  BY CommitStatus
<1>3. op.fresh /\ api'.status = op'.status
  BY <1>1, <1>2 DEF FreshPass, Busy, Object
<1>4. op'.pc # "publish"
  BY CommitStatus
<1>5. \A n \in Maps \ {m} : Draining(n) => Draining(n)'
  BY <1>2, <1>3, <1>4, SameDeadline DEF Draining
<1>6. CASE StartDrain(m)
  <2>1. op.status.maps[m].deadline = NoDeadline
    BY <1>1, <1>6, MapStatusType DEF StartDrain
  <2>2. ~Draining(m)
    BY <1>2, <2>1, SameDeadline DEF Draining
  <2>3. LivePodsOf(m) # {}
    BY <1>6 DEF StartDrain, Drift, livePods, LivePodsOf, Synced
  <2>4. hist.told[m] = 0
    BY <2>2, <2>3 DEF AnnounceInv, Remembered
  <2>5. UNCHANGED pods /\ hist'.told = hist.told
    BY <1>1, <1>6 DEF StartDrain, HistType
  <2>6. op'.pc = "announce" => op'.idx = op.idx /\ op'.status.maps[m].deadline # NoDeadline
    <3> DEFINE new == [mapStatus(m) EXCEPT !.deadline = Grace, !.phase = "DrainingActive"]
    <3>1. new \in MapStatus /\ new.deadline = Grace /\ Grace # NoDeadline
      <4>1. mapStatus(m) \in MapStatus
        BY <1>2, TurnType
      <4>2. Grace # NoDeadline
        BY GraceType DEF NoDeadline
      <4> QED
        BY <4>1, <4>2, GraceType DEF MapStatus, MapPhases
    <3>2. op' = [op EXCEPT !.pc = "announce", !.status = Set(m, new)] \/ NextMap(Set(m, new))
      BY <1>6 DEF StartDrain
    <3> HIDE DEF new
    <3>3. op'.status = Set(m, new) /\ (op'.pc = "announce" => op'.idx = op.idx)
      BY <1>1, <3>2 DEF NextMap, Ops
    <3> QED
      BY <1>1, <3>1, <3>3, SetType
  <2>7. op'.pc \in {"announce", "map"}
    BY <1>6, CommitStatus
  <2>8. Untold'
    BY <1>2, <2>4, <2>5, <2>6, <2>7 DEF Untold, Turn
  <2> QED
    BY <1>5, <2>4, <2>5, <2>8, NothingTold
<1>7. CASE CommitSwap(m) \/ Rollback(m)
  <2>1. hist'.told[m] = 0 /\ \A n \in Maps \ {m} : hist'.told[n] = hist.told[n]
    <3>1. \E d : hist' = [hist EXCEPT !.notice[m] = NoDeadline, !.told[m] = 0, !.done[m] = d]
      BY <1>7 DEF CommitSwap, Rollback
    <3>2. hist'.told = [hist.told EXCEPT ![m] = 0]
      BY <1>1, <3>1 DEF HistType
    <3> QED
      BY <1>1, <3>2 DEF HistType
  <2>2. \A n \in Maps \ {m}, h \in Hash : pods'[n][h] = pods[n][h]
    BY <1>1, <1>7 DEF CommitSwap, Rollback, SaveAndExit, PodsType
  <2>3. op'.pc \in {"delete", "discard"} /\ op'.idx = op.idx
    BY <1>7, CommitStatus
  <2>4. Untold'
    BY <1>2, <2>1, <2>3 DEF Untold, Turn
  <2> QED
    BY <1>5, <2>1, <2>2, <2>4, NothingTold
<1> QED
  BY <1>6, <1>7

\* The end of the loop: the maps that left the spec lose their deadlines.
LEMMA WrapTold ==
  ASSUME TypeOK, FreshPass, DeadlineInv, AnnounceInv, Wrap,
         hist' = hist, api' = api,
         \A m \in Maps, h \in Hash : pods'[m][h] \in Live => pods[m][h] \in Live,
         \A m \in Maps : hist.told[m] # 0 /\ m \notin specMaps => LivePodsOf(m)' = {}
  PROVE  AnnounceInv'
<1>1. op.pc = "map" /\ op'.pc = "publish"
  BY WrapStatus DEF Wrap
<1>2. Untold'
  BY <1>1 DEF Untold
<1>3. \A m \in specMaps \cap Maps : Draining(m) => Draining(m)'
  BY <1>1, SameDeadline, WrapStatus DEF Draining
<1> QED
  BY <1>2, <1>3, NothingTold

LEMMA AnnounceStep ==
  ASSUME {"race", "lag"} \cap Faults = {}, "apiErr" \in Faults => SameMaps,
         TypeOK, Synced, FreshPass, DeadlineInv, AnnounceInv, Next
  PROVE  AnnounceInv'
<1>1. op \in Ops /\ api \in Object /\ pods \in PodsType /\ hist \in HistType
  BY DEF TypeOK, PodsType, HistType
<1>2. CASE Begin
  BY <1>2, AsideTold DEF Begin, world
<1>3. ASSUME NEW m \in Maps, ReconcileMap(m)
      PROVE  AnnounceInv'
  BY <1>3, ReconcileMapTold
<1>4. ASSUME NEW m \in Maps, StartDrain(m) \/ CommitSwap(m) \/ Rollback(m)
      PROVE  AnnounceInv'
  BY <1>4, CommitTold
<1>5. ASSUME NEW m \in Maps, Announce(m)
      PROVE  AnnounceInv'
  <2>1. op.pc = "announce" /\ op.idx \in DOMAIN op.spec.maps /\ m = Turn
        /\ UNCHANGED <<api, pods>>
    BY <1>5 DEF Announce, At, Turn, world
  <2>2. op'.pc = "map"
    BY <1>1, <1>5 DEF Announce, NextMap, Ops
  <2>3. hist.told[m] = 0 /\ op.status.maps[m].deadline # NoDeadline
    BY <2>1 DEF AnnounceInv, Untold
  <2>4. hist'.told[m] = 1 /\ \A n \in Maps \ {m} : hist'.told[n] = hist.told[n]
    BY <1>1, <1>5, <2>3 DEF Announce, HistType
  <2>5. \A n \in Maps : Draining(n)' <=> api.status.maps[n].deadline # NoDeadline
    BY <2>1, <2>2 DEF Draining
  <2>6. Draining(m)'
    BY <2>1, <2>3, <2>5, SameDeadline
  <2>7. Remembered'
    BY <2>1, <2>4, <2>5, <2>6 DEF AnnounceInv, Remembered, Draining, LivePodsOf
  <2>8. AnnounceOnce' /\ Untold'
    BY <2>2, <2>4 DEF AnnounceInv, AnnounceOnce, Untold
  <2>9. ToldListed'
    <3>1. op.spec \in Specs /\ m \in Listed(op.spec)
      BY <1>1, <2>1 DEF Ops, Listed, Turn
    <3> QED
      BY <2>4, <3>1 DEF AnnounceInv, ToldListed
  <2> QED
    BY <2>7, <2>8, <2>9 DEF AnnounceInv
<1>6. ASSUME NEW m \in Maps, DeleteOld(m) \/ CreateNew(m) \/ DiscardBad(m)
      PROVE  AnnounceInv'
  <2>1. /\ op.pc \in {"delete", "create", "discard"} /\ m = Turn /\ UNCHANGED <<api, hist>>
        /\ op.pc = "create" <=> CreateNew(m)
    BY <1>6 DEF DeleteOld, CreateNew, DiscardBad, At, Turn
  <2>2. \/ op'.pc = "map"
        \/ op'.pc = "create" /\ op.pc = "delete" /\ op'.idx = op.idx /\ op'.spec = op.spec
    BY <1>1, <1>6 DEF DeleteOld, CreateNew, DiscardBad, At, NextMap, Ops
  <2>3. Untold'
    BY <2>1, <2>2 DEF AnnounceInv, Untold, Turn
  <2>4. \A n \in Maps : Draining(n) => Draining(n)'
    BY <2>1, <2>2 DEF Draining
  <2>5. \A n \in Maps \ {m}, h \in Hash : pods'[n][h] = pods[n][h]
    BY <1>1, <1>6 DEF DeleteOld, CreateNew, DiscardBad, ensurePodForMap, PodsType
  <2>6. hist'.told[m] = 0 \/ \A h \in Hash : pods'[m][h] \in Live => pods[m][h] \in Live
    <3>1. CASE CreateNew(m)
      BY <2>1, <3>1 DEF AnnounceInv, Untold
    <3>2. CASE DeleteOld(m) \/ DiscardBad(m)
      BY <1>1, <3>2 DEF DeleteOld, DiscardBad, PodsType, Live
    <3> QED
      BY <1>6, <3>1, <3>2
  <2> QED
    BY <2>1, <2>3, <2>4, <2>5, <2>6, NothingTold
<1>7. CASE gcOrphanedMaps
  <2>1. Wrap /\ hist' = hist /\ api' = api
    BY <1>7 DEF gcOrphanedMaps
  <2>2. \A n \in Maps, h \in Hash : pods'[n][h] \in Live => pods[n][h] \in Live /\ n \in specMaps
    BY <1>1, <1>7 DEF gcOrphanedMaps, Synced, Live
  <2> QED
    BY <2>1, <2>2, WrapTold DEF LivePodsOf
<1>8. CASE Publish
  <2>1. op.pc = "publish" /\ op'.pc = "idle" /\ UNCHANGED <<pods, hist>>
    BY <1>8 DEF Publish, Idle, world
  <2>2. api'.status = op.status
    BY <1>1, <1>8, <2>1 DEF Publish, persistStatus, Object, FreshPass, Busy
  <2>3. \A n \in Maps : Draining(n) => Draining(n)'
    BY <2>1, <2>2 DEF Draining
  <2>4. Untold'
    BY <2>1 DEF Untold
  <2> QED
    BY <2>1, <2>3, <2>4, NothingTold
<1>9. CASE Cluster
  <2>1. UNCHANGED <<api, op, hist>>
    BY <1>9 DEF Cluster, PodBecomesReady, PodCrashLoops, PodEvicted, PodGone, SetPod,
                JobSucceeds, JobFails, JobExpires, SetJob, PVCReleased
  <2> QED
    BY <1>9, <2>1, ClusterPods, AsideTold
<1>10. CASE EditSpec \/ \E m \in Maps : EditConfig(m)
  <2>1. UNCHANGED pods /\ api'.status = api.status /\ op' = op
    BY <1>1, <1>10 DEF EditSpec, EditConfig, Outdate, Object, world
  <2>2. hist'.told = hist.told
    BY <1>1, <1>10 DEF EditSpec, EditConfig, HistType
  <2> QED
    BY <2>1, <2>2, AsideTold
<1>11. CASE ForeignWrite \/ FallBehind
  BY <1>11 DEF ForeignWrite, FallBehind, Fault
<1>12. CASE Crash \/ Abort
  BY <1>12, AsideTold DEF Crash, Abort, Fault, Idle
<1>13. CASE CatchUp
  BY <1>13, AsideTold DEF CatchUp, world
<1>14. CASE DeleteFails
  <2>1. UNCHANGED <<api, pods, hist>> /\ SameMaps
    BY <1>14 DEF DeleteFails, Fault
  <2>2. CASE Wrap
    <3>1. \A n \in Maps : hist.told[n] # 0 => n \in specMaps
      <4>1. specMaps = Listed(op.spec) /\ op.spec \in Specs
        BY <1>1 DEF specMaps, Listed, Ops
      <4> QED
        BY <2>1, <4>1 DEF AnnounceInv, ToldListed, SameMaps
    <3> QED
      BY <2>1, <2>2, <3>1, WrapTold
  <2>3. CASE ~Wrap
    <3>1. \/ op'.pc = "map"
          \/ op'.pc = "create" /\ op.pc = "delete" /\ op'.idx = op.idx /\ op'.spec = op.spec
      BY <1>1, <1>14, <2>3 DEF DeleteFails, NextMap, Ops
    <3>2. Untold'
      BY <2>1, <3>1 DEF AnnounceInv, Untold, Turn
    <3>3. \A n \in Maps : Draining(n) => Draining(n)'
      BY <2>1, <3>1 DEF Draining
    <3> QED
      BY <2>1, <3>2, <3>3, NothingTold
  <2> QED
    BY <2>2, <2>3
<1>15. CASE Tick
  <2>1. UNCHANGED pods /\ hist'.told = hist.told
    BY <1>1, <1>15 DEF Tick, HistType, world
  <2>2. /\ api'.status = Aged(api.status) /\ op'.status = Aged(op.status)
        /\ op'.pc = op.pc /\ op'.idx = op.idx /\ op'.spec = op.spec
    BY <1>1, <1>15 DEF Tick, Object, Ops
  <2>3. api.status \in Status /\ op.status \in Status
    BY <1>1 DEF Object, Ops
  <2>4. \A n \in Maps : /\ api'.status.maps[n].deadline = Sooner(api.status.maps[n].deadline)
                        /\ op'.status.maps[n].deadline = Sooner(op.status.maps[n].deadline)
    BY <2>2, <2>3, AgedType
  <2>5. \A d \in Deadlines : d # NoDeadline => Sooner(d) # NoDeadline
    BY GraceType DEF Sooner, NoDeadline, Deadlines
  <2>6. \A n \in Maps : api.status.maps[n].deadline \in Deadlines /\ op.status.maps[n].deadline \in Deadlines
    BY <2>3 DEF Status, MapStatus
  <2>7. \A n \in Maps : Draining(n) => Draining(n)'
    BY <2>2, <2>4, <2>5, <2>6 DEF Draining
  <2>8. op.pc = "announce" => Turn \in Maps
    BY <1>1, SpecsAssumption DEF AnnounceInv, Untold, Ops, Turn
  <2>9. Untold'
    BY <2>1, <2>2, <2>4, <2>5, <2>6, <2>8 DEF AnnounceInv, Untold, Turn
  <2> QED
    BY <2>1, <2>7, <2>9, NothingTold
<1>16. ASSUME NEW m \in Maps, SwapLost(m) \/ JobUnread(m)
       PROVE  AnnounceInv'
  <2>1. UNCHANGED <<api, hist>> /\ op'.pc \in {"idle", "map"}
    BY <1>16, SwapLostFacts, JobUnreadFacts DEF Idle
  <2>2. \A n \in Maps, h \in Hash : pods'[n][h] \in Live => pods[n][h] \in Live
    BY <1>16, SwapLostFacts, JobUnreadFacts DEF Live
  <2> QED
    BY <2>1, <2>2, AsideTold
<1> QED
  BY <1>2, <1>3, <1>4, <1>5, <1>6, <1>7, <1>8, <1>9, <1>10, <1>11, <1>12, <1>13, <1>14, <1>15, <1>16
     DEF Next, Pass

LEMMA AnnounceAlways ==
  {"race", "lag"} \cap Faults = {} /\ ("apiErr" \in Faults => SameMaps) => (Spec => []AnnounceInv)
<1> SUFFICES ASSUME {"race", "lag"} \cap Faults = {}, "apiErr" \in Faults => SameMaps
             PROVE  Spec => []AnnounceInv
  OBVIOUS
<1>1. Init => AnnounceInv
  <2> SUFFICES ASSUME Init PROVE AnnounceInv
    OBVIOUS
  <2>1. \A m \in Maps : hist.told[m] = 0
    BY DEF Init
  <2>2. op.pc = "idle"
    BY DEF Init, Idle
  <2> QED
    BY <2>1, <2>2 DEF AnnounceInv, AnnounceOnce, Remembered, Untold, ToldListed
<1>2. TypeOK /\ Synced /\ FreshPass /\ DeadlineInv /\ AnnounceInv /\ [Next]_vars => AnnounceInv'
  <2>1. AnnounceInv /\ UNCHANGED vars => AnnounceInv'
    BY AsideTold DEF vars
  <2> QED
    BY <2>1, AnnounceStep
<1>3. "lag" \notin Faults
  OBVIOUS
<1> QED
  BY <1>1, <1>2, <1>3, Typing, SyncedAlways, FreshAlways, DeadlineAlways, PTL DEF Spec

\* The players of a server are told of its shutdown at most once per roll, whatever passes are
\* repeated after crashes and failed API calls, as long as nobody else writes the object during a
\* pass, the caches do not lag, and a failed call does not leave the pod of a removed map behind.
THEOREM AnnounceSafety ==
  {"race", "lag"} \cap Faults = {} /\ ("apiErr" \in Faults => SameMaps) => (Spec => []AnnounceOnce)
<1>1. AnnounceInv => AnnounceOnce
  BY DEF AnnounceInv
<1> QED
  BY <1>1, AnnounceAlways, PTL

-----------------------------------------------------------------------------
(***************************************************************************)
(* OneSwapPerChange and NoRetryAfterRollback.  After a swap or a rollback  *)
(* every live pod of the map is the one the spec asks for, so the map does *)
(* not drift until somebody changes something.  In between, from the       *)
(* commit to the delete, the live pod is the one to be deleted.            *)
(***************************************************************************)

SpecKept == Busy => op.spec = api.spec

Sides ==
  Busy => \A m \in Maps : op.pc # "publish" \/ m \in specMaps => Side(op.status, m) = Side(api.status, m)

SwapSide == op.pc \in {"delete", "create"} => op.status.maps[Turn].active \in Volumes

SidesInv == SpecKept /\ Sides /\ SwapSide

\* The pod of the current template of m on its current side.
Wanted(m, h) ==
  \E i \in DOMAIN api.spec.maps :
    /\ api.spec.maps[i] = m
    /\ h = PodTemplateHash(api.spec.image, api.spec.launch, i, rev[m], Side(api.status, m))

HandedOver(m) == m = Turn /\ op.pc \in {"delete", "discard"}

Kept ==
  \A m \in Maps : hist.done[m] # "none" => \A h \in LivePodsOf(m) : Wanted(m, h) \/ HandedOver(m)

SwapInv == SidesInv /\ Kept

\* Steps of a pass that go on with the spec and the sides of the API.
LEMMA PassSides ==
  ASSUME SidesInv, op.pc # "idle", op.pc # "publish", api'.spec = api.spec, op'.spec = op.spec,
         \A m \in Maps : Side(op'.status, m) = Side(api'.status, m), SwapSide'
  PROVE  SidesInv'
BY DEF SidesInv, SpecKept, Sides, Busy

LEMMA SidesStep ==
  ASSUME Faults = {}, TypeOK, Synced, FreshPass, SingleInv, SidesInv, Next
  PROVE  SidesInv'
<1>1. op \in Ops /\ api \in Object
  BY DEF TypeOK
<1>2. op.pc \notin {"idle", "publish"} => \A m \in Maps : Side(op.status, m) = Side(api.status, m)
  BY DEF SidesInv, Sides, Busy
<1>3. ASSUME op'.pc = op.pc, op'.idx = op.idx, op'.spec = op.spec, api'.spec = api.spec,
             \A m \in Maps : /\ op'.status.maps[m].active = op.status.maps[m].active
                             /\ api'.status.maps[m].active = api.status.maps[m].active,
             op.pc \in {"delete", "create"} => Turn \in Maps
      PROVE  SidesInv'
  <2>1. \A m \in Maps : Side(op'.status, m) = Side(op.status, m) /\ Side(api'.status, m) = Side(api.status, m)
    BY <1>3 DEF Side
  <2>2. Turn' = Turn /\ specMaps' = specMaps
    BY <1>3 DEF Turn, specMaps
  <2> QED
    BY <1>3, <2>1, <2>2 DEF SidesInv, SpecKept, Sides, SwapSide, Busy
<1>4. CASE Begin
  BY <1>4 DEF Begin, Synced, SidesInv, SpecKept, Sides, SwapSide
<1>5. ASSUME NEW m \in Maps, ReconcileMap(m)
      PROVE  SidesInv'
  <2>1. op.pc = "map" /\ op'.pc = "map" /\ api' = api
    BY <1>5, ReconcileMapType DEF ReconcileMap, Quiet, At
  <2>2. \E st : NextMap(st)
    BY <1>5 DEF ReconcileMap, FirstInstall, FirstInstallFailed, FirstPod, SteadyCrashLooping, SteadyReady,
                SteadyWarming, HoldBack, RollInstall, RollInstallFailed, WaitDrain
  <2>3. op'.spec = op.spec
    BY <1>1, <2>2 DEF NextMap, Ops
  <2>4. \A n \in Maps : Side(op'.status, n) = Side(op.status, n)
    BY <1>5, TurnStatus
  <2>5. SwapSide'
    BY <2>1 DEF SwapSide
  <2> QED
    BY <1>2, <2>1, <2>3, <2>4, <2>5, PassSides
<1>6. ASSUME NEW m \in Maps, StartDrain(m) \/ CommitSwap(m) \/ Rollback(m)
      PROVE  SidesInv'
  <2>1. /\ op.pc = "map" /\ op.idx \in DOMAIN op.spec.maps /\ m = Turn
        /\ op'.status \in Status /\ op'.spec = op.spec
        /\ api' = IF op.fresh THEN [api EXCEPT !.status = op'.status] ELSE api
    BY <1>6, CommitStatus
  <2>2. api'.status = op'.status /\ api'.spec = api.spec
    BY <1>1, <2>1 DEF FreshPass, Busy, Object
  <2>3. SwapSide'
    <3>1. CASE CommitSwap(m)
      <4>1. op'.status.maps[m].active = inactive(m) /\ op'.idx = op.idx
        BY <3>1, CommitStatus
      <4>2. inactive(m) \in Volumes
        BY <2>1, TurnType
      <4> QED
        BY <2>1, <4>1, <4>2 DEF SwapSide, Turn
    <3>2. CASE ~CommitSwap(m)
      BY <1>6, <3>2, CommitStatus DEF SwapSide
    <3> QED
      BY <3>1, <3>2
  <2> QED
    BY <2>1, <2>2, <2>3, PassSides
<1>7. ASSUME NEW m \in Maps, Announce(m) \/ DeleteOld(m) \/ CreateNew(m) \/ DiscardBad(m)
      PROVE  SidesInv'
  <2>1. op.pc \in {"announce", "delete", "create", "discard"} /\ api' = api
    BY <1>7 DEF Announce, DeleteOld, CreateNew, DiscardBad, At
  <2>2. /\ op'.status = op.status /\ op'.spec = op.spec
        /\ op'.pc = "map" \/ (op'.pc = "create" /\ op.pc = "delete" /\ op'.idx = op.idx)
    BY <1>1, <1>7 DEF Announce, DeleteOld, CreateNew, DiscardBad, At, NextMap, Ops
  <2>3. SwapSide'
    BY <2>2 DEF SidesInv, SwapSide, Turn
  <2> QED
    BY <1>2, <2>1, <2>2, <2>3, PassSides
<1>8. CASE gcOrphanedMaps
  <2>1. Wrap /\ api' = api /\ op.pc = "map"
    BY <1>8 DEF gcOrphanedMaps, Wrap
  <2>2. /\ op'.pc = "publish" /\ op'.spec = op.spec
        /\ \A n \in Maps : n \in specMaps => op'.status.maps[n] = op.status.maps[n]
    BY <2>1, WrapStatus
  <2>3. specMaps' = specMaps
    BY <2>2 DEF specMaps
  <2>4. \A n \in Maps : n \in specMaps => Side(op'.status, n) = Side(api.status, n)
    BY <1>2, <2>1, <2>2 DEF Side
  <2> QED
    BY <2>1, <2>2, <2>3, <2>4 DEF SidesInv, SpecKept, Sides, SwapSide, Busy
<1>9. CASE Publish
  BY <1>9 DEF Publish, Idle, SidesInv, SpecKept, Sides, SwapSide, Busy
<1>10. op.pc \in {"delete", "create"} => Turn \in Maps
  BY <1>1, SpecsAssumption DEF SingleInv, Handover, Turn, Ops
<1>11. CASE Cluster
  <2>1. UNCHANGED <<api, op>>
    BY <1>11 DEF Cluster, PodBecomesReady, PodCrashLoops, PodEvicted, PodGone, SetPod,
                 JobSucceeds, JobFails, JobExpires, SetJob, PVCReleased
  <2> QED
    BY <1>3, <1>10, <2>1
<1>12. CASE EditSpec
  <2>1. op.pc = "idle" /\ op' = op
    BY <1>12 DEF EditSpec, Outdate, Busy
  <2> QED
    BY <2>1 DEF SidesInv, SpecKept, Sides, SwapSide, Busy
<1>13. CASE CatchUp \/ \E m \in Maps : EditConfig(m)
  BY <1>3, <1>10, <1>13 DEF CatchUp, EditConfig
<1>14. CASE \/ ForeignWrite \/ Crash \/ Abort \/ DeleteFails \/ FallBehind
            \/ \E m \in Maps : SwapLost(m) \/ JobUnread(m)
  BY <1>14 DEF ForeignWrite, Crash, Abort, DeleteFails, FallBehind, SwapLost, JobUnread, Fault
<1>15. CASE Tick
  <2>1. /\ api'.status = Aged(api.status) /\ api'.spec = api.spec /\ op'.status = Aged(op.status)
        /\ op'.pc = op.pc /\ op'.idx = op.idx /\ op'.spec = op.spec
    BY <1>1, <1>15 DEF Tick, Object, Ops
  <2>2. \A m \in Maps : /\ op'.status.maps[m].active = op.status.maps[m].active
                        /\ api'.status.maps[m].active = api.status.maps[m].active
    BY <1>1, <2>1, AgedType DEF Object, Ops
  <2> QED
    BY <1>3, <1>10, <2>1, <2>2
<1> QED
  BY <1>4, <1>5, <1>6, <1>7, <1>8, <1>9, <1>11, <1>12, <1>13, <1>14, <1>15 DEF Next, Pass

\* Map by map: a step forgives the map, starts its handover, leaves it only pods that are wanted,
\* or leaves its pods and what is wanted of them alone.
LEMMA StillKept ==
  ASSUME Kept,
         \A m \in Maps :
           \/ hist'.done[m] = "none"
           \/ HandedOver(m)'
           \/ \A h \in LivePodsOf(m)' : Wanted(m, h)'
           \/ /\ hist'.done[m] = hist.done[m] /\ ~HandedOver(m)
              /\ \A h \in Hash : pods'[m][h] \in Live => pods[m][h] \in Live
              /\ \A h \in LivePodsOf(m) : Wanted(m, h) => Wanted(m, h)'
  PROVE  Kept'
<1> SUFFICES ASSUME NEW m \in Maps, hist'.done[m] # "none", ~HandedOver(m)', NEW h \in LivePodsOf(m)'
             PROVE  Wanted(m, h)'
  BY DEF Kept
<1>1. CASE \A k \in LivePodsOf(m)' : Wanted(m, k)'
  BY <1>1
<1>2. CASE /\ hist'.done[m] = hist.done[m] /\ ~HandedOver(m)
           /\ \A k \in Hash : pods'[m][k] \in Live => pods[m][k] \in Live
           /\ \A k \in LivePodsOf(m) : Wanted(m, k) => Wanted(m, k)'
  <2>1. h \in LivePodsOf(m)
    BY <1>2 DEF LivePodsOf
  <2> QED
    BY <1>2, <2>1 DEF Kept
<1> QED
  BY <1>1, <1>2

\* Nothing changes what is wanted of a map but an edit, a swap and a rollback.
LEMMA SameWanted ==
  ASSUME NEW m \in Maps, api'.spec = api.spec, rev'[m] = rev[m], Side(api'.status, m) = Side(api.status, m), NEW h
  PROVE  Wanted(m, h)' <=> Wanted(m, h)
BY DEF Wanted

\* A pod that a pass makes is the one that is wanted.
LEMMA MadeWanted ==
  ASSUME TypeOK, SidesInv, NEW m \in Maps, op.pc \in {"map", "create"},
         op.idx \in DOMAIN op.spec.maps, m = Turn
  PROVE  Wanted(m, computePodHash(m, Side(op.status, m)))
<1>1. op.spec = api.spec /\ Side(op.status, m) = Side(api.status, m)
  BY DEF SidesInv, SpecKept, Sides, Busy
<1> QED
  BY <1>1 DEF Wanted, computePodHash, Turn

LEMMA OnlyNewPod ==
  ASSUME TypeOK, NEW m \in Maps, LivePodsOf(m) = {}, NEW h, ensurePodForMap(m, h)
  PROVE  /\ \A k \in LivePodsOf(m)' : k = h
         /\ \A n \in Maps \ {m}, k \in Hash : pods'[n][k] = pods[n][k]
BY DEF TypeOK, ensurePodForMap, LivePodsOf

LEMMA KeptStep ==
  ASSUME Faults = {}, TypeOK, Synced, FreshPass, SingleInv, SwapInv, Next
  PROVE  Kept'
<1>1. op \in Ops /\ api \in Object /\ pods \in PodsType /\ hist \in HistType /\ SidesInv /\ Kept
  BY DEF TypeOK, PodsType, HistType, SwapInv
<1>2. op.pc \notin {"idle", "publish"} => \A m \in Maps : Side(op.status, m) = Side(api.status, m)
  BY DEF SwapInv, SidesInv, Sides, Busy
\* Steps away from a handover that leave the pods, the history of swaps and what is wanted alone.
<1>3. ASSUME op.pc \notin {"delete", "discard"}, hist'.done = hist.done, api'.spec = api.spec, UNCHANGED <<pods, rev>>,
             \A m \in Maps : Side(api'.status, m) = Side(api.status, m)
      PROVE  Kept'
  BY <1>1, <1>3, StillKept, SameWanted DEF HandedOver
\* Steps that leave the pass where it is.
<1>4. ASSUME op'.pc = op.pc, op'.idx = op.idx, op'.spec = op.spec, hist'.done = hist.done, api'.spec = api.spec,
             UNCHANGED rev, \A m \in Maps : Side(api'.status, m) = Side(api.status, m),
             \A m \in Maps, h \in Hash : pods'[m][h] \in Live => pods[m][h] \in Live
      PROVE  Kept'
  <2>1. \A m \in Maps : HandedOver(m)' = HandedOver(m)
    BY <1>4 DEF HandedOver, Turn
  <2> QED
    BY <1>1, <1>4, <2>1, StillKept, SameWanted
<1>5. CASE Begin
  BY <1>3, <1>5 DEF Begin, world
<1>6. ASSUME NEW m \in Maps, ReconcileMap(m)
      PROVE  Kept'
  <2>1. op.pc = "map" /\ op.idx \in DOMAIN op.spec.maps /\ m = Turn /\ UNCHANGED <<api, rev>>
    BY <1>6 DEF ReconcileMap, Quiet, At, Turn
  <2>2. CASE FirstPod(m)
    <3>1. LivePodsOf(m) = {} /\ ensurePodForMap(m, desiredHash(m))
      BY <2>2 DEF FirstPod, livePods, LivePodsOf, Synced
    <3>2. hist'.done = hist.done
      BY <1>1, <2>2 DEF FirstPod, Settled, HistType
    <3>3. Wanted(m, desiredHash(m))
      BY <1>1, <2>1, MadeWanted, EntrySide DEF desiredHash
    <3>4. /\ \A k \in LivePodsOf(m)' : k = desiredHash(m)
          /\ \A n \in Maps \ {m}, k \in Hash : pods'[n][k] = pods[n][k]
      BY <3>1, OnlyNewPod
    <3>5. \A n \in Maps : \A h : Wanted(n, h)' <=> Wanted(n, h)
      BY <2>1, SameWanted
    <3>6. \A k \in LivePodsOf(m)' : Wanted(m, k)'
      BY <3>3, <3>4, <3>5
    <3> HIDE DEF Wanted
    <3> QED
      BY <1>1, <2>1, <3>2, <3>4, <3>5, <3>6, StillKept DEF HandedOver
  <2>3. CASE ~FirstPod(m)
    <3>1. UNCHANGED pods /\ (UNCHANGED hist \/ Settled(m))
      BY <1>6, <2>3 DEF ReconcileMap, FirstInstall, FirstInstallFailed, SteadyCrashLooping, SteadyReady,
                        SteadyWarming, HoldBack, RollInstall, RollInstallFailed, WaitDrain
    <3>2. hist'.done = hist.done
      BY <1>1, <3>1 DEF Settled, HistType
    <3> QED
      BY <1>3, <2>1, <3>1, <3>2
  <2> QED
    BY <2>2, <2>3
<1>7. ASSUME NEW m \in Maps, StartDrain(m) \/ CommitSwap(m) \/ Rollback(m)
      PROVE  Kept'
  <2>1. /\ op.pc = "map" /\ op.idx \in DOMAIN op.spec.maps /\ m = Turn
        /\ op'.status \in Status /\ op'.spec = op.spec
        /\ api' = IF op.fresh THEN [api EXCEPT !.status = op'.status] ELSE api
        /\ \A n \in Maps \ {m} : op'.status.maps[n] = op.status.maps[n]
    BY <1>7, CommitStatus
  <2>2. api'.status = op'.status /\ api'.spec = api.spec
    BY <1>1, <2>1 DEF FreshPass, Busy, Object
  <2>3. \A n \in Maps \ {m} : Side(api'.status, n) = Side(api.status, n)
    <3>1. \A n \in Maps \ {m} : Side(op'.status, n) = Side(op.status, n)
      BY <2>1 DEF Side
    <3> QED
      BY <1>2, <2>1, <2>2, <3>1
  <2>4. UNCHANGED rev
    BY <1>7 DEF StartDrain, CommitSwap, Rollback
  <2>5. CASE StartDrain(m)
    <3>1. op'.status.maps[m].active = Side(op.status, m)
      BY <2>5, CommitStatus
    <3>2. Side(op.status, m) \in Volumes
      BY <1>1, EntrySide
    <3>3. Side(api'.status, m) = Side(api.status, m)
      BY <1>2, <2>1, <2>2, <3>1, <3>2 DEF Side, Volumes
    <3>4. UNCHANGED pods /\ hist'.done = hist.done
      BY <1>1, <2>5 DEF StartDrain, HistType
    <3> QED
      BY <1>3, <2>1, <2>2, <2>3, <2>4, <3>3, <3>4
  <2>6. CASE CommitSwap(m) \/ Rollback(m)
    <3>1. op'.pc \in {"delete", "discard"} /\ op'.idx = op.idx
      BY <2>6, CommitStatus
    <3>2. HandedOver(m)'
      BY <2>1, <3>1 DEF HandedOver, Turn
    <3>3. \A n \in Maps \ {m} : hist'.done[n] = hist.done[n]
      <4>1. \E d : hist' = [hist EXCEPT !.notice[m] = NoDeadline, !.told[m] = 0, !.done[m] = d]
        BY <2>6 DEF CommitSwap, Rollback
      <4>2. \E d : hist'.done = [hist.done EXCEPT ![m] = d]
        BY <1>1, <4>1 DEF HistType
      <4> QED
        BY <1>1, <4>2 DEF HistType
    <3>4. \A n \in Maps \ {m}, h \in Hash : pods'[n][h] = pods[n][h]
      BY <1>1, <2>6 DEF CommitSwap, Rollback, SaveAndExit, PodsType
    <3>5. \A n \in Maps \ {m} : \A h : Wanted(n, h)' <=> Wanted(n, h)
      BY <2>2, <2>3, <2>4, SameWanted
    <3> QED
      BY <1>1, <2>1, <3>2, <3>3, <3>4, <3>5, StillKept DEF HandedOver
  <2> QED
    BY <1>7, <2>5, <2>6
<1>8. ASSUME NEW m \in Maps, Announce(m)
      PROVE  Kept'
  <2>1. op.pc = "announce" /\ UNCHANGED <<api, pods, rev>> /\ hist'.done = hist.done
    BY <1>1, <1>8 DEF Announce, At, world, HistType
  <2> QED
    BY <1>3, <2>1
<1>9. ASSUME NEW m \in Maps, DeleteOld(m) \/ CreateNew(m) \/ DiscardBad(m)
      PROVE  Kept'
  <2>1. op.idx \in DOMAIN op.spec.maps /\ m = Turn /\ UNCHANGED <<api, rev, hist>>
    BY <1>9 DEF DeleteOld, CreateNew, DiscardBad, At, Turn
  <2>2. \A n \in Maps : \A h : Wanted(n, h)' <=> Wanted(n, h)
    BY <2>1, SameWanted
  <2>3. \A n \in Maps \ {m}, h \in Hash : pods'[n][h] = pods[n][h]
    BY <1>1, <1>9 DEF DeleteOld, CreateNew, DiscardBad, ensurePodForMap, PodsType
  <2>4. \A h \in LivePodsOf(m)' : Wanted(m, h)'
    <3>1. CASE DeleteOld(m) \/ DiscardBad(m)
      <4>1. op.pc \in {"delete", "discard"}
        BY <3>1 DEF DeleteOld, DiscardBad, At
      <4>2. \A h \in Hash : pods'[m][h] \in Live => pods[m][h] \in Live /\ h \notin op.cur
        BY <1>1, <3>1 DEF DeleteOld, DiscardBad, PodsType, Live
      <4>3. LivePodsOf(m)' = {}
        BY <2>1, <4>1, <4>2 DEF SingleInv, Handover, LivePodsOf
      <4> QED
        BY <4>3
    <3>2. CASE CreateNew(m)
      <4>1. op.pc = "create" /\ ensurePodForMap(m, computePodHash(m, op.status.maps[m].active))
        BY <3>2 DEF CreateNew, At
      <4>2. op.status.maps[m].active = Side(op.status, m)
        BY <1>1, <2>1, <4>1 DEF SidesInv, SwapSide, Side, Volumes
      <4>3. LivePodsOf(m) = {}
        BY <2>1, <4>1 DEF SingleInv, Handover
      <4>4. Wanted(m, computePodHash(m, Side(op.status, m)))
        BY <1>1, <2>1, <4>1, MadeWanted
      <4>5. \A k \in LivePodsOf(m)' : k = computePodHash(m, Side(op.status, m))
        BY <4>1, <4>2, <4>3, OnlyNewPod
      <4> QED
        BY <2>2, <4>4, <4>5
    <3> QED
      BY <1>9, <3>1, <3>2
  <2>5. \A n \in Maps \ {m} : ~HandedOver(n)
    BY <2>1 DEF HandedOver
  <2> QED
    BY <1>1, <2>1, <2>2, <2>3, <2>4, <2>5, StillKept
<1>10. CASE gcOrphanedMaps
  <2>1. op.pc = "map" /\ UNCHANGED <<api, hist>>
    BY <1>10 DEF gcOrphanedMaps, Wrap
  <2>2. \A n \in Maps, h \in Hash : pods'[n][h] \in Live => pods[n][h] \in Live /\ n \in specMaps
    BY <1>1, <1>10 DEF gcOrphanedMaps, Synced, Live
  <2>3. \A n \in Maps : n \in specMaps => rev'[n] = rev[n]
    BY <1>10 DEF gcOrphanedMaps
  <2>4. \A n \in Maps : n \notin specMaps => LivePodsOf(n)' = {}
    BY <2>2 DEF LivePodsOf
  <2>5. \A n \in Maps : n \in specMaps => \A h : Wanted(n, h)' <=> Wanted(n, h)
    BY <2>1, <2>3, SameWanted
  <2> QED
    BY <1>1, <2>1, <2>2, <2>4, <2>5, StillKept DEF HandedOver
<1>11. CASE Publish
  <2>1. op.pc = "publish" /\ UNCHANGED <<pods, rev, hist>>
    BY <1>11 DEF Publish, world
  <2>2. api'.status = op.status /\ api'.spec = api.spec
    BY <1>1, <1>11, <2>1 DEF Publish, persistStatus, Object, FreshPass, Busy
  <2>3. \A n \in Maps : n \in specMaps => Side(api'.status, n) = Side(api.status, n)
    BY <1>1, <2>1, <2>2 DEF SidesInv, Sides, Busy
  <2>4. \A n \in Maps : n \in specMaps => \A h : Wanted(n, h)' <=> Wanted(n, h)
    BY <2>1, <2>2, <2>3, SameWanted
  <2>5. \A n \in Maps : \A h : Wanted(n, h) => n \in specMaps
    <3>1. op.spec = api.spec
      BY <1>1, <2>1 DEF SidesInv, SpecKept, Busy
    <3> QED
      BY <3>1 DEF Wanted, specMaps
  <2> QED
    BY <1>1, <2>1, <2>4, <2>5, StillKept DEF HandedOver
<1>12. CASE Cluster
  <2>1. UNCHANGED <<api, op, rev, hist>>
    BY <1>12 DEF Cluster, PodBecomesReady, PodCrashLoops, PodEvicted, PodGone, SetPod,
                 JobSucceeds, JobFails, JobExpires, SetJob, PVCReleased
  <2> QED
    BY <1>4, <1>12, <2>1, ClusterPods
<1>13. CASE EditSpec
  <2>1. \A n \in Maps : hist'.done[n] = "none"
    BY <1>1, <1>13 DEF EditSpec, HistType
  <2> QED
    BY <2>1 DEF Kept
<1>14. ASSUME NEW m \in Maps, EditConfig(m)
      PROVE  Kept'
  <2>1. UNCHANGED <<api, pods, op>>
    BY <1>14 DEF EditConfig
  <2>2. hist'.done[m] = "none" /\ \A n \in Maps \ {m} : hist'.done[n] = hist.done[n]
    BY <1>1, <1>14 DEF EditConfig, HistType
  <2>3. \A n \in Maps \ {m} : rev'[n] = rev[n]
    BY <1>14 DEF EditConfig, TypeOK
  <2>4. \A n \in Maps \ {m} : \A h : Wanted(n, h)' <=> Wanted(n, h)
    BY <2>1, <2>3, SameWanted
  <2>5. \A n \in Maps : HandedOver(n)' = HandedOver(n)
    BY <2>1 DEF HandedOver, Turn
  <2> QED
    BY <1>1, <2>1, <2>2, <2>4, <2>5, StillKept
<1>15. CASE \/ ForeignWrite \/ Crash \/ Abort \/ DeleteFails \/ FallBehind
            \/ \E m \in Maps : SwapLost(m) \/ JobUnread(m)
  BY <1>15 DEF ForeignWrite, Crash, Abort, DeleteFails, FallBehind, SwapLost, JobUnread, Fault
<1>16. CASE CatchUp
  BY <1>4, <1>16 DEF CatchUp, world
<1>17. CASE Tick
  <2>1. UNCHANGED <<pods, rev>> /\ hist'.done = hist.done
    BY <1>1, <1>17 DEF Tick, HistType, world
  <2>2. /\ api'.status = Aged(api.status) /\ api'.spec = api.spec
        /\ op'.pc = op.pc /\ op'.idx = op.idx /\ op'.spec = op.spec
    BY <1>1, <1>17 DEF Tick, Object, Ops
  <2>3. \A m \in Maps : api'.status.maps[m].active = api.status.maps[m].active
    BY <1>1, <2>2, AgedType DEF Object
  <2>4. \A m \in Maps : Side(api'.status, m) = Side(api.status, m)
    BY <2>3 DEF Side
  <2> QED
    BY <1>4, <2>1, <2>2, <2>4
<1> QED
  BY <1>5, <1>6, <1>7, <1>8, <1>9, <1>10, <1>11, <1>12, <1>13, <1>14, <1>15, <1>16, <1>17 DEF Next, Pass

LEMMA SwapAlways == Faults = {} => (Spec => []SwapInv)
<1> SUFFICES ASSUME Faults = {} PROVE Spec => []SwapInv
  OBVIOUS
<1>1. Init => SwapInv
  <2> SUFFICES ASSUME Init PROVE SwapInv
    OBVIOUS
  <2>1. op.pc = "idle" /\ \A m \in Maps : hist.done[m] = "none"
    BY DEF Init, Idle
  <2> QED
    BY <2>1 DEF SwapInv, SidesInv, SpecKept, Sides, SwapSide, Busy, Kept
<1>2. TypeOK /\ Synced /\ FreshPass /\ SingleInv /\ SwapInv /\ [Next]_vars => SwapInv'
  <2>1. SwapInv /\ UNCHANGED vars => SwapInv'
    BY DEF vars, SwapInv, SidesInv, SpecKept, Sides, SwapSide, Busy, Turn, specMaps, Kept, LivePodsOf,
           Wanted, HandedOver
  <2> QED
    BY <2>1, SidesStep, KeptStep DEF SwapInv
<1>3. "lag" \notin Faults /\ {"lag", "apiErr"} \cap Faults = {} /\ {"race", "lag"} \cap Faults = {}
  OBVIOUS
<1> QED
  BY <1>1, <1>2, <1>3, Typing, SyncedAlways, FreshAlways, SingleAlways, PTL DEF Spec

\* The step from a map's turn to the delete of its pod is the commit of its swap.
LEMMA SwapsCommit ==
  ASSUME TypeOK, Next, NEW m \in Maps, Swaps(m)
  PROVE  CommitSwap(m)
<1>1. op \in Ops /\ op.pc = "map" /\ op'.pc = "delete"
  BY DEF TypeOK, Swaps, At
<1>2. ~Begin /\ ~Publish
  BY <1>1 DEF Begin, Publish
<1>3. ASSUME NEW n \in Maps, ReconcileMap(n) PROVE FALSE
  BY <1>1, <1>3, ReconcileMapType
<1>4. ASSUME NEW n \in Maps, Announce(n) \/ DeleteOld(n) \/ CreateNew(n) \/ DiscardBad(n) PROVE FALSE
  BY <1>1, <1>4 DEF Announce, DeleteOld, CreateNew, DiscardBad, At
<1>5. ASSUME NEW n \in Maps, StartDrain(n) \/ CommitSwap(n) \/ Rollback(n) PROVE CommitSwap(m)
  <2>1. CommitSwap(n)
    BY <1>1, <1>5, CommitStatus
  <2>2. n = m
    BY <2>1 DEF CommitSwap, Swaps, At
  <2> QED
    BY <2>1, <2>2
<1>6. ~Wrap
  BY <1>1, WrapStatus
<1>7. ~gcOrphanedMaps /\ ~DeleteFails
  BY <1>1, <1>6 DEF gcOrphanedMaps, DeleteFails
<1>8. op'.pc # op.pc
  BY <1>1
<1>9. ~Cluster
  <2>1. Cluster => op' = op
    BY DEF Cluster, PodBecomesReady, PodCrashLoops, PodEvicted, PodGone, SetPod,
           JobSucceeds, JobFails, JobExpires, SetJob, PVCReleased
  <2> QED
    BY <1>8, <2>1
<1>10. ~EditSpec /\ ~ForeignWrite
  BY <1>1, <1>8 DEF EditSpec, ForeignWrite, Outdate, Ops
<1>11. ~FallBehind /\ ~CatchUp /\ ~\E n \in Maps : EditConfig(n)
  BY <1>8 DEF FallBehind, CatchUp, EditConfig
<1>12. ~Crash /\ ~Abort
  BY <1>1 DEF Crash, Abort, Idle
<1>13. ~Tick
  BY <1>1, <1>8 DEF Tick, Ops
<1>14. ASSUME NEW n \in Maps, SwapLost(n) \/ JobUnread(n) PROVE FALSE
  BY <1>1, <1>14, SwapLostFacts, JobUnreadFacts DEF Idle
<1> QED
  BY <1>2, <1>3, <1>4, <1>5, <1>7, <1>9, <1>10, <1>11, <1>12, <1>13, <1>14 DEF Next, Pass

\* A map that was swapped or rolled back and not changed since does not drift.
LEMMA NoSwapWithoutChange ==
  ASSUME Distinct, TypeOK, Synced, SwapInv, Next, NEW m \in Maps, Swaps(m)
  PROVE  hist.done[m] = "none"
<1> SUFFICES ASSUME hist.done[m] # "none" PROVE FALSE
  OBVIOUS
<1>1. CommitSwap(m) /\ op \in Ops
  BY SwapsCommit DEF TypeOK
<1>2. op.pc = "map" /\ op.idx \in DOMAIN op.spec.maps /\ op.spec.maps[op.idx] = m
  BY <1>1 DEF CommitSwap, At
<1>3. PICK h \in LivePodsOf(m) : h # desiredHash(m)
  BY <1>1 DEF CommitSwap, Drift, livePods, LivePodsOf, Synced
<1>4. Wanted(m, h)
  BY <1>2 DEF SwapInv, Kept, HandedOver
<1>5. op.spec = api.spec /\ Side(op.status, m) = Side(api.status, m)
  BY <1>2 DEF SwapInv, SidesInv, SpecKept, Sides, Busy
<1>6. PICK i \in DOMAIN op.spec.maps :
        /\ op.spec.maps[i] = m
        /\ h = PodTemplateHash(op.spec.image, op.spec.launch, i, rev[m], Side(op.status, m))
  BY <1>4, <1>5 DEF Wanted
<1>7. i = op.idx
  BY <1>1, <1>2, <1>6 DEF Distinct, Ops
<1>8. desiredHash(m) = PodTemplateHash(op.spec.image, op.spec.launch, op.idx, rev[m], Side(op.status, m))
  BY <1>1, EntrySide DEF desiredHash, computePodHash
<1> QED
  BY <1>3, <1>6, <1>7, <1>8

\* One change of the spec or of a configuration swaps the server of a map at most once, as long as
\* every pass runs to its end undisturbed and no list names a map twice (each entry of a map has
\* ports of its own, so two entries would swap the server for ever).
THEOREM OneSwapSafety == Faults = {} /\ Distinct => (Spec => OneSwapPerChange)
<1> SUFFICES ASSUME Faults = {}, Distinct PROVE Spec => OneSwapPerChange
  OBVIOUS
<1>1. TypeOK /\ Synced /\ SwapInv /\ [Next]_vars
        => [\A m \in Maps : Swaps(m) => hist.done[m] # "swapped"]_vars
  BY NoSwapWithoutChange
<1>2. "lag" \notin Faults
  OBVIOUS
<1> QED
  BY <1>1, <1>2, Typing, SyncedAlways, SwapAlways, PTL DEF Spec, OneSwapPerChange

\* An update that was rolled back is not tried again before somebody changes the spec or a
\* configuration, under the same assumptions: the rollback discards the bad pod, and the next one
\* is the desired one on the last good volume.
THEOREM NoRetrySafety == Faults = {} /\ Distinct => (Spec => NoRetryAfterRollback)
<1> SUFFICES ASSUME Faults = {}, Distinct PROVE Spec => NoRetryAfterRollback
  OBVIOUS
<1>1. TypeOK /\ Synced /\ SwapInv /\ [Next]_vars
        => [\A m \in Maps : Swaps(m) => hist.done[m] # "rolledBack"]_vars
  BY NoSwapWithoutChange
<1>2. "lag" \notin Faults
  OBVIOUS
<1> QED
  BY <1>1, <1>2, Typing, SyncedAlways, SwapAlways, PTL DEF Spec, NoRetryAfterRollback
=============================================================================

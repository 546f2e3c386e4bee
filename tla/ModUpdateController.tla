------------------------ MODULE ModUpdateController ------------------------
(***************************************************************************)
(* The ModUpdate reconciler (internal/controller/modupdate_controller.go): *)
(* it polls CurseForge for the latest file of every mod of the spec, keeps *)
(* what it saw in status.mods.tracked and, when a tracked mod has a new    *)
(* file, stamps an annotation that is part of every pod template hash, so  *)
(* that the ArkCluster reconciler restarts the servers.                    *)
(*                                                                         *)
(* A pass is cut at its three remote calls: the request to CurseForge, the *)
(* Status().Update and the Patch of the annotation.  The blue/green roll   *)
(* is seen from far away: a server whose template is not the desired one   *)
(* is started again, and a server loads the latest files when it starts.   *)
(*                                                                         *)
(* A definition introduced as a "Mutation" is a wrong variant of the one   *)
(* after it, kept to confirm that a property can fail; nothing uses it.    *)
(***************************************************************************)
EXTENDS Integers, FiniteSets

CONSTANTS
  Mods, Maps,
  ModLists,      \* the mod lists users write: spec.globalSettings.mods and spec.maps[].mods
  InitLists,     \* the mod lists the cluster is created with
  IntervalSpec,  \* spec.modAutoUpdate.intervalMinutes, in ticks
  MinInterval,   \* the floor of five minutes, in ticks
  MaxFile,       \* bound: file ids of a mod
  MaxEdits,      \* bound: edits of the spec or the API key Secret
  Faults         \* what may happen: "crash", "race", "lag", "down", "omit" or, of
                 \* a Status().Update or Patch, an error that is not a conflict: "writeErr", "patchErr"

ASSUME ListsAssumption ==
  /\ ModLists \subseteq [global : SUBSET Mods, own : [Maps -> SUBSET Mods]]
  /\ InitLists \in ModLists
ASSUME TicksAssumption ==
  /\ IntervalSpec \in Int /\ MinInterval \in Nat \ {0}
  /\ MaxFile \in Nat \ {0} /\ MaxEdits \in Nat

\* if interval < 5*time.Minute { interval = 5 * time.Minute }
Interval == IF IntervalSpec < MinInterval THEN MinInterval ELSE IntervalSpec

\* LastCheckTime as the ticks since it, up to Interval; a nil LastCheckTime is due as well.
Ages == 0 .. Interval

Absent == -1          \* a mod that CurseForge's answer does not mention
Files == 0 .. MaxFile \* 0: the answer marks no file as the latest one

\* A TrackedMod: LatestFileID and InstalledFileID.
Untracked == [latest |-> Absent, installed |-> Absent]
TrackedMod == [latest : Files, installed : Files] \cup {Untracked}

\* The annotation; the digest is taken to be collision free.
NoNote == [d \in Mods |-> Absent]
Notes == [Mods -> Files \cup {Absent}]

(***************************************************************************)
(* The part of the ArkCluster this controller reads and writes.  `bad`     *)
(* stands for the condition ModsHealthy=False.                             *)
(***************************************************************************)
Object == [on : BOOLEAN, lists : ModLists, tracked : [Mods -> TrackedMod],
           age : Ages, bad : BOOLEAN, note : Notes]

VARIABLES
  cf,       \* cf[d]: the latest file of mod d on CurseForge
  key,      \* the Secret holds an API key
  api,      \* the ArkCluster in the API server
  cache,    \* the ArkCluster in the informer cache
  lagging,  \* the informer is behind its watch
  queued,   \* a watch event asks for a pass
  timer,    \* RequeueAfter: ticks left, or NoTimer
  op,       \* the pass under way
  run,      \* run[m]: the server of map m, its template and the files it loaded
  edits,    \* edits left
  hist      \* history, read by no action

vars == <<cf, key, api, cache, lagging, queued, timer, op, run, edits, hist>>

NoTimer == -1

collectModIDs(lists) == lists.global \cup UNION {lists.own[m] : m \in Maps}

\* Per-map mods replace the global ones.
modsOf(lists, m) == IF lists.own[m] # {} THEN lists.own[m] ELSE lists.global

affectedMaps(lists, d) == {m \in Maps : d \in modsOf(lists, m)}

\* What of the pod template depends on mods: the list and the annotation.
Template(o, m) == [mods |-> modsOf(o.lists, m), note |-> o.note]

Server(o, m) == [template |-> Template(o, m),
                 files |-> [d \in Mods |-> IF d \in modsOf(o.lists, m) THEN cf[d] ELSE 0]]

InitObject == [on |-> TRUE, lists |-> InitLists, tracked |-> [d \in Mods |-> Untracked],
               age |-> Interval, bad |-> FALSE, note |-> NoNote]

Idle == [pc |-> "idle", view |-> InitObject, fresh |-> FALSE, changed |-> FALSE]

Init ==
  /\ cf = [d \in Mods |-> 1]
  /\ key \in BOOLEAN
  /\ api = InitObject /\ cache = api /\ lagging = FALSE
  /\ queued = TRUE /\ timer = NoTimer
  /\ op = Idle
  /\ run = [m \in Maps |-> Server(api, m)]
  /\ edits = MaxEdits
  /\ hist = [gap |-> Interval, base |-> [d \in Mods |-> 0],
             first |-> [d \in Mods |-> 0], lost |-> FALSE]

-----------------------------------------------------------------------------
(* The pure parts of a poll. *)

\* Mutation: a mod seen for the first time counts as changed.
ModsChangedUnseen(prev, info) ==
  \E d \in Mods : info[d] # Absent /\ prev[d].latest # info[d]

\* mergeModStatus, its second result: a mod seen before has another latest file.
ModsChanged(prev, info) ==
  \E d \in Mods : info[d] # Absent /\ prev[d] # Untracked /\ prev[d].latest # info[d]

\* mergeModStatus, its first result; a mod that was not answered for is dropped.
mergeModStatus(prev, info) ==
  [d \in Mods |->
     IF info[d] = Absent THEN Untracked
     ELSE [latest |-> info[d],
           installed |-> IF prev[d].installed \in {Absent, 0} THEN info[d]
                         ELSE prev[d].installed]]

\* Mutation: the digest covers which mods are tracked, not their files.
hashTrackedIds(tracked) == [d \in Mods |-> IF tracked[d] = Untracked THEN Absent ELSE 0]

hashTracked(tracked) == [d \in Mods |-> tracked[d].latest]

-----------------------------------------------------------------------------
(* One pass. *)

\* What the informer holds after a step, and the watch event a change causes.
Observe(stillQueued) ==
  /\ cache' = IF lagging' THEN cache ELSE api'
  /\ queued' = (stillQueued \/ cache' # cache)

\* RequeueAfter; an earlier timer of the same object stays.
Requeue(left, d) == IF left = NoTimer \/ d < left THEN d ELSE left

\* Status().Update writes the status, or fails and leaves the object as it was.
UpdateStatus(o, ok) ==
  api' = IF ok
         THEN [api EXCEPT !.tracked = o.tracked, !.age = o.age, !.bad = o.bad]
         ELSE api

\* Whether an update of a pass whose copy is the stored version goes through: an old version
\* conflicts, and any call may fail.
Outcomes(fresh) == {fresh} \cup (IF "writeErr" \in Faults THEN {FALSE} ELSE {})

\* The next object of the queue; the Get reads the cache.
Dequeue ==
  /\ op.pc = "idle"
  /\ queued \/ timer = 0

Popped == IF timer = 0 THEN NoTimer ELSE timer

Unmoved == UNCHANGED <<cf, key, lagging, run, edits>>

\* Mutation: RequeueAfter with its operands swapped.
NothingToDoSwapped ==
  /\ Dequeue
  /\ \/ /\ ~cache.on
        /\ timer' = Popped
     \/ /\ cache.on /\ cache.age < Interval
        /\ timer' = Requeue(Popped, cache.age - Interval)
     \/ /\ cache.on /\ cache.age = Interval /\ key /\ collectModIDs(cache.lists) = {}
        /\ timer' = Requeue(Popped, Interval)
  /\ UNCHANGED <<api, op, hist>> /\ Unmoved
  /\ Observe(FALSE)

\* The early returns: disabled, not due, or no mods in the spec.
NothingToDo ==
  /\ Dequeue
  /\ \/ /\ ~cache.on
        /\ timer' = Popped
     \/ /\ cache.on /\ cache.age < Interval
        /\ timer' = Requeue(Popped, Interval - cache.age)
     \/ /\ cache.on /\ cache.age = Interval /\ key /\ collectModIDs(cache.lists) = {}
        /\ timer' = Requeue(Popped, Interval)
  /\ UNCHANGED <<api, op, hist>> /\ Unmoved
  /\ Observe(FALSE)

\* readAPIKey fails: ModsHealthy=False, and LastCheckTime stays.  Nobody looks at how the
\* update ends.
KeyMissing ==
  /\ Dequeue
  /\ cache.on /\ cache.age = Interval /\ ~key
  /\ \E ok \in Outcomes(cache = api) : UpdateStatus([cache EXCEPT !.bad = TRUE], ok)
  /\ timer' = Requeue(Popped, Interval)
  /\ UNCHANGED <<op, hist>> /\ Unmoved
  /\ Observe(FALSE)

\* A poll is due, by the LastCheckTime of the copy that was read; history notes an older one
\* than the stored one.
StartPoll ==
  /\ Dequeue
  /\ cache.on /\ cache.age = Interval /\ key /\ collectModIDs(cache.lists) # {}
  /\ op' = [pc |-> "fetch", view |-> cache, fresh |-> cache = api, changed |-> FALSE]
  /\ timer' = Popped
  /\ hist' = [hist EXCEPT !.lost = @ \/ cache.age # api.age]
  /\ UNCHANGED api /\ Unmoved
  /\ Observe(FALSE)

\* The answers of CurseForge for the mods of the spec: incomplete ones only with "omit".
Answers(ids) ==
  {a \in [Mods -> Files \cup {Absent}] :
     \A d \in Mods : \/ d \in ids /\ a[d] = cf[d]
                     \/ d \notin ids /\ a[d] = Absent
                     \/ d \in ids /\ "omit" \in Faults /\ a[d] \in {Absent, 0}}

\* GetFiles answers; merge in memory and set LastCheckTime.
FetchFiles ==
  /\ op.pc = "fetch"
  /\ \E info \in Answers(collectModIDs(op.view.lists)) :
       op' = [op EXCEPT !.pc = "save",
                        !.view.tracked = mergeModStatus(op.view.tracked, info),
                        !.view.age = 0,
                        !.changed = ModsChanged(op.view.tracked, info)]
  /\ hist' = [hist EXCEPT !.gap = 0]
  /\ UNCHANGED <<api, timer>> /\ Unmoved
  /\ Observe(queued)

\* Mutation: a failed poll does not count as a check.
FetchFailsUnchecked ==
  /\ op.pc = "fetch" /\ "down" \in Faults
  /\ \E ok \in Outcomes(op.fresh) :
       /\ UpdateStatus([op.view EXCEPT !.bad = TRUE], ok)
       /\ hist' = [hist EXCEPT !.gap = 0, !.lost = ~ok]
  /\ op' = Idle
  /\ timer' = Requeue(timer, Interval)
  /\ Unmoved
  /\ Observe(queued)

\* GetFiles fails: ModsHealthy=False, LastCheckTime is set, tracked mods stay.  Nobody
\* looks at how the update ends; history notes a LastCheckTime that is lost.
FetchFails ==
  /\ op.pc = "fetch" /\ "down" \in Faults
  /\ \E ok \in Outcomes(op.fresh) :
       /\ UpdateStatus([op.view EXCEPT !.age = 0, !.bad = TRUE], ok)
       /\ hist' = [hist EXCEPT !.gap = 0, !.lost = ~ok]
  /\ op' = Idle
  /\ timer' = Requeue(timer, Interval)
  /\ Unmoved
  /\ Observe(queued)

\* History: the files at which the tracking of mods that were not tracked begins.
Noted(files) ==
  [d \in Mods |-> IF api.tracked[d] = Untracked /\ api'.tracked[d] # Untracked
                  THEN api'.tracked[d].latest ELSE files[d]]

\* Status().Update after a poll goes through or conflicts, which is swallowed; history notes
\* the file at which tracking began, and a LastCheckTime that is lost.
SaveTracked ==
  /\ op.pc = "save"
  /\ UpdateStatus(op.view, op.fresh)
  /\ IF op.changed
     THEN op' = [op EXCEPT !.pc = "stamp"] /\ timer' = timer
     ELSE op' = Idle /\ timer' = Requeue(timer, Interval)
  /\ hist' = [hist EXCEPT !.base = Noted(hist.base), !.first = Noted(hist.first),
                        !.lost = ~op.fresh]
  /\ Unmoved
  /\ Observe(queued)

\* Status().Update after a poll fails otherwise: Reconcile returns the error before it stamps
\* anything, and the object is queued again.
SaveFails ==
  /\ "writeErr" \in Faults
  /\ op.pc = "save"
  /\ op' = Idle /\ queued' = TRUE
  /\ hist' = [hist EXCEPT !.lost = TRUE]
  /\ UNCHANGED <<cf, key, api, cache, lagging, timer, run, edits>>

\* Patch of the annotation: a merge patch, no conflict possible.
StampAnnotation ==
  /\ op.pc = "stamp"
  /\ api' = [api EXCEPT !.note = hashTracked(op.view.tracked)]
  /\ op' = Idle
  /\ timer' = Requeue(timer, Interval)
  /\ hist' = [hist EXCEPT !.base = [d \in Mods |->
                IF api'.note[d] > @[d] THEN api'.note[d] ELSE @[d]]]
  /\ Unmoved
  /\ Observe(queued)

Poll ==
  \/ NothingToDo \/ KeyMissing \/ StartPoll \/ FetchFiles \/ FetchFails
  \/ SaveTracked \/ StampAnnotation

-----------------------------------------------------------------------------
(* The ArkCluster reconciler, CurseForge, users, faults and time. *)

\* A write of the object by somebody else makes the version a pass holds an old one.
Outdate == op' = IF op.pc = "idle" THEN op ELSE [op EXCEPT !.fresh = FALSE]

\* While a pass is under way, a write by somebody else is one of the races.
Undisturbed == op.pc = "idle" \/ "race" \in Faults

\* After the swap of one map every tracked mod counts as installed at its latest file.
MarkInstalled(tracked) ==
  [d \in Mods |-> [tracked[d] EXCEPT !.installed = tracked[d].latest]]

\* rollUpdate's swap: the server of a map that is not of the desired template is replaced and
\* resolves its mods to their latest files.  The marks are published at the end of that pass,
\* unless the operator dies first or the update conflicts.
Roll(m) ==
  /\ Undisturbed
  /\ run[m].template # Template(api, m)
  /\ run' = [run EXCEPT ![m] = Server(api, m)]
  /\ \/ /\ api' = [api EXCEPT !.tracked = MarkInstalled(@)]
        /\ IF api' = api THEN op' = op ELSE Outdate
     \/ /\ Faults \cap {"crash", "race"} # {}
        /\ UNCHANGED <<api, op>>
  /\ UNCHANGED <<cf, key, lagging, timer, edits, hist>>
  /\ Observe(queued)

Release(d) ==
  /\ cf[d] < MaxFile
  /\ cf' = [cf EXCEPT ![d] = @ + 1]
  /\ UNCHANGED <<key, api, cache, lagging, queued, timer, op, run, edits, hist>>

EditCluster ==
  /\ edits > 0
  /\ Undisturbed
  /\ \/ \E l \in ModLists \ {api.lists} : api' = [api EXCEPT !.lists = l]
     \/ api' = [api EXCEPT !.on = ~@]
  /\ Outdate
  /\ edits' = edits - 1
  /\ UNCHANGED <<cf, key, lagging, timer, run, hist>>
  /\ Observe(queued)

\* The API key Secret comes or goes; nobody watches it.
EditKey ==
  /\ edits > 0
  /\ key' = ~key
  /\ edits' = edits - 1
  /\ UNCHANGED <<cf, api, cache, lagging, queued, timer, op, run, hist>>

\* The ArkCluster reconciler writes its part of the status while a pass is under way.
ForeignWrite ==
  /\ "race" \in Faults
  /\ op.pc # "idle" /\ op.fresh
  /\ Outdate
  /\ UNCHANGED <<cf, key, api, cache, lagging, queued, timer, run, edits, hist>>

\* The operator dies; the next one lists every object, which queues it.
Crash ==
  /\ "crash" \in Faults
  /\ op.pc # "idle"
  /\ op' = Idle /\ lagging' = FALSE /\ cache' = api /\ queued' = TRUE /\ timer' = NoTimer
  /\ hist' = [hist EXCEPT !.gap = Interval]
  /\ UNCHANGED <<cf, key, api, run, edits>>

\* The Patch fails: Reconcile returns the error and the object is queued again.
PatchFails ==
  /\ "patchErr" \in Faults
  /\ op.pc = "stamp"
  /\ op' = Idle /\ queued' = TRUE
  /\ UNCHANGED <<cf, key, api, cache, lagging, timer, run, edits, hist>>

FallBehind ==
  /\ "lag" \in Faults /\ ~lagging
  /\ lagging' = TRUE
  /\ UNCHANGED <<cf, key, api, cache, queued, timer, op, run, edits, hist>>

CatchUp ==
  /\ lagging /\ lagging' = FALSE
  /\ UNCHANGED <<cf, key, api, timer, op, run, edits, hist>>
  /\ Observe(queued)

Older(o) == [o EXCEPT !.age = IF o.age < Interval THEN o.age + 1 ELSE o.age]

Tick ==
  /\ timer > 0 \/ api.age < Interval \/ cache.age < Interval
  /\ api' = Older(api) /\ cache' = Older(cache)
  /\ op' = [op EXCEPT !.view = Older(op.view)]
  /\ timer' = IF timer > 0 THEN timer - 1 ELSE timer
  /\ hist' = [hist EXCEPT !.gap = IF @ < Interval THEN @ + 1 ELSE @]
  /\ UNCHANGED <<cf, key, lagging, queued, run, edits>>

Next ==
  \/ Poll
  \/ \E m \in Maps : Roll(m)
  \/ \E d \in Mods : Release(d)
  \/ EditCluster \/ EditKey
  \/ ForeignWrite \/ Crash \/ SaveFails \/ PatchFails \/ FallBehind \/ CatchUp
  \/ Tick

Spec == Init /\ [][Next]_vars

\* Queued objects are worked on, servers are rolled, watches catch up and time passes.
FairSpec ==
  /\ Spec
  /\ WF_vars(Poll) /\ WF_vars(CatchUp) /\ WF_vars(Tick)
  /\ \A m \in Maps : WF_vars(Roll(m))

-----------------------------------------------------------------------------
(* Properties. *)

\* Every variable keeps its type; mergeModStatus yields well-formed tracked mods whatever
\* CurseForge answers.
TypeOK ==
  /\ cf \in [Mods -> Files] /\ key \in BOOLEAN
  /\ api \in Object /\ cache \in Object
  /\ lagging \in BOOLEAN /\ queued \in BOOLEAN
  /\ timer \in NoTimer .. Interval
  /\ op \in [pc : {"idle", "fetch", "save", "stamp"}, view : Object,
             fresh : BOOLEAN, changed : BOOLEAN]
  /\ run \in [Maps -> [template : [mods : SUBSET Mods, note : Notes], files : [Mods -> Files]]]
  /\ edits \in 0 .. MaxEdits
  /\ hist \in [gap : Ages, base : [Mods -> Files], first : [Mods -> Files],
              lost : BOOLEAN]

\* Two requests of one operator process to CurseForge for a cluster are at least an interval
\* apart, whatever is edited, toggled or failing in between, unless the LastCheckTime of the
\* first was lost: its Status().Update conflicted or failed, or the second pass read a copy
\* that did not have it yet.
PollSpacing == [][FetchFiles \/ FetchFails => hist.gap = Interval \/ hist.lost]_vars

\* The annotation moves, and with it every server, only for a file newer than the one at
\* which tracking of the mod began or that the annotation carried before.
RollOnlyForNewFile ==
  [][api'.note # api.note => \E d \in Mods : api'.note[d] > hist.base[d]]_vars

\* A new file that the controller recorded for a mod it was tracking ends up on every server
\* that loads the mod.
UpToTracked(d) ==
  api.tracked[d].latest > hist.first[d]
    => \A m \in affectedMaps(api.lists, d) : run[m].files[d] >= api.tracked[d].latest
UpdatesReachServers == <>[](\A d \in Mods : UpToTracked(d))

\* Every server ends up on the latest file of each of its mods, if polling is on for good.
UpToDate(m) == \A d \in modsOf(api.lists, m) : run[m].files[d] = cf[d]
ServersUpToDate == <>[](api.on /\ key => \A m \in Maps : UpToDate(m))

\* A mod update restarts only servers that load the mod.
OnlyAffectedMapsRoll ==
  [][\A m \in Maps :
       run'[m].template.note # run[m].template.note /\ run'[m].template.mods = run[m].template.mods
         => run'[m].files # run[m].files]_vars

\* ModsHealthy says how the last poll went: with polls that succeed it does not stay False.
HealthRecovers == <>[](api.on /\ key => ~api.bad)

\* A roll marks a file of a mod as installed once the servers that load the mod run it.
InstalledMeansLoaded ==
  [][\A d \in Mods :
       run' # run /\ api'.tracked[d].installed # api.tracked[d].installed
         => \A m \in affectedMaps(api.lists, d) :
              run'[m].files[d] >= api'.tracked[d].installed]_vars

=============================================================================

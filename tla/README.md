# A TLA+ model of ark-asa-operator

The operator keeps ARK: Survival Ascended servers running on Kubernetes. One
`ArkCluster` object lists maps; every map gets a server pod, three volume claims
(`server-a`, `server-b`, `saves`), a Service, two ConfigMaps and init Jobs that
install the game. An update installs on the volume that is not in use, warns and
drains the players, swaps the volumes and starts a new pod. A second controller
polls CurseForge for new mod files and has the servers restarted.

## Inventory

| Part | State | Operations | Hard about it |
|---|---|---|---|
| ArkCluster reconciler (`internal/controller/arkcluster_controller.go`) | none in memory between passes; `status.maps[]` (phase, activeVolume, lastGoodVolume, drainDeadline, conditions), the objects it owns | `Reconcile`, `reconcileMap`, `firstStart`, `steady`, `rollUpdate`, `rollback`, `gcOrphanedMaps`, `persistStatus` | persists before it acts, so a crash can fall between; swallows conflicts; reads caches; ignores errors of Delete; one map at a time |
| claims, init Jobs, pods (`internal/reconcile`) | Kubernetes objects | `Ensure*`, `InitJobStatus`, `BuildServerPod` | Jobs are named after the image, expire after an hour and outlive the volumes they installed |
| status helpers (`internal/reconcile/status.go`) | - | `EnsureMapStatus`, `SetMapCondition`, `AggregatePhase` | order of priorities |
| map phase table (`internal/statemachine`) | - | `AllowedTransition`, `Transition` | nobody calls `Transition` |
| mod update reconciler (`internal/controller/modupdate_controller.go`) | `status.mods`, the annotation `mods-changed`, condition `ModsHealthy` | `Reconcile`, `mergeModStatus`, `hashTracked` | saves before it stamps; conflicts with the other reconciler; wakes itself up |
| CurseForge client | - | `GetFiles` | incomplete answers |
| RCON client (`internal/rcon`) | the connection and request ids of one call | `Dial`, `Exec`, `Close`, `AnnounceShutdown`, `SaveAndExit` | takes the next packet for its answer; silent servers, broken connections; one error that is dropped on purpose |
| finalizer (`internal/finalizer`) | the finalizer of the object | `Ensure`, `RunFinalize` | works from a cached copy; lost passwords; owner references decide what happens to data |
| admission webhook, ports | - | `validate`, `PortConflict` | boundaries of two ranges |
| names (`internal/ark/slug.go`) | - | `MapSlug`, prefix match of `gcOrphanedMaps` | different ids share a slug; one slug is a prefix of another |
| launch command, INI files, Service, pod template hash | ConfigMaps, Services, pods | `BuildServerPod`, `ensureGUSDefaults`, `resolveINI`, `EnsureService`, `computePodHash` | which edits are noticed; reads of ConfigMaps and Secrets that fail or are late |
| Secret with the admin password | Secret | `EnsureAdminPasswordSecret`, `readAdminPassword` | the garbage collector may take it first |
| operator process (`cmd/operator`) | - | flags, wiring | leader election is off by default |

The two reconcilers run in one process, one worker each, and share the
`ArkCluster` object: optimistic concurrency on its resourceVersion is all that
keeps them apart, and both throw away the conflict. What must be right: a server
only ever starts on an installed volume; an install never writes under a live
server; a map has one server; players get their grace period, once; a failed
update is undone and not retried; maps go down one at a time; every change
arrives in the end; what is removed is collected; a deleted cluster has saved its
worlds before it goes; and what a server listens on, what its Service exposes and
what the operator dials agree. `PROJECT.json` lists, under
`hazards`, the lines where that can go wrong.

## Modules

- `MapPhase` - phases, the transition table, `AggregatePhase`.
- `ArkClusterController` - the ArkCluster reconciler against the API it works on.
- `MCArkCluster` - the specs used by its TLC runs.
- `ArkClusterControllerProofs` - types, deadlines, installed volumes; `BlueGreenProofs`
  - one server, offline installs, the refinement; `RolloutProofs` - one map swapping at a time;
  `DrainProofs` - one announcement and one swap per change. Each extends the first.
- `ModUpdateController` - the mod update reconciler with its work queue, and the
  rolls it causes seen from far away.
- `MCModUpdate` - the mod lists used by its TLC runs; `ModUpdateControllerProofs`.
- `BlueGreen` - what blue/green updates promise, abstractly; `ArkClusterController`
  implements it.
- `RconClient` - the RCON client against a game server; `RconClientProofs`.
- `ClusterLifecycle`, `MCClusterLifecycle` - the life of the object and of all it
  owns: finalizer, creation, collection by name, deletion; `ClusterLifecycleProofs`.
- `ServerTemplate`, `MCServerTemplate` - from an admitted spec to the pod, Service
  and address of every map, and when a server is restarted.
- `ServerTemplateProofs` - its theorems.

The models overlap where the parts meet. `ArkClusterController` takes RCON
calls to succeed or fail: `RconClient` says what either outcome means. It has one
value for the launch settings and one revision for ConfigMaps and Secrets:
`ServerTemplate` opens them up, and sees a roll as two passes. It has claims and
pods of a live cluster: `ClusterLifecycle` has every kind of object and the
deletion of the cluster, and sees a server as a pod that may exist.

### ArkClusterController

`api` is the object in the API server and `cache` the informer's copy; `pods` and
`seen` are the same pair for pods. `jobs[m][v][i]`, `pvc[m]` and `rev[m]` are the
init Jobs, the claims and the resourceVersions of a map's ConfigMaps and Secrets.
`installed[m]` is the truth about the volumes that no code can see. `op` is the
pass under way: its copy of spec and status, whether the version it holds is
still the one in the API (`fresh`), the index in `spec.maps`, `midFlightMap`, and
where it stands. A pass is cut exactly where a persisted status is followed by an
action on the world:

| Actions | Code |
|---|---|
| `Begin` | `Get`, `midFlightMap` |
| `ReconcileMap(m)`: `FirstInstall`, `FirstInstallFailed`, `FirstPod`, `SteadyReady`, `SteadyWarming`, `SteadyCrashLooping`, `HoldBack`, `RollInstall`, `RollInstallFailed`, `WaitDrain` | the paths of `reconcileMap` without `persistStatus` |
| `StartDrain`, `Announce` | `rollUpdate` step B: persist the deadline, then announce |
| `CommitSwap`, `DeleteOld`, `CreateNew` | steps C and D: persist the swap, delete, create |
| `Rollback`, `DiscardBad` | `rollback`: persist, delete |
| `gcOrphanedMaps`, `Publish` | the end of `Reconcile` |

Around it, `Cluster` is what kubelet, the Job and TTL controllers and PVC
protection do; `EditSpec` and `EditConfig` are users; `Crash`, `ForeignWrite`
(a conflict), `FallBehind`/`CatchUp` (a stale cache), `Abort` (an API error that
ends the pass), `DeleteFails` (an API error the code ignores), `SwapLost` (a crash
or a failed write between `SaveAndExit` and the persisted swap) and `JobUnread` (a
`Get` of the init Job fails, which `InitJobStatus` reports as `Failed`) are faults,
each switched on by the constant `Faults` and limited by `MaxFaults`; `Tick` is time.
`hist` is history for the properties and is read by no action.

Abstractions: the template hash is the record of its inputs (no collisions);
`status.maps` is a set of listed maps with an order; mods, options, session name
and the annotation are one value, `launch`; slugs are taken to be distinct and
none a prefix of another; a deadline is the number of ticks left; RCON calls
succeed or fail; a second reconcile of the same object never overlaps the first
(controller-runtime guarantees it); the cache of Jobs never lags; a pod on a volume
that holds no game stays as it is, starting, and is never ready. The user edits the
spec during a pass only with `"race"` in `Faults`, because every such edit makes the
pass conflict: "without faults" also means that edits come between passes. Deleting
the `ArkCluster` is in `ClusterLifecycle`.

### ModUpdateController

A pass is cut at the three remote calls: `StartPoll`, then `FetchFiles` or
`FetchFails`, `SaveTracked`, `StampAnnotation`; `NothingToDo` and `KeyMissing` are
the early returns. Every `Status().Update` may fail (`"writeErr"`): nobody looks at
it in `KeyMissing` and `FetchFails`, and after a poll Reconcile returns the error
(`SaveFails`). `queued` and `timer` are the work queue: every change of the
object wakes the controller, and `RequeueAfter` sets the timer. `Roll(m)` stands
for a whole blue/green roll: it starts the server of a map whose template, mod
list and annotation, is out of date, and marks all tracked mods as installed.
Versions, slugs, times and messages are left out; `LastTransitionTime` too, so the
one extra wake-up that a rewritten condition causes does not appear.

### BlueGreen

Of one map: the active volume, the volumes an install writes to, the volumes one has
completed on, and the volumes a server runs from. An install never starts under a
server; a swap goes to an installed volume; a server starts on the active volume,
installed and not being written, and only when there is no other. The refinement
mapping (`Implements` in `ArkClusterController`, a copy of `BlueGreen` for every map) takes the active volume from the
status in the API, running Jobs for writers and pods that are not being deleted
for servers.

### RconClient

One behaviour is a row of calls, each on a connection of its own. `call.pc` is
where the client stands: `Dial` connects and sends the password, `ReadAuth` reads
the reply, `Exec` sends a command, `ReadAnswer` takes the next packet,
`IOFails` and `Timeout` are the error returns, and `GiveUp` is what
`AnnounceShutdown` and `SaveAndExit` make of an error: the one of `DoExit` counts
as success. The server (external) checks passwords, executes, refuses, exits with
or without an answer, or does nothing. Packets are records of id and body; of
`readPacket` the refusal of a length out of range is kept (`bad`).

### ClusterLifecycle

`versions` are the versions of the object from the one in the operator's cache to
the last; `stale` says that the pass holds an older one, so that its `Update` and
`Status().Update` conflict. `objects` and `terminating` are all owned objects by
kind and name, init Jobs included, names as sequences of words, so that the slug
table, the fallback and `strings.HasPrefix` keep their meaning.

| Actions | Code |
|---|---|
| `Begin` | `Get`, the deletion branch, `finalizer.Ensure` or the fan-out |
| `Ensure` | `finalizer.Ensure`; the pass ends either way |
| `EnsureClusterObject` | `EnsureAdminPasswordSecret`, `EnsureClusterPVC` |
| `ReconcileMap` | the `Ensure*` calls of `reconcileMap` in order, the first error ends the pass; then perhaps an init Job, a pod and an address |
| `GcOrphanedMaps`, `PublishStatus` | the end of `Reconcile` |
| `ReadAdminPassword`, `TellMap`, `RemoveFinalizer` | `RunFinalize` |

`CollectGarbage` (the Secret and the rest in two steps, in either order),
`DependentsGone`, `PodGone`, `ClaimsGone` and `JobGone` (a Job ends and expires, if
its claim is there) are Kubernetes; `EditMaps` and
`DeleteCluster`, in the background or the foreground, the user; `Crash` and failing
API calls the faults. The cache may be any number of versions behind in every run.
Abstractions: claims that are free go together; a cluster is not created again
under the same name; one Job stands for those of both sides; the password is the one
the operator made (a Secret that the user names is not owned by the cluster, so a
foreground deletion cannot take it first).

### ServerTemplate

`EditSpec` passes through `validate`; `EditSource` and `EditSecret` change the
ConfigMap and the Secrets that the spec names and that nobody watches. A pass is,
per map, `EnsureMap` (`EnsureMapINIConfigMaps`, `EnsureService`, `refreshAddress`)
and `ReconcilePod` (the resourceVersions, `computePodHash`, and the pod created,
kept, drained or replaced), and `Finish` for what is not listed any more. INI files
are sequences of lines, so `ensureGUSDefaults` is modelled line by line; the hash
is the record of its inputs, lists as bags because they are sorted first.
Abstractions: the launch settings stand for image, session name, cluster id,
player limit and BattlEye, the options for platforms, options and parameters,
`placement` for resources, node selector, tolerations and security context; a
Service has its ingress at once; `Game.ini` is written like the other file without
defaults and left out; the faults are a failed read of the user's ConfigMap, which
the code takes for an empty file, a failed read of a resourceVersion, which is hashed
as an empty one, and a late resourceVersion of a ConfigMap (that of a Secret is never
late). The annotation `mods-changed`, also part of the hash, is in
`ModUpdateController` (`Template`). `cause` is history.

## Runs

Run with `tlc -config <run>.cfg <module>`. The passing runs:

| Run | Module | Instance | Shows |
|---|---|---|---|
| `core` | `MCArkCluster` | 1 map, 2 launch settings, 2 edits, every mishap of pods and Jobs, no operator fault | `TypeOK`, `InstalledBeforeServed`, `InstallOffline`, `SingleServer`, `NoRetryAfterRollback`, `OneSwapPerChange`, and the refinement `Implements` |
| `restart` | `MCArkCluster` | 2 configuration edits, grace of 2 ticks, 2 crashes | `AnnounceOnce`, `SingleServer`, `GraceHonoured` |
| `rollout` | `MCArkCluster` | 2 maps under OneAtATime, one of which may leave and come back, 2 edits, 1 crash or API error | `OneServerDown`, `ConvergesOnInstalled`, `OrphansCollected` |
| `converge` | `MCArkCluster` | 2 edits, grace of 2 ticks, 1 fault of any kind | `InstalledBeforeServed`, `DeadlineNeverExtended`, `Converges` |
| `mods_poll` | `MCModUpdate` | 2 mods, interval of 2 ticks, crashes, failed polls, status writes and patches | `TypeOK`, `PollSpacing`, `RollOnlyForNewFile` |
| `mods_reach` | `MCModUpdate` | 1 mod with 3 files, 2 maps, conflicts, stale reads, failed polls and status writes | `UpdatesReachServers`, `PollSpacing` |
| `rcon` | `RconClient` | 2 calls of either kind, right or wrong password, broken connections, refused packets, silence | `TypeOK`, `NilMeansDone`, `AnswersMatch`, `NoLeak`, `CallReturns` |
| `lifecycle` | `MCClusterLifecycle` | maps that share a slug and one that does not, 1 edit, either way of deleting, 1 crash or API error, any lag of the cache | `FinalizerBeforeObjects`, `SavedBeforeRelease`, `WantedKept`, `EverythingGoes`, `OrphansGo` |
| `template` | `MCServerTemplate` | 2 maps, one edit of the spec for every kind of field, 2 files, 2 Secrets, 2 edits, 1 failed or late read of a file or a revision | `PortsDisjoint`, `GusMerged`, `EditsReachServers`, `RollHasCause` |

What some of them say needs a word. `OneServerDown` is about players: when a roll deletes
a server, every server moved before it is ready again. It leaves out what
`midFlightMap` does not wait for, a map that is started afresh after an interrupted swap,
and behaviours in which a deadline outlives its drain; `OneServerDownAlways` below
does not. `ConvergesOnInstalled` allows for what `v_readd` shows: a pod that waits for
ever on an emptied volume. `PollSpacing` allows an early poll only when the time of the
one before was not stored or not read (`hist.lost`). `GusMerged` compares what
is written with what was read: the user's RCON lines in `[ServerSettings]` stay as they
are, even `RCONEnabled=False`, and missing ones are added. `OrphansGo` leaves out the
init Jobs, which `gcOrphanedMaps` does not collect (`JobsGo` below).

Three runs end in a violation, where the code does something else than the
documentation or a comment says; `findings` in `PROJECT.json` quotes the lines.

| Run | What happens |
|---|---|
| `v_grace` | a reverted edit leaves its drain deadline behind, and the next roll swaps without grace |
| `v_readd` | a map that comes back trusts the Job of its deleted volumes |
| `v_persist` | every claim has the cluster as its owner, so deleting the cluster deletes the claims, `persistOnDelete` or not |

### Known divergences

The modules also state properties that the code does not have and that no run
keeps, and some properties hold in one run and fail on another instance. Each
fails on a small one: take the configuration, set the constants below and name the
property alone.

From `v_grace.cfg`, with `Faults = {"crash"}`, `MaxFaults = 1`, `MaxEdits = 1`,
`Launches = {"l1"}` and `MaxRev = 1` where nothing else is said:

| Property | Constants | What happens |
|---|---|---|
| `OneSwapPerChange` | as they are | a crash between the persisted swap and the delete of the old pod makes the next pass roll once more |
| `AnnounceOnce` | `Faults = {"race"}` | a conflict on the drain deadline is swallowed (`persistStatus`) and the players are warned twice |
| `NoRetryAfterRollback` | `Mishaps = {"podLoop"}` | a crash between the persisted rollback and the delete makes the next pass roll forward again |
| `InstallOffline`, `Implements` | `Mishaps = {"expire"}` | the same crash, and the Job of the volume in use has expired: the repeated roll installs under the live server |
| `DeadlineOnlyWhenDraining` | no faults, `Launches = {"l1", "l2"}`, `MaxRev = 0`, `MaxEdits = 3` | a reverted edit returns the map to Running with its deadline set |
| `InstallOffline` | no faults, `Images = {"i1", "i2"}`, `MaxRev = 0` | an image edit during an install puts two Jobs on one volume; the server starts when the second is done |
| `OneMapDown` | no faults, `Maps = {"m1", "m2"}`, `Layouts <- TwoMaps`, `InitSpec <- MCInitTwo`, `Launches = {"l1", "l2"}`, `MaxRev = 0`, `MaxEdits = 2` | one pass starts to drain two maps whose inactive volumes an earlier edit left installed: `midFlightMap` is computed once a pass |
| `OneSwapping` | no faults, two maps as above, `MaxEdits = 5`, `GracefulShutdown = 0`, `Ingress = {}` | both maps keep the deadline of a reverted edit, and the next edit swaps both in one pass |
| `SingleServer` | `Faults = {"lag"}` or `{"apiErr"}` | a pod not yet seen, or one whose delete failed, and a second is started next to it |
| `AnnounceOnce` | `Faults = {"lag"}` | the deadline just stored is not seen |
| `AnnounceOnce` | `Faults = {"apiErr"}`, `Maps = {"m1", "m2"}`, `Layouts <- ComeAndGo`, `InitSpec <- MCInitTwo`, `Ingress = {"m2"}`, `MaxEdits = 4` | a failed delete keeps the server of a removed map, whose status is pruned; when the map returns it is drained anew |
| `StalePodsGo` | `FairSpec`, `Faults = {"apiErr"}` | a failed delete leaves the stale pod for good |
| `SavesExclusive` | no faults | old and new pod share the saves volume while the old one terminates |
| `PhaseTable` | no faults, `MaxEdits = 0` | published phase changes are not those of `internal/statemachine` |

From `mods_reach.cfg`, with `Mods = {"d1", "d2"}`, `MaxFile = 2`, `MaxEdits = 0` and
`Faults = {}`:

| Property | Constants | What happens |
|---|---|---|
| `UpdatesReachServers` | `Faults = {"patchErr"}` | a failed patch after the save loses a mod update |
| `ServersUpToDate` | as they are | a file released before the first poll is taken as installed and never rolled out |
| `RollOnlyForNewFile` | `Maps = {"m1"}`, `Spec`, `Faults = {"race"}`, `MaxEdits = 1` | after a swallowed conflict one file can cause two rolls |
| `OnlyAffectedMapsRoll` | `Spec`, `ModLists <- MCSplit`, `InitLists <- MCInitSplit` | the annotation is in every map's hash: maps that do not load the mod restart too |
| `InstalledMeansLoaded` | `Spec` | the first swap marks the mod installed while the other map runs the old file |
| `HealthRecovers` | `MaxEdits = 1` | `ModsHealthy=False` is never cleared |
| `RollOnlyForNewFile` | `mods_poll.cfg` with `Faults = {"lag"}` or `{"omit"}` | a poll works from tracked mods that are not the stored ones, or forgets one that CurseForge left out |

With `"omit"` (CurseForge leaves a mod out, or marks none of its files as the
latest) and `"race"` together `UpdatesReachServers` fails as well: the annotation
can return to the digest a server already has.

From the other configurations:

| Property | Constants | What happens |
|---|---|---|
| `NilMeansDone`, `AnswersMatch` | `rcon.cfg`, `AuthPackets = 2` | against a server that sends an empty response before its reply to a password, as the Source RCON protocol has it, every answer is taken for the next request's, and a wrong password is noticed by nobody |
| `OrphansGo` | `lifecycle.cfg` with two maps whose slugs are `island` and `island`-`hard` | the claims and ConfigMaps of the longer one are kept for ever: they match the prefix of the shorter |
| `JobsGo` | `lifecycle.cfg` | `gcOrphanedMaps` deletes the claims of a removed map and not its init Job, which then waits for its claim for as long as the cluster lives |
| `OneServerDownAlways` | `rollout.cfg`, `MaxFaults = 0` | the name of the new pod is still taken by a terminating one, so `CreateNew` makes none; the next pass starts the map afresh, and `Provisioning` holds nobody back: the other server goes down too |
| `OneServerDownAlways` | `rollout.cfg`, `MaxEdits = 1`, `Faults = {"crash"}` | the same after a crash between the delete of the old pod and the create of the new one |
| `Converges` | `rollout.cfg`, `MaxFaults = 0` | the map that left and returned is never served: its pod waits on an emptied volume (`v_readd`) |
| `RollHasEdit` | `template.cfg` | a failed read of the user's ConfigMap empties the mounted file, and that, or a failed or late read of a resourceVersion, rolls the server, twice |
| `AllEditsReachServers` | `template.cfg`, `Faults = {}` | resources, node selector, tolerations and the admin password's Secret are not in the hash: running servers keep the old ones |
| `DrainIsHeard` | `template.cfg`, `Faults = {}` | when the edit is to the RCON port or the password, the drain dials the new one and the old server does not hear it |
| `GusPort` | `template.cfg`, `Faults = {}` | a `RCONPort` of the user's stays, though the comment says the defaults are merged on top |
| `RconOn` | `template.cfg`, `Faults = {}` | a `RCONEnabled=False` of the user's in `[ServerSettings]` stays too, and the probes of the pod need RCON |

Seen on the way and not stated: ids that share a slug, or are listed twice, are
admitted; `updateStrategy.type: Recreate` is never read; in the hash of the launch
settings the lists `["a,b"]` and `["a", "b"]` are the same.

Bounds. One map is enough where maps do not interact: they only do through
`midFlightMap`, garbage collection and the abort of a pass, which the two-map runs
cover. Maps of `ServerTemplate` interact through their index alone. Two launch settings give an edit and its revert; two images give two Jobs
on one volume; two crashes let the second hit the recovery from the first. Edits
and faults are counted by `MaxEdits` and `MaxFaults`; resourceVersions wrap at
`MaxRev`. `InstalledBeforeServed`, `SingleServer`, `AnnounceOnce`,
`OneSwapPerChange` and `NoRetryAfterRollback` hold in one run and fail in another:
the runs together say which fault or edit breaks them. Two RCON calls let an answer
to the first be on its way during the second. One edit of `spec.maps` before, during
or after a pass, and any lag of the cache, gives every pair of old and new copy;
two edits of the template give one that undoes the other or races its roll.

Deadlock is checked for the ArkCluster reconciler and for `ServerTemplate`, which
always have a next pass. The mod update reconciler stops when polling is switched
off, RCON calls are bounded in number and the life of a cluster ends, so their
configurations turn the check off.

Fairness (`FairSpec`). Every return of `Reconcile` carries `RequeueAfter` or an
error that the work queue retries, so passes go on (`WF` of `Pass`; of `Poll` while
something is queued or the timer ran out). Kubelet starts and removes pods, Jobs
finish, released claims go, watches catch up, time passes. Nothing is assumed of
users, of mishaps (the liveness runs have none) or of faults. In `RconClient` only
the client is fair: it runs, and its deadlines pass; a server owes no answer. In
`ClusterLifecycle` the operator, its watch, the garbage collector and the Job controller
are, in `ServerTemplate` the
passes: every one asks for the next, which is how edits of objects that nobody
watches arrive.

## Proofs

Checked with `tlapm <module>.tla`. Every theorem is about `Spec`, without fairness, and
holds for every value of the constants that the named assumptions allow: any maps,
images, specs, mods or files, any bounds. A hypothesis in front of `Spec` switches a fault
off or names a setting; Known divergences has the instances that make it necessary, except
where it is said here that none is known. `Distinct` is that no spec lists a map twice,
which the CRD does not enforce: a map listed twice has two templates, one for each
position, and is rolled from one to the other and back. TLC refutes all three statements
that assume `Distinct` on such a spec.

`ArkClusterControllerProofs`, from `MapsAssumption`, `SpecsAssumption`, `BoundsAssumption`:

- `Typing`: `[]TypeOK`, action by action, on lemmas about `Enter`, `Set`, `Prune`,
  `Aggregate`, `Aged` and the hash.
- `DeadlineSafety`: `DeadlineNeverExtended`. A write could push a deadline back only if
  the pass held an old copy of it, and then the write conflicts. `DeadlineInv` says so:
  while the pass holds the current version, its deadlines are those of the API, or were
  pruned.
- `InstallSafety`: with `PersistOnDelete`, `[]InstalledBeforeServed`. The invariant alone
  is not inductive: a pod is created because a Job succeeded (`JobsInstalled`: such a Job's
  volume is installed), or two steps after that was looked at (`SwapInstalled`: a committed
  swap leads to an installed volume), and the data stays because no claim is being released
  (`VolumesKept`). Without `PersistOnDelete` the statement is false (`v_readd`).

`BlueGreenProofs`:

- `SingleServerSafety`: without `lag` and `apiErr`, `[]SingleServer`; crashes and conflicts
  are allowed. `SingleInv` adds `Handover`: when a pass is about to create the new pod the
  old one has been deleted.
- `OfflineSafety`: without faults and with one image, `[]InstallOffline`. `OfflineInv`: the
  pass holds the current version (`FreshPass`) and its sides are those of the API
  (`SidesKept`); a live server runs from the active side of its map (`ServedSide`), so the
  other one is free to install on; the volume of a swap under way is not being written
  (`SwapReady`); and when a pass drops the entry of a map that is not listed any more, the
  map has no live server (`OrphansStopped`), so that its side can start afresh.
- `Refinement`: with `PersistOnDelete` as well, `Implements`. Initial states map to initial
  states, and every action to one action of `BlueGreen` or to none, for every map: installs
  to `StartInstall` and `EndInstall`, the persisted swap and rollback to `Swap`, pods that
  come and go to `Start` and `Stop`. Beyond `OfflineInv` and `InstallInv` it needs
  `GoodInv`: the last good volume, to which a rollback swaps, is installed, and so is `server-a`
  where the entry of a map that runs from `server-b` is dropped.

`RolloutProofs`:

- `OneByOne`: under `OneAtATime` and `Distinct`, `[]DeadlineOnlyWhenDraining =>
  []OneSwapping` (`OneSwapAtATime`), with all faults: at most one map of the published
  status is in phase Swapping. That is about phases; `OneServerDown`, about servers,
  is left to TLC. `midFlightMap` is the first map of `status.maps` in a
  mid-flight phase, read once per pass, so several maps may drain at a time, and the
  question is why only one of them swaps. `RollInv`: the entries of the status are in a
  linear order (`Order`), a swapping map comes before every other mid-flight map (`First`),
  and during a pass the map it took for the first is still that (`Lead`, `Late`). A map
  with a deadline swaps only when it is that map, unless it starts to drain in this very
  pass; then it has no deadline yet, which is where the hypothesis is used. That
  hypothesis is false of some behaviours (`v_grace` shows one), and there the conclusion
  can fail.

`DrainProofs`:

- `AnnounceSafety`: without `race` and `lag`, and with `apiErr` only if no edit changes
  which maps are listed, `[]AnnounceOnce`; crashes are allowed. `AnnounceInv`: a map
  whose players were told has its deadline stored, or no server (`Remembered`), one whose
  announcement or swap is under way was not told before (`Untold`), and one that was told
  is in some spec (`ToldListed`), so in all of them when deletes may fail, and its entry is
  not pruned under a live server.
- `OneSwapSafety`, `NoRetrySafety`: without faults, under `Distinct`, `OneSwapPerChange` and
  `NoRetryAfterRollback`. `SwapInv`: the pass works from the spec and the sides of the API
  (`SpecKept`, `Sides`, `SwapSide`), and after a swap or a rollback, until the next change,
  the map has the pod it wants, which is no drift, or none, or the pass is just about to
  replace it (`Kept`). Every kind of fault breaks the first (of API errors it takes two), a
  crash or an API error the second; for the second no counterexample with conflicts or stale reads is known.

`RconClientProofs`, from the module's assumption, for any number of calls:

- `RconTyping` and `RconNoLeak`: `[]TypeOK` and `[]NoLeak`. `ClientInv`: the requests of a
  call are numbered (`Numbered`), and the only open socket is that of the call under way
  (`OneSocket`).
- `RconNilMeansDone`, `RconAnswersMatch`: for `AuthPackets = 1`, `[]NilMeansDone` and
  `[]AnswersMatch`. Ids are not compared, so the argument is about the whole pipe:
  `PipeInv` says, for every place where the client stands, which packets can be on the way
  in either direction, and that at most one request of a call is unanswered (`Unheard`,
  `Untouched`, `AuthPipe`, `ExecPipe`, `WaitPipe`), and that `DoExit` is only sent once the
  world was saved (`Saved`).

`ClusterLifecycleProofs`, with every lag of the cache, crashes and failing calls, and any
ids, slugs that share prefixes included:

- `FinalizerFirst`: `[]FinalizerBeforeObjects`; `SavedFirst`: `SavedBeforeRelease`;
  `GcKeepsWanted`: `WantedKept`. `LifeInv`: a deletion is for good and a live cluster
  keeps its finalizer (`Progress`); the copy of a pass is old at worst, and its branch was
  right for that copy (`CopyFits`); a live cluster is not being deleted in the foreground
  (`LiveStays`); no address is published without the Secret (`AddressNeedsSecret`); and
  `RunFinalize` has told every map that is not left in its copy, unless the copy is old
  (`ToldSoFar`), in which case the `Update` conflicts.

`ServerTemplateProofs`, from `TemplateAssumption`:

- `Admission`: `[]PortsDisjoint`. The inductive invariant is `Admitted`: the spec is one
  that passed `validate`. Lemma `PortConflictExact` shows that the comparison of range ends
  in `PortConflict` is exactly whether some game port is an RCON port, for all starts and
  any number of maps (the CRD keeps starts in 1024 .. 60000, so int32 does not overflow).
  With `ENABLE_WEBHOOKS=false` nothing guards the ports.
- `RconIsMerged`: `GusMerged`, for files of any length. Lemmas follow `ensureGUSDefaults`
  through its cases: which lines of the result lie in the first `[ServerSettings]` section,
  up to the next header, and that for each of the two keys they are the user's or else
  include the operator's. `GusInv` types the files and the pass that writes them. Nothing is
  claimed of the value a user gave a key.

`ModUpdateControllerProofs`:

- `ModTyping`: `[]TypeOK`.
- `PollsAreSpaced`: `PollSpacing`, with every fault and no hypothesis. `Spaced`: unless the
  time of the last poll was lost, its stored age is never more than the true one, and a
  pass that fetches does so an interval after it; between the poll and the write of the
  status the pass carries the time.
- `RollsForNewFiles`: without `race`, `lag` and `omit`, `RollOnlyForNewFile`. `FileInv`: the
  pass works from what is stored (`InStep`), a mod is tracked at a file between the one the
  annotation carries, or at which its tracking began, and the newest (`Between`), and what
  the poll under way found is not older than what is stored (`Advances`).

Only model-checked:

- Liveness (`Converges`, `ConvergesOnInstalled`, `OrphansCollected`, `UpdatesReachServers`, `CallReturns`,
  `EverythingGoes`, `OrphansGo`, `EditsReachServers`): the prover does not do fairness and
  `ENABLED`.
- `OneServerDown`: see the plan.
- `GraceHonoured`: false in general (`v_grace`), checked where no edit is reverted.
- `RollHasCause`: see the plan.

## Plan

1. Done: map phases, the ArkCluster reconciler, the mod update reconciler.
2. Done: ports and admission; life cycle of the object, names and the prefix match of
   `gcOrphanedMaps`; which fields the template hash covers; the RCON exchange;
   `BlueGreen`.
3. Done: theorems for the safety properties of every component, and the refinement.
4. Left: a theorem for `RollHasCause`; `GraceHonoured` under the hypothesis of
   `OneSwapAtATime`; `OneServerDown`, which needs what the pods are in each phase beyond
   `RollInv`; `Refinement` with crashes and conflicts, for an abstract
   specification that allows what they do; `NoRetrySafety` with the
   faults that do not break them.

## Not modelled

String formatting (launch command, session names, characters that names may not
have), probes, mounts, sizes and storage classes of the pod, Job and claim templates,
HTTP and the bytes of RCON packets: nothing there depends on state or order. Generated
deep copies. Flags and wiring in `cmd/operator`; with leader election off, the default,
two operators can overlap while one replaces the other, which is not modelled either.
`SetClusterCondition` and `statemachine.Transition` have no caller outside tests.

-------------------------- MODULE ClusterLifecycle --------------------------
(***************************************************************************)
(* The life of an ArkCluster object and of what it owns: the finalizer     *)
(* (internal/finalizer), the first lines of Reconcile, the Ensure* helpers *)
(* that create claims, Secret, ConfigMaps and Services, the collection of  *)
(* the objects of removed maps by name, and the deletion of the whole.     *)
(*                                                                         *)
(* How a map's server is installed and rolled is ArkClusterController.     *)
(* Here a pod only counts as something that holds claims, and an init Job  *)
(* as something that needs one to end.  The API server, its garbage        *)
(* collector, the kubelet and the Job controller are modelled from how the *)
(* code uses them.                                                         *)
(***************************************************************************)
EXTENDS Integers, Sequences, SequencesExt, FiniteSets

CONSTANTS
  FirstMaps,        \* spec.maps when the user creates the cluster
  Layouts,          \* lists of map ids the user may put into spec.maps
  PersistOnDelete,  \* spec.storage.persistOnDelete
  Policies,         \* how the user deletes: "background", "foreground"
  Faults,           \* "crash": the operator restarts; "apiErr": API calls fail
  MaxEdits,         \* bound: edits of spec.maps
  MaxFaults         \* bound: faults

ASSUME LifecycleAssumption ==
  /\ FirstMaps \in Layouts /\ PersistOnDelete \in BOOLEAN /\ MaxEdits \in Nat /\ MaxFaults \in Nat
  /\ Policies \subseteq {"background", "foreground"}
  /\ \A maps \in Layouts : maps \in Seq(Seq(STRING))

-----------------------------------------------------------------------------
(* Names.  A map id, a slug and what follows "<cluster>-" in a name are sequences of lower-case
   words: "TheCenter_WP" is <<"thecenter", "wp">>, and "<cluster>-the-center-saves" is
   <<"the", "center", "saves">>. *)

Canonical ==
  { [id |-> <<"theisland", "wp">>, slug |-> <<"island">>],
    [id |-> <<"scorchedearth", "wp">>, slug |-> <<"scorched", "earth">>],
    [id |-> <<"aberration", "wp">>, slug |-> <<"aberration">>],
    [id |-> <<"extinction", "wp">>, slug |-> <<"extinction">>],
    [id |-> <<"thecenter", "wp">>, slug |-> <<"the", "center">>],
    [id |-> <<"astraeos", "wp">>, slug |-> <<"astraeos">>],
    [id |-> <<"bobsmissions", "wp">>, slug |-> <<"club", "ark">>] }

MapSlug(id) ==
  IF \E entry \in Canonical : entry.id = id
  THEN (CHOOSE entry \in Canonical : entry.id = id).slug
  ELSE IF Len(id) > 1 /\ Last(id) = "wp" THEN Front(id) ELSE id

Object(kind, name) == [kind |-> kind, name |-> name]

Secret == Object("Secret", <<"secrets">>)
ClusterClaim == Object("Claim", <<"cluster">>)
Service(slug) == Object("Service", slug)
Pod(slug) == Object("Pod", slug)  \* one stands for all of the map's; named by its map label
Job(slug) == Object("Job", slug \o <<"init">>)  \* one stands for those of both sides

\* What reconcileMap ensures before it looks at pods, in order.
MapObjects(slug) ==
  << Object("Claim", slug \o <<"saves">>),
     Object("Claim", slug \o <<"server", "a">>),
     Object("Claim", slug \o <<"server", "b">>),
     Object("ConfigMap", slug \o <<"gus">>),
     Object("ConfigMap", slug \o <<"game">>),
     Service(slug) >>

Slugs(maps) == {MapSlug(maps[i]) : i \in DOMAIN maps}

\* Everything a cluster with these maps has.
Belongings(maps) ==
  {Secret, ClusterClaim} \cup
  UNION {Range(MapObjects(s)) \cup {Pod(s), Job(s)} : s \in Slugs(maps)}

-----------------------------------------------------------------------------
VARIABLES
  versions,     \* the ArkCluster's versions from the one in the operator's cache up to the last,
                \* which is what the API server holds
  objects,      \* the objects that exist
  terminating,  \* those of them that are being deleted
  op,           \* the reconcile under way
  stale,        \* its copy is no longer the last version: Update and Status().Update conflict
  told,         \* history: the maps whose server RunFinalize told to save and exit
  edits, faults

world == <<objects, terminating>>
vars == <<versions, objects, terminating, op, stale, told, edits, faults>>

cluster == Last(versions)
cached == Head(versions)

\* A version: phase; our finalizer; that of a foreground deletion; spec.maps; the maps whose
\* status carries an RCON address.
NewCluster(maps) ==
  [phase |-> "live", fin |-> FALSE, fg |-> "no", maps |-> maps, addr |-> {}]

Idle == [pc |-> "idle"]

Init ==
  /\ versions = <<NewCluster(FirstMaps)>>
  /\ objects = {} /\ terminating = {}
  /\ op = Idle /\ stale = FALSE
  /\ told = {}
  /\ edits = 0 /\ faults = 0

\* The API server stores a version.  A deleted object goes when its last finalizer goes; an
\* update that changes nothing makes no version.
Settled(v) == IF v.phase = "deleting" /\ ~v.fin /\ v.fg # "waiting" THEN [v EXCEPT !.phase = "gone"] ELSE v
Store(v) == versions' = IF v = cluster THEN versions ELSE Append(versions, Settled(v))

\* Someone else than the operator stores one.
StoreFor(v) == Store(v) /\ stale' = (op.pc # "idle")

-----------------------------------------------------------------------------
(* The user. *)

EditMaps(maps) ==
  /\ cluster.phase = "live" /\ cluster.maps # maps /\ edits < MaxEdits
  /\ StoreFor([cluster EXCEPT !.maps = maps])
  /\ edits' = edits + 1
  /\ UNCHANGED <<world, op, told, faults>>

DeleteCluster(policy) ==
  /\ cluster.phase = "live"
  /\ StoreFor([cluster EXCEPT !.phase = "deleting",
                         !.fg = IF policy = "foreground" THEN "waiting" ELSE "no"])
  /\ UNCHANGED <<world, op, told, edits, faults>>

-----------------------------------------------------------------------------
(* The operator: one worker. *)

\* The watch brings the cache up to some later version.
CatchUp ==
  /\ \E v \in 2 .. Len(versions) : versions' = SubSeq(versions, v, Len(versions))
  /\ UNCHANGED <<world, op, stale, told, edits, faults>>

\* An API call may fail.
CanFail == "apiErr" \in Faults /\ faults < MaxFaults

\* The pass returns.
End == op' = Idle /\ stale' = FALSE

\* Reconcile: Get from the cache, then the deletion branch, the finalizer or the fan-out.
Begin ==
  /\ op.pc = "idle"
  /\ LET Start(pc) == op' = [pc |-> pc, copy |-> cached, todo |-> cached.maps, pw |-> ""]
     IN  \/ cached.phase = "deleting" /\ cached.fin /\ Start("readPassword")
         \/ cached.phase = "live" /\ ~cached.fin /\ Start("addFinalizer")
         \/ cached.phase = "live" /\ cached.fin /\ Start("secret")
  /\ stale' = (Len(versions) > 1)
  /\ UNCHANGED <<versions, world, told, edits, faults>>

\* Mutation: the Update fails with a conflict and the pass goes on.
EnsureAndGoOn ==
  /\ op.pc = "addFinalizer"
  /\ IF stale THEN op' = [op EXCEPT !.pc = "secret"] /\ UNCHANGED <<versions, stale>>
     ELSE Store([cluster EXCEPT !.fin = TRUE]) /\ End
  /\ UNCHANGED <<world, told, edits, faults>>

\* finalizer.Ensure: nothing else happens in this pass, whether the Update works or not.
Ensure ==
  /\ op.pc = "addFinalizer"
  /\ IF stale THEN UNCHANGED versions ELSE Store([cluster EXCEPT !.fin = TRUE])
  /\ End
  /\ UNCHANGED <<world, told, edits, faults>>

\* EnsureAdminPasswordSecret and EnsureClusterPVC: create if missing, or fail.
EnsureClusterObject(pc, object, next) ==
  /\ op.pc = pc
  /\ \/ objects' = objects \cup {object} /\ op' = [op EXCEPT !.pc = next] /\ UNCHANGED <<stale, faults>>
     \/ CanFail /\ faults' = faults + 1 /\ End /\ UNCHANGED objects
  /\ UNCHANGED <<versions, terminating, told, edits>>

\* reconcileMap for the next map: the Ensure* calls in order, the first that fails ends the pass.
\* refreshAddress publishes the address if the Service has one by now.  Then, from far away, an
\* init Job or the server may be created, which may fail too.
ReconcileMap ==
  /\ op.pc = "maps" /\ op.todo # <<>>
  /\ LET id == Head(op.todo)
         slug == MapSlug(id)
         wanted == MapObjects(slug)
         Create(n) == objects \cup Range(SubSeq(wanted, 1, n))
     IN  \/ /\ \E n \in 0 .. Len(wanted) : objects' = Create(n)
            /\ CanFail /\ faults' = faults + 1
            /\ End
         \/ /\ \E more \in {{}, {Pod(slug)}, {Job(slug)}} :
                 objects' = Create(Len(wanted)) \cup more
            /\ \E got \in SUBSET {id} :
                 op' = [op EXCEPT !.todo = Tail(@), !.copy.addr = @ \cup got]
            /\ UNCHANGED <<stale, faults>>
  /\ UNCHANGED <<versions, terminating, told, edits>>

\* strings.HasPrefix(name, "<cluster>-<slug>-").
BelongsTo(name, keep) == \E slug \in keep : IsStrictPrefix(slug, name)

\* Mutation: the shared claim is no exception.
OrphanedNoShared(o, keep) ==
  CASE o.kind \in {"Pod", "Service"} -> o.name \notin keep
    [] o.kind = "Claim" -> ~PersistOnDelete /\ ~BelongsTo(o.name, keep)
    [] o.kind = "ConfigMap" -> ~BelongsTo(o.name, keep) /\ Last(o.name) \in {"gus", "game"}
    [] OTHER -> FALSE

\* Mutation: claims and ConfigMaps are looked up by a map label, which they do not carry.
OrphanedByLabel(o, keep) ==
  o.kind \in {"Pod", "Service"} /\ o.name \notin keep

\* gcOrphanedMaps: what is deleted, given the slugs to keep.
Orphaned(o, keep) ==
  CASE o.kind \in {"Pod", "Service"} -> o.name \notin keep
    [] o.kind = "Claim" -> ~PersistOnDelete /\ o # ClusterClaim /\ ~BelongsTo(o.name, keep)
    [] o.kind = "ConfigMap" -> ~BelongsTo(o.name, keep) /\ Last(o.name) \in {"gus", "game"}
    [] OTHER -> FALSE

\* Pods take their time, and claims wait for them; the rest goes at once.
Delete(doomed) ==
  LET slow == {o \in doomed : o.kind \in {"Pod", "Claim"}}
  IN  /\ objects' = objects \ (doomed \ slow)
      /\ terminating' = terminating \cup slow

\* gcOrphanedMaps, and the pruning of status.maps.  The errors of List and Delete are dropped.
GcOrphanedMaps ==
  /\ op.pc = "maps" /\ op.todo = <<>>
  /\ LET keep == Slugs(op.copy.maps)
         doomed == {o \in objects : Orphaned(o, keep)}
     IN  /\ \/ Delete(doomed) /\ UNCHANGED faults
            \/ /\ CanFail /\ faults' = faults + 1
               /\ \E o \in doomed : Delete(doomed \ {o})
         /\ op' = [op EXCEPT !.pc = "publish",
                             !.copy.addr = {id \in @ : MapSlug(id) \in keep}]
  /\ UNCHANGED <<versions, stale, told, edits>>

\* Status().Update: a conflict is ignored.
PublishStatus ==
  /\ op.pc = "publish"
  /\ IF stale THEN UNCHANGED versions ELSE Store([cluster EXCEPT !.addr = op.copy.addr])
  /\ End
  /\ UNCHANGED <<world, told, edits, faults>>

\* RunFinalize: the password, from the Secret the operator made.
ReadAdminPassword ==
  /\ op.pc = "readPassword"
  /\ \/ /\ op' = [op EXCEPT !.pc = "tell", !.pw = IF Secret \in objects THEN "read" ELSE "missing"]
        /\ UNCHANGED faults
     \/ /\ CanFail /\ faults' = faults + 1
        /\ op' = [op EXCEPT !.pc = "tell", !.pw = "error"]
  /\ UNCHANGED <<versions, world, stale, told, edits>>

\* RunFinalize: SaveAndExit for one map with an address; its error is dropped.
TellMap ==
  /\ op.pc = "tell" /\ op.pw = "read"
  /\ \E id \in op.copy.addr :
       /\ told' = told \cup {id}
       /\ op' = [op EXCEPT !.copy.addr = @ \ {id}]
  /\ UNCHANGED <<versions, world, stale, edits, faults>>

\* Mutation: no password, no end: the finalizer waits for it.
RemoveFinalizerOnceRead ==
  /\ op.pc = "tell" /\ (op.pw = "read" => op.copy.addr = {})
  /\ IF stale \/ op.pw # "read" THEN UNCHANGED versions ELSE Store([cluster EXCEPT !.fin = FALSE])
  /\ End
  /\ UNCHANGED <<world, told, edits, faults>>

\* Mutation: the finalizer goes first.
RemoveFinalizerFirst ==
  /\ op.pc = "tell"
  /\ IF stale THEN UNCHANGED versions ELSE Store([cluster EXCEPT !.fin = FALSE])
  /\ End
  /\ UNCHANGED <<world, told, edits, faults>>

\* RunFinalize: every map told, or no password: the finalizer goes, unless the version is old.
RemoveFinalizer ==
  /\ op.pc = "tell" /\ (op.pw = "read" => op.copy.addr = {})
  /\ IF stale THEN UNCHANGED versions ELSE Store([cluster EXCEPT !.fin = FALSE])
  /\ End
  /\ UNCHANGED <<world, told, edits, faults>>

Operator ==
  \/ Begin \/ Ensure
  \/ EnsureClusterObject("secret", Secret, "claim")
  \/ EnsureClusterObject("claim", ClusterClaim, "maps")
  \/ ReconcileMap \/ GcOrphanedMaps \/ PublishStatus
  \/ ReadAdminPassword \/ TellMap \/ RemoveFinalizer

\* The operator restarts: the pass is lost, the cache is filled anew.
Crash ==
  /\ "crash" \in Faults /\ faults < MaxFaults
  /\ op.pc # "idle"
  /\ faults' = faults + 1
  /\ End
  /\ versions' = <<cluster>>
  /\ UNCHANGED <<world, told, edits>>

-----------------------------------------------------------------------------
(* Kubernetes. *)

\* Every object has the ArkCluster as its controller reference: the garbage collector deletes it
\* once the owner is gone, or while it is deleted in the foreground: the Secret in one step, the rest in another.
CollectGarbage(kinds) ==
  /\ cluster.phase = "gone" \/ cluster.fg = "waiting"
  /\ LET doomed == {o \in objects \ terminating : o.kind \in kinds}
     IN  doomed # {} /\ Delete(doomed)
  /\ UNCHANGED <<versions, op, stale, told, edits, faults>>

\* A foreground deletion ends when the dependents are gone.
DependentsGone ==
  /\ cluster.fg = "waiting" /\ objects = {}
  /\ StoreFor([cluster EXCEPT !.fg = "done"])
  /\ UNCHANGED <<world, op, told, edits, faults>>

\* A deleted pod ends.
PodGone(pod) ==
  /\ pod \in terminating /\ pod.kind = "Pod"
  /\ objects' = objects \ {pod} /\ terminating' = terminating \ {pod}
  /\ UNCHANGED <<versions, op, stale, told, edits, faults>>

\* Deleted claims go when no pod of their map (of any map, for the shared one) is left.
Uses(pod, claim) == claim = ClusterClaim \/ IsStrictPrefix(pod.name, claim.name)

ClaimsGone ==
  /\ LET free == {c \in terminating : /\ c.kind = "Claim"
                                      /\ \A p \in objects : p.kind = "Pod" => ~Uses(p, c)}
     IN  free # {} /\ objects' = objects \ free /\ terminating' = terminating \ free
  /\ UNCHANGED <<versions, op, stale, told, edits, faults>>

\* An init Job whose pod gets the server claim ends, well or not, and goes an hour later; one
\* whose pod was not running when the claim was deleted does not end.
JobGone(slug) ==
  /\ Job(slug) \in objects /\ Object("Claim", slug \o <<"server", "a">>) \in objects
  /\ objects' = objects \ {Job(slug)}
  /\ UNCHANGED <<versions, terminating, op, stale, told, edits, faults>>

Collections == {{"Secret"}, {"Claim", "ConfigMap", "Service", "Pod", "Job"}}
AllSlugs == UNION {Slugs(maps) : maps \in Layouts}

Collector ==
  \/ \E kinds \in Collections : CollectGarbage(kinds)
  \/ DependentsGone
  \/ ClaimsGone
  \/ \E slug \in AllSlugs : PodGone(Pod(slug))

JobController == \E slug \in AllSlugs : JobGone(slug)

Next ==
  \/ \E maps \in Layouts : EditMaps(maps)
  \/ \E policy \in Policies : DeleteCluster(policy)
  \/ CatchUp \/ Operator \/ Crash \/ Collector \/ JobController

\* The queue always holds the cluster: every path of Reconcile requeues it or waits for a watch
\* event that is on its way.  Kubernetes keeps its promises.
Fairness ==
  /\ WF_vars(Operator) /\ WF_vars(CatchUp)
  /\ WF_vars(Collector) /\ WF_vars(JobController)

Spec == Init /\ [][Next]_vars
FairSpec == Spec /\ Fairness

-----------------------------------------------------------------------------
(* Properties. *)

\* "This Update happens before any world action, so deletion can always cascade": as long as the
\* cluster is there and not deleted, nothing of it exists without the finalizer.
FinalizerBeforeObjects == cluster.phase = "live" /\ objects # {} => cluster.fin

\* The finalizer is only removed after every server with a published address was told to save,
\* unless the API call for the password failed, or a foreground deletion took the Secret first.
\* In particular no stale copy, conflict or restart makes a deletion skip a server.
SavedBeforeRelease ==
  [][cluster.phase = "deleting" /\ cluster.fin /\ ~cluster'.fin =>
       \/ cluster.addr \subseteq told
       \/ op.pw = "error"
       \/ cluster.fg # "no" /\ op.pw = "missing"]_vars

\* gcOrphanedMaps never touches what the spec it works from wants, under any of the slugs, the
\* shared claim included.
WantedKept ==
  [][op.pc = "maps" /\ op'.pc = "publish" =>
       \A o \in Belongings(op.copy.maps) \cap objects :
         o \in objects' /\ (o \in terminating' => o \in terminating)]_vars

\* A deleted cluster goes, and everything it owned with it, in spite of lost passwords, conflicts,
\* crashes, and of a pass that still works from the live copy and creates objects anew.
\* (A deletion is for good.)
EverythingGoes == <>[](cluster.phase # "live" => cluster.phase = "gone" /\ objects = {})

\* The pods, Services, claims and ConfigMaps of a removed map go, if no slug in use is a prefix
\* of its slug.  Its init Jobs are left to Kubernetes (see JobsGo).
OrphansGo ==
  <>[](cluster.phase = "live"
         => \A o \in objects : o.kind # "Job" => o \in Belongings(cluster.maps))

\* The init Jobs of a removed map go as well.
JobsGo ==
  <>[](cluster.phase = "live"
         => \A o \in objects : o.kind = "Job" => o \in Belongings(cluster.maps))

\* What the design promises of persistOnDelete: the claims outlive the cluster.
PersistentClaims ==
  [][PersistOnDelete =>
       \A o \in objects : o.kind = "Claim" /\ o \notin terminating => o \notin terminating']_vars
=============================================================================

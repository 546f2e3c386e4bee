--------------------------- MODULE ServerTemplate ---------------------------
(***************************************************************************)
(* From spec to server: admission (ports), the INI files, the Service, the *)
(* template hash and the pod of every map, while users edit the spec, the  *)
(* ConfigMaps and the Secrets it names.                                    *)
(*                                                                         *)
(* The question is whether what a server runs with, what its Service       *)
(* exposes and what the operator dials agree in the end, and whether a     *)
(* server is restarted only when it should be.  How a restart goes is      *)
(* ArkClusterController: here the first pass that sees drift installs and  *)
(* announces, and a later one replaces the pod.  Game.ini is handled like  *)
(* GameUserSettings.ini, without the defaults, and left out.               *)
(***************************************************************************)
EXTENDS Integers, Sequences, SequencesExt, FiniteSets

CONSTANTS
  Ids,        \* map ids
  Specs,      \* specs the user may apply
  FirstSpec,  \* the first of them
  Contents,   \* what the user may write into the ConfigMap that the spec names
  Faults,     \* "apiErr": a read of that ConfigMap, or of a resourceVersion, fails;
              \* "lag": the resourceVersion read is old
  MaxEdits,   \* bound: edits
  MaxFaults   \* bound: faults

-----------------------------------------------------------------------------
(* Ports.  The CRD limits starts to 1024 .. 60000, so that no sum comes near the end of int32. *)

GamePort(start, index) == start + index
RconPort(start, index) == start + index

\* Mutation: ranges that share one port.
PortConflictTouching(gameStart, rconStart, mapCount) ==
  /\ mapCount >= 1
  /\ gameStart < rconStart + mapCount - 1 /\ rconStart < gameStart + mapCount - 1

PortConflict(gameStart, rconStart, mapCount) ==
  LET gameEnd == gameStart + mapCount - 1
      rconEnd == rconStart + mapCount - 1
  IN  mapCount >= 1 /\ gameStart <= rconEnd /\ rconStart <= gameEnd

\* The webhook.
validate(s) == ~PortConflict(s.game, s.rcon, Len(s.maps))

ASSUME TemplateAssumption ==
  /\ FirstSpec \in Specs /\ validate(FirstSpec)
  /\ \A s \in Specs : s.game \in Int /\ s.rcon \in Int /\ s.maps \in Seq([id : Ids, mods : Seq(Int)])
  /\ \A content \in Contents : content \in Seq([k : STRING, v : Int])
  /\ MaxEdits \in Nat /\ MaxFaults \in Nat

-----------------------------------------------------------------------------
(* INI files: sequences of lines [k, v], where k is a section header, RCONEnabled, RCONPort or
   anything else.  The empty file is the empty sequence. *)

Line(k, v) == [k |-> k, v |-> v]
IsHeader(line) == line.k \in {"[ServerSettings]", "[Other]"}

\* Mutation: the scan does not stop at the next header.
SectionEndUnbounded(lines, start) == Len(lines) + 1

\* The index of the header that ends the section which begins at start.
SectionEnd(lines, start) ==
  LET next == SelectInSubSeq(lines, start + 1, Len(lines), IsHeader)
  IN  IF next = 0 THEN Len(lines) + 1 ELSE next

ensureGUSDefaults(lines, port) ==
  LET ssStart == SelectInSeq(lines, LAMBDA l : l.k = "[ServerSettings]")
      section == ssStart + 1 .. SectionEnd(lines, ssStart) - 1
      Default(line) == IF \E j \in section : lines[j].k = line.k THEN <<>> ELSE <<line>>
      inject == Default(Line("RCONEnabled", 1)) \o Default(Line("RCONPort", port))
  IN  IF ssStart = 0
      THEN <<Line("[ServerSettings]", 0), Line("RCONEnabled", 1), Line("RCONPort", port)>>
             \o (IF lines = <<>> THEN <<>> ELSE <<Line("", 0)>> \o lines)
      ELSE SubSeq(lines, 1, ssStart) \o inject \o SubSeq(lines, ssStart + 1, Len(lines))

-----------------------------------------------------------------------------
VARIABLES
  spec,      \* the spec in the API server
  source,    \* the user's ConfigMap
  secrets,   \* the operator's own Secret and the user's: resourceVersion, which is also the value
  ini,       \* per map: the ConfigMap its pod mounts, its revision (0: there is none), and the
             \* revision last read from the cache
  service,   \* per map: the ports of its Service, or {}
  address,   \* per map: the RCON port in status, 0 if none
  pods,      \* per map: the pod, as a set of at most one
  draining,  \* maps whose inactive volume is installed and whose players were warned
  op,        \* the reconcile under way
  cause,     \* history, per map: why its server may be restarted
  edits, faults

owned == <<ini, service, address, pods, draining>>
inputs == <<spec, source, secrets>>
vars == <<spec, source, secrets, ini, service, address, pods, draining, op, cause, edits, faults>>

Idle == [pc |-> "idle"]
NoINI == [lines |-> <<>>, rev |-> 0, read |-> 0]

Init ==
  /\ spec = FirstSpec
  /\ source \in Contents
  /\ secrets = [own |-> 1, user |-> 1]
  /\ ini = [id \in Ids |-> NoINI]
  /\ service = [id \in Ids |-> {}]
  /\ address = [id \in Ids |-> 0]
  /\ pods = [id \in Ids |-> {}]
  /\ draining = {}
  /\ op = Idle
  /\ cause = [id \in Ids |-> "none"]
  /\ edits = 0 /\ faults = 0

\* findMapIndex: zero-based; 0 if there is none.
findMapIndex(s, id) ==
  LET i == SelectInSeq(s.maps, LAMBDA m : m.id = id) IN IF i = 0 THEN 0 ELSE i - 1

\* The ConfigMap is the map's or the global one; both are the same here.
resolveINI(s, content) == IF s.gus THEN content ELSE <<>>

GusFor(s, id, content) ==
  ensureGUSDefaults(resolveINI(s, content), RconPort(s.rcon, findMapIndex(s, id)))

Mods(s, i) == IF s.maps[i].mods # <<>> THEN s.maps[i].mods ELSE s.mods

\* SessionName, ExtraFlags and ExtraSettings: the launch settings stand for session name, cluster
\* id, player limit and BattlEye (and the image); options for platforms, options and parameters.
LaunchCommand(s, i) == [launch |-> s.launch, options |-> s.options, mods |-> Mods(s, i)]

\* BuildServerPod for the i-th map, and what its container reads when it starts; own is the
\* operator's Secret at that time.
BuildServerPod(s, i, lines, secs) ==
  [game |-> GamePort(s.game, i - 1), rcon |-> RconPort(s.rcon, i - 1),
   command |-> LaunchCommand(s, i), gus |-> lines,
   serverPassword |-> IF s.server THEN secs.user ELSE 0,
   adminPassword |-> IF s.admin THEN secs.user ELSE secs.own, own |-> secs.own,
   placement |-> s.placement]

\* The user's Secret counts if the spec takes the server password from it.
SecretsRev(s, secs) == <<secs.own>> \o (IF s.server THEN <<secs.user>> ELSE <<>>)

\* Mutation: launch settings are left out.
computePodHashNoLaunch(s, i, rev, secs) ==
  [mods |-> ToBag(Mods(s, i)),
   game |-> GamePort(s.game, i - 1), rcon |-> RconPort(s.rcon, i - 1),
   ini |-> rev, secrets |-> SecretsRev(s, secs),
   options |-> ToBag(s.options)]

\* Mutation: lists are hashed in the order in which they are written.
computePodHashUnsorted(s, i, rev, secs) ==
  [launch |-> s.launch, mods |-> Mods(s, i),
   game |-> GamePort(s.game, i - 1), rcon |-> RconPort(s.rcon, i - 1),
   ini |-> rev, secrets |-> SecretsRev(s, secs),
   options |-> s.options]

\* computePodHash, for the volume in use; lists are sorted first, so that only what is in them
\* counts.  The record of the inputs stands for the digest.  The mods-changed annotation, which
\* is part of it too, is not of the spec: ModUpdateController has it (Template).
computePodHash(s, i, rev, secs) ==
  [launch |-> s.launch, mods |-> ToBag(Mods(s, i)),
   game |-> GamePort(s.game, i - 1), rcon |-> RconPort(s.rcon, i - 1),
   ini |-> rev, secrets |-> SecretsRev(s, secs),
   options |-> ToBag(s.options)]

-----------------------------------------------------------------------------
(* What a server of a map should run with, whatever the hash says: lists in any order, and
   without the fields that computePodHash is known not to cover (placement stands for
   resources, nodeSelector, tolerations and podSecurityContext; and the Secret that
   globalSettings.adminPassword names). *)

Essence(pod) ==
  [game |-> pod.game, rcon |-> pod.rcon, launch |-> pod.command.launch,
   options |-> ToBag(pod.command.options), mods |-> ToBag(pod.command.mods),
   gus |-> pod.gus, serverPassword |-> pod.serverPassword, own |-> pod.own]

ListedIn(s) == {m.id : m \in Range(s.maps)}

Wanted(s, content, secs, id) ==
  LET i == findMapIndex(s, id) + 1
  IN  Essence(BuildServerPod(s, i, GusFor(s, id, content), secs))

\* An edit gives every map whose server should change a cause.
CauseOfEdit(s, content, secs) ==
  cause' = [id \in Ids |->
              IF id \in ListedIn(s) \cap ListedIn(spec)
                 /\ Wanted(s, content, secs, id) = Wanted(spec, source, secrets, id)
              THEN cause[id] ELSE "edit"]

-----------------------------------------------------------------------------
(* The users. *)

EditSpec(s) ==
  /\ edits < MaxEdits /\ s # spec
  /\ validate(s)
  /\ spec' = s
  /\ CauseOfEdit(s, source, secrets)
  /\ edits' = edits + 1
  /\ UNCHANGED <<source, secrets, owned, op, faults>>

EditSource(content) ==
  /\ edits < MaxEdits /\ content # source
  /\ source' = content
  /\ CauseOfEdit(spec, content, secrets)
  /\ edits' = edits + 1
  /\ UNCHANGED <<spec, secrets, owned, op, faults>>

EditSecret(name) ==
  /\ edits < MaxEdits
  /\ secrets' = [secrets EXCEPT ![name] = @ + 1]
  /\ CauseOfEdit(spec, source, secrets')
  /\ edits' = edits + 1
  /\ UNCHANGED <<spec, source, owned, op, faults>>

-----------------------------------------------------------------------------
(* The reconciler: per map, first what it ensures, then the pod. *)

Begin ==
  /\ op.pc = "idle"
  /\ op' = [pc |-> "ensure", spec |-> spec, i |-> 1]
  /\ UNCHANGED <<inputs, owned, cause, edits, faults>>

map == op.spec.maps[op.i].id

\* writeINIConfigMap: CreateOrUpdate writes only what differs.
writeINIConfigMap(lines) ==
  ini' = [ini EXCEPT ![map] =
            IF @.lines = lines THEN @ ELSE [lines |-> lines, rev |-> @.rev + 1, read |-> @.read]]

EnsureService ==
  service' = [service EXCEPT ![map] = {[game |-> GamePort(op.spec.game, op.i - 1),
                                        rcon |-> RconPort(op.spec.rcon, op.i - 1)]}]

\* The Service has an ingress IP as soon as it exists.
refreshAddress == address' = [address EXCEPT ![map] = RconPort(op.spec.rcon, op.i - 1)]

\* EnsureMapINIConfigMaps, EnsureService and refreshAddress.  A failed read of the user's
\* ConfigMap counts as an empty one.
EnsureMap ==
  /\ op.pc = "ensure" /\ op.i <= Len(op.spec.maps)
  /\ \/ /\ writeINIConfigMap(GusFor(op.spec, map, source))
        /\ UNCHANGED <<cause, faults>>
     \/ /\ "apiErr" \in Faults /\ faults < MaxFaults /\ faults' = faults + 1
        /\ writeINIConfigMap(GusFor(op.spec, map, <<>>))
        /\ cause' = [cause EXCEPT ![map] = IF @ = "none" THEN "fault" ELSE @]
  /\ EnsureService /\ refreshAddress
  /\ op' = [op EXCEPT !.pc = "pod"]
  /\ UNCHANGED <<inputs, pods, draining, edits>>

\* readResourceVersion of the INI file and of the Secrets: from the cache, which may be behind
\* the operator's own write, and 0 (the empty string) for one that cannot be read.
ReadRevisions(rev, secs) ==
  \/ /\ rev = ini[map].rev /\ secs = secrets
     /\ ini' = [ini EXCEPT ![map].read = rev]
     /\ UNCHANGED faults
  \/ /\ "lag" \in Faults /\ rev = ini[map].read /\ rev # ini[map].rev /\ secs = secrets
     /\ faults < MaxFaults /\ faults' = faults + 1
     /\ UNCHANGED ini
  \/ /\ "apiErr" \in Faults /\ faults < MaxFaults /\ faults' = faults + 1
     /\ \/ rev = 0 /\ secs = secrets
        \/ rev = ini[map].rev /\ secs # secrets
     /\ UNCHANGED ini

\* The Secrets as they are, or with one that cannot be read (the user's is only read if it counts).
SecretsRead ==
  {secrets} \cup {[secrets EXCEPT ![name] = 0] : name \in {"own"} \cup (IF op.spec.server THEN {"user"} ELSE {})}

\* The hash that is right now.
DesiredHash == computePodHash(op.spec, op.i, ini[map].rev, secrets)

NewPod(hash) ==
  LET pod == BuildServerPod(op.spec, op.i, ini[map].lines, secrets)
      current == map \in ListedIn(spec) /\ Essence(pod) = Wanted(spec, source, secrets, map)
  IN  /\ pods' = [pods EXCEPT ![map] = {[hash |-> hash, runs |-> pod]}]
      /\ cause' = [cause EXCEPT ![map] = IF ~current THEN "edit"
                                         ELSE IF hash # DesiredHash THEN "fault" ELSE "none"]

\* The hash of this pass, and the pod: created, kept, drained or replaced.
ReconcilePod ==
  /\ op.pc = "pod"
  /\ \E rev \in {ini[map].rev, ini[map].read, 0}, secs \in SecretsRead :
       LET hash == computePodHash(op.spec, op.i, rev, secs)
           Drift == \E pod \in pods[map] : pod.hash # hash
       IN  /\ ReadRevisions(rev, secs)
           /\ \/ /\ pods[map] = {}
                 /\ NewPod(hash)
                 /\ UNCHANGED draining
              \/ /\ pods[map] # {} /\ ~Drift
                 /\ UNCHANGED <<pods, draining, cause>>
              \/ /\ Drift /\ map \notin draining
                 /\ draining' = draining \cup {map}
                 /\ cause' = [cause EXCEPT ![map] =
                                IF @ = "none" /\ hash # DesiredHash THEN "fault" ELSE @]
                 /\ UNCHANGED pods
              \/ /\ Drift /\ map \in draining
                 /\ NewPod(hash)
                 /\ draining' = draining \ {map}
  /\ op' = [op EXCEPT !.pc = "ensure", !.i = @ + 1]
  /\ UNCHANGED <<inputs, service, address, edits>>

\* The end of the pass: what belongs to maps that are not listed any more goes.
Finish ==
  /\ op.pc = "ensure" /\ op.i > Len(op.spec.maps)
  /\ LET Keep(f, none) == [id \in Ids |-> IF id \in ListedIn(op.spec) THEN f[id] ELSE none]
     IN  /\ ini' = Keep(ini, NoINI)
         /\ service' = Keep(service, {})
         /\ address' = Keep(address, 0)
         /\ pods' = Keep(pods, {})
         /\ draining' = draining \cap ListedIn(op.spec)
  /\ op' = Idle
  /\ UNCHANGED <<inputs, cause, edits, faults>>

Pass == Begin \/ EnsureMap \/ ReconcilePod \/ Finish

Next ==
  \/ \E s \in Specs : EditSpec(s)
  \/ \E content \in Contents : EditSource(content)
  \/ \E name \in {"own", "user"} : EditSecret(name)
  \/ Pass

Spec == Init /\ [][Next]_vars

\* Every pass asks for the next one (RequeueAfter), so that edits of ConfigMaps and Secrets are
\* noticed although nobody watches them.
FairSpec == Spec /\ WF_vars(Pass)

-----------------------------------------------------------------------------
(* Properties. *)

\* Admission: in a spec that was let in, no game port of any map is an RCON port of any map.
PortsDisjoint ==
  \A i, j \in 0 .. Len(spec.maps) - 1 : GamePort(spec.game, i) # RconPort(spec.rcon, j)

\* The lines of the first [ServerSettings] section.
ServerSettings(lines) ==
  {lines[i] : i \in {n \in DOMAIN lines :
     \E h \in 1 .. n - 1 :
       /\ lines[h].k = "[ServerSettings]"
       /\ \A g \in 1 .. h - 1 : lines[g].k # "[ServerSettings]"
       /\ \A g \in h + 1 .. n : ~IsHeader(lines[g])}}

\* The lines written for the RCON keys, if read is the user's file: exactly the user's, if
\* [ServerSettings] has any for the key, and else the operator's.
Merged(written, read, port) ==
  \A default \in {Line("RCONEnabled", 1), Line("RCONPort", port)} :
    LET Of(lines) == {l \in ServerSettings(lines) : l.k = default.k}
    IN  IF Of(read) # {} THEN Of(written) = Of(read) ELSE default \in Of(written)

\* Without RCON the probes kill the server and no drain is heard.  In the section where the
\* server looks, every GameUserSettings.ini the operator writes switches RCON on, at the port of
\* the map in the spec of this pass, unless the user's file has a value of its own there: that
\* value is kept, and is not joined by another.  A value in another section does not count, and
\* a file that cannot be read counts as empty.
GusMerged ==
  [][\A id \in Ids : ini'[id].rev > ini[id].rev =>
       Merged(ini'[id].lines, IF faults' > faults THEN <<>> ELSE resolveINI(op.spec, source),
              RconPort(op.spec.rcon, findMapIndex(op.spec, id)))]_vars

\* When the edits are over, every server runs with what spec, ConfigMaps and Secrets say, and its
\* Service and the address the operator dials have the ports it listens on.
EditsReachServers ==
  <>[](\A id \in ListedIn(spec) :
         \E pod \in pods[id], s \in service[id] :
           /\ Essence(pod.runs) = Wanted(spec, source, secrets, id)
           /\ s = [game |-> pod.runs.game, rcon |-> pod.runs.rcon]
           /\ address[id] = pod.runs.rcon)

\* A running server is only replaced if something it should run with was edited, or a read went
\* wrong, since it was started: not for the order of a list, not for placement, not for a map
\* elsewhere in the spec, and not for a pass that finds nothing to do.
RollHasCause ==
  [][\A id \in Ids : pods[id] # {} /\ pods[id]' # pods[id] /\ pods[id]' # {} => cause[id] # "none"]_vars

(* What the code does not promise; no run keeps these. *)

\* Only edits restart servers.  False for failed and late reads.
RollHasEdit ==
  [][\A id \in Ids : pods[id] # {} /\ pods[id]' # pods[id] /\ pods[id]' # {} => cause[id] = "edit"]_vars

\* Every field of the spec reaches the servers.  False for placement and the admin password.
AllEditsReachServers ==
  <>[](\A id \in ListedIn(spec) : \E pod \in pods[id] :
         LET i == findMapIndex(spec, id) + 1
             want == BuildServerPod(spec, i, GusFor(spec, id, source), secrets)
         IN  /\ pod.runs.placement = want.placement
             /\ pod.runs.adminPassword = want.adminPassword)

\* A server is warned at the port it listens on, with the password it knows.  False when either
\* is what the edit changes.
DrainIsHeard ==
  [][\A id \in draining' \ draining : \A pod \in pods[id] :
       /\ address[id] = pod.runs.rcon
       /\ pod.runs.adminPassword = IF op.spec.admin THEN secrets.user ELSE secrets.own]_vars

\* The file says what the Service exposes.  False when the user's file has a port of its own.
GusPort ==
  \A id \in Ids : \A l \in ServerSettings(ini[id].lines) : \A s \in service[id] :
    l.k = "RCONPort" => l.v = s.rcon

\* RCON is on, as the probes require.  False when the user's file switches it off.
RconOn ==
  \A id \in Ids : \A l \in ServerSettings(ini[id].lines) : l.k = "RCONEnabled" => l.v = 1
=============================================================================

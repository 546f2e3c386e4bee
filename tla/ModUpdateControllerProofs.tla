--------------------- MODULE ModUpdateControllerProofs ---------------------
(* Theorems about ModUpdateController: its types, how often it asks CurseForge, and what makes
   it restart servers. *)
EXTENDS ModUpdateController, TLAPS

-----------------------------------------------------------------------------
(* Types. *)

Op == [pc : {"idle", "fetch", "save", "stamp"}, view : Object, fresh : BOOLEAN, changed : BOOLEAN]
Timers == NoTimer .. Interval
Servers == [template : [mods : SUBSET Mods, note : Notes], files : [Mods -> Files]]
Hist == [gap : Ages, base : [Mods -> Files], first : [Mods -> Files],
         lost : BOOLEAN]

LEMMA IntervalType == Interval \in Nat /\ Interval >= 1
BY TicksAssumption DEF Interval

LEMMA TicksType ==
  /\ 0 \in Ages /\ Interval \in Ages /\ \A a \in Ages : a \in Nat /\ a <= Interval
  /\ \A a \in Ages : a < Interval => a + 1 \in Ages
  /\ NoTimer \in Timers /\ Interval \in 0 .. Interval /\ \A a \in Ages : Interval - a \in 0 .. Interval
BY IntervalType DEF Ages, Timers, NoTimer

LEMMA RequeueTyped ==
  ASSUME NEW left \in Timers, NEW d \in 0 .. Interval
  PROVE  Requeue(left, d) \in Timers
BY IntervalType DEF Requeue, Timers, NoTimer

LEMMA PoppedTyped == timer \in Timers => Popped \in Timers
BY TicksType DEF Popped

LEMMA ObjectFields ==
  ASSUME NEW o \in Object
  PROVE  /\ o.on \in BOOLEAN /\ o.lists \in ModLists /\ o.tracked \in [Mods -> TrackedMod]
         /\ o.age \in Ages /\ o.bad \in BOOLEAN /\ o.note \in Notes
BY DEF Object

\* Updates that keep an object an object.
LEMMA ObjectUpdates ==
  ASSUME NEW o \in Object
  PROVE  /\ \A t \in [Mods -> TrackedMod], a \in Ages, b \in BOOLEAN :
              [o EXCEPT !.tracked = t, !.age = a, !.bad = b] \in Object
         /\ \A t \in [Mods -> TrackedMod] : [o EXCEPT !.tracked = t] \in Object
         /\ \A a \in Ages : [o EXCEPT !.age = a] \in Object
         /\ \A b \in BOOLEAN : [o EXCEPT !.bad = b] \in Object
         /\ \A a \in Ages, b \in BOOLEAN : [o EXCEPT !.age = a, !.bad = b] \in Object
         /\ \A t \in [Mods -> TrackedMod], a \in Ages : [o EXCEPT !.tracked = t, !.age = a] \in Object
         /\ \A n \in Notes : [o EXCEPT !.note = n] \in Object
         /\ \A l \in ModLists : [o EXCEPT !.lists = l] \in Object
         /\ [o EXCEPT !.on = ~o.on] \in Object
BY DEF Object

LEMMA OlderTyped == ASSUME NEW o \in Object PROVE Older(o) \in Object
BY ObjectFields, ObjectUpdates, TicksType DEF Older

LEMMA InitObjectTyped == InitObject \in Object /\ Idle \in Op
<1>1. Untracked \in TrackedMod /\ NoNote \in Notes
  BY DEF TrackedMod, Notes, NoNote
<1>2. InitObject \in Object
  BY <1>1, TicksType, ListsAssumption DEF InitObject, Object
<1> QED
  BY <1>2 DEF Idle, Op

LEMMA ListTypes ==
  ASSUME NEW lists \in ModLists
  PROVE  /\ collectModIDs(lists) \subseteq Mods
         /\ \A m \in Maps : modsOf(lists, m) \subseteq Mods
BY ListsAssumption DEF collectModIDs, modsOf

LEMMA ServerTyped ==
  ASSUME NEW o \in Object, NEW m \in Maps, cf \in [Mods -> Files]
  PROVE  Server(o, m) \in Servers
<1>1. modsOf(o.lists, m) \subseteq Mods /\ o.note \in Notes
  BY ObjectFields, ListTypes
<1>2. 0 \in Files
  BY TicksAssumption DEF Files
<1> DEFINE files == [d \in Mods |-> IF d \in modsOf(o.lists, m) THEN cf[d] ELSE 0]
           template == [mods |-> modsOf(o.lists, m), note |-> o.note]
<1>3. files \in [Mods -> Files]
  BY <1>2
<1>4. template \in [mods : SUBSET Mods, note : Notes]
  BY <1>1
<1> QED
  BY <1>3, <1>4 DEF Server, Template, Servers

\* Whatever CurseForge answers, the result is a list of tracked mods.
LEMMA MergeTyped ==
  ASSUME NEW prev \in [Mods -> TrackedMod], NEW info \in [Mods -> Files \cup {Absent}]
  PROVE  mergeModStatus(prev, info) \in [Mods -> TrackedMod]
<1> SUFFICES ASSUME NEW d \in Mods
             PROVE  mergeModStatus(prev, info)[d] \in TrackedMod
  BY DEF mergeModStatus
<1>1. CASE info[d] = Absent
  BY <1>1 DEF mergeModStatus, TrackedMod
<1>2. CASE info[d] # Absent
  <2>1. info[d] \in Files
    BY <1>2
  <2>2. prev[d].installed \in Files \cup {Absent}
    BY DEF TrackedMod, Untracked
  <2> DEFINE i == IF prev[d].installed \in {Absent, 0} THEN info[d] ELSE prev[d].installed
  <2>3. i \in Files
    BY <2>1, <2>2
  <2>4. mergeModStatus(prev, info)[d] = [latest |-> info[d], installed |-> i]
    BY <1>2 DEF mergeModStatus
  <2> QED
    BY <2>1, <2>3, <2>4 DEF TrackedMod
<1> QED
  BY <1>1, <1>2

LEMMA MarkTyped ==
  ASSUME NEW tracked \in [Mods -> TrackedMod]
  PROVE  MarkInstalled(tracked) \in [Mods -> TrackedMod]
<1> SUFFICES ASSUME NEW d \in Mods
             PROVE  [tracked[d] EXCEPT !.installed = tracked[d].latest] \in TrackedMod
  BY DEF MarkInstalled
<1> DEFINE t == tracked[d]
<1>1. t \in [latest : Files, installed : Files] \/ t = Untracked
  BY DEF TrackedMod
<1> HIDE DEF t
<1>2. CASE t \in [latest : Files, installed : Files]
  BY <1>2 DEF TrackedMod, t
<1>3. CASE t = Untracked
  <2>1. [t EXCEPT !.installed = t.latest] = Untracked
    BY <1>3 DEF Untracked
  <2> QED
    BY <2>1 DEF TrackedMod, t
<1> QED
  BY <1>1, <1>2, <1>3

LEMMA HashTyped ==
  ASSUME NEW tracked \in [Mods -> TrackedMod]
  PROVE  hashTracked(tracked) \in Notes
BY DEF hashTracked, Notes, TrackedMod, Untracked

LEMMA ObserveTyped ==
  ASSUME api' \in Object, cache \in Object, NEW q \in BOOLEAN, Observe(q)
  PROVE  cache' \in Object /\ queued' \in BOOLEAN
BY DEF Observe

LEMMA NotedTyped ==
  ASSUME NEW files \in [Mods -> Files], api' \in Object
  PROVE  Noted(files) \in [Mods -> Files]
<1> SUFFICES ASSUME NEW d \in Mods, api'.tracked[d] # Untracked
             PROVE  api'.tracked[d].latest \in Files
  BY DEF Noted
<1>1. api'.tracked[d] \in TrackedMod
  BY DEF Object
<1> QED
  BY <1>1 DEF TrackedMod

\* TypeOK, with the sets above.
Typed ==
  /\ cf \in [Mods -> Files] /\ key \in BOOLEAN
  /\ api \in Object /\ cache \in Object /\ lagging \in BOOLEAN /\ queued \in BOOLEAN
  /\ timer \in Timers /\ op \in Op /\ run \in [Maps -> Servers]
  /\ edits \in 0 .. MaxEdits /\ hist \in Hist

LEMMA TypedIsTypeOK == Typed <=> TypeOK
BY DEF Typed, TypeOK, Timers, Op, Servers, Hist

LEMMA UpdateStatusTyped ==
  ASSUME api \in Object, NEW o \in Object, NEW ok, UpdateStatus(o, ok)
  PROVE  api' \in Object
BY ObjectFields, ObjectUpdates DEF UpdateStatus

LEMMA OutdateTyped ==
  ASSUME op \in Op, Outdate
  PROVE  op' \in Op
BY DEF Outdate, Op

LEMMA TypedPoll ==
  ASSUME Typed, Poll
  PROVE  Typed'
<1> USE DEF Typed
<1>1. Popped \in Timers
  BY PoppedTyped
<1>2. ASSUME NothingToDo
      PROVE  Typed'
  <2>1. timer' \in Timers
    <3>1. cache.age \in Ages
      BY ObjectFields
    <3> QED
      BY <1>1, <1>2, <3>1, TicksType, RequeueTyped DEF NothingToDo
  <2>2. UNCHANGED <<cf, key, api, lagging, op, run, edits, hist>> /\ Observe(FALSE)
    BY <1>2 DEF NothingToDo, Unmoved
  <2>3. cache' \in Object /\ queued' \in BOOLEAN
    BY <2>2, ObserveTyped
  <2> QED
    BY <2>1, <2>2, <2>3
<1>3. ASSUME KeyMissing
      PROVE  Typed'
  <2>1. timer' \in Timers
    BY <1>1, <1>3, TicksType, RequeueTyped DEF KeyMissing
  <2>2. UNCHANGED <<cf, key, lagging, op, run, edits, hist>> /\ Observe(FALSE)
    BY <1>3 DEF KeyMissing, Unmoved
  <2>3. api' \in Object
    <3>1. [cache EXCEPT !.bad = TRUE] \in Object
      BY ObjectUpdates
    <3> QED
      BY <1>3, <3>1, UpdateStatusTyped DEF KeyMissing
  <2>4. cache' \in Object /\ queued' \in BOOLEAN
    BY <2>2, <2>3, ObserveTyped
  <2> QED
    BY <2>1, <2>2, <2>3, <2>4
<1>4. ASSUME StartPoll
      PROVE  Typed'
  <2>1. timer' \in Timers /\ UNCHANGED <<cf, key, api, lagging, run, edits>> /\ Observe(FALSE)
    BY <1>1, <1>4 DEF StartPoll, Unmoved
  <2>2. op' \in Op
    BY <1>4 DEF StartPoll, Op
  <2>3. cache' \in Object /\ queued' \in BOOLEAN
    BY <2>1, ObserveTyped
  <2>4. hist' = [hist EXCEPT !.lost = hist.lost \/ cache.age # api.age]
    BY <1>4 DEF StartPoll
  <2>5. hist' \in Hist
    BY <2>4 DEF Hist
  <2> QED
    BY <2>1, <2>2, <2>3, <2>5
<1>5. ASSUME FetchFiles
      PROVE  Typed'
  <2>1. UNCHANGED <<cf, key, api, lagging, timer, run, edits>> /\ Observe(queued)
    BY <1>5 DEF FetchFiles, Unmoved
  <2>2. hist' = [hist EXCEPT !.gap = 0]
    BY <1>5 DEF FetchFiles
  <2>3. hist' \in Hist
    BY <2>2, TicksType DEF Hist
  <2>4. PICK info \in [Mods -> Files \cup {Absent}] :
          op' = [op EXCEPT !.pc = "save", !.view.tracked = mergeModStatus(op.view.tracked, info),
                           !.view.age = 0, !.changed = ModsChanged(op.view.tracked, info)]
    BY <1>5 DEF FetchFiles, Answers
  <2> DEFINE new == mergeModStatus(op.view.tracked, info)
             view == [op.view EXCEPT !.tracked = new, !.age = 0]
             flag == ModsChanged(op.view.tracked, info)
  <2>5. op.view \in Object /\ op.view.tracked \in [Mods -> TrackedMod]
    BY ObjectFields DEF Op
  <2>6. new \in [Mods -> TrackedMod] /\ flag \in BOOLEAN
    BY <2>5, MergeTyped DEF ModsChanged
  <2>7. op' = [op EXCEPT !.pc = "save", !.view = view, !.changed = flag]
    <3> HIDE DEF new, flag
    <3> QED
      BY <2>4, <2>5 DEF new, flag, Op, Object
  <2>8. view \in Object
    <3> HIDE DEF new
    <3> QED
      BY <2>5, <2>6, ObjectUpdates, TicksType
  <2>9. op' \in Op
    <3> HIDE DEF view, flag
    <3> QED
      BY <2>6, <2>7, <2>8 DEF Op
  <2>10. cache' \in Object /\ queued' \in BOOLEAN
    BY <2>1, ObserveTyped
  <2> QED
    BY <2>1, <2>3, <2>9, <2>10
<1>6. ASSUME FetchFails
      PROVE  Typed'
  <2>1. UNCHANGED <<cf, key, lagging, run, edits>> /\ Observe(queued) /\ op' = Idle
    BY <1>6 DEF FetchFails, Unmoved
  <2>2. PICK ok \in Outcomes(op.fresh) : /\ UpdateStatus([op.view EXCEPT !.age = 0, !.bad = TRUE], ok)
                                         /\ hist' = [hist EXCEPT !.gap = 0, !.lost = ~ok]
    BY <1>6 DEF FetchFails
  <2>3. hist' \in Hist /\ timer' \in Timers
    <3>1. (~ok) \in BOOLEAN
      OBVIOUS
    <3>2. hist' \in Hist
      BY <2>2, <3>1, TicksType DEF Hist
    <3>3. timer' = Requeue(timer, Interval)
      BY <1>6 DEF FetchFails
    <3> QED
      BY <3>2, <3>3, TicksType, RequeueTyped
  <2>4. [op.view EXCEPT !.age = 0, !.bad = TRUE] \in Object
    BY ObjectUpdates, TicksType DEF Op
  <2>5. api' \in Object
    BY <2>2, <2>4, UpdateStatusTyped
  <2>6. cache' \in Object /\ queued' \in BOOLEAN
    BY <2>1, <2>5, ObserveTyped
  <2> QED
    BY <2>1, <2>3, <2>5, <2>6, InitObjectTyped
<1>7. ASSUME SaveTracked
      PROVE  Typed'
  <2>1. UNCHANGED <<cf, key, lagging, run, edits>> /\ Observe(queued)
    BY <1>7 DEF SaveTracked, Unmoved
  <2>2. api' \in Object
    BY <1>7, UpdateStatusTyped DEF SaveTracked, Op
  <2>3. op' \in Op /\ timer' \in Timers
    <3>1. Requeue(timer, Interval) \in Timers /\ Idle \in Op /\ [op EXCEPT !.pc = "stamp"] \in Op
      <4>1. Requeue(timer, Interval) \in Timers
        BY TicksType, RequeueTyped
      <4>2. [op EXCEPT !.pc = "stamp"] \in Op
        BY DEF Op
      <4> QED
        BY <4>1, <4>2, InitObjectTyped
    <3> QED
      BY <1>7, <3>1 DEF SaveTracked
  <2>4. hist' = [hist EXCEPT !.base = Noted(hist.base), !.first = Noted(hist.first),
                              !.lost = ~op.fresh]
    BY <1>7 DEF SaveTracked
  <2>5. Noted(hist.base) \in [Mods -> Files] /\ Noted(hist.first) \in [Mods -> Files]
    BY <2>2, NotedTyped DEF Hist
  <2>6. hist' \in Hist
    <3>1. (~op.fresh) \in BOOLEAN
      OBVIOUS
    <3> QED
      BY <2>4, <2>5, <3>1 DEF Hist
  <2>7. cache' \in Object /\ queued' \in BOOLEAN
    BY <2>1, <2>2, ObserveTyped
  <2> QED
    BY <2>1, <2>2, <2>3, <2>6, <2>7
<1>8. ASSUME StampAnnotation
      PROVE  Typed'
  <2>1. UNCHANGED <<cf, key, lagging, run, edits>> /\ Observe(queued) /\ op' = Idle
    BY <1>8 DEF StampAnnotation, Unmoved
  <2>2. timer' \in Timers
    BY <1>8, TicksType, RequeueTyped DEF StampAnnotation
  <2>3. hashTracked(op.view.tracked) \in Notes
    BY ObjectFields, HashTyped DEF Op
  <2>4. api' = [api EXCEPT !.note = hashTracked(op.view.tracked)]
    BY <1>8 DEF StampAnnotation
  <2>5. api' \in Object /\ api'.note \in Notes
    BY <2>3, <2>4, ObjectUpdates, ObjectFields
  <2> DEFINE base == [d \in Mods |-> IF api'.note[d] > hist.base[d] THEN api'.note[d] ELSE hist.base[d]]
  <2>6. hist' = [hist EXCEPT !.base = base]
    BY <1>8 DEF StampAnnotation
  <2>7. base \in [Mods -> Files]
    <3> SUFFICES ASSUME NEW d \in Mods, api'.note[d] > hist.base[d]
                 PROVE  api'.note[d] \in Files
      BY DEF Hist
    <3>1. hist.base[d] \in Files /\ api'.note[d] \in Files \cup {Absent}
      BY <2>5 DEF Hist, Notes
    <3> QED
      BY <3>1 DEF Files, Absent
  <2>8. hist' \in Hist
    <3> HIDE DEF base
    <3> QED
      BY <2>6, <2>7 DEF Hist
  <2>9. cache' \in Object /\ queued' \in BOOLEAN
    BY <2>1, <2>5, ObserveTyped
  <2> QED
    BY <2>1, <2>2, <2>5, <2>8, <2>9, InitObjectTyped
<1> QED
  BY <1>2, <1>3, <1>4, <1>5, <1>6, <1>7, <1>8 DEF Poll

LEMMA TypedStep ==
  ASSUME Typed, [Next]_vars
  PROVE  Typed'
<1> USE DEF Typed
<1>1. ASSUME NEW m \in Maps, Roll(m)
      PROVE  Typed'
  <2>1. UNCHANGED <<cf, key, lagging, timer, edits, hist>> /\ Observe(queued)
    BY <1>1 DEF Roll
  <2>2. run' = [run EXCEPT ![m] = Server(api, m)]
    BY <1>1 DEF Roll
  <2>3. run' \in [Maps -> Servers]
    BY <2>2, ServerTyped
  <2>4. api' \in Object /\ op' \in Op
    <3>1. [api EXCEPT !.tracked = MarkInstalled(api.tracked)] \in Object
      BY ObjectFields, ObjectUpdates, MarkTyped
    <3>2. api' = [api EXCEPT !.tracked = MarkInstalled(api.tracked)] \/ api' = api
      BY <1>1 DEF Roll
    <3>3. op' = op \/ Outdate
      BY <1>1 DEF Roll
    <3> QED
      BY <3>1, <3>2, <3>3, OutdateTyped
  <2>5. cache' \in Object /\ queued' \in BOOLEAN
    BY <2>1, <2>4, ObserveTyped
  <2> QED
    BY <2>1, <2>3, <2>4, <2>5
<1>2. ASSUME NEW d \in Mods, Release(d)
      PROVE  Typed'
  <2>1. cf' = [cf EXCEPT ![d] = cf[d] + 1] /\ cf[d] < MaxFile
    BY <1>2 DEF Release
  <2>2. cf[d] + 1 \in Files
    <3>1. cf[d] \in Files
      OBVIOUS
    <3> QED
      BY <2>1, <3>1, TicksAssumption DEF Files
  <2>3. cf' \in [Mods -> Files]
    BY <2>1, <2>2
  <2> QED
    BY <1>2, <2>3 DEF Release
<1>3. ASSUME EditCluster
      PROVE  Typed'
  <2>1. UNCHANGED <<cf, key, lagging, timer, run, hist>> /\ Observe(queued) /\ Outdate
    BY <1>3 DEF EditCluster
  <2>2. api' \in Object
    BY <1>3, ObjectUpdates DEF EditCluster
  <2>3. edits' \in 0 .. MaxEdits
    BY <1>3, TicksAssumption DEF EditCluster
  <2>4. cache' \in Object /\ queued' \in BOOLEAN
    BY <2>1, <2>2, ObserveTyped
  <2> QED
    BY <2>1, <2>2, <2>3, <2>4, OutdateTyped
<1>4. ASSUME EditKey
      PROVE  Typed'
  <2>1. edits' \in 0 .. MaxEdits /\ key' \in BOOLEAN
    BY <1>4, TicksAssumption DEF EditKey
  <2> QED
    BY <1>4, <2>1 DEF EditKey
<1>5. ASSUME ForeignWrite
      PROVE  Typed'
  BY <1>5, OutdateTyped DEF ForeignWrite
<1>6. ASSUME Crash
      PROVE  Typed'
  <2>1. hist' = [hist EXCEPT !.gap = Interval]
    BY <1>6 DEF Crash
  <2>2. hist' \in Hist
    BY <2>1, TicksType DEF Hist
  <2> QED
    BY <1>6, <2>2, TicksType, InitObjectTyped DEF Crash
<1>7. ASSUME PatchFails
      PROVE  Typed'
  BY <1>7, InitObjectTyped DEF PatchFails
<1>8. ASSUME FallBehind
      PROVE  Typed'
  BY <1>8 DEF FallBehind
<1>9. ASSUME CatchUp
      PROVE  Typed'
  BY <1>9, ObserveTyped DEF CatchUp
<1>10. ASSUME Tick
       PROVE  Typed'
  <2>1. UNCHANGED <<cf, key, lagging, queued, run, edits>>
    BY <1>10 DEF Tick
  <2>2. api' \in Object /\ cache' \in Object
    BY <1>10, OlderTyped DEF Tick
  <2>3. op' \in Op
    <3>1. op' = [op EXCEPT !.view = Older(op.view)]
      BY <1>10 DEF Tick
    <3>2. Older(op.view) \in Object
      BY OlderTyped DEF Op
    <3> QED
      BY <3>1, <3>2 DEF Op
  <2>4. timer' \in Timers
    BY <1>10, IntervalType DEF Tick, Timers, NoTimer
  <2>5. hist' \in Hist
    <3> DEFINE gap == IF hist.gap < Interval THEN hist.gap + 1 ELSE hist.gap
    <3>1. hist' = [hist EXCEPT !.gap = gap]
      BY <1>10 DEF Tick
    <3>2. gap \in Ages
      BY TicksType DEF Hist
    <3> HIDE DEF gap
    <3> QED
      BY <3>1, <3>2 DEF Hist
  <2> QED
    BY <2>1, <2>2, <2>3, <2>4, <2>5
<1>11. ASSUME UNCHANGED vars
       PROVE  Typed'
  BY <1>11 DEF vars
<1>12. ASSUME SaveFails
       PROVE  Typed'
  <2>1. hist' = [hist EXCEPT !.lost = TRUE]
    BY <1>12 DEF SaveFails
  <2>2. hist' \in Hist
    BY <2>1 DEF Hist
  <2> QED
    BY <1>12, <2>2, InitObjectTyped DEF SaveFails
<1> QED
  BY <1>1, <1>2, <1>3, <1>4, <1>5, <1>6, <1>7, <1>8, <1>9, <1>10, <1>11, <1>12, TypedPoll DEF Next

LEMMA TypedInit == ASSUME Init PROVE Typed
<1>1. cf \in [Mods -> Files]
  BY TicksAssumption DEF Init, Files
<1>2. run \in [Maps -> Servers]
  BY <1>1, InitObjectTyped, ServerTyped DEF Init
<1>3. hist \in Hist
  BY TicksType, TicksAssumption DEF Init, Hist, Files
<1>4. timer \in Timers /\ edits \in 0 .. MaxEdits
  BY TicksType, TicksAssumption DEF Init
<1>5. key \in BOOLEAN /\ lagging \in BOOLEAN /\ queued \in BOOLEAN
  BY DEF Init
<1>6. api \in Object /\ cache \in Object /\ op \in Op
  BY InitObjectTyped DEF Init
<1> QED
  BY <1>1, <1>2, <1>3, <1>4, <1>5, <1>6 DEF Typed

\* Every variable keeps its type whatever CurseForge answers or leaves out, whatever fails and
\* whoever writes in between: mergeModStatus and the marks of a roll never produce half a
\* TrackedMod, RequeueAfter is never negative, and the annotation is only built from files.
THEOREM ModTyping == Spec => []TypeOK
<1>1. Init => Typed
  BY TypedInit
<1>2. Typed /\ [Next]_vars => Typed'
  BY TypedStep
<1> QED
  BY <1>1, <1>2, TypedIsTypeOK, PTL DEF Spec

-----------------------------------------------------------------------------
(* How often CurseForge is asked, whatever fails. *)

\* Unless it was lost, the stored LastCheckTime is at most as old as the last request, and a
\* pass that is due asks an interval after it; between the request and Status().Update the
\* copy carries the time.
Spaced ==
  /\ op.pc \in {"idle", "stamp"} /\ ~hist.lost => api.age <= hist.gap
  /\ op.pc = "fetch" /\ ~hist.lost => hist.gap = Interval
  /\ op.pc = "save" => op.view.age <= hist.gap

PollInv == Typed /\ Spaced

LEMMA SpacedStep ==
  ASSUME Typed, Spaced, [Next]_vars
  PROVE  Spaced'
<1>1. op \in Op /\ op.view \in Object /\ cache \in Object
  BY DEF Typed, Op
<1>2. Idle.pc = "idle"
  BY DEF Idle
<1>3. /\ api \in Object /\ api.age \in Nat /\ api.age <= Interval /\ op.view.age \in Nat /\ op.view.age <= Interval
      /\ hist \in Hist /\ hist.gap \in Nat /\ hist.gap <= Interval /\ Interval \in Nat
  BY <1>1, ObjectFields, TicksType, IntervalType DEF Typed, Hist
<1>4. /\ op.pc \in {"idle", "stamp"} /\ ~hist.lost => api.age <= hist.gap
      /\ op.pc = "fetch" /\ ~hist.lost => hist.gap = Interval
      /\ op.pc = "save" => op.view.age <= hist.gap
  BY DEF Spaced
\* What leaves the times alone.
<1>5. ASSUME api'.age = api.age, hist'.gap = hist.gap, hist'.lost = hist.lost,
             op'.pc = op.pc, op'.view = op.view
      PROVE  Spaced'
  BY <1>4, <1>5 DEF Spaced
<1>5a. ASSUME Outdate
       PROVE  op'.pc = op.pc /\ op'.view = op.view
  BY <1>1, <1>5a DEF Outdate, Op
<1>6. ASSUME NothingToDo \/ KeyMissing
      PROVE  Spaced'
  <2>1. UNCHANGED <<op, hist>>
    BY <1>6 DEF NothingToDo, KeyMissing
  <2>2. CASE NothingToDo
    BY <1>5, <2>1, <2>2 DEF NothingToDo
  <2>3. CASE KeyMissing
    <3> DEFINE o == [cache EXCEPT !.bad = TRUE]
    <3>1. o.age = cache.age
      BY <1>1 DEF Object
    <3>2. PICK ok \in Outcomes(cache = api) : UpdateStatus(o, ok)
      BY <2>3 DEF KeyMissing
    <3> HIDE DEF o
    <3>3. ok => cache = api
      BY DEF Outcomes
    <3>4. api'.age = api.age
      BY <1>3, <3>1, <3>2, <3>3 DEF UpdateStatus, Object
    <3> QED
      BY <1>5, <2>1, <3>4
  <2> QED
    BY <1>6, <2>2, <2>3
<1>7. ASSUME StartPoll
      PROVE  Spaced'
  <2>1. op'.pc = "fetch" /\ op.pc = "idle" /\ cache.age = Interval
    BY <1>7 DEF StartPoll, Dequeue
  <2>2. hist'.gap = hist.gap /\ hist'.lost = (hist.lost \/ cache.age # api.age)
    BY <1>3, <1>7 DEF StartPoll, Hist
  <2>3. ~hist'.lost => ~hist.lost /\ cache.age = api.age
    BY <2>2, Zenon
  <2> QED
    BY <1>3, <1>4, <2>1, <2>2, <2>3 DEF Spaced
<1>8. ASSUME FetchFiles
      PROVE  Spaced'
  <2>1. hist'.gap = 0 /\ op'.pc = "save" /\ op'.view.age = 0
    <3>1. hist'.gap = 0
      BY <1>3, <1>8 DEF FetchFiles, Hist
    <3>2. PICK new, flag : op' = [op EXCEPT !.pc = "save", !.view.tracked = new, !.view.age = 0,
                                            !.changed = flag]
      BY <1>8 DEF FetchFiles
    <3> QED
      BY <1>1, <3>1, <3>2 DEF Op, Object
  <2> QED
    BY <2>1 DEF Spaced
<1>9. ASSUME FetchFails
      PROVE  Spaced'
  <2>1. op'.pc = "idle"
    BY <1>2, <1>9 DEF FetchFails
  <2> DEFINE o == [op.view EXCEPT !.age = 0, !.bad = TRUE]
  <2>2. o.age = 0
    BY <1>1 DEF Object
  <2>3. PICK ok \in Outcomes(op.fresh) : /\ UpdateStatus(o, ok)
                                         /\ hist' = [hist EXCEPT !.gap = 0, !.lost = ~ok]
    BY <1>9 DEF FetchFails
  <2> HIDE DEF o
  <2>4. ok => api'.age = 0
    BY <1>3, <2>2, <2>3 DEF UpdateStatus, Object
  <2>5. hist'.gap = 0 /\ hist'.lost = ~ok
    BY <1>3, <2>3 DEF Hist
  <2>6. ~hist'.lost => ok
    BY <2>5, Zenon
  <2> QED
    BY <2>1, <2>4, <2>5, <2>6 DEF Spaced
<1>10. ASSUME SaveTracked
       PROVE  Spaced'
  <2>1. op.pc = "save" /\ UpdateStatus(op.view, op.fresh) /\ op'.pc \in {"idle", "stamp"}
    BY <1>1, <1>2, <1>10 DEF SaveTracked, Op
  <2>2. op.fresh => api'.age = op.view.age
    BY <1>3, <2>1 DEF UpdateStatus, Object
  <2>3. hist'.gap = hist.gap /\ hist'.lost = ~op.fresh
    BY <1>3, <1>10 DEF SaveTracked, Hist
  <2> QED
    BY <1>4, <2>1, <2>2, <2>3 DEF Spaced
<1>11. ASSUME StampAnnotation
       PROVE  Spaced'
  <2>1. api'.age = api.age /\ hist'.gap = hist.gap /\ hist'.lost = hist.lost /\ op.pc = "stamp" /\ op'.pc = "idle"
    BY <1>2, <1>3, <1>11 DEF StampAnnotation, Object, Hist
  <2> QED
    BY <1>4, <2>1 DEF Spaced
<1>12. ASSUME NEW m \in Maps, Roll(m)
       PROVE  Spaced'
  <2>1. (op' = op \/ Outdate) /\ UNCHANGED hist
    BY <1>12 DEF Roll
  <2>2. api'.age = api.age
    BY <1>3, <1>12 DEF Roll, Object
  <2> QED
    BY <1>5, <1>5a, <2>1, <2>2
<1>13. ASSUME EditCluster
       PROVE  Spaced'
  <2>1. Outdate /\ UNCHANGED hist
    BY <1>13 DEF EditCluster
  <2>2. api'.age = api.age
    BY <1>3, <1>13 DEF EditCluster, Object
  <2> QED
    BY <1>5, <1>5a, <2>1, <2>2
<1>14. ASSUME (\E d \in Mods : Release(d)) \/ EditKey \/ UNCHANGED vars
       PROVE  Spaced'
  BY <1>5, <1>14 DEF Release, EditKey, vars
<1>15. ASSUME ForeignWrite \/ FallBehind \/ CatchUp
       PROVE  Spaced'
  <2>1. (op' = op \/ Outdate) /\ UNCHANGED <<api, hist>>
    BY <1>15 DEF ForeignWrite, FallBehind, CatchUp
  <2> QED
    BY <1>5, <1>5a, <2>1
<1>16. ASSUME Crash
       PROVE  Spaced'
  <2>1. hist'.gap = Interval /\ op'.pc = "idle" /\ api' = api
    BY <1>2, <1>3, <1>16 DEF Crash, Hist
  <2> QED
    BY <1>3, <2>1 DEF Spaced
<1>17. ASSUME PatchFails
       PROVE  Spaced'
  <2>1. op.pc = "stamp" /\ op'.pc = "idle" /\ UNCHANGED <<api, hist>>
    BY <1>2, <1>17 DEF PatchFails
  <2> QED
    BY <1>4, <2>1 DEF Spaced
<1>18. ASSUME Tick
       PROVE  Spaced'
  <2> DEFINE Up(a) == IF a < Interval THEN a + 1 ELSE a
  <2>1. op'.pc = op.pc /\ op'.view = Older(op.view) /\ api' = Older(api)
    BY <1>1, <1>18 DEF Tick, Op
  <2>2. api'.age = Up(api.age) /\ op'.view.age = Up(op.view.age)
    BY <1>1, <1>3, <2>1 DEF Older, Object
  <2>3. hist'.gap = Up(hist.gap) /\ hist'.lost = hist.lost
    BY <1>3, <1>18 DEF Tick, Hist
  <2> QED
    BY <1>3, <1>4, <2>1, <2>2, <2>3 DEF Spaced
<1>19. ASSUME SaveFails
       PROVE  Spaced'
  <2>1. op'.pc = "idle" /\ hist'.lost
    BY <1>2, <1>3, <1>19 DEF SaveFails, Hist
  <2> QED
    BY <2>1 DEF Spaced
<1> QED
  BY <1>6, <1>7, <1>8, <1>9, <1>10, <1>11, <1>12, <1>13, <1>14, <1>15, <1>16, <1>17, <1>18, <1>19 DEF Next, Poll

LEMMA PollAlways == Spec => []PollInv
<1>1. Init => PollInv
  <2> SUFFICES ASSUME Init PROVE PollInv
    OBVIOUS
  <2>1. op.pc = "idle" /\ api.age = Interval /\ hist.gap = Interval
    BY DEF Init, Idle, InitObject
  <2>2. Spaced
    BY <2>1, IntervalType DEF Spaced
  <2> QED
    BY <2>2, TypedInit DEF PollInv
<1>2. PollInv /\ [Next]_vars => PollInv'
  BY TypedStep, SpacedStep DEF PollInv
<1> QED
  BY <1>1, <1>2, PTL DEF Spec

\* The guard on LastCheckTime spaces the requests of one operator process to CurseForge, for
\* every interval, any number of mods and maps and whatever fails: two of them come closer than
\* an interval only after a Status().Update that conflicted or failed, or when the informer had
\* not delivered the LastCheckTime.  Failed polls, failed patches, rolls, edits, writes of other
\* fields in between and a controller that is switched off and on do not bring them closer.
THEOREM PollsAreSpaced == Spec => PollSpacing
<1>1. PollInv /\ [Next]_vars => [FetchFiles \/ FetchFails => hist.gap = Interval \/ hist.lost]_vars
  BY DEF PollInv, Spaced, FetchFiles, FetchFails
<1> QED
  BY <1>1, PollAlways, PTL DEF Spec, PollSpacing

-----------------------------------------------------------------------------
(* What restarts servers: when no write of somebody else falls into a pass ("race") and the
   informer is not behind its own writes ("lag"). *)

InStep == ~lagging /\ cache = api /\ (op.pc # "idle" => op.fresh)

\* A mod is tracked at a file between the one at which its tracking began, or that the
\* annotation carries, and the newest.
Between ==
  \A d \in Mods : api.tracked[d] # Untracked =>
    hist.base[d] <= api.tracked[d].latest /\ api.tracked[d].latest <= cf[d]

\* What the poll under way found is not older than what is stored.
Advances ==
  /\ op.pc = "fetch" => op.view.tracked = api.tracked
  /\ op.pc = "save" =>
       /\ \A d \in Mods : op.view.tracked[d] # Untracked =>
            /\ op.view.tracked[d].latest <= cf[d]
            /\ api.tracked[d] # Untracked =>
                 api.tracked[d].latest <= op.view.tracked[d].latest
       /\ op.changed =>
            \E d \in Mods : /\ api.tracked[d] # Untracked /\ op.view.tracked[d] # Untracked
                            /\ op.view.tracked[d].latest > api.tracked[d].latest
  /\ op.pc = "stamp" =>
       /\ op.view.tracked = api.tracked
       /\ \E d \in Mods : op.view.tracked[d].latest > hist.base[d]

FileInv == Typed /\ InStep /\ Between /\ Advances

LEMMA InSync ==
  ASSUME ~lagging, UNCHANGED lagging, NEW q, Observe(q)
  PROVE  ~lagging' /\ cache' = api'
BY DEF Observe

LEMMA InStepStep ==
  ASSUME {"race", "lag"} \cap Faults = {}, Typed, InStep, [Next]_vars
  PROVE  InStep'
<1>1. ~lagging /\ cache = api /\ (op.pc # "idle" => op.fresh) /\ op \in Op
  BY DEF InStep, Typed
<1>2. Idle.pc = "idle" /\ "race" \notin Faults /\ "lag" \notin Faults
  BY DEF Idle
<1>3. ASSUME NothingToDo \/ KeyMissing
      PROVE  InStep'
  <2>1. UNCHANGED <<lagging, op>> /\ Observe(FALSE)
    BY <1>3 DEF NothingToDo, KeyMissing, Unmoved
  <2> QED
    BY <1>1, <2>1, InSync DEF InStep
<1>4. ASSUME StartPoll
      PROVE  InStep'
  <2>1. UNCHANGED lagging /\ Observe(FALSE) /\ op'.fresh = (cache = api)
    BY <1>4 DEF StartPoll, Unmoved
  <2> QED
    BY <1>1, <2>1, InSync DEF InStep
<1>5. ASSUME FetchFiles
      PROVE  InStep'
  <2>1. UNCHANGED lagging /\ Observe(queued) /\ op'.fresh = op.fresh /\ op.pc # "idle"
    BY <1>1, <1>5 DEF FetchFiles, Unmoved, Op
  <2> QED
    BY <1>1, <2>1, InSync DEF InStep
<1>6. ASSUME FetchFails \/ StampAnnotation
      PROVE  InStep'
  <2>1. UNCHANGED lagging /\ Observe(queued) /\ op' = Idle
    BY <1>6 DEF FetchFails, StampAnnotation, Unmoved
  <2> QED
    BY <1>1, <1>2, <2>1, InSync DEF InStep
<1>7. ASSUME SaveTracked
      PROVE  InStep'
  <2>1. UNCHANGED lagging /\ Observe(queued) /\ (op' = Idle \/ op'.fresh = op.fresh) /\ op.pc # "idle"
    BY <1>1, <1>7 DEF SaveTracked, Unmoved, Op
  <2> QED
    BY <1>1, <1>2, <2>1, InSync DEF InStep
<1>8. ASSUME NEW m \in Maps, Roll(m)
      PROVE  InStep'
  <2>1. UNCHANGED lagging /\ Observe(queued) /\ op.pc = "idle" /\ (op' = op \/ Outdate)
    BY <1>2, <1>8 DEF Roll, Undisturbed
  <2> QED
    BY <1>1, <2>1, InSync DEF InStep, Outdate
<1>9. ASSUME EditCluster
      PROVE  InStep'
  <2>1. UNCHANGED lagging /\ Observe(queued) /\ op.pc = "idle" /\ Outdate
    BY <1>2, <1>9 DEF EditCluster, Undisturbed
  <2> QED
    BY <1>1, <2>1, InSync DEF InStep, Outdate
<1>10. ASSUME (\E d \in Mods : Release(d)) \/ EditKey \/ UNCHANGED vars
       PROVE  InStep'
  BY <1>1, <1>10 DEF Release, EditKey, vars, InStep
<1>11. ASSUME ForeignWrite \/ FallBehind \/ CatchUp
       PROVE  FALSE
  BY <1>1, <1>2, <1>11 DEF ForeignWrite, FallBehind, CatchUp
<1>12. ASSUME Crash \/ SaveFails \/ PatchFails
       PROVE  InStep'
  BY <1>1, <1>2, <1>12 DEF Crash, SaveFails, PatchFails, InStep
<1>13. ASSUME Tick
       PROVE  InStep'
  <2>1. op'.pc = op.pc /\ op'.fresh = op.fresh /\ UNCHANGED lagging
    BY <1>1, <1>13 DEF Tick, Op
  <2>2. cache' = api'
    BY <1>1, <1>13 DEF Tick
  <2> QED
    BY <1>1, <2>1, <2>2 DEF InStep
<1> QED
  BY <1>3, <1>4, <1>5, <1>6, <1>7, <1>8, <1>9, <1>10, <1>11, <1>12, <1>13 DEF Next, Poll

LEMMA QuietInit == Init => InStep
BY DEF Init, InStep, Idle

\* A complete answer is made of the newest files.
LEMMA AnswerIsNewest ==
  ASSUME "omit" \notin Faults, NEW ids, NEW info \in Answers(ids)
  PROVE  info \in [Mods -> Files \cup {Absent}] /\ \A d \in Mods : info[d] \in {cf[d], Absent}
BY DEF Answers

LEMMA MergeFacts ==
  ASSUME NEW prev, NEW info, NEW d \in Mods
  PROVE  /\ info[d] = Absent => mergeModStatus(prev, info)[d] = Untracked
         /\ info[d] # Absent => /\ mergeModStatus(prev, info)[d].latest = info[d]
                                /\ mergeModStatus(prev, info)[d] # Untracked
BY DEF mergeModStatus, Untracked

LEMMA MarkFacts ==
  ASSUME NEW tracked \in [Mods -> TrackedMod], NEW d \in Mods
  PROVE  /\ MarkInstalled(tracked)[d].latest = tracked[d].latest
         /\ MarkInstalled(tracked)[d] # Untracked => tracked[d] # Untracked
<1>1. tracked[d] \in [latest : Files, installed : Files] \/ tracked[d] = Untracked
  BY DEF TrackedMod
<1>2. MarkInstalled(tracked)[d] = [tracked[d] EXCEPT !.installed = tracked[d].latest]
  BY DEF MarkInstalled
<1> QED
  BY <1>1, <1>2 DEF Untracked

LEMMA FilesStep ==
  ASSUME {"race", "lag", "omit"} \cap Faults = {}, Typed, InStep, Between, Advances, [Next]_vars
  PROVE  Between' /\ Advances'
<1>1. ~lagging /\ cache = api /\ (op.pc # "idle" => op.fresh) /\ op \in Op /\ op.view \in Object
  BY DEF InStep, Typed, Op
<1>2. Idle.pc = "idle" /\ "race" \notin Faults /\ "lag" \notin Faults /\ "omit" \notin Faults
  BY DEF Idle
<1>3. /\ api \in Object /\ api.tracked \in [Mods -> TrackedMod] /\ op.view.tracked \in [Mods -> TrackedMod]
      /\ hist \in Hist /\ cf \in [Mods -> Files] /\ hist.base \in [Mods -> Files]
  BY <1>1, ObjectFields DEF Typed, Hist
<1>4. \A d \in Mods : /\ cf[d] \in Int /\ hist.base[d] \in Int /\ api.tracked[d].latest \in Int
                      /\ op.view.tracked[d].latest \in Int
  BY <1>3 DEF TrackedMod, Untracked, Files, Absent
\* What leaves the files alone, and ends the pass or does not.
<1>5. ASSUME api'.tracked = api.tracked, hist'.base = hist.base, cf' = cf, op'.pc = "idle"
      PROVE  Between' /\ Advances'
  BY <1>5 DEF Between, Advances
<1>6. ASSUME api'.tracked = api.tracked, hist'.base = hist.base, cf' = cf, op'.pc = op.pc,
             op'.view.tracked = op.view.tracked, op'.changed = op.changed
      PROVE  Between' /\ Advances'
  BY <1>6 DEF Between, Advances
<1>7. ASSUME NothingToDo \/ KeyMissing
      PROVE  Between' /\ Advances'
  <2>1. UNCHANGED <<op, hist, cf>>
    BY <1>7 DEF NothingToDo, KeyMissing, Unmoved
  <2>2. CASE NothingToDo
    BY <1>6, <2>1, <2>2 DEF NothingToDo
  <2>3. CASE KeyMissing
    <3> DEFINE o == [cache EXCEPT !.bad = TRUE]
    <3>1. o.tracked = api.tracked
      BY <1>1, <1>3 DEF Object
    <3>2. PICK ok : UpdateStatus(o, ok)
      BY <2>3 DEF KeyMissing
    <3> HIDE DEF o
    <3>3. api'.tracked = api.tracked
      BY <1>3, <3>1, <3>2 DEF UpdateStatus, Object
    <3> QED
      BY <1>6, <2>1, <3>3
  <2> QED
    BY <1>7, <2>2, <2>3
<1>8. ASSUME StartPoll
      PROVE  Between' /\ Advances'
  <2>1. UNCHANGED <<api, cf>> /\ op'.pc = "fetch" /\ op'.view = api /\ hist'.base = hist.base
    BY <1>1, <1>3, <1>8 DEF StartPoll, Unmoved, Hist
  <2> QED
    BY <2>1 DEF Between, Advances
<1>9. ASSUME FetchFiles
      PROVE  Between' /\ Advances'
  <2>1. op.pc = "fetch" /\ op.view.tracked = api.tracked /\ UNCHANGED <<api, cf>>
    BY <1>9 DEF FetchFiles, Unmoved, Advances
  <2>2. hist'.base = hist.base
    BY <1>3, <1>9 DEF FetchFiles, Hist
  <2>3. PICK info \in Answers(collectModIDs(op.view.lists)) :
          op' = [op EXCEPT !.pc = "save", !.view.tracked = mergeModStatus(op.view.tracked, info),
                           !.view.age = 0, !.changed = ModsChanged(op.view.tracked, info)]
    BY <1>9 DEF FetchFiles
  <2>4. \A d \in Mods : info[d] \in {cf[d], Absent}
    BY <1>2, AnswerIsNewest
  <2> DEFINE new == mergeModStatus(op.view.tracked, info)
             flag == ModsChanged(op.view.tracked, info)
  <2>5. op'.pc = "save" /\ op'.view.tracked = new /\ op'.changed = flag
    <3> HIDE DEF new, flag
    <3> QED
      BY <1>1, <2>3 DEF Op, Object, new, flag
  <2>6. \A d \in Mods : /\ info[d] = Absent => new[d] = Untracked
                        /\ info[d] # Absent => new[d].latest = info[d] /\ new[d] # Untracked
    BY MergeFacts
  <2> HIDE DEF new
  <2>7. \A d \in Mods : new[d] # Untracked =>
          new[d].latest <= cf[d] /\ (api.tracked[d] # Untracked => api.tracked[d].latest <= new[d].latest)
    BY <1>4, <2>4, <2>6 DEF Between
  <2>8. flag => \E d \in Mods : /\ api.tracked[d] # Untracked /\ new[d] # Untracked
                                /\ new[d].latest > api.tracked[d].latest
    <3> SUFFICES ASSUME flag
                 PROVE  \E d \in Mods : /\ api.tracked[d] # Untracked /\ new[d] # Untracked
                                        /\ new[d].latest > api.tracked[d].latest
      OBVIOUS
    <3>1. PICK d \in Mods : info[d] # Absent /\ api.tracked[d] # Untracked /\ api.tracked[d].latest # info[d]
      BY <2>1 DEF ModsChanged
    <3>2. new[d] # Untracked /\ new[d].latest = cf[d] /\ cf[d] # api.tracked[d].latest
      BY <2>4, <2>6, <3>1
    <3>3. api.tracked[d].latest <= cf[d]
      BY <3>1 DEF Between
    <3> QED
      BY <1>4, <3>1, <3>2, <3>3
  <2> HIDE DEF flag
  <2>9. Between'
    BY <2>1, <2>2 DEF Between
  <2>10. Advances'
    BY <2>1, <2>5, <2>7, <2>8 DEF Advances
  <2> QED
    BY <2>9, <2>10
<1>10. ASSUME FetchFails
       PROVE  Between' /\ Advances'
  <2>1. op.pc = "fetch" /\ op.view.tracked = api.tracked /\ UNCHANGED cf /\ op'.pc = "idle"
    BY <1>1, <1>2, <1>10 DEF FetchFails, Unmoved, Advances
  <2> DEFINE o == [op.view EXCEPT !.age = 0, !.bad = TRUE]
  <2>2. o.tracked = op.view.tracked
    BY <1>1 DEF Object
  <2>3. PICK ok \in Outcomes(op.fresh) : /\ UpdateStatus(o, ok)
                                         /\ hist' = [hist EXCEPT !.gap = 0, !.lost = ~ok]
    BY <1>10 DEF FetchFails
  <2> HIDE DEF o
  <2>4. api'.tracked = api.tracked
    BY <1>3, <2>1, <2>2, <2>3 DEF UpdateStatus, Object
  <2>5. hist'.base = hist.base
    BY <1>3, <2>3 DEF Hist
  <2> QED
    BY <1>5, <2>1, <2>4, <2>5
<1>11. ASSUME SaveTracked
       PROVE  Between' /\ Advances'
  <2>1. op.fresh /\ op.pc = "save" /\ UpdateStatus(op.view, op.fresh) /\ UNCHANGED cf
    BY <1>1, <1>11 DEF SaveTracked, Unmoved
  <2>2. api'.tracked = op.view.tracked
    BY <1>3, <2>1 DEF UpdateStatus, Object
  <2>3. hist'.base = Noted(hist.base)
    BY <1>3, <1>11 DEF SaveTracked, Hist
  <2>4. \A d \in Mods :
          hist'.base[d] = IF api.tracked[d] = Untracked /\ op.view.tracked[d] # Untracked
                          THEN op.view.tracked[d].latest ELSE hist.base[d]
    BY <2>2, <2>3 DEF Noted
  <2>5. \A d \in Mods : op.view.tracked[d] # Untracked =>
          /\ op.view.tracked[d].latest <= cf[d]
          /\ api.tracked[d] # Untracked => api.tracked[d].latest <= op.view.tracked[d].latest
    BY <2>1 DEF Advances
  <2>6. \A d \in Mods : op.view.tracked[d] # Untracked =>
          hist'.base[d] <= op.view.tracked[d].latest /\ op.view.tracked[d].latest <= cf[d]
    BY <1>4, <2>4, <2>5 DEF Between
  <2>7. Between'
    BY <2>1, <2>2, <2>6 DEF Between
  <2>8. CASE op.changed
    <3>1. op'.pc = "stamp" /\ op'.view = op.view
      BY <1>1, <1>11, <2>8 DEF SaveTracked, Op
    <3>2. PICK d \in Mods : /\ api.tracked[d] # Untracked /\ op.view.tracked[d] # Untracked
                            /\ op.view.tracked[d].latest > api.tracked[d].latest
      BY <2>1, <2>8 DEF Advances
    <3>3. hist.base[d] <= api.tracked[d].latest /\ hist'.base[d] = hist.base[d]
      BY <2>4, <3>2 DEF Between
    <3>4. op.view.tracked[d].latest > hist'.base[d]
      BY <1>4, <3>2, <3>3
    <3> QED
      BY <2>2, <2>7, <3>1, <3>4 DEF Advances
  <2>9. CASE ~op.changed
    <3>1. op'.pc = "idle"
      BY <1>2, <1>11, <2>9 DEF SaveTracked
    <3> QED
      BY <2>7, <3>1 DEF Advances
  <2> QED
    BY <2>8, <2>9
<1>12. ASSUME StampAnnotation
       PROVE  Between' /\ Advances'
  <2>1. op.pc = "stamp" /\ op'.pc = "idle" /\ UNCHANGED cf /\ op.view.tracked = api.tracked
    BY <1>2, <1>12 DEF StampAnnotation, Unmoved, Advances
  <2>2. api'.tracked = api.tracked /\ api'.note = hashTracked(op.view.tracked)
    BY <1>3, <1>12 DEF StampAnnotation, Object
  <2>3. \A d \in Mods : api'.note[d] = api.tracked[d].latest
    BY <2>1, <2>2 DEF hashTracked
  <2>4. hist'.base = [d \in Mods |-> IF api'.note[d] > hist.base[d] THEN api'.note[d] ELSE hist.base[d]]
    BY <1>3, <1>12 DEF StampAnnotation, Hist
  <2>5. \A d \in Mods : hist'.base[d] \in {api.tracked[d].latest, hist.base[d]}
    BY <2>3, <2>4
  <2>6. Between'
    BY <1>4, <2>1, <2>2, <2>5 DEF Between
  <2> QED
    BY <2>1, <2>6 DEF Advances
<1>13. ASSUME NEW m \in Maps, Roll(m)
       PROVE  Between' /\ Advances'
  <2>1. op.pc = "idle" /\ (op' = op \/ Outdate) /\ UNCHANGED <<hist, cf>>
    BY <1>2, <1>13 DEF Roll, Undisturbed
  <2>2. op'.pc = "idle"
    BY <2>1 DEF Outdate
  <2>3. api'.tracked = MarkInstalled(api.tracked) \/ api'.tracked = api.tracked
    BY <1>3, <1>13 DEF Roll, Object
  <2>4. \A d \in Mods : /\ api'.tracked[d].latest = api.tracked[d].latest
                        /\ api'.tracked[d] # Untracked => api.tracked[d] # Untracked
    BY <1>3, <2>3, MarkFacts
  <2>5. Between'
    BY <2>1, <2>4 DEF Between
  <2> QED
    BY <2>2, <2>5 DEF Advances
<1>14. ASSUME EditCluster
       PROVE  Between' /\ Advances'
  <2>1. op.pc = "idle" /\ Outdate /\ UNCHANGED <<hist, cf>>
    BY <1>2, <1>14 DEF EditCluster, Undisturbed
  <2>2. api'.tracked = api.tracked
    BY <1>3, <1>14 DEF EditCluster, Object
  <2> QED
    BY <1>5, <2>1, <2>2 DEF Outdate
<1>15. ASSUME NEW e \in Mods, Release(e)
       PROVE  Between' /\ Advances'
  <2>1. cf' = [cf EXCEPT ![e] = cf[e] + 1] /\ UNCHANGED <<api, op, hist>>
    BY <1>15 DEF Release
  <2>2. \A d \in Mods : cf[d] <= cf'[d] /\ cf'[d] \in Int
    BY <1>3, <1>4, <2>1
  <2>3. Between'
    BY <1>4, <2>1, <2>2 DEF Between
  <2>4. Advances'
    BY <1>4, <2>1, <2>2 DEF Advances
  <2> QED
    BY <2>3, <2>4
<1>16. ASSUME EditKey \/ UNCHANGED vars
       PROVE  Between' /\ Advances'
  BY <1>6, <1>16 DEF EditKey, vars
<1>17. ASSUME ForeignWrite \/ FallBehind \/ CatchUp
       PROVE  FALSE
  BY <1>1, <1>2, <1>17 DEF ForeignWrite, FallBehind, CatchUp
<1>18. ASSUME Crash \/ SaveFails \/ PatchFails
       PROVE  Between' /\ Advances'
  <2>1. op'.pc = "idle" /\ UNCHANGED <<api, cf>>
    BY <1>2, <1>18 DEF Crash, SaveFails, PatchFails
  <2>2. hist'.base = hist.base
    BY <1>3, <1>18 DEF Crash, SaveFails, PatchFails, Hist
  <2> QED
    BY <1>5, <2>1, <2>2
<1>19. ASSUME Tick
       PROVE  Between' /\ Advances'
  <2>1. /\ op'.pc = op.pc /\ op'.view = Older(op.view) /\ op'.changed = op.changed
        /\ api' = Older(api) /\ cf' = cf
    BY <1>1, <1>19 DEF Tick, Op
  <2>2. api'.tracked = api.tracked /\ op'.view.tracked = op.view.tracked
    BY <1>1, <1>3, <2>1 DEF Older, Object
  <2>3. hist'.base = hist.base
    BY <1>3, <1>19 DEF Tick, Hist
  <2> QED
    BY <1>6, <2>1, <2>2, <2>3
<1> QED
  BY <1>7, <1>8, <1>9, <1>10, <1>11, <1>12, <1>13, <1>14, <1>15, <1>16, <1>17, <1>18, <1>19 DEF Next, Poll

\* Only the Patch writes the annotation.
LEMMA OnlyPatchStamps ==
  ASSUME Typed, [Next]_vars, api'.note # api.note
  PROVE  StampAnnotation
<1>1. api \in Object
  BY DEF Typed
<1>2. ASSUME NEW o, NEW ok, UpdateStatus(o, ok) PROVE api'.note = api.note
  BY <1>1, <1>2 DEF UpdateStatus, Object
<1>3. ASSUME NothingToDo \/ StartPoll \/ FetchFiles PROVE FALSE
  BY <1>3 DEF NothingToDo, StartPoll, FetchFiles
<1>4. ASSUME KeyMissing \/ FetchFails \/ SaveTracked PROVE FALSE
  BY <1>2, <1>4 DEF KeyMissing, FetchFails, SaveTracked
<1>5. ASSUME NEW m \in Maps, Roll(m) PROVE FALSE
  BY <1>1, <1>5 DEF Roll, Object
<1>6. ASSUME EditCluster PROVE FALSE
  BY <1>1, <1>6 DEF EditCluster, Object
<1>7. ASSUME (\E d \in Mods : Release(d)) \/ EditKey \/ ForeignWrite \/ Crash \/ SaveFails \/ PatchFails
               \/ FallBehind \/ CatchUp \/ UNCHANGED vars
      PROVE  FALSE
  BY <1>7 DEF Release, EditKey, ForeignWrite, Crash, SaveFails, PatchFails, FallBehind, CatchUp, vars
<1>8. ASSUME Tick PROVE FALSE
  BY <1>1, <1>8 DEF Tick, Older, Object
<1> QED
  BY <1>3, <1>4, <1>5, <1>6, <1>7, <1>8 DEF Next, Poll

\* A poll moves the annotation, which is part of every pod template hash, only when a mod has a
\* file newer than the one at which its tracking began and than any the annotation carried:
\* a mod that is new in the spec, one that is dropped and comes back, a failed poll, a crash
\* between Status().Update and Patch, or the marks of a roll never restart the servers.  Without
\* the hypothesis it is false: conflicts and an informer that is behind make a pass compare with
\* an old list, and an answer without a latest file counts as another file.
THEOREM RollsForNewFiles ==
  {"race", "lag", "omit"} \cap Faults = {} => (Spec => RollOnlyForNewFile)
<1> SUFFICES ASSUME {"race", "lag", "omit"} \cap Faults = {}
             PROVE  Spec => RollOnlyForNewFile
  OBVIOUS
<1>1. Init => FileInv
  <2> SUFFICES ASSUME Init PROVE FileInv
    OBVIOUS
  <2>1. op.pc = "idle" /\ api.tracked = [d \in Mods |-> Untracked]
    BY DEF Init, Idle, InitObject
  <2>2. Between /\ Advances
    BY <2>1 DEF Between, Advances
  <2> QED
    BY <2>2, TypedInit, QuietInit DEF FileInv
<1>2. FileInv /\ [Next]_vars => FileInv'
  <2>1. {"race", "lag"} \cap Faults = {}
    OBVIOUS
  <2> QED
    BY <2>1, TypedStep, InStepStep, FilesStep DEF FileInv
<1>3. FileInv /\ [Next]_vars
        => [api'.note # api.note => \E d \in Mods : api'.note[d] > hist.base[d]]_vars
  <2> SUFFICES ASSUME FileInv, [Next]_vars, api'.note # api.note
               PROVE  \E d \in Mods : api'.note[d] > hist.base[d]
    OBVIOUS
  <2>1. StampAnnotation /\ api \in Object
    BY OnlyPatchStamps DEF FileInv, Typed
  <2>2. api'.note = hashTracked(op.view.tracked)
    BY <2>1 DEF StampAnnotation, Object
  <2>3. PICK d \in Mods : op.view.tracked[d].latest > hist.base[d]
    BY <2>1 DEF FileInv, Advances, StampAnnotation
  <2> QED
    BY <2>2, <2>3 DEF hashTracked
<1> QED
  BY <1>1, <1>2, <1>3, PTL DEF Spec, RollOnlyForNewFile
=============================================================================

----------------------- MODULE ClusterLifecycleProofs -----------------------
(***************************************************************************)
(* Theorems about ClusterLifecycle, for any layouts of maps, any number of *)
(* edits and all faults: nothing exists without the finalizer, no server   *)
(* with an address is skipped when it goes, and gcOrphanedMaps leaves what *)
(* is wanted alone.                                                        *)
(***************************************************************************)
EXTENDS ClusterLifecycle, TLAPS

-----------------------------------------------------------------------------
(* The inductive invariant. *)

Version == [phase : {"live", "deleting", "gone"}, fin : BOOLEAN, fg : {"no", "waiting", "done"},
            maps : Layouts, addr : SUBSET Seq(STRING)]

Creating == {"secret", "claim", "maps", "publish"}
Finalizing == {"readPassword", "tell"}

OpType ==
  [pc : {"addFinalizer"} \cup Creating \cup Finalizing, copy : Version, todo : Seq(Seq(STRING)),
   pw : {"", "read", "missing", "error"}]

Typed ==
  /\ versions \in Seq(Version) /\ versions # <<>>
  /\ op \in OpType \cup {Idle}
  /\ stale \in BOOLEAN

\* What is true of a later version given an earlier one: a deletion is for good, and a live
\* cluster keeps its finalizer.
Later(v, w) ==
  /\ v.phase # "live" => w.phase # "live"
  /\ v.phase = "live" /\ v.fin /\ w.phase = "live" => w.fin

Progress == \A i \in DOMAIN versions : Later(versions[i], cluster)

\* The copy a pass works from is old at worst, and its branch was the right one for it.
CopyFits ==
  op # Idle =>
    /\ Later(op.copy, cluster)
    /\ op.pc \in Creating => op.copy.phase = "live" /\ op.copy.fin
    /\ op.pc \in Finalizing => op.copy.phase = "deleting"

LiveStays == cluster.phase = "live" => cluster.fg = "no"

\* The Secret exists, unless the garbage collector was let loose.
SecretThere == Secret \in objects \/ cluster.fg # "no" \/ cluster.phase = "gone"

\* No address without the Secret that opens it.
AddressNeedsSecret ==
  /\ \A i \in DOMAIN versions : versions[i].addr # {} => SecretThere
  /\ op # Idle =>
       /\ op.copy.addr # {} => SecretThere
       /\ op.pc \in {"claim", "maps", "publish"} => SecretThere

\* RunFinalize has told every map that is not left in its copy, unless that copy is old.
ToldSoFar ==
  op # Idle /\ op.pc \in Finalizing =>
    /\ ~stale => cluster.addr \subseteq told \cup op.copy.addr
    /\ op.pc = "tell" => op.pw # ""
    /\ op.pc = "tell" /\ op.pw = "missing" /\ ~stale
         => cluster.addr = {} \/ cluster.fg # "no" \/ cluster.phase = "gone"

LifeInv ==
  /\ Typed /\ Progress /\ CopyFits /\ LiveStays /\ AddressNeedsSecret /\ ToldSoFar
  /\ FinalizerBeforeObjects

-----------------------------------------------------------------------------
(* Versions. *)

LEMMA LastVersion ==
  ASSUME Typed
  PROVE  /\ Len(versions) \in DOMAIN versions /\ cluster = versions[Len(versions)]
         /\ cluster \in Version
         /\ 1 \in DOMAIN versions /\ cached = versions[1] /\ cached \in Version
BY DEF Typed, cluster, cached, Last

LEMMA Settles ==
  ASSUME NEW v \in Version
  PROVE  /\ Settled(v) \in Version
         /\ Settled(v).fin = v.fin /\ Settled(v).fg = v.fg /\ Settled(v).addr = v.addr
         /\ Settled(v).maps = v.maps
         /\ Settled(v).phase = v.phase \/ (v.phase = "deleting" /\ Settled(v).phase = "gone")
BY DEF Settled, Version

LEMMA Stored ==
  ASSUME Typed, NEW v \in Version, Store(v)
  PROVE  /\ versions' \in Seq(Version) /\ versions' # <<>>
         /\ cluster' = Settled(v) \/ (v = cluster /\ cluster' = cluster)
         /\ \A i \in DOMAIN versions' :
              versions'[i] = cluster' \/ \E j \in DOMAIN versions : versions'[i] = versions[j]
<1>1. versions \in Seq(Version) /\ versions # <<>>
  BY DEF Typed
<1>2. CASE v = cluster
  BY <1>1, <1>2 DEF Store, cluster
<1>3. CASE v # cluster
  <2>1. versions' = Append(versions, Settled(v)) /\ Settled(v) \in Version
    BY <1>3, Settles DEF Store
  <2> DEFINE w == Settled(v)
  <2>2. w \in Version /\ versions' = Append(versions, w)
    BY <2>1
  <2> HIDE DEF w
  <2>3. versions' \in Seq(Version) /\ versions' # <<>> /\ Len(versions') = Len(versions) + 1
    BY <1>1, <2>2
  <2>4. Last(versions') = w
    BY <1>1, <2>2 DEF Last
  <2>5. \A i \in DOMAIN versions' : versions'[i] = w \/ \E j \in DOMAIN versions : versions'[i] = versions[j]
    BY <1>1, <2>2
  <2> QED
    BY <2>3, <2>4, <2>5 DEF cluster, w
<1> QED
  BY <1>2, <1>3

LEMMA LaterTransitive ==
  ASSUME NEW u, NEW v, NEW w, Later(u, v), Later(v, w)
  PROVE  Later(u, w)
BY DEF Later

LEMMA OpCases ==
  ASSUME Typed
  PROVE  op.pc # "idle" <=> (op \in OpType /\ op # Idle)
<1>1. op \in OpType => op.pc # "idle"
  BY DEF OpType, Creating, Finalizing
<1>2. op = Idle => op.pc = "idle"
  BY DEF Idle
<1> QED
  BY <1>1, <1>2 DEF Typed

\* What the parts of the invariant that are about versions need of a store.
Fits(v) ==
  /\ v \in Version
  /\ v.phase = cluster.phase \/ (cluster.phase = "live" /\ v.phase = "deleting")
  /\ Later(cluster, v)
  /\ cluster.fg # "no" => v.fg # "no"
  /\ v.phase = "live" => v.fg = "no"
  /\ v.addr # {} => SecretThere

LEMMA StoreKeeps ==
  ASSUME LifeInv, NEW v, Fits(v), Store(v), UNCHANGED objects
  PROVE  /\ versions' \in Seq(Version) /\ versions' # <<>>
         /\ Progress' /\ LiveStays' /\ FinalizerBeforeObjects'
         /\ \A i \in DOMAIN versions' : versions'[i].addr # {} => SecretThere'
         /\ SecretThere => SecretThere'
         /\ Later(cluster, cluster')
         /\ cluster'.fin = v.fin /\ cluster'.addr = v.addr
         /\ cluster.fg # "no" => cluster'.fg # "no"
         /\ cluster.phase = "gone" => cluster'.phase = "gone"
<1>1. Typed /\ v \in Version /\ cluster \in Version
  BY LastVersion DEF LifeInv, Fits
<1>2. /\ versions' \in Seq(Version) /\ versions' # <<>>
      /\ cluster' = Settled(v) \/ (v = cluster /\ cluster' = cluster)
      /\ \A i \in DOMAIN versions' :
           versions'[i] = cluster' \/ \E j \in DOMAIN versions : versions'[i] = versions[j]
  BY <1>1, Stored
<1>3. /\ cluster'.fin = v.fin /\ cluster'.fg = v.fg /\ cluster'.addr = v.addr
      /\ cluster'.phase = v.phase \/ (v.phase = "deleting" /\ cluster'.phase = "gone")
  BY <1>1, <1>2, Settles
<1>4. Later(cluster, cluster')
  BY <1>3 DEF Fits, Later
<1>5. /\ cluster.fg # "no" => cluster'.fg # "no"
      /\ cluster.phase = "gone" => cluster'.phase = "gone"
      /\ cluster'.phase = "live" => cluster'.fg = "no"
  BY <1>3 DEF Fits
<1>6. SecretThere => SecretThere'
  BY <1>5 DEF SecretThere
<1>7. Progress'
  <2> SUFFICES ASSUME NEW i \in DOMAIN versions' PROVE Later(versions'[i], cluster')
    BY DEF Progress
  <2>1. CASE versions'[i] = cluster'
    BY <2>1 DEF Later
  <2>2. ASSUME NEW j \in DOMAIN versions, versions'[i] = versions[j]
        PROVE  Later(versions'[i], cluster')
    BY <1>4, <2>2, LaterTransitive DEF LifeInv, Progress
  <2> QED
    BY <1>2, <2>1, <2>2
<1>8. FinalizerBeforeObjects'
  BY <1>4, <1>3, <1>1 DEF LifeInv, FinalizerBeforeObjects, Later, Fits
<1>9. \A i \in DOMAIN versions' : versions'[i].addr # {} => SecretThere'
  BY <1>2, <1>3, <1>6 DEF LifeInv, AddressNeedsSecret, Fits
<1> QED
  BY <1>2, <1>3, <1>4, <1>5, <1>6, <1>7, <1>8, <1>9 DEF LiveStays

\* Somebody else stores a version, with the finalizer and the addresses as they were.
LEMMA StoreForKeeps ==
  ASSUME LifeInv, NEW v, Fits(v), v.addr = cluster.addr, StoreFor(v), UNCHANGED <<objects, op, told>>
  PROVE  LifeInv'
<1>1. Store(v) /\ stale' = (op.pc # "idle")
  BY DEF StoreFor
<1>2. /\ versions' \in Seq(Version) /\ versions' # <<>>
      /\ Progress' /\ LiveStays' /\ FinalizerBeforeObjects'
      /\ \A i \in DOMAIN versions' : versions'[i].addr # {} => SecretThere'
      /\ SecretThere => SecretThere'
      /\ Later(cluster, cluster')
  BY <1>1, StoreKeeps
<1>3. Typed'
  BY <1>1, <1>2 DEF LifeInv, Typed
<1>4. op # Idle => op.pc # "idle"
  BY OpCases DEF LifeInv, Typed
<1>5. CopyFits'
  BY <1>2, LaterTransitive DEF LifeInv, CopyFits
<1>6. AddressNeedsSecret'
  BY <1>2 DEF LifeInv, AddressNeedsSecret
<1>7. ToldSoFar'
  BY <1>1, <1>4 DEF LifeInv, ToldSoFar
<1> QED
  BY <1>2, <1>3, <1>5, <1>6, <1>7 DEF LifeInv

\* The operator stores a version, or does not, and its pass ends.
LEMMA EndKeeps ==
  ASSUME LifeInv, End, UNCHANGED objects, UNCHANGED versions \/ \E v : Fits(v) /\ Store(v)
  PROVE  LifeInv'
<1>1. /\ versions' \in Seq(Version) /\ versions' # <<>>
      /\ Progress' /\ LiveStays' /\ FinalizerBeforeObjects'
      /\ \A i \in DOMAIN versions' : versions'[i].addr # {} => SecretThere'
  <2>1. CASE UNCHANGED versions
    BY <2>1 DEF LifeInv, Typed, Progress, LiveStays, FinalizerBeforeObjects, AddressNeedsSecret,
                SecretThere, cluster
  <2>2. ASSUME NEW v, Fits(v), Store(v)
        PROVE  /\ versions' \in Seq(Version) /\ versions' # <<>>
               /\ Progress' /\ LiveStays' /\ FinalizerBeforeObjects'
               /\ \A i \in DOMAIN versions' : versions'[i].addr # {} => SecretThere'
    BY <2>2, StoreKeeps
  <2> QED
    BY <2>1, <2>2
<1>2. op' = Idle /\ stale' = FALSE
  BY DEF End
<1>3. Typed' /\ CopyFits' /\ AddressNeedsSecret' /\ ToldSoFar'
  BY <1>1, <1>2 DEF Typed, CopyFits, AddressNeedsSecret, ToldSoFar
<1> QED
  BY <1>1, <1>3 DEF LifeInv

\* Objects go; the Secret only if the garbage collector may.
LEMMA WorldKeeps ==
  ASSUME LifeInv, UNCHANGED <<versions, op, stale, told>>, objects' \subseteq objects,
         SecretThere => SecretThere'
  PROVE  LifeInv'
<1>1. cluster' = cluster
  BY DEF cluster
<1>2. Typed' /\ Progress' /\ CopyFits' /\ LiveStays' /\ ToldSoFar' /\ FinalizerBeforeObjects'
  BY <1>1 DEF LifeInv, Typed, Progress, CopyFits, LiveStays, ToldSoFar, FinalizerBeforeObjects
<1>3. AddressNeedsSecret'
  BY DEF LifeInv, AddressNeedsSecret
<1> QED
  BY <1>2, <1>3 DEF LifeInv

-----------------------------------------------------------------------------
(* The steps. *)

LEMMA EditsFit ==
  ASSUME LifeInv, NEW maps \in Layouts, EditMaps(maps)
  PROVE  LifeInv'
<1> DEFINE v == [cluster EXCEPT !.maps = maps]
<1>1. Typed /\ cluster \in Version /\ cluster = versions[Len(versions)] /\ Len(versions) \in DOMAIN versions
  BY LastVersion DEF LifeInv
<1>2. v \in Version /\ v.phase = cluster.phase /\ v.fin = cluster.fin /\ v.fg = cluster.fg /\ v.addr = cluster.addr
  BY <1>1 DEF Version
<1>3. StoreFor(v) /\ UNCHANGED <<objects, op, told>>
  BY DEF EditMaps, world
<1> HIDE DEF v
<1>4. cluster.addr # {} => SecretThere
  BY <1>1 DEF LifeInv, AddressNeedsSecret
<1>5. Fits(v)
  BY <1>2, <1>4 DEF Fits, Later, LifeInv, LiveStays
<1> QED
  BY <1>2, <1>3, <1>5, StoreForKeeps

LEMMA DeletionFits ==
  ASSUME LifeInv, NEW policy, DeleteCluster(policy)
  PROVE  LifeInv'
<1> DEFINE fg == IF policy = "foreground" THEN "waiting" ELSE "no"
           v == [cluster EXCEPT !.phase = "deleting", !.fg = fg]
<1>1. Typed /\ cluster \in Version /\ cluster = versions[Len(versions)] /\ Len(versions) \in DOMAIN versions
  BY LastVersion DEF LifeInv
<1>2. v \in Version /\ v.phase = "deleting" /\ v.fin = cluster.fin /\ v.addr = cluster.addr
  BY <1>1 DEF Version
<1>3. StoreFor(v) /\ UNCHANGED <<objects, op, told>> /\ cluster.phase = "live"
  BY DEF DeleteCluster, world
<1> HIDE DEF v
<1>4. cluster.addr # {} => SecretThere
  BY <1>1 DEF LifeInv, AddressNeedsSecret
<1>5. Fits(v)
  BY <1>2, <1>3, <1>4 DEF Fits, Later, LifeInv, LiveStays
<1> QED
  BY <1>2, <1>3, <1>5, StoreForKeeps

LEMMA DependentsFit ==
  ASSUME LifeInv, DependentsGone
  PROVE  LifeInv'
<1> DEFINE v == [cluster EXCEPT !.fg = "done"]
<1>1. Typed /\ cluster \in Version /\ cluster = versions[Len(versions)] /\ Len(versions) \in DOMAIN versions
  BY LastVersion DEF LifeInv
<1>2. v \in Version /\ v.phase = cluster.phase /\ v.fin = cluster.fin /\ v.fg = "done" /\ v.addr = cluster.addr
  BY <1>1 DEF Version
<1>3. StoreFor(v) /\ UNCHANGED <<objects, op, told>> /\ cluster.fg = "waiting"
  BY DEF DependentsGone, world
<1> HIDE DEF v
<1>4. cluster.addr # {} => SecretThere
  BY <1>1 DEF LifeInv, AddressNeedsSecret
<1>5. Fits(v)
  BY <1>2, <1>3, <1>4 DEF Fits, Later, LifeInv, LiveStays
<1> QED
  BY <1>2, <1>3, <1>5, StoreForKeeps

\* What the operator stores: the finalizer added, the addresses published, or, on a cluster that
\* is being deleted, the finalizer removed.
LEMMA OperatorFits ==
  ASSUME LifeInv
  PROVE  /\ Fits([cluster EXCEPT !.fin = TRUE])
         /\ \A addr \in SUBSET Seq(STRING) :
              (addr # {} => SecretThere) => Fits([cluster EXCEPT !.addr = addr])
         /\ cluster.phase # "live" => Fits([cluster EXCEPT !.fin = FALSE])
<1>1. Typed /\ cluster \in Version /\ cluster = versions[Len(versions)] /\ Len(versions) \in DOMAIN versions
  BY LastVersion DEF LifeInv
<1>2. cluster.addr # {} => SecretThere
  BY <1>1 DEF LifeInv, AddressNeedsSecret
<1>3. ASSUME NEW b \in BOOLEAN, b \/ cluster.phase # "live"
      PROVE  Fits([cluster EXCEPT !.fin = b])
  <2> DEFINE v == [cluster EXCEPT !.fin = b]
  <2>1. v \in Version /\ v.phase = cluster.phase /\ v.fin = b /\ v.fg = cluster.fg /\ v.addr = cluster.addr
    BY <1>1 DEF Version
  <2> HIDE DEF v
  <2>2. Fits(v)
    BY <1>2, <1>3, <2>1 DEF Fits, Later, LifeInv, LiveStays
  <2> QED
    BY <2>2 DEF v
<1>4. ASSUME NEW addr \in SUBSET Seq(STRING), addr # {} => SecretThere
      PROVE  Fits([cluster EXCEPT !.addr = addr])
  <2> DEFINE v == [cluster EXCEPT !.addr = addr]
  <2>1. v \in Version /\ v.phase = cluster.phase /\ v.fin = cluster.fin /\ v.fg = cluster.fg /\ v.addr = addr
    BY <1>1 DEF Version
  <2> HIDE DEF v
  <2>2. Fits(v)
    BY <1>4, <2>1 DEF Fits, Later, LifeInv, LiveStays
  <2> QED
    BY <2>2 DEF v
<1> QED
  BY <1>3, <1>4

LEMMA SeqFacts ==
  ASSUME NEW S, NEW s \in Seq(S)
  PROVE  DOMAIN s = 1 .. Len(s) /\ (Len(s) # 0 => s # <<>>)
OBVIOUS

LEMMA TailVersions ==
  ASSUME NEW S, NEW s \in Seq(S), NEW n \in 2 .. Len(s), NEW t, t = SubSeq(s, n, Len(s))
  PROVE  /\ t \in Seq(S) /\ t # <<>>
         /\ \A i \in DOMAIN t : \E j \in DOMAIN s : t[i] = s[j]
         /\ t[Len(t)] = s[Len(s)]
<1>1. t \in Seq(S) /\ Len(t) = Len(s) - n + 1 /\ Len(t) \in Nat \ {0}
  OBVIOUS
<1>2. \A i \in 1 .. Len(t) : t[i] = s[n + i - 1] /\ n + i - 1 \in 1 .. Len(s)
  OBVIOUS
<1>3. t[Len(t)] = s[Len(s)]
  BY <1>1, <1>2
<1>4. DOMAIN t = 1 .. Len(t) /\ DOMAIN s = 1 .. Len(s) /\ t # <<>>
  BY <1>1, SeqFacts
<1>5. \A i \in DOMAIN t : \E j \in DOMAIN s : t[i] = s[j]
  BY <1>2, <1>4
<1> QED
  BY <1>1, <1>3, <1>4, <1>5

LEMMA CatchUpKeeps ==
  ASSUME LifeInv, CatchUp
  PROVE  LifeInv'
<1>1. PICK n \in 2 .. Len(versions) : versions' = SubSeq(versions, n, Len(versions))
  BY DEF CatchUp
<1>2. versions \in Seq(Version) /\ versions # <<>>
  BY DEF LifeInv, Typed
<1>3. /\ versions' \in Seq(Version) /\ versions' # <<>>
      /\ \A i \in DOMAIN versions' : \E j \in DOMAIN versions : versions'[i] = versions[j]
      /\ versions'[Len(versions')] = versions[Len(versions)]
  <2> DEFINE t == SubSeq(versions, n, Len(versions))
  <2>1. /\ t \in Seq(Version) /\ t # <<>>
        /\ \A i \in DOMAIN t : \E j \in DOMAIN versions : t[i] = versions[j]
        /\ t[Len(t)] = versions[Len(versions)]
    BY <1>1, <1>2, TailVersions
  <2>2. versions' = t
    BY <1>1
  <2> HIDE DEF t
  <2> QED
    BY <2>1, <2>2, Zenon
<1>4. cluster' = cluster
  BY <1>3 DEF cluster, Last
<1>5. UNCHANGED <<objects, op, stale, told>>
  BY DEF CatchUp, world
<1>6. SecretThere' <=> SecretThere
  BY <1>4, <1>5 DEF SecretThere
<1>7. Typed' /\ Progress' /\ CopyFits' /\ LiveStays' /\ ToldSoFar' /\ FinalizerBeforeObjects'
  BY <1>3, <1>4, <1>5 DEF LifeInv, Typed, Progress, CopyFits, LiveStays, ToldSoFar, FinalizerBeforeObjects
<1>8. AddressNeedsSecret'
  BY <1>3, <1>5, <1>6 DEF LifeInv, AddressNeedsSecret
<1> QED
  BY <1>7, <1>8 DEF LifeInv

LEMMA BeginKeeps ==
  ASSUME LifeInv, Begin
  PROVE  LifeInv'
<1>1. Typed /\ cached \in Version /\ cached = versions[1] /\ 1 \in DOMAIN versions
  BY LastVersion DEF LifeInv
<1>2. UNCHANGED <<versions, objects, told>> /\ cluster' = cluster /\ stale' = (Len(versions) > 1)
  BY DEF Begin, world, cluster
<1>3. PICK pc \in {"addFinalizer"} \cup Creating \cup Finalizing :
        /\ op' = [pc |-> pc, copy |-> cached, todo |-> cached.maps, pw |-> ""]
        /\ pc \in Creating => pc = "secret" /\ cached.phase = "live" /\ cached.fin
        /\ pc \in Finalizing => pc = "readPassword" /\ cached.phase = "deleting"
  <2> DEFINE Started(pc) == op' = [pc |-> pc, copy |-> cached, todo |-> cached.maps, pw |-> ""]
  <2>1. \/ cached.phase = "deleting" /\ Started("readPassword")
        \/ Started("addFinalizer")
        \/ cached.phase = "live" /\ cached.fin /\ Started("secret")
    BY DEF Begin
  <2> HIDE DEF Started
  <2>2. PICK pc \in {"addFinalizer", "secret", "readPassword"} :
          /\ Started(pc)
          /\ pc = "secret" => cached.phase = "live" /\ cached.fin
          /\ pc = "readPassword" => cached.phase = "deleting"
    BY <2>1
  <2>3. /\ pc \in {"addFinalizer"} \cup Creating \cup Finalizing
        /\ pc \in Creating => pc = "secret"
        /\ pc \in Finalizing => pc = "readPassword"
    BY <2>2 DEF Creating, Finalizing
  <2> QED
    BY <2>2, <2>3 DEF Started
<1>4. cached.maps \in Seq(Seq(STRING))
  BY <1>1, LifecycleAssumption DEF Version
<1>5. /\ op' \in OpType /\ op'.pc = pc /\ op'.copy = cached
  BY <1>1, <1>3, <1>4 DEF OpType
<1>6. Typed'
  BY <1>1, <1>2, <1>5 DEF Typed
<1>7. Later(cached, cluster)
  BY <1>1 DEF LifeInv, Progress
<1>8. CopyFits'
  BY <1>2, <1>3, <1>5, <1>7 DEF CopyFits
<1>9. SecretThere' <=> SecretThere
  BY <1>2 DEF SecretThere
<1>10. AddressNeedsSecret'
  <2>1. pc \notin {"claim", "maps", "publish"}
    BY <1>3 DEF Creating
  <2> QED
    BY <1>1, <1>2, <1>5, <1>9, <2>1 DEF LifeInv, AddressNeedsSecret
<1>11. ToldSoFar'
  <2>1. pc # "tell"
    BY <1>3 DEF Finalizing
  <2>2. ~stale' => cluster = cached
    <3>1. Len(versions) \in Nat \ {0}
      BY <1>1 DEF Typed
    <3>2. ~stale' => ~(Len(versions) > 1)
      BY <1>2, Zenon
    <3>3. \A k \in Nat \ {0} : ~(k > 1) => k = 1
      OBVIOUS
    <3> QED
      BY <1>1, <3>1, <3>2, <3>3 DEF cluster, Last
  <2> QED
    BY <1>2, <1>5, <2>1, <2>2 DEF ToldSoFar
<1>12. Progress' /\ LiveStays' /\ FinalizerBeforeObjects'
  BY <1>2 DEF LifeInv, Progress, LiveStays, FinalizerBeforeObjects
<1> QED
  BY <1>6, <1>8, <1>10, <1>11, <1>12 DEF LifeInv

\* A pass goes on.
LEMMA OpKeeps ==
  ASSUME LifeInv, op.pc # "idle", UNCHANGED <<versions, stale>>, op' \in OpType,
         op'.copy.phase = op.copy.phase, op'.copy.fin = op.copy.fin,
         op'.pc \in Creating => op.pc \in Creating, op'.pc \in Finalizing => op.pc \in Finalizing,
         objects' \subseteq objects \/ op.pc \in Creating,
         SecretThere => SecretThere',
         op'.copy.addr # {} \/ op'.pc \in {"claim", "maps", "publish"} => SecretThere',
         ToldSoFar'
  PROVE  LifeInv'
<1>1. cluster' = cluster /\ Typed /\ op \in OpType /\ op # Idle
  BY OpCases DEF cluster, LifeInv
<1>2. Typed' /\ Progress' /\ LiveStays'
  BY <1>1 DEF LifeInv, Typed, Progress, LiveStays
<1>3. CopyFits'
  BY <1>1 DEF LifeInv, CopyFits, Later
<1>4. AddressNeedsSecret'
  BY DEF LifeInv, AddressNeedsSecret
<1>5. FinalizerBeforeObjects'
  <2>1. CASE objects' \subseteq objects
    BY <1>1, <2>1 DEF LifeInv, FinalizerBeforeObjects
  <2>2. CASE op.pc \in Creating
    BY <1>1, <2>2 DEF LifeInv, CopyFits, Later, FinalizerBeforeObjects
  <2> QED
    BY <2>1, <2>2
<1> QED
  BY <1>2, <1>3, <1>4, <1>5 DEF LifeInv

\* A pass that creates objects does not finalize.
LEMMA CreatingKeeps ==
  ASSUME LifeInv, op.pc \in Creating, UNCHANGED <<versions, stale>>, op' \in OpType,
         op'.pc \in Creating, op'.copy.phase = op.copy.phase, op'.copy.fin = op.copy.fin,
         Secret \in objects => Secret \in objects',
         op'.copy.addr # {} \/ op'.pc \in {"claim", "maps", "publish"} => SecretThere'
  PROVE  LifeInv'
<1>1. op.pc # "idle" /\ op'.pc \notin Finalizing
  BY DEF Creating, Finalizing
<1>2. SecretThere => SecretThere'
  BY DEF SecretThere, cluster
<1>3. ToldSoFar'
  BY <1>1 DEF ToldSoFar
<1> QED
  BY <1>1, <1>2, <1>3, OpKeeps

\* It fails between two of them.
LEMMA CreatingFails ==
  ASSUME LifeInv, op.pc \in Creating, UNCHANGED versions, End, objects \subseteq objects'
  PROVE  LifeInv'
<1>1. cluster' = cluster /\ Typed /\ op.pc # "idle"
  BY DEF cluster, LifeInv, Creating
<1>2. op # Idle /\ op' = Idle /\ stale' = FALSE
  BY <1>1, OpCases DEF End
<1>3. FinalizerBeforeObjects'
  BY <1>1, <1>2 DEF LifeInv, CopyFits, Later, FinalizerBeforeObjects
<1>4. SecretThere => SecretThere'
  BY <1>1 DEF SecretThere
<1>5. AddressNeedsSecret'
  BY <1>2, <1>4 DEF LifeInv, AddressNeedsSecret
<1>6. Typed' /\ Progress' /\ CopyFits' /\ LiveStays' /\ ToldSoFar'
  BY <1>1, <1>2 DEF LifeInv, Typed, Progress, CopyFits, LiveStays, ToldSoFar
<1> QED
  BY <1>3, <1>5, <1>6 DEF LifeInv

LEMMA EnsureKeeps ==
  ASSUME LifeInv, NEW pc, NEW object, NEW next, EnsureClusterObject(pc, object, next),
         \/ pc = "secret" /\ object = Secret /\ next = "claim"
         \/ pc = "claim" /\ next = "maps"
  PROVE  LifeInv'
<1>1. op.pc = pc /\ pc \in Creating /\ next \in Creating /\ UNCHANGED versions
  BY DEF EnsureClusterObject, Creating
<1>2. CASE objects' = objects \cup {object} /\ op' = [op EXCEPT !.pc = next] /\ UNCHANGED <<stale, faults>>
  <2>1. op \in OpType /\ op # Idle
    BY <1>1, OpCases DEF LifeInv, Creating
  <2>2. op' \in OpType /\ op'.pc = next /\ op'.copy = op.copy
    BY <1>1, <1>2, <2>1 DEF OpType
  <2>3. SecretThere'
    <3>1. CASE object = Secret
      BY <1>2, <3>1 DEF SecretThere
    <3>2. CASE pc = "claim"
      <4>1. SecretThere
        BY <1>1, <2>1, <3>2 DEF LifeInv, AddressNeedsSecret
      <4> QED
        BY <1>1, <1>2, <4>1 DEF SecretThere, cluster
    <3> QED
      BY <3>1, <3>2
  <2> QED
    BY <1>1, <1>2, <2>2, <2>3, CreatingKeeps
<1>3. CASE End /\ UNCHANGED objects
  BY <1>1, <1>3, EndKeeps
<1> QED
  BY <1>2, <1>3 DEF EnsureClusterObject

LEMMA QueueParts ==
  ASSUME NEW S, NEW s \in Seq(S), s # <<>>
  PROVE  Head(s) \in S /\ Tail(s) \in Seq(S)
OBVIOUS

LEMMA ReconcileMapKeeps ==
  ASSUME LifeInv, ReconcileMap
  PROVE  LifeInv'
<1>1. /\ op.pc = "maps" /\ op.pc \in Creating /\ op.todo # <<>> /\ UNCHANGED versions
      /\ op \in OpType /\ op # Idle /\ SecretThere
  <2>1. op.pc = "maps" /\ op.todo # <<>> /\ UNCHANGED versions
    BY DEF ReconcileMap
  <2>2. op \in OpType /\ op # Idle
    BY <2>1, OpCases DEF LifeInv
  <2> QED
    BY <2>1, <2>2 DEF LifeInv, AddressNeedsSecret, Creating
<1>2. objects \subseteq objects'
  BY DEF ReconcileMap
<1>3. CASE End
  BY <1>1, <1>2, <1>3, CreatingFails
<1>4. ASSUME NEW got \in SUBSET {Head(op.todo)},
             op' = [op EXCEPT !.todo = Tail(op.todo), !.copy.addr = @ \cup got],
             UNCHANGED <<stale, faults>>
      PROVE  LifeInv'
  <2>1. op.todo \in Seq(Seq(STRING)) /\ op.copy \in Version
    BY <1>1 DEF OpType
  <2>2. Head(op.todo) \in Seq(STRING) /\ Tail(op.todo) \in Seq(Seq(STRING))
    BY <1>1, <2>1, QueueParts, Zenon
  <2> DEFINE copy == [op.copy EXCEPT !.addr = @ \cup got]
  <2>3. op' = [op EXCEPT !.todo = Tail(op.todo), !.copy = copy]
    BY <1>4
  <2>4. copy \in Version /\ copy.phase = op.copy.phase /\ copy.fin = op.copy.fin
    BY <2>1, <2>2 DEF Version
  <2> HIDE DEF copy
  <2>5. op' \in OpType /\ op'.pc = op.pc /\ op'.copy = copy
    BY <1>1, <2>2, <2>3, <2>4 DEF OpType
  <2>6. SecretThere'
    BY <1>1, <1>2 DEF SecretThere, cluster
  <2> QED
    BY <1>1, <1>2, <1>4, <2>4, <2>5, <2>6, CreatingKeeps
<1> QED
  BY <1>3, <1>4 DEF ReconcileMap

LEMMA SecretKept ==
  ASSUME NEW keep
  PROVE  ~Orphaned(Secret, keep)
BY DEF Orphaned, Secret, Object

LEMMA GcKeeps ==
  ASSUME LifeInv, GcOrphanedMaps
  PROVE  LifeInv'
<1>1. /\ op.pc = "maps" /\ op.pc \in Creating /\ UNCHANGED <<versions, stale>>
      /\ op \in OpType /\ op # Idle /\ SecretThere
  <2>1. op.pc = "maps" /\ UNCHANGED <<versions, stale>>
    BY DEF GcOrphanedMaps
  <2>2. op \in OpType /\ op # Idle
    BY <2>1, OpCases DEF LifeInv
  <2> QED
    BY <2>1, <2>2 DEF LifeInv, AddressNeedsSecret, Creating
<1> DEFINE keep == Slugs(op.copy.maps)
           copy == [op.copy EXCEPT !.addr = {id \in @ : MapSlug(id) \in keep}]
<1>2. Secret \in objects => Secret \in objects'
  BY SecretKept DEF GcOrphanedMaps, Delete
<1>3. op' = [op EXCEPT !.pc = "publish", !.copy = copy]
  BY DEF GcOrphanedMaps
<1>4. copy \in Version /\ copy.phase = op.copy.phase /\ copy.fin = op.copy.fin
  <2>1. op.copy \in Version
    BY <1>1 DEF OpType
  <2> HIDE DEF keep
  <2> QED
    BY <2>1 DEF Version
<1> HIDE DEF copy
<1>5. op' \in OpType /\ op'.pc = "publish" /\ op'.copy = copy
  BY <1>1, <1>3, <1>4 DEF OpType, Creating
<1>6. SecretThere'
  BY <1>1, <1>2 DEF SecretThere, cluster
<1>7. "publish" \in Creating
  BY DEF Creating
<1> QED
  BY <1>1, <1>2, <1>4, <1>5, <1>6, <1>7, CreatingKeeps

LEMMA PublishKeeps ==
  ASSUME LifeInv, PublishStatus
  PROVE  LifeInv'
<1>1. op.pc = "publish" /\ End /\ UNCHANGED objects
  BY DEF PublishStatus, world
<1>2. op \in OpType /\ op # Idle
  BY <1>1, OpCases DEF LifeInv
<1>3. op.copy.addr \in SUBSET Seq(STRING) /\ SecretThere
  BY <1>1, <1>2 DEF OpType, Version, LifeInv, AddressNeedsSecret
<1>4. UNCHANGED versions \/ Store([cluster EXCEPT !.addr = op.copy.addr])
  BY DEF PublishStatus
<1>5. Fits([cluster EXCEPT !.addr = op.copy.addr])
  BY <1>3, OperatorFits
<1> QED
  BY <1>1, <1>4, <1>5, EndKeeps

LEMMA ReadPasswordKeeps ==
  ASSUME LifeInv, ReadAdminPassword
  PROVE  LifeInv'
<1>1. op.pc = "readPassword" /\ UNCHANGED <<versions, objects, stale, told>> /\ cluster' = cluster
  BY DEF ReadAdminPassword, world, cluster
<1>2. op \in OpType /\ op # Idle
  BY <1>1, OpCases DEF LifeInv
<1>3. PICK pw \in {"read", "missing", "error"} :
        op' = [op EXCEPT !.pc = "tell", !.pw = pw] /\ (pw = "missing" => Secret \notin objects)
  BY DEF ReadAdminPassword
<1>4. op' \in OpType /\ op'.pc = "tell" /\ op'.copy = op.copy /\ op'.pw = pw
  BY <1>2, <1>3 DEF OpType, Finalizing
<1>5. SecretThere <=> SecretThere'
  BY <1>1 DEF SecretThere
<1>6. "tell" \in Finalizing /\ "readPassword" \in Finalizing /\ "tell" \notin Creating
  BY DEF Finalizing, Creating
<1>7. cluster.addr # {} => SecretThere
  BY LastVersion DEF LifeInv, AddressNeedsSecret
<1>8. ToldSoFar'
  <2>1. pw = "missing" => cluster.addr = {} \/ cluster.fg # "no" \/ cluster.phase = "gone"
    BY <1>3, <1>7 DEF SecretThere
  <2>2. ~stale => cluster.addr \subseteq told \cup op.copy.addr
    BY <1>1, <1>2, <1>6 DEF LifeInv, ToldSoFar
  <2> QED
    BY <1>1, <1>3, <1>4, <2>1, <2>2 DEF ToldSoFar
<1>9. op.copy.addr # {} => SecretThere'
  BY <1>2, <1>5 DEF LifeInv, AddressNeedsSecret
<1> QED
  BY <1>1, <1>4, <1>5, <1>6, <1>8, <1>9, OpKeeps

LEMMA TellKeeps ==
  ASSUME LifeInv, TellMap
  PROVE  LifeInv'
<1>1. /\ op.pc = "tell" /\ op.pw = "read" /\ UNCHANGED <<versions, objects, stale>>
      /\ cluster' = cluster
  BY DEF TellMap, world, cluster
<1>2. op \in OpType /\ op # Idle
  BY <1>1, OpCases DEF LifeInv
<1>3. PICK id \in op.copy.addr : told' = told \cup {id} /\ op' = [op EXCEPT !.copy.addr = @ \ {id}]
  BY DEF TellMap
<1> DEFINE copy == [op.copy EXCEPT !.addr = @ \ {id}]
<1>4. op' = [op EXCEPT !.copy = copy]
  BY <1>3
<1>5. /\ copy \in Version /\ copy.phase = op.copy.phase /\ copy.fin = op.copy.fin
      /\ copy.addr = op.copy.addr \ {id}
  BY <1>2 DEF OpType, Version
<1> HIDE DEF copy
<1>6. op' \in OpType /\ op'.pc = "tell" /\ op'.copy = copy /\ op'.pw = "read"
  BY <1>1, <1>2, <1>4, <1>5 DEF OpType
<1>7. SecretThere <=> SecretThere'
  BY <1>1 DEF SecretThere
<1>8. "tell" \in Finalizing /\ "tell" \notin Creating
  BY DEF Finalizing, Creating
<1>9. ToldSoFar'
  <2>1. ~stale => cluster.addr \subseteq told \cup op.copy.addr
    BY <1>1, <1>2, <1>8 DEF LifeInv, ToldSoFar
  <2>2. ~stale => cluster.addr \subseteq told' \cup copy.addr
    BY <1>3, <1>5, <2>1
  <2> QED
    BY <1>1, <1>6, <2>2 DEF ToldSoFar
<1>10. op.copy.addr # {} => SecretThere'
  BY <1>2, <1>7 DEF LifeInv, AddressNeedsSecret
<1> QED
  BY <1>1, <1>5, <1>6, <1>7, <1>8, <1>9, <1>10, OpKeeps

LEMMA RemoveKeeps ==
  ASSUME LifeInv, RemoveFinalizer
  PROVE  LifeInv'
<1>1. op.pc = "tell" /\ End /\ UNCHANGED objects
  BY DEF RemoveFinalizer, world
<1>2. op # Idle /\ op.pc \in Finalizing
  BY <1>1, OpCases DEF LifeInv, Finalizing
<1>3. cluster.phase # "live"
  BY <1>2 DEF LifeInv, CopyFits, Later
<1>4. UNCHANGED versions \/ Store([cluster EXCEPT !.fin = FALSE])
  BY DEF RemoveFinalizer
<1>5. Fits([cluster EXCEPT !.fin = FALSE])
  BY <1>3, OperatorFits
<1> QED
  BY <1>1, <1>4, <1>5, EndKeeps

LEMMA CrashKeeps ==
  ASSUME LifeInv, Crash
  PROVE  LifeInv'
<1>1. Typed /\ cluster \in Version /\ cluster = versions[Len(versions)] /\ Len(versions) \in DOMAIN versions
  BY LastVersion DEF LifeInv
<1>2. versions' = <<cluster>> /\ op' = Idle /\ stale' = FALSE /\ UNCHANGED objects
  BY DEF Crash, End, world
<1>3. cluster' = cluster /\ versions' \in Seq(Version) /\ versions' # <<>>
      /\ \A i \in DOMAIN versions' : versions'[i] = cluster
  <2> DEFINE c == cluster
  <2>1. c \in Version /\ versions' = <<c>>
    BY <1>1, <1>2
  <2> HIDE DEF c
  <2>2. /\ versions' \in Seq(Version) /\ versions' # <<>> /\ Last(versions') = c
        /\ \A i \in DOMAIN versions' : versions'[i] = c
    BY <2>1 DEF Last
  <2> QED
    BY <2>2 DEF c, cluster
<1>4. SecretThere <=> SecretThere'
  BY <1>2, <1>3 DEF SecretThere
<1>5. Progress' /\ AddressNeedsSecret'
  BY <1>1, <1>2, <1>3, <1>4 DEF LifeInv, Progress, AddressNeedsSecret, Later
<1>6. Typed' /\ CopyFits' /\ LiveStays' /\ ToldSoFar' /\ FinalizerBeforeObjects'
  BY <1>2, <1>3 DEF LifeInv, Typed, CopyFits, LiveStays, ToldSoFar, FinalizerBeforeObjects
<1> QED
  BY <1>5, <1>6 DEF LifeInv

LEMMA ClusterKeeps ==
  ASSUME LifeInv, Collector \/ JobController
  PROVE  LifeInv'
<1>1. Secret.kind = "Secret"
  BY DEF Secret, Object
<1>2. ASSUME NEW kinds \in Collections, CollectGarbage(kinds)
      PROVE  LifeInv'
  <2>1. /\ UNCHANGED <<versions, op, stale, told>> /\ objects' \subseteq objects
        /\ cluster.phase = "gone" \/ cluster.fg = "waiting"
    BY <1>2 DEF CollectGarbage, Delete
  <2>2. SecretThere'
    BY <2>1 DEF SecretThere, cluster
  <2> QED
    BY <2>1, <2>2, WorldKeeps
<1>3. ASSUME NEW pod, PodGone(pod)
      PROVE  LifeInv'
  <2>1. UNCHANGED <<versions, op, stale, told>> /\ objects' \subseteq objects /\ pod # Secret
        /\ objects' = objects \ {pod}
    BY <1>1, <1>3 DEF PodGone
  <2>2. SecretThere => SecretThere'
    BY <2>1 DEF SecretThere, cluster
  <2> QED
    BY <2>1, <2>2, WorldKeeps
<1>4. CASE ClaimsGone
  <2>1. PICK free : objects' = objects \ free /\ \A c \in free : c.kind = "Claim"
    BY <1>4 DEF ClaimsGone
  <2>2. UNCHANGED <<versions, op, stale, told>> /\ Secret \notin free
    BY <1>1, <1>4, <2>1 DEF ClaimsGone
  <2>3. SecretThere => SecretThere'
    BY <2>1, <2>2 DEF SecretThere, cluster
  <2> QED
    BY <2>1, <2>2, <2>3, WorldKeeps
<1>5. ASSUME NEW slug, JobGone(slug)
      PROVE  LifeInv'
  <2>1. UNCHANGED <<versions, op, stale, told>> /\ objects' = objects \ {Job(slug)}
    BY <1>5 DEF JobGone
  <2>2. Job(slug) # Secret
    <3>1. Job(slug).kind = "Job"
      BY DEF Job, Object
    <3> QED
      BY <1>1, <3>1
  <2>3. SecretThere => SecretThere'
    BY <2>1, <2>2 DEF SecretThere, cluster
  <2> QED
    BY <2>1, <2>3, WorldKeeps
<1> QED
  BY <1>2, <1>3, <1>4, <1>5, DependentsFit DEF Collector, JobController

LEMMA LifeStep ==
  ASSUME LifeInv, [Next]_vars
  PROVE  LifeInv'
<1>1. CASE Ensure
  <2>1. End /\ UNCHANGED objects /\ (UNCHANGED versions \/ Store([cluster EXCEPT !.fin = TRUE]))
    BY <1>1 DEF Ensure, world
  <2> QED
    BY <2>1, OperatorFits, EndKeeps
<1>2. CASE EnsureClusterObject("secret", Secret, "claim")
  BY <1>2, EnsureKeeps
<1>3. CASE EnsureClusterObject("claim", ClusterClaim, "maps")
  BY <1>3, EnsureKeeps
<1>4. CASE Operator
  BY <1>1, <1>2, <1>3, <1>4, BeginKeeps, ReconcileMapKeeps, GcKeeps, PublishKeeps,
     ReadPasswordKeeps, TellKeeps, RemoveKeeps DEF Operator
<1>5. CASE UNCHANGED vars
  BY <1>5, WorldKeeps DEF vars, SecretThere, cluster
<1> QED
  BY <1>4, <1>5, EditsFit, DeletionFits, CatchUpKeeps, CrashKeeps, ClusterKeeps DEF Next

LEMMA LifeAlways == Spec => []LifeInv
<1>1. Init => LifeInv
  <2> SUFFICES ASSUME Init PROVE LifeInv
    OBVIOUS
  <2> DEFINE first == NewCluster(FirstMaps)
  <2>1. first \in Version /\ first.phase = "live" /\ first.fg = "no" /\ first.addr = {}
    BY LifecycleAssumption DEF NewCluster, Version
  <2>2. versions = <<first>> /\ objects = {} /\ op = Idle /\ stale = FALSE
    BY DEF Init
  <2> HIDE DEF first
  <2>3. /\ versions \in Seq(Version) /\ versions # <<>> /\ cluster = first
        /\ \A i \in DOMAIN versions : versions[i] = first
    BY <2>1, <2>2 DEF cluster, Last
  <2>4. Progress /\ LiveStays /\ AddressNeedsSecret
    BY <2>1, <2>2, <2>3 DEF Progress, Later, LiveStays, AddressNeedsSecret
  <2>5. Typed /\ CopyFits /\ ToldSoFar /\ FinalizerBeforeObjects
    BY <2>2, <2>3 DEF Typed, CopyFits, ToldSoFar, FinalizerBeforeObjects
  <2> QED
    BY <2>4, <2>5 DEF LifeInv
<1> QED
  BY <1>1, LifeStep, PTL DEF Spec

\* The finalizer is on the object before anything is created for it: whatever is edited, crashes,
\* fails or is read late, a live cluster without the finalizer owns nothing.
THEOREM FinalizerFirst == Spec => []FinalizerBeforeObjects
<1>1. LifeInv => FinalizerBeforeObjects
  BY DEF LifeInv
<1> QED
  BY <1>1, LifeAlways, PTL

\* Only RunFinalize takes the finalizer away, and only with a copy that is the last version.
LEMMA FinKept ==
  ASSUME LifeInv, [Next]_vars, cluster.fin, ~cluster'.fin
  PROVE  RemoveFinalizer /\ ~stale
<1>1. Typed /\ cluster \in Version
  BY LastVersion DEF LifeInv
<1>2. ASSUME UNCHANGED versions
      PROVE  FALSE
  BY <1>2 DEF cluster
<1>3. ASSUME NEW v \in Version, v.fin, Store(v)
      PROVE  FALSE
  BY <1>1, <1>3, Stored, Settles
<1>4. ASSUME NEW maps \in Layouts, EditMaps(maps)
      PROVE  FALSE
  <2>1. Store([cluster EXCEPT !.maps = maps])
    BY <1>4 DEF EditMaps, StoreFor
  <2>2. [cluster EXCEPT !.maps = maps] \in Version /\ [cluster EXCEPT !.maps = maps].fin
    BY <1>1 DEF Version
  <2> QED
    BY <1>3, <2>1, <2>2
<1>5. ASSUME NEW policy, DeleteCluster(policy)
      PROVE  FALSE
  <2> DEFINE v == [cluster EXCEPT !.phase = "deleting",
                                  !.fg = IF policy = "foreground" THEN "waiting" ELSE "no"]
  <2>1. Store(v)
    BY <1>5 DEF DeleteCluster, StoreFor
  <2>2. v \in Version /\ v.fin
    BY <1>1 DEF Version
  <2> HIDE DEF v
  <2> QED
    BY <1>3, <2>1, <2>2
<1>6. CASE DependentsGone
  <2>1. Store([cluster EXCEPT !.fg = "done"])
    BY <1>6 DEF DependentsGone, StoreFor
  <2>2. [cluster EXCEPT !.fg = "done"] \in Version /\ [cluster EXCEPT !.fg = "done"].fin
    BY <1>1 DEF Version
  <2> QED
    BY <1>3, <2>1, <2>2
<1>7. CASE Ensure
  <2>1. UNCHANGED versions \/ Store([cluster EXCEPT !.fin = TRUE])
    BY <1>7 DEF Ensure
  <2>2. [cluster EXCEPT !.fin = TRUE] \in Version /\ [cluster EXCEPT !.fin = TRUE].fin
    BY <1>1 DEF Version
  <2> QED
    BY <1>2, <1>3, <2>1, <2>2
<1>8. CASE PublishStatus
  <2>1. UNCHANGED versions \/ Store([cluster EXCEPT !.addr = op.copy.addr])
    BY <1>8 DEF PublishStatus
  <2>2. op \in OpType
    BY <1>1, <1>8, OpCases DEF PublishStatus
  <2>3. /\ [cluster EXCEPT !.addr = op.copy.addr] \in Version
        /\ [cluster EXCEPT !.addr = op.copy.addr].fin
    BY <1>1, <2>2 DEF Version, OpType
  <2> QED
    BY <1>2, <1>3, <2>1, <2>3
<1>9. CASE RemoveFinalizer
  BY <1>2, <1>9 DEF RemoveFinalizer
<1>10. CASE CatchUp
  <2>1. versions \in Seq(Version)
    BY <1>1 DEF Typed
  <2>2. PICK n \in 2 .. Len(versions) : versions' = SubSeq(versions, n, Len(versions))
    BY <1>10 DEF CatchUp
  <2> DEFINE t == SubSeq(versions, n, Len(versions))
  <2>3. t[Len(t)] = versions[Len(versions)]
    BY <2>1, TailVersions
  <2>4. versions' = t
    BY <2>2
  <2> HIDE DEF t
  <2>5. cluster' = cluster
    BY <2>3, <2>4 DEF cluster, Last
  <2> QED
    BY <2>5
<1>11. CASE Crash
  <2> DEFINE c == cluster
  <2>1. versions' = <<c>>
    BY <1>11 DEF Crash
  <2> HIDE DEF c
  <2>2. Last(versions') = c
    BY <2>1 DEF Last
  <2> QED
    BY <2>2 DEF c, cluster
<1>12. CASE \/ Begin \/ EnsureClusterObject("secret", Secret, "claim")
            \/ EnsureClusterObject("claim", ClusterClaim, "maps")
            \/ ReconcileMap \/ GcOrphanedMaps \/ ReadAdminPassword \/ TellMap
  BY <1>2, <1>12 DEF Begin, EnsureClusterObject, ReconcileMap, GcOrphanedMaps, ReadAdminPassword, TellMap
<1>13. CASE \/ ClaimsGone \/ (\E kinds \in Collections : CollectGarbage(kinds))
            \/ (\E slug \in AllSlugs : PodGone(Pod(slug)) \/ JobGone(slug))
  BY <1>2, <1>13 DEF ClaimsGone, CollectGarbage, PodGone, JobGone
<1>14. CASE UNCHANGED vars
  BY <1>2, <1>14 DEF vars
<1> QED
  BY <1>4, <1>5, <1>6, <1>7, <1>8, <1>9, <1>10, <1>11, <1>12, <1>13, <1>14
  DEF Next, Operator, Collector, JobController

\* RunFinalize removes the finalizer only after every server whose address is published was told to
\* save and exit, unless the read of the password failed or a foreground deletion took the Secret
\* first: for any maps, and whatever crashes, conflicts or is read late.
THEOREM SavedFirst == Spec => SavedBeforeRelease
<1> DEFINE Told == \/ cluster.addr \subseteq told
                   \/ op.pw = "error"
                   \/ cluster.fg # "no" /\ op.pw = "missing"
           A == cluster.phase = "deleting" /\ cluster.fin /\ ~cluster'.fin => Told
<1>1. LifeInv /\ [Next]_vars => [A]_vars
  <2> SUFFICES ASSUME LifeInv, [Next]_vars, cluster.phase = "deleting", cluster.fin, ~cluster'.fin
               PROVE  Told
    OBVIOUS
  <2>1. /\ op.pc = "tell" /\ (op.pw = "read" => op.copy.addr = {}) /\ ~stale
    BY FinKept DEF RemoveFinalizer
  <2>2. op \in OpType /\ op # Idle /\ op.pc \in Finalizing
    BY <2>1, OpCases DEF LifeInv, Finalizing
  <2>3. op.pw \in {"", "read", "missing", "error"}
    BY <2>2 DEF OpType
  <2>4. cluster.addr \subseteq told \cup op.copy.addr /\ op.pw # ""
    BY <2>1, <2>2 DEF LifeInv, ToldSoFar
  <2>5. CASE op.pw = "missing"
    BY <2>1, <2>2, <2>5 DEF LifeInv, ToldSoFar
  <2> QED
    BY <2>1, <2>3, <2>4, <2>5
<1> QED
  BY <1>1, LifeAlways, PTL DEF Spec, SavedBeforeRelease

-----------------------------------------------------------------------------
(* gcOrphanedMaps goes by names. *)

\* The words that names are made of.  (That a literal is a STRING is nothing the provers know.)
Word ==
  STRING \cup {"island", "scorched", "earth", "aberration", "extinction", "the", "center", "astraeos",
              "club", "ark", "saves", "server", "a", "b", "gus", "game"}

LEMMA LongerName ==
  ASSUME NEW slug \in Seq(Word), NEW suffix \in Seq(Word), suffix # <<>>
  PROVE  IsStrictPrefix(slug, slug \o suffix)
<1>1. Len(slug \o suffix) = Len(slug) + Len(suffix) /\ Len(suffix) > 0
  OBVIOUS
<1>2. SubSeq(slug, 1, Len(slug)) = SubSeq(slug \o suffix, 1, Len(slug))
  OBVIOUS
<1>3. slug # slug \o suffix
  BY <1>1
<1> QED
  BY <1>1, <1>2, <1>3 DEF IsStrictPrefix, IsPrefix

LEMMA OneWord == ASSUME NEW S, NEW x \in S PROVE <<x>> \in Seq(S) /\ <<x>> # <<>>
OBVIOUS

LEMMA TwoWords == ASSUME NEW S, NEW x \in S, NEW y \in S PROVE <<x, y>> \in Seq(S) /\ <<x, y>> # <<>>
OBVIOUS

LEMMA SlugType ==
  ASSUME NEW id \in Seq(STRING)
  PROVE  MapSlug(id) \in Seq(Word)
<1>0. id \in Seq(Word)
  BY DEF Word
<1>1. \A entry \in Canonical : entry.slug \in Seq(Word)
  <2>1. \A x, y \in Word : <<x>> \in Seq(Word) /\ <<x, y>> \in Seq(Word)
    BY OneWord, TwoWords
  <2>2. \A a : \A b \in Seq(Word) : [id |-> a, slug |-> b].slug \in Seq(Word)
    OBVIOUS
  <2>3. /\ <<"island">> \in Seq(Word) /\ <<"scorched", "earth">> \in Seq(Word)
        /\ <<"aberration">> \in Seq(Word) /\ <<"extinction">> \in Seq(Word)
        /\ <<"the", "center">> \in Seq(Word) /\ <<"astraeos">> \in Seq(Word)
        /\ <<"club", "ark">> \in Seq(Word)
    BY <2>1 DEF Word
  <2> QED
    BY <2>2, <2>3, Zenon DEF Canonical
<1>2. CASE \E entry \in Canonical : entry.id = id
  BY <1>1, <1>2 DEF MapSlug
<1>3. CASE ~\E entry \in Canonical : entry.id = id
  <2>1. Len(id) > 1 => Front(id) \in Seq(Word)
    BY <1>0 DEF Front
  <2> QED
    BY <1>0, <1>3, <2>1 DEF MapSlug
<1> QED
  BY <1>2, <1>3

\* Every name a map's objects have begins with the slug, and goes on.
LEMMA NamesBelong ==
  ASSUME NEW keep, NEW slug \in keep, slug \in Seq(Word),
         NEW o \in Range(MapObjects(slug)) \cup {Pod(slug), Job(slug)}
  PROVE  ~Orphaned(o, keep)
<1>1. /\ IsStrictPrefix(slug, slug \o <<"saves">>)
      /\ IsStrictPrefix(slug, slug \o <<"server", "a">>) /\ IsStrictPrefix(slug, slug \o <<"server", "b">>)
      /\ IsStrictPrefix(slug, slug \o <<"gus">>) /\ IsStrictPrefix(slug, slug \o <<"game">>)
  <2>1. /\ <<"saves">> \in Seq(Word) /\ <<"server", "a">> \in Seq(Word) /\ <<"server", "b">> \in Seq(Word)
        /\ <<"gus">> \in Seq(Word) /\ <<"game">> \in Seq(Word)
    <3>1. \A x, y \in Word : <<x>> \in Seq(Word) /\ <<x, y>> \in Seq(Word)
      BY OneWord, TwoWords
    <3> QED
      BY <3>1 DEF Word
  <2>2. /\ <<"saves">> # <<>> /\ <<"server", "a">> # <<>> /\ <<"server", "b">> # <<>>
        /\ <<"gus">> # <<>> /\ <<"game">> # <<>>
    OBVIOUS
  <2> QED
    BY <2>1, <2>2, LongerName
<1>2. \E kind \in {"Claim", "ConfigMap", "Service", "Pod", "Job"} : \E name :
        /\ o = Object(kind, name)
        /\ kind \in {"Service", "Pod"} => name = slug
        /\ kind \in {"Claim", "ConfigMap"} => IsStrictPrefix(slug, name)
  BY <1>1 DEF MapObjects, Range, Pod, Job, Service
<1>3. PICK kind \in {"Claim", "ConfigMap", "Service", "Pod", "Job"} : \E name :
        /\ o.kind = kind /\ o.name = name
        /\ kind \in {"Service", "Pod"} => name = slug
        /\ kind \in {"Claim", "ConfigMap"} => BelongsTo(name, keep)
  BY <1>2 DEF Object, BelongsTo
<1> QED
  BY <1>3 DEF Orphaned

\* gcOrphanedMaps deletes nothing that the spec of its pass wants: for any maps and slugs, also
\* where one slug is a prefix of another, no claim, ConfigMap, Service, Job or pod of a listed map, not
\* the shared claim and not the Secret is ever doomed.
THEOREM GcKeepsWanted == Spec => WantedKept
<1> DEFINE A == op.pc = "maps" /\ op'.pc = "publish" =>
                  \A o \in Belongings(op.copy.maps) \cap objects :
                    o \in objects' /\ (o \in terminating' => o \in terminating)
<1>1. LifeInv /\ [Next]_vars => [A]_vars
  <2> SUFFICES ASSUME LifeInv, [Next]_vars, op.pc = "maps", op'.pc = "publish",
                      NEW o \in Belongings(op.copy.maps), o \in objects
               PROVE  o \in objects' /\ (o \in terminating' => o \in terminating)
    OBVIOUS
  <2>1. op \in OpType /\ op # Idle
    BY OpCases DEF LifeInv
  <2>2. GcOrphanedMaps
    <3>1. op' # Idle /\ op' # op
      BY DEF Idle
    <3>2. ~End
      BY <3>1 DEF End
    <3>3. ~ReconcileMap
      BY <2>1, <3>2 DEF ReconcileMap, OpType
    <3>4. ~Begin /\ ~Ensure /\ ~PublishStatus /\ ~ReadAdminPassword /\ ~TellMap /\ ~RemoveFinalizer
      BY DEF Begin, Ensure, PublishStatus, ReadAdminPassword, TellMap, RemoveFinalizer
    <3>5. /\ ~EnsureClusterObject("secret", Secret, "claim")
          /\ ~EnsureClusterObject("claim", ClusterClaim, "maps")
      BY DEF EnsureClusterObject
    <3>6. ~CatchUp /\ ~Crash /\ ~UNCHANGED vars
      BY <3>1, <3>2 DEF CatchUp, Crash, vars
    <3>7. ~Collector /\ ~JobController
      BY <3>1 DEF Collector, JobController, CollectGarbage, DependentsGone, ClaimsGone, PodGone, JobGone
    <3>8. /\ \A maps \in Layouts : ~EditMaps(maps)
          /\ \A policy \in Policies : ~DeleteCluster(policy)
      BY <3>1 DEF EditMaps, DeleteCluster
    <3> QED
      BY <3>3, <3>4, <3>5, <3>6, <3>7, <3>8 DEF Next, Operator
  <2> DEFINE keep == Slugs(op.copy.maps)
             doomed == {x \in objects : Orphaned(x, keep)}
  <2>3. PICK gone \in SUBSET doomed : Delete(gone)
    BY <2>2 DEF GcOrphanedMaps
  <2>4. ~Orphaned(o, keep)
    <3>1. CASE o = Secret
      BY <3>1, SecretKept
    <3>2. CASE o = ClusterClaim
      <4>1. o.kind = "Claim"
        BY <3>2 DEF ClusterClaim, Object
      <4> QED
        BY <3>2, <4>1 DEF Orphaned
    <3>3. ASSUME NEW slug \in keep, o \in Range(MapObjects(slug)) \cup {Pod(slug), Job(slug)}
          PROVE  ~Orphaned(o, keep)
      <4>1. op.copy.maps \in Seq(Seq(STRING))
        BY <2>1, LifecycleAssumption DEF OpType, Version
      <4>2. \A i \in DOMAIN op.copy.maps : op.copy.maps[i] \in Seq(STRING)
        BY <4>1
      <4>3. slug \in Seq(Word)
        BY <3>3, <4>2, SlugType DEF Slugs
      <4> HIDE DEF keep
      <4> QED
        BY <3>3, <4>3, NamesBelong
    <3> QED
      BY <3>1, <3>2, <3>3 DEF Belongings
  <2>5. o \notin gone
    BY <2>3, <2>4
  <2> HIDE DEF keep, doomed
  <2> QED
    BY <2>3, <2>5 DEF Delete
<1> QED
  BY <1>1, LifeAlways, PTL DEF Spec, WantedKept
=============================================================================

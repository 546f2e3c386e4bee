------------------------------ MODULE BlueGreen ------------------------------
(***************************************************************************)
(* What blue/green updates promise, without controllers, passes or caches. *)
(* One map has two volumes.  One is active; a server runs on the active    *)
(* volume only, after an install has completed on it; an install writes to *)
(* a volume no server runs from; the active volume changes only to one     *)
(* that is installed; and the old server is stopped before a new one       *)
(* starts.                                                                 *)
(*                                                                         *)
(* ArkClusterController is checked to implement this: see Implements there. *)
(***************************************************************************)
VARIABLES
  active,     \* the volume the map is to be served from
  writing,    \* the volumes an install writes to
  installed,  \* the volumes an install has completed on
  serving     \* the volumes a server of the map runs from

Volumes == {"server-a", "server-b"}

vars == <<active, writing, installed, serving>>

Init ==
  /\ active = "server-a"
  /\ writing = {} /\ installed = {} /\ serving = {}

\* An install starts on a volume that is not in use.
StartInstall(v) ==
  /\ v \notin serving
  /\ writing' = writing \cup {v}
  /\ UNCHANGED <<active, installed, serving>>

\* It ends, and what it leaves is good or is no better than before.
EndInstall(v) ==
  /\ v \in writing
  /\ writing' = writing \ {v}
  /\ installed' \in {installed, installed \cup {v}}
  /\ UNCHANGED <<active, serving>>

\* The commit of an update, or of its rollback.
Swap ==
  /\ active' \in installed \ {active}
  /\ UNCHANGED <<writing, installed, serving>>

Start ==
  /\ serving = {}
  /\ active \in installed \ writing
  /\ serving' = {active}
  /\ UNCHANGED <<active, writing, installed>>

Stop ==
  /\ serving' = {}
  /\ UNCHANGED <<active, writing, installed>>

Next ==
  \/ \E v \in Volumes : StartInstall(v) \/ EndInstall(v)
  \/ Swap \/ Start \/ Stop

Spec == Init /\ [][Next]_vars
=============================================================================

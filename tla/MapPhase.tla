------------------------------ MODULE MapPhase ------------------------------
(***************************************************************************)
(* The phases of one map and of the whole cluster (api/v1alpha1), the      *)
(* table of legal map transitions (internal/statemachine) and the          *)
(* aggregation of map phases (internal/reconcile/status.go).               *)
(***************************************************************************)
\* MapPhase of api/v1alpha1/arkcluster_types.go; "" is a status entry that was just appended.
MapPhases == {"", "Pending", "Provisioning", "InstallingActive", "Running",
              "InstallingInactive", "DrainingActive", "Swapping", "Failed"}

ClusterPhases == {"", "Pending", "Initializing", "Running", "Updating", "Degraded"}

\* The table `allowed`: explicit transitions, identity excluded.
allowed == [p \in MapPhases |->
              CASE p = ""                   -> {"Pending"}
                [] p = "Pending"            -> {"Provisioning", "Failed"}
                [] p = "Provisioning"       -> {"InstallingActive", "Failed"}
                [] p = "InstallingActive"   -> {"Running", "Failed"}
                [] p = "Running"            -> {"InstallingInactive", "DrainingActive", "Failed"}
                [] p = "InstallingInactive" -> {"DrainingActive", "Running", "Failed"}
                [] p = "DrainingActive"     -> {"Swapping", "Running", "Failed"}
                [] p = "Swapping"           -> {"Running", "Failed"}
                [] p = "Failed"             -> {}]

AllowedTransition(from, to) == from = to \/ to \in allowed[from]

\* Mutation (a wrong variant of the definition after it): Swapping does not hold others back.
MidFlightPhasesNoSwap == {"InstallingInactive", "DrainingActive"}

\* Phases in which OneAtATime holds the other maps back.
MidFlightPhases == {"InstallingInactive", "DrainingActive", "Swapping"}

UpdatingPhases == {"InstallingActive", "InstallingInactive", "DrainingActive", "Swapping"}

\* AggregatePhase over the set of phases of the listed maps.
AggregatePhase(phases) ==
  IF phases = {}                                          THEN "Pending"
  ELSE IF "Failed" \in phases                             THEN "Degraded"
  ELSE IF phases \cap UpdatingPhases # {}                 THEN "Updating"
  ELSE IF phases \cap {"Pending", "Provisioning"} # {}    THEN "Initializing"
  ELSE IF phases = {"Running"}                            THEN "Running"
  ELSE "Pending"
=============================================================================

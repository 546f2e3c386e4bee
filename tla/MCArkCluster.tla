---------------------------- MODULE MCArkCluster ----------------------------
(* Instances of ArkClusterController for TLC. *)
EXTENDS ArkClusterController

CONSTANT Layouts    \* the lists of maps users write

MCSpecs == [image : Images, launch : Launches, maps : Layouts]
OneMap == {<<"m1">>}
TwoMaps == {<<"m1", "m2">>}
ComeAndGo == {<<"m1">>, <<"m1", "m2">>}

\* Both maps with either launch setting, or one map alone.
MCRollOrLeave == {s \in MCSpecs : s.maps = <<"m1", "m2">> \/ s.launch = "l1"}

MCInitSpec == [image |-> "i1", launch |-> "l1", maps |-> <<"m1">>]
MCInitTwo == [image |-> "i1", launch |-> "l1", maps |-> <<"m1", "m2">>]
=============================================================================

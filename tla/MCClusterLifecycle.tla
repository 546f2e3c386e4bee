------------------------ MODULE MCClusterLifecycle ------------------------
(* Instances of ClusterLifecycle.  No slug is a prefix of another; TheIsland_WP and Island share
   one. *)
EXTENDS ClusterLifecycle

Island == <<"theisland", "wp">>
ModdedIsland == <<"island">>
Center == <<"thecenter", "wp">>

MCLayouts == {<<Island>>, <<ModdedIsland>>, <<Center>>}
MCFirst == <<Island>>
=============================================================================

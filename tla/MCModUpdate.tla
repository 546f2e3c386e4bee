---------------------------- MODULE MCModUpdate ----------------------------
(* Two mods and two maps, the second with a list of its own in some specs. *)
EXTENDS ModUpdateController

Lists(g, own2) == [global |-> g \cap Mods,
                   own |-> [m \in Maps |-> IF m = "m2" THEN own2 \cap Mods ELSE {}]]

\* One mod for everybody; or the other one as well; or the other one on m2 only; or none.
MCLists == {Lists({"d1"}, {}), Lists({"d1", "d2"}, {}), Lists({"d1"}, {"d2"}), Lists({}, {})}
MCInitLists == Lists({"d1"}, {})
MCSplit == {Lists({"d1"}, {"d2"})}
MCInitSplit == Lists({"d1"}, {"d2"})
=============================================================================

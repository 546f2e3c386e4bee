------------------------- MODULE MCServerTemplate -------------------------
(* Instances of ServerTemplate: a spec with two maps, and one edit of it for every kind of field. *)
EXTENDS ServerTemplate

Map(id, mods) == [id |-> id, mods |-> mods]

MCFirst ==
  [maps |-> <<Map("island", <<>>), Map("center", <<3>>)>>, game |-> 10, rcon |-> 20,
   launch |-> "a", options |-> <<"x", "y">>, mods |-> <<1, 2>>, gus |-> TRUE,
   server |-> FALSE, admin |-> FALSE, placement |-> "n1"]

MCSpecs ==
  LET F == MCFirst
  IN  { F,
        [F EXCEPT !.launch = "b"],
        [F EXCEPT !.options = <<"y", "x">>, !.mods = <<2, 1>>, !.placement = "n2"],
        [F EXCEPT !.options = <<"y">>],
        [F EXCEPT !.mods = <<1>>, !.server = TRUE],
        [F EXCEPT !.maps = Reverse(@)],
        [F EXCEPT !.maps = Tail(@), !.gus = FALSE],
        [F EXCEPT !.rcon = 11],
        [F EXCEPT !.rcon = 12, !.admin = TRUE] }

Header(name) == Line("[" \o name \o "]", 0)

\* A port of the user's own, and no [ServerSettings]; and one that switches RCON off there, with
\* the port in another section.
MCContents ==
  { <<Line("RCONPort", 5), Header("Other"), Line("x", 0)>>,
    <<Line("x", 0), Header("ServerSettings"), Line("RCONEnabled", 0), Header("Other"), Line("RCONPort", 5)>> }
=============================================================================

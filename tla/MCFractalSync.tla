---------------------------- MODULE MCFractalSync ----------------------------
(***************************************************************************)
(* The tree of a 2x2 MAGIA (magia_v3/soc.py): tiles 0 1 in the north row,  *)
(* 2 3 in the south row.                                                   *)
(***************************************************************************)
EXTENDS FractalSync

MC_Level(n) == IF n = "root" THEN 1 ELSE 0

MC_Above(n, a) ==
    CASE n = "nord" /\ a = "EW" -> <<"root", "NORD">>
      [] n = "sud" /\ a = "EW" -> <<"root", "SUD">>
      [] n = "west" /\ a = "NS" -> <<"root", "WEST">>
      [] n = "east" /\ a = "NS" -> <<"root", "EAST">>
      [] OTHER -> NoPort

MC_TilePort(t, a) ==
    IF a = "EW"
    THEN <<IF t \in {0, 1} THEN "nord" ELSE "sud",
           IF t \in {0, 2} THEN "WEST" ELSE "EAST">>
    ELSE <<IF t \in {0, 2} THEN "west" ELSE "east",
           IF t \in {0, 1} THEN "NORD" ELSE "SUD">>

MC_Below(n, p) ==
    IF n = "root"
    THEN CHOOSE b \in {"nord", "sud", "west", "east"} \X Axis :
            MC_Above(b[1], b[2]) = <<n, p>>
    ELSE <<CHOOSE t \in 0 .. 3 : MC_TilePort(t, AxisOf(p)) = <<n, p>> >>

\* Rows, columns, all four over either tree, and the two diagonals.
MC_Request(k, t) ==
    LET req(aggr, id) == [aggr |-> aggr, id |-> id]
    IN  CASE k = "rows" -> req({0}, 4)
          [] k = "columns" -> req({0}, 5)
          [] k = "all" -> req({0, 1}, 0)
          [] k = "all_v" -> req({0, 1}, 1)
          [] k = "diagonals" -> req({1}, IF t \in {0, 3} THEN 2 ELSE 6)
          [] k = "diagonals_v" -> req({1}, IF t \in {0, 3} THEN 3 ELSE 7)

MC_TeamOf(k, t) ==
    LET same(P) == CHOOSE S \in P : t \in S
    IN  CASE k = "rows" -> same({{0, 1}, {2, 3}})
          [] k = "columns" -> same({{0, 2}, {1, 3}})
          [] k \in {"all", "all_v"} -> 0 .. 3
          [] k \in {"diagonals", "diagonals_v"} -> same({{0, 3}, {1, 2}})

Kinds == {"rows", "columns", "all", "all_v", "diagonals", "diagonals_v"}
MC_Plans == {<<a, b>> : a, b \in Kinds}
=============================================================================

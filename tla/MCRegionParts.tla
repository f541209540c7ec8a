--------------------------- MODULE MCRegionParts ---------------------------
(***************************************************************************)
(* RegionParts on a region whose hub, once it leaves, splits its component *)
(* into a single node and a pair; a second region and a node without one   *)
(* offer paths outside the region that must not connect it.                *)
(***************************************************************************)
EXTENDS RegionParts

MCNodes == 0 .. 5

MCEdges == {<<0, 1>>, <<0, 2>>, <<0, 3>>, <<1, 2>>, <<0, 4>>, <<3, 4>>, <<4, 5>>, <<1, 5>>}

MCRegionOf == [n \in Nodes |-> CASE n < 4 -> "east" [] n = 4 -> "west" [] n = 5 -> "none"]

\* The two nodes outside "east" move together.
MCPlans == {a \in Assignments : a[4] = a[5]}

=============================================================================

--------------------------- MODULE MCScoreRun ---------------------------
(***************************************************************************)
(* StreamScorer on a graph of four nodes: small enough to enumerate files, *)
(* large enough that an update can take either branch of UseFullRescan and *)
(* that a label can outgrow the dense storage of a tally.                  *)
(***************************************************************************)
EXTENDS ScoreRun

MCNodes == 0 .. 3

\* 0 - 1 - 2 - 3 and 0 - 2.
MCEdges == {<<0, 1>>, <<1, 2>>, <<2, 3>>, <<0, 2>>}

Plan(a, b, c, d) == [n \in Nodes |-> CASE n = 0 -> a [] n = 1 -> b [] n = 2 -> c [] n = 3 -> d]

\* The same districts under two labellings, plans one node apart, plans that
\* drain a district, and plans with a label the others do not use.
MCPlans ==
    {Plan(0, 0, 1, 1), Plan(1, 1, 0, 0), Plan(0, 0, 0, 1), Plan(0, 1, 1, 1),
     Plan(2, 0, 1, 1), Plan(0, 0, 2, 2)}

\* Node 3 has no region and nobody lives there, so the plan in which it is a
\* district of its own is refused.  A hull of nodes on a line reaches the nodes
\* between the outermost two.
MCRegionOf == [n \in Nodes |-> CASE n < 2 -> "east" [] n = 2 -> "west" [] n = 3 -> "none"]
MCPopulated == {0, 1, 2}
MCHullReach ==
    [S \in SUBSET Nodes |-> {n \in Nodes : \E x, y \in S : x <= n /\ n <= y}]

MCUnlimited == -1
MCLimits == {0, 2, MCUnlimited}

=============================================================================

--------------------------- MODULE MCEnsembleMerge ---------------------------
(***************************************************************************)
(* Two calls on a result of two metrics.  The first metric has one table   *)
(* or two, and one of its tables has the name that the second metric gets  *)
(* in a renamed directory.                                                 *)
(***************************************************************************)
EXTENDS EnsembleMerge

MCLayouts ==
    [m \in Metrics |-> IF m = "area" THEN {{"a1"}, {"a1", "s"}} ELSE {{"b1"}, {"s"}}]

==============================================================================

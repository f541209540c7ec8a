-------------------------- MODULE MCPlanAnalysis --------------------------
(***************************************************************************)
(* Four units in two counties, the votes of two elections, the people and  *)
(* what is measured of the units.  Two parts are a vote.  An edit makes a  *)
(* column unusable, negative, fractional, smaller than a group it          *)
(* contains, empty, or at odds with another measure.  The district of the  *)
(* first two units is rounder than a circle.                               *)
(***************************************************************************)
EXTENDS PlanAnalysis

\* 1 - 2    county: east west    town: x x
\* |   |            west east          x y
\* 3 - 4
MCEdges == <<<<1, 2>>, <<1, 3>>, <<2, 4>>, <<3, 4>>>>

MCGraphData ==
  [dem16 |-> <<<<2, 4, 0, 6>>, <<2, Unusable, 0, 6>>>>,
   rep16 |-> <<<<4, 2, 0, 2>>, <<1, 2, 5, 3>>>>,
   dem20 |-> <<<<6, 0, 4, 2>>, <<6, -2, 4, 2>>>>,
   rep20 |-> <<<<2, 2, 4, 0>>>>,
   people |-> <<<<4, 4, 2, 6>>, <<4, 2, 2, 2>>, <<0, 0, 0, 0>>>>,
   county |-> <<<<"east", "west", "west", "east">>, <<"east", NoLabel, "west", "east">>>>,
   town |-> <<<<"x", "x", "x", "y">>>>,
   area |-> <<<<8, 6, 1, 6>>>>,
   outer |-> <<<<12, 11, 9, 9>>>>,
   boundary_perim |-> <<<<7, 5, 3, 6>>>>,
   shared_perim |-> <<<<5, 3, 1, 2>>, <<5, 3, 9, 2>>>>,
   ward |-> <<<<"x", "half", "x", NoLabel>>>>] @@
  ("repetitions" :> <<<<1, 0, 1, 2>>>>) @@ ("net votes" :> <<<<1, -2, 0, 3>>>>)

\* The frame holds the ordinary columns in another order of units, but for one
\* value, and the shapes.
MCFrameRows == <<3, 1, 4, 2>>

MCFrameData ==
  [dem16 |-> <<<<0, 2, 6, 4>>, <<0, 2, 6, Unusable>>>>,
   rep16 |-> <<<<0, 4, 2, 2>>, <<5, 1, 3, 2>>>>,
   dem20 |-> <<<<4, 6, 2, 0>>, <<4, 6, 2, -2>>>>,
   rep20 |-> <<<<8, 2, 0, 2>>>>,
   people |-> <<<<2, 4, 6, 4>>, <<2, 4, 2, 2>>, <<0, 0, 0, 0>>>>,
   county |-> <<<<"west", "east", "east", "west">>, <<"west", "east", "east", NoLabel>>>>,
   town |-> <<<<"x", "x", "y", "x">>>>,
   shapes |-> <<<<"c", "a", "d", "b">>, <<"c", "a", "d", "b2">>>>]

AllPaired(p, o) ==
  [i \in 1..10 |-> Paired(<<"district_vote_shares", "district_wins", "seats", "overall_vote_share",
                            "efficiency_gap", "simplified_efficiency_gap", "mean_median",
                            "disproportionality", "partisan_bias", "partisan_gini">>[i], p, o, "equal")]

AllCross(ps, os) ==
  [i \in 1..8 |-> CrossElection(<<"competitive_contests", "party_wins_by_district", "swing_districts",
                                  "party_districts", "opposition_party_districts", "aggregate_seats",
                                  "mean_signed_seat_vote_gap", "mean_absolute_seat_vote_gap">>[i],
                                ps, os, <<1, 6>>)]

AllPopulation ==
  <<Population("population_deviations", "people", FALSE),
    Population("max_absolute_population_deviation", "people", TRUE),
    Population("max_population_deviation", "people", FALSE),
    Demographic("demographic_shares", "dem16", "people", Half),
    Demographic("districts_above_threshold", "dem16", "people", Half),
    EguiaScore("dem16", "rep16", "county", "people")>>

OtherUnits == [crs |-> "metres", surface |-> {<<"block", 4>>}]

\* Metrics that are registered alone: their names are those of others.
OthersNamed(m) ==
  <<CutEdges("first", None), CutEdges("weighted", None), CutEdges("mapped", None), m>>

\* Names differ from the kinds where a metric is registered twice.
MCRegistrations ==
  {AllPaired("dem16", "rep16")
     \o <<Tally("first", <<"dem20", "people">>), CutEdges("cut", None),
          RegionMetric("towns split", "region_splits", <<"town">>),
          AreaPerimeter("compact", "polsby_popper", "area", "outer", None, None)>>,
   AllCross(<<"dem16", "rep20">>, <<"rep16", "dem16">>) \o AllPopulation
     \o <<Tally("votes", <<"rep20", "dem16">>), CutEdges("weighted", "shared_perim"),
          RegionMetric("split", "region_splits", <<"county", "town">>),
          RegionMetric("parts", "region_parts", <<"town", "county">>),
          TallyByRegion("by county", "county", <<<<"n", "people">>, <<"d", "dem16">>>>, TRUE),
          AreaPerimeter("round", "schwartzberg", "area", "outer", None, None)>>,
   <<Tally("second", <<"people", "rep20">>),
     RegionMetric("pieces", "region_pieces", <<"county">>),
     AreaPerimeter("mapped", "schwartzberg", None, None, None, None),
     AreaPerimeter("mapped too", "polsby_popper", None, None, None, None),
     HullMetric("reock", None), HullMetric("state_clipped_convex_hull_ratio", "state"),
     PopulationPolygon("polygon", "people", FrameUnits),
     PopulationPolygon("blocks", "people", OtherUnits)>>,
   <<Tally("twice", <<"rep20">>), Tally("twice", <<"people">>)>>,
   OthersNamed(Tally("second", <<"net votes", "people">>)),
   OthersNamed(CutEdges("second", "repetitions")),
   OthersNamed(Tally("first__scores.parquet", <<"people">>)),
   OthersNamed(TallyByRegion("second", "ward", <<<<"n", "people">>>>, FALSE))}

MCOneCallArguments ==
  {[columns |-> <<"rep20", "dem16">>, party |-> "rep16", opposition |-> "dem20", model |-> "observed",
    population |-> "people", relative |-> TRUE, subgroup |-> "dem16", total |-> "people",
    threshold |-> Half, parties |-> <<"dem16", "dem20">>, oppositions |-> <<"rep16", "rep20">>,
    margin |-> <<1, 6>>, region |-> "county", area |-> "area", perimeter |-> "outer",
    boundary |-> "boundary_perim", shared |-> "shared_perim", state |-> "state",
    units |-> [OtherUnits EXCEPT !.crs = "feet"]]}

Labels == {"a", "b", "c"}

\* Plans and reference plans, one of each partition into two or three districts,
\* whose labels are met in the order given.
PlansLabelled(first, second, third) ==
  {row \in [1..4 -> Labels] :
     /\ row[1] = first /\ Cardinality(Range(row)) >= 2
     /\ \A n \in 2..4 : row[n] = third => \E k \in 1..(n - 1) : row[k] = second}

MCOneCallPlans == PlansLabelled("b", "c", "a")

\* Assignments, and partitions of this graph and of another.
Plan(labels) == [labels |-> labels, edges |-> AnyEdges]

MCRows ==
  {<<Plan(<<"b", "a", "a", "b">>)>>, <<[labels |-> <<"c", "a", "c", "b">>, edges |-> MCEdges]>>,
   <<Plan(<<"a", "b", "b", "b">>), Plan(<<"b", "b", "a", "b">>)>>,
   <<Plan(<<"a", "b", "b", "b">>), Plan(<<"b", "c", "a", "b">>)>>,
   <<Plan(<<"a", "a", "b", "b">>)>>, <<Plan(<<"a", NoLabel, "b", "b">>)>>,
   <<[labels |-> <<"b", "a", "a", "b">>, edges |-> <<<<1, 2>>>>]>>}

\* Streams of plans with districts 2 and 7, bundled with the graph, with a graph in
\* another order or with none, whose frames change their districts or lack a unit.
MCStreams ==
  {[frames |-> <<<<7, 2, 7, 2>>, <<2, 7, 2, 2>>>>, order |-> <<1, 2, 3, 4>>],
   [frames |-> <<>>, order |-> NoOrder],
   [frames |-> <<<<2, 2, 7, 7>>>>, order |-> NoOrder],
   [frames |-> <<<<7, 2, 7, 2>>, <<2, 2, 2, 2>>>>, order |-> NoOrder],
   [frames |-> <<<<7, 2, 7>>>>, order |-> NoOrder],
   [frames |-> <<<<7, 2, 7, 2>>>>, order |-> <<2, 1, 3, 4>>]}

MCPathComponent(name) == IF name = "net votes" THEN "net%20votes" ELSE name

MCReferences == PlansLabelled("a", "b", "c")
===========================================================================

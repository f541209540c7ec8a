---------------------------- MODULE SinglePlan ----------------------------
(***************************************************************************)
(* gerrytools.scoring.single_plan: a function for each metric that builds  *)
(* the metric, gives it to an evaluator of its own and returns its score   *)
(* of one plan.  The plan's units come from a graph or partition, which a  *)
(* frame may supply with columns, or from the rows of a frame alone.       *)
(***************************************************************************)
EXTENDS PlanEvaluator

CONSTANTS
  OneCallArguments,   \* the arguments of these functions, a field for each
  OneCallPlans        \* the plans they score, a label for each node

\* What the functions make of their arguments, by the metrics they share code with.
TallyCalls(a) == {Tally("tally", a.columns)}

EguiaCalls(a) == {EguiaScore(a.party, a.opposition, a.region, a.population)}

ShareCalls(a) ==
  {Paired(kind, a.party, a.opposition, "equal") :
     kind \in {"district_vote_shares", "district_wins", "seats", "overall_vote_share"}}

GapCalls(a) ==
  {Paired(kind, a.party, a.opposition, "equal") :
     kind \in {"efficiency_gap", "simplified_efficiency_gap", "mean_median", "disproportionality"}}

SwingCalls(a) ==
  {Paired(kind, a.party, a.opposition, a.model) : kind \in {"partisan_bias", "partisan_gini"}}

DeviationCalls(a) ==
  {Population(kind, a.population, a.relative) :
     kind \in {"max_absolute_population_deviation", "max_population_deviation"}}
    \cup {Population("population_deviations", a.population, FALSE)}

SubgroupCalls(a) ==
  {Demographic(kind, a.subgroup, a.total, a.threshold) :
     kind \in {"demographic_shares", "districts_above_threshold"}}

ContestCalls(a) ==
  {CrossElection(kind, a.parties, a.oppositions, a.margin) :
     kind \in {"competitive_contests", "party_wins_by_district", "swing_districts"}}

SweepCalls(a) ==
  {CrossElection(kind, a.parties, a.oppositions, a.margin) :
     kind \in {"party_districts", "opposition_party_districts", "aggregate_seats"}}

SeatVoteGapCalls(a) ==
  {CrossElection(kind, a.parties, a.oppositions, a.margin) :
     kind \in {"mean_signed_seat_vote_gap", "mean_absolute_seat_vote_gap"}}

\* The functions of _geometry.py.
CutEdgesCalls(a) == {CutEdges("cut_edges", weight) : weight \in {None, a.shared}}

RegionCalls(a) ==
  {RegionMetric(kind, kind, <<a.region>>) : kind \in {"region_splits", "region_pieces"}}

RegionPartsCalls(a) == {RegionMetric("region_parts", "region_parts", <<a.region>>)}

TallyByRegionCalls(a) ==
  {TallyByRegion("tally_by_region", a.region, <<<<"sum", a.population>>>>, counted) :
     counted \in BOOLEAN}

\* With attributes of the graph, or with none of them.
PolsbyPopperCalls(a) ==
  {AreaPerimeter("polsby_popper", "polsby_popper", a.area, a.perimeter, None, a.shared),
   AreaPerimeter("polsby_popper", "polsby_popper", None, None, None, None)}

SchwartzbergCalls(a) ==
  {AreaPerimeter("schwartzberg", "schwartzberg", a.area, None, a.boundary, a.shared),
   AreaPerimeter("schwartzberg", "schwartzberg", None, None, None, None)}

ReockCalls(a) == {HullMetric("reock", None)}

HullCalls(a) ==
  {HullMetric("convex_hull_ratio", None), HullMetric("state_clipped_convex_hull_ratio", a.state)}

PopulationPolygonCalls(a) ==
  {PopulationPolygon("population_polygon", a.population, units) : units \in {FrameUnits, a.units}}

-----------------------------------------------------------------------------
\* _geodataframe_assignment: the labels in the order of the rows.
RowLabels(row) == [r \in Nodes |-> row[FrameRows[r]]]

\* topology_required: these functions refuse a frame alone.
NeedsTopology(m) == m.kind \in {"cut_edges", "region_parts"}

\* Bound: functions that share nothing with an evaluator are called before one
\* is used, and once for each content of the columns.
OneCallsAreTried == metrics = <<>> /\ ~framed /\ result = NoResult

\* Every function of the module, with these arguments.
Calls(a) ==
  UNION {TallyCalls(a), EguiaCalls(a), ShareCalls(a), GapCalls(a), SwingCalls(a),
         DeviationCalls(a), SubgroupCalls(a), ContestCalls(a), SweepCalls(a), SeatVoteGapCalls(a),
         CutEdgesCalls(a), RegionCalls(a), RegionPartsCalls(a), TallyByRegionCalls(a),
         PolsbyPopperCalls(a), SchwartzbergCalls(a), ReockCalls(a), HullCalls(a),
         PopulationPolygonCalls(a)}

CanCall(units, m) ==
  /\ units = "frame" => ~NeedsTopology(m)
  /\ CanPrepare(<<m>>, NoResources, units)

\* _evaluate: the evaluator it makes has one metric.
OneMetricEngine(units, m) == PreparedEngine(<<m>>, Candidate(<<m>>, NoResources, units), units)

\* Units come from a graph, from a graph with the frame as geometry, or from the
\* frame alone.
PlanScored(units, m, row, plan, used) ==
  IF CanEncode(<<plan>>) /\ CanScore(used, <<plan>>)
  THEN [call |-> units, rows |-> <<row>>, metrics |-> <<m>>, scores |-> Scores(used, <<plan>>)]
  ELSE Raised

ScoreSinglePlan(units, m) ==
  IF CanCall(units, m)
  THEN \E used \in {OneMetricEngine(units, m)}, row \in OneCallPlans :
         result' = PlanScored(units, m, row, IF units = "frame" THEN RowLabels(row) ELSE row, used)
  ELSE result' = Raised

SinglePlanNext ==
  /\ OneCallsAreTried
  /\ UNCHANGED <<edition, framed, metrics, resources, engine>>
  /\ \E units \in {"graph", "both", "frame"}, a \in OneCallArguments :
       \E m \in Calls(a) : ScoreSinglePlan(units, m)
===========================================================================

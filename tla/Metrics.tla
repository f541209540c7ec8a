------------------------------ MODULE Metrics -------------------------------
(***************************************************************************)
(* Metric descriptions: what a caller registers, which node columns and    *)
(* other resources a description needs, what is refused before the engine  *)
(* is asked, and how descriptions share one engine metric.                 *)
(*                                                                         *)
(* First come the metrics that read edges, region labels or the shapes of  *)
(* units (scoring/metrics/_geometry.py), with their scores of a plan       *)
(* (rust/src/metrics/cut_edges.rs, region.rs, region_tally.rs,             *)
(* polsby_popper.rs with what wraps it, hull_metric.rs with what it        *)
(* drives).  What a plane measure of a district is depends on the shapes of *)
(* its units alone, so these stand for it.  Four times pi is taken as      *)
(* 12.56.  Then come the metrics that read tallies by district; their      *)
(* options are a turnout model, a margin, a threshold, or whether to report *)
(* relative to the ideal population.                                       *)
(***************************************************************************)
EXTENDS Fractions, Sequences, SequencesExt

-----------------------------------------------------------------------------
(* What every metric description has (scoring/metrics/_base.py): a record  *)
(* of its result name, its kind, the columns it names by role, and its     *)
(* option; and the resources it asks an evaluator to prepare.  A resource  *)
(* is named by what it is, where its values come from and the name they    *)
(* have there.                                                             *)

Metric(name, kind, roles, option) ==
  [name |-> name, kind |-> kind, roles |-> roles, option |-> option]

IsDistinct(seq) == Cardinality(ToSet(seq)) = Len(seq)

\* _merged_keys
MergedKeys(left, right) == left \o SelectSeq(right, LAMBDA key : ~Contains(left, key))

\* _KeyedMetric._column_indices
IndicesOf(keys, available) ==
  [k \in DOMAIN keys |-> SelectInSeq(available, LAMBDA c : c = keys[k])]

-----------------------------------------------------------------------------
NodeColumn(source, key) == <<"node", source, key>>
RegionLabels(source, key) == <<"region", source, key>>
EdgeColumn(key) == <<"edge", "graph", key>>
Topology == <<"topology", "graph", "edges">>
Alignment == <<"alignment", "geometry", "positions">>
Shapes == <<"geometry", "geometry", "shapes">>

\* _ResourceSpec: what comes from the frame needs its rows aligned, and values
\* by edge need the edges.
Closed(spec) ==
  spec \cup {r \in {Alignment} : \E needed \in spec : needed[2] = "geometry"}
       \cup {r \in {Topology} : \E needed \in spec : needed[1] = "edge"}

-----------------------------------------------------------------------------
(* Descriptions *)

None == "none"        \* an option left out

CutEdges(name, weight) == Metric(name, "cut_edges", [weight |-> weight], None)

RegionKinds == {"region_splits", "region_pieces", "region_parts"}

RegionMetric(name, kind, attrs) == Metric(name, kind, [columns |-> attrs], None)

\* columns: each result column with the column it sums.
TallyByRegion(name, region, columns, counted) ==
  Metric(name, "tally_by_region", [region |-> region, columns |-> columns], counted)

AreaKinds == {"polsby_popper", "schwartzberg"}

AreaPerimeter(name, kind, area, perimeter, boundary, shared) ==
  Metric(name, kind,
         [area |-> area, perimeter |-> perimeter, boundary |-> boundary, shared |-> shared], None)

HullKinds == {"convex_hull_ratio", "reock", "state_clipped_convex_hull_ratio"}

HullMetric(kind, state) == Metric(kind, kind, [state |-> state], None)

\* The frame's units, or other units with their weights and their
\* reference system.
FrameUnits == [crs |-> None, surface |-> {}]

AlignedSurface(shapes, weights) == {<<shapes[n], weights[n]>> : n \in DOMAIN shapes}

PopulationPolygon(name, column, units) ==
  Metric(name, "population_polygon", [population |-> column], units)

ShapeKinds ==
  {"cut_edges", "tally_by_region", "population_polygon", "area_perimeter_metrics"}
    \cup RegionKinds \cup AreaKinds \cup HullKinds

-----------------------------------------------------------------------------
(* Resources; source is where an evaluator reads ordinary columns *)

\* _resolved_source
ResolvedSource(m, source) ==
  IF \E role \in DOMAIN m.roles : m.roles[role] # None THEN "graph" ELSE source

\* _graph_keys
GraphKeys(m) ==
  LET Or(key, default) == IF key = None THEN default ELSE key
  IN [area |-> Or(m.roles.area, "area"),
      perimeter |-> m.roles.perimeter,
      boundary |-> IF m.roles.perimeter = None THEN Or(m.roles.boundary, "boundary_perim")
                   ELSE m.roles.boundary,
      shared |-> Or(m.roles.shared, "shared_perim")]

PerimeterKey(m) ==
  IF m.roles.perimeter # None THEN m.roles.perimeter ELSE GraphKeys(m).boundary

ShapeResources(m, source) ==
  Closed(
    CASE m.kind = "cut_edges" ->
           {Topology} \cup {EdgeColumn(key) : key \in {m.roles.weight} \ {None}}
      [] m.kind \in RegionKinds ->
           {RegionLabels(source, key) : key \in ToSet(m.roles.columns)}
             \cup (IF m.kind = "region_parts" THEN {Topology} ELSE {})
      [] m.kind = "tally_by_region" ->
           {RegionLabels(source, m.roles.region)}
             \cup {NodeColumn(source, c[2]) : c \in ToSet(m.roles.columns)}
      [] m.kind \in AreaKinds ->
           IF ResolvedSource(m, source) = "geometry" THEN {Shapes}
           ELSE {NodeColumn("graph", GraphKeys(m).area), NodeColumn("graph", PerimeterKey(m)),
                 EdgeColumn(GraphKeys(m).shared)}
      [] m.kind \in HullKinds -> {Shapes}
      [] m.kind = "population_polygon" ->
           {Shapes} \cup (IF m.option = FrameUnits
                         THEN {NodeColumn(source, m.roles.population)} ELSE {}))

-----------------------------------------------------------------------------
(* Descriptions that share an engine metric *)

ShapesMerge(m, other) ==
  \/ m.kind \in RegionKinds /\ other.kind = m.kind
  \/ /\ m.kind \in AreaKinds \cup {"area_perimeter_metrics"} /\ other.kind \in AreaKinds
     /\ m.roles = other.roles

MergedShape(m, other) ==
  IF m.kind \in RegionKinds
  THEN [m EXCEPT !.roles.columns = MergedKeys(@, other.roles.columns)]
  ELSE [m EXCEPT !.kind = IF @ = other.kind THEN @ ELSE "area_perimeter_metrics"]

\* The columns of the engine metric that a description reads.
ShapeColumns(m, engineMetric) ==
  CASE m.kind \in RegionKinds -> IndicesOf(m.roles.columns, engineMetric.roles.columns)
    [] engineMetric.kind = "area_perimeter_metrics" ->
         IndicesOf(<<m.kind>>, <<"polsby_popper", "schwartzberg">>)
    [] OTHER -> <<1>>

-----------------------------------------------------------------------------
(* What the engine is given: prepared is a function from resources to values *)

\* _build_region_column: labels by node become dense ids in the order met.
Missing == -1

RegionOrder(values, noLabel) ==
  FoldLeft(LAMBDA seen, l : IF l = noLabel \/ Contains(seen, l) THEN seen ELSE Append(seen, l),
           <<>>, values)

Dense(values, noLabel) ==
  LET order == RegionOrder(values, noLabel)
  IN [n \in DOMAIN values |->
        IF values[n] = noLabel THEN Missing ELSE SelectInSeq(order, LAMBDA l : l = values[n])]

\* PreparedPolsbyPopper::from_boundary_perimeters: the shared perimeters are
\* added to the boundaries.
SharedAt(edges, shared, n) == SumFunctionOnSet(shared, {e \in DOMAIN edges : n \in ToSet(edges[e])})

TotalPerimeters(m, prepared) ==
  LET edges == prepared[Topology]
      shared == prepared[EdgeColumn(GraphKeys(m).shared)]
      given == prepared[NodeColumn("graph", PerimeterKey(m))]
  IN IF m.roles.perimeter # None THEN given
     ELSE [n \in DOMAIN given |-> given[n] + SharedAt(edges, shared, n)]

\* The columns of a metric of areas and perimeters.
AreaColumns(m, source, prepared, edges) ==
  IF ResolvedSource(m, source) = "geometry" THEN [shapes |-> prepared[Shapes]]
  ELSE [areas |-> prepared[NodeColumn("graph", GraphKeys(m).area)],
        perimeters |-> TotalPerimeters(m, prepared),
        edges |-> edges,
        shared |-> prepared[EdgeColumn(GraphKeys(m).shared)]]

\* The columns of a metric of edges or of region labels.
EdgeAndRegionColumns(m, source, prepared, edges, noLabel) ==
  LET Region(key) == Dense(prepared[RegionLabels(source, key)], noLabel)
  IN CASE m.kind = "cut_edges" ->
            [edges |-> edges,
             weights |-> IF m.roles.weight = None THEN [e \in DOMAIN edges |-> 1]
                         ELSE prepared[EdgeColumn(m.roles.weight)]]
       [] m.kind \in RegionKinds ->
            [regions |-> [k \in DOMAIN m.roles.columns |-> Region(m.roles.columns[k])],
             edges |-> edges]
       [] m.kind = "tally_by_region" ->
            [regions |-> Region(m.roles.region),
             labels |-> RegionOrder(prepared[RegionLabels(source, m.roles.region)], noLabel),
             values |-> [k \in DOMAIN m.roles.columns |->
                           prepared[NodeColumn(source, m.roles.columns[k][2])]]]

ShapeKernel(m, source, prepared, noLabel) ==
  LET edges == IF Topology \in DOMAIN prepared THEN prepared[Topology] ELSE <<>>
  IN [kind |-> m.kind, option |-> m.option,
      columns |->
        CASE m.kind \in {"cut_edges", "tally_by_region"} \cup RegionKinds ->
               EdgeAndRegionColumns(m, source, prepared, edges, noLabel)
          [] m.kind \in AreaKinds \cup {"area_perimeter_metrics"} ->
               AreaColumns(m, source, prepared, edges)
          [] m.kind \in HullKinds ->
               [shapes |-> prepared[Shapes], state |-> m.roles.state]
          [] m.kind = "population_polygon" ->
               [shapes |-> prepared[Shapes],
                surface |-> IF m.option # FrameUnits THEN m.option.surface
                            ELSE AlignedSurface(prepared[Shapes],
                                                prepared[NodeColumn(source, m.roles.population)])]]

\* What is refused when a metric is validated and given to the engine.
ShapeAccepted(m, source, prepared, crs) ==
  /\ m.kind = "population_polygon" =>
       IF m.option # FrameUnits THEN m.option.crs = crs
       ELSE LET weights == prepared[NodeColumn(source, m.roles.population)]
            IN (\A n \in DOMAIN weights : weights[n] >= 0) /\ SumFunction(weights) > 0
  /\ (m.kind \in AreaKinds /\ ResolvedSource(m, source) = "graph") =>
       LET areas == prepared[NodeColumn("graph", GraphKeys(m).area)]
           given == prepared[NodeColumn("graph", PerimeterKey(m))]
           shared == prepared[EdgeColumn(GraphKeys(m).shared)]
           perimeters == TotalPerimeters(m, prepared)
       IN /\ \A n \in DOMAIN areas : areas[n] > 0 /\ given[n] >= 0 /\ perimeters[n] > 0
          /\ \A e \in DOMAIN shared : shared[e] >= 0
          /\ \A n \in DOMAIN perimeters :
               SharedAt(prepared[Topology], shared, n) <= perimeters[n]

-----------------------------------------------------------------------------
(* Scores of an assignment of dense districts *)

LOCAL Members(assignment, d) == {n \in DOMAIN assignment : assignment[n] = d}

DistrictPerimeter(kernel, assignment, d) ==
  LET c == kernel.columns
      inner == {e \in DOMAIN c.edges : \A k \in 1..2 : assignment[c.edges[e][k]] = d}
  IN SumFunctionOnSet(c.perimeters, Members(assignment, d)) - 2 * SumFunctionOnSet(c.shared, inner)

DistrictArea(kernel, assignment, d) ==
  SumFunctionOnSet(kernel.columns.areas, Members(assignment, d))

\* polsby_popper_score refuses a district without a perimeter and a score above
\* one, and with it the plan.
ShapeScores(kernel, assignment) ==
  (kernel.kind \in AreaKinds \cup {"area_perimeter_metrics"} /\ "areas" \in DOMAIN kernel.columns) =>
    \A d \in Range(assignment) :
      LET p == DistrictPerimeter(kernel, assignment, d)
      IN p > 0 /\ 1256 * DistrictArea(kernel, assignment, d) <= 100 * p * p

\* schwartzberg_value: the inverse of the root of a score.
InverseRoot(x) == <<"root", Frac(x[2], x[1])>>

\* In parts of a circle's: the area over the square of the perimeter.
PolsbyPopperScores(kernel, assignment) ==
  [d \in Range(assignment) |->
     LET p == DistrictPerimeter(kernel, assignment, d)
     IN Frac(DistrictArea(kernel, assignment, d), p * p)]

\* The columns of an area metric: its own, or both.
AreaScores(kernel, assignment) ==
  LET scores == PolsbyPopperScores(kernel, assignment)
      roots == [d \in DOMAIN scores |-> InverseRoot(scores[d])]
      Of(kind) == [d \in Range(assignment) |->
                     <<kind, {kernel.columns.shapes[n] : n \in Members(assignment, d)}>>]
      Column(kind) == IF "shapes" \in DOMAIN kernel.columns THEN Of(kind)
                      ELSE IF kind = "polsby_popper" THEN scores ELSE roots
  IN IF kernel.kind \in AreaKinds THEN <<Column(kernel.kind)>>
     ELSE <<Column("polsby_popper"), Column("schwartzberg")>>

\* occupied_districts: the pairs of a region and a district in it.
Occupied(regions, assignment) ==
  {<<regions[n], assignment[n]>> : n \in {k \in DOMAIN regions : regions[k] # Missing}}

RegionsIn(regions) == Range(regions) \ {Missing}

Splits(regions, assignment) ==
  Cardinality({r \in RegionsIn(regions) :
                 Cardinality({pair \in Occupied(regions, assignment) : pair[1] = r}) > 1})

\* score_parts: units are joined along the edges inside one region and district.
Parts(regions, edges, assignment) ==
  LET Key(n) == <<regions[n], assignment[n]>>
      Joined(parts, e) ==
        IF regions[e[1]] = Missing \/ Key(e[1]) # Key(e[2]) THEN parts
        ELSE LET touched == {part \in parts : e[1] \in part \/ e[2] \in part}
             IN (parts \ touched) \cup {UNION touched}
  IN Cardinality(FoldLeft(Joined, {{n} : n \in {k \in DOMAIN regions : regions[k] # Missing}}, edges))

RegionScore(kernel, assignment) ==
  [k \in DOMAIN kernel.columns.regions |->
     LET regions == kernel.columns.regions[k]
     IN CASE kernel.kind = "region_splits" -> Splits(regions, assignment)
          [] kernel.kind = "region_pieces" -> Cardinality(Occupied(regions, assignment))
          [] kernel.kind = "region_parts" -> Parts(regions, kernel.columns.edges, assignment)]

\* PreparedRegionTally::score: for each metric, the count first, a column for
\* each region.
RegionTallyScore(kernel, assignment) ==
  LET c == kernel.columns
      ones == [n \in DOMAIN c.regions |-> 1]
      values == (IF kernel.option THEN <<ones>> ELSE <<>>) \o c.values
      width == Len(c.labels)
  IN [column \in 1..(Len(values) * width) |->
        [d \in Range(assignment) |->
           SumFunctionOnSet(values[(column - 1) \div width + 1],
                            {n \in Members(assignment, d) :
                               c.regions[n] = ((column - 1) % width) + 1})]]

\* Mistake: an edge is cut only if its first unit has the earlier district.
CutEdgesOfFirst(kernel, assignment) ==
  LET c == kernel.columns
  IN SumFunctionOnSet(c.weights,
       {e \in DOMAIN c.edges : assignment[c.edges[e][1]] < assignment[c.edges[e][2]]})

CutEdgesScore(kernel, assignment) ==
  LET c == kernel.columns
  IN SumFunctionOnSet(c.weights,
       {e \in DOMAIN c.edges : assignment[c.edges[e][1]] # assignment[c.edges[e][2]]})

ShapeScore(kernel, assignment) ==
  CASE kernel.kind = "cut_edges" -> CutEdgesScore(kernel, assignment)
    [] kernel.kind \in RegionKinds -> RegionScore(kernel, assignment)
    [] kernel.kind = "tally_by_region" -> RegionTallyScore(kernel, assignment)
    [] kernel.kind \in AreaKinds \cup {"area_perimeter_metrics"} -> AreaScores(kernel, assignment)
    [] kernel.kind \in HullKinds \cup {"population_polygon"} ->
         [d \in Range(assignment) |->
            [measure |-> kernel.kind,
             of |-> [kernel.columns EXCEPT !.shapes = {@[n] : n \in Members(assignment, d)}]]]

-----------------------------------------------------------------------------
(* Metrics that read tallies *)

Tally(name, columns) == Metric(name, "tally", [columns |-> columns], "none")

\* The subclasses of _PairedTallyMetric, _TurnoutPairedTallyMetric with them.
PairedKinds ==
  {"district_vote_shares", "district_wins", "seats", "overall_vote_share", "efficiency_gap",
   "simplified_efficiency_gap", "mean_median", "disproportionality",
   "partisan_bias", "partisan_gini"}

PopulationKinds ==
  {"population_deviations", "max_absolute_population_deviation", "max_population_deviation"}

DemographicKinds == {"demographic_shares", "districts_above_threshold"}

CrossElectionKinds ==
  {"competitive_contests", "party_wins_by_district", "swing_districts", "party_districts",
   "opposition_party_districts", "aggregate_seats", "mean_signed_seat_vote_gap",
   "mean_absolute_seat_vote_gap"}

Paired(kind, party, opposition, model) ==
  Metric(kind, kind, [party |-> party, opposition |-> opposition], model)

Population(kind, population, relative) ==
  Metric(kind, kind, [population |-> population], relative)

Demographic(kind, subgroup, total, threshold) ==
  Metric(kind, kind, [subgroup |-> subgroup, total |-> total], threshold)

CrossElection(kind, party, opposition, margin) ==
  Metric(kind, kind, [party |-> party, opposition |-> opposition], margin)

EguiaScore(party, opposition, region, population) ==
  Metric("eguia", "eguia",
         [party |-> party, opposition |-> opposition, region |-> region,
          population |-> population], "none")

\* _tally_keys: the columns a description needs in the tally bank, in order.
TallyKeys(m) ==
  CASE m.kind = "tally" -> m.roles.columns
    [] m.kind \in PairedKinds \cup {"eguia"} -> <<m.roles.party, m.roles.opposition>>
    [] m.kind \in PopulationKinds -> <<m.roles.population>>
    [] m.kind \in DemographicKinds -> <<m.roles.subgroup, m.roles.total>>
    [] m.kind \in CrossElectionKinds -> MergedKeys(m.roles.party, m.roles.opposition)
    [] OTHER -> <<>>

\* The node columns of a metric that reads tallies.
NeededColumns(m) ==
  ToSet(TallyKeys(m)) \cup (IF m.kind = "eguia" THEN {m.roles.population} ELSE {})

\* _resources: what must be prepared before it is scored.
Resources(m, source) ==
  IF m.kind \in ShapeKinds THEN ShapeResources(m, source)
  ELSE Closed({NodeColumn(source, c) : c \in NeededColumns(m)}
                \cup (IF m.kind = "eguia" THEN {RegionLabels(source, m.roles.region)} ELSE {}))

\* _merge: the engine metric two descriptions can share.
Merges(m, other) == (m.kind = "tally" /\ other.kind = "tally") \/ ShapesMerge(m, other)

MergedWith(m, other) ==
  IF m.kind = "tally"
  THEN [m EXCEPT !.roles = [columns |-> MergedKeys(m.roles.columns, other.roles.columns)]]
  ELSE MergedShape(m, other)

\* The engine metrics of a list of descriptions, and the one each is read from.
Merging(metrics) ==
  LET Joined(acc, m, i) ==
        [engine |-> [acc.engine EXCEPT ![i] = MergedWith(@, m)], sources |-> Append(acc.sources, i)]
      Added(acc, m) ==
        [engine |-> Append(acc.engine, m), sources |-> Append(acc.sources, Len(acc.engine) + 1)]
      Add(acc, m) ==
        IF acc.engine = <<>> \/ \A e \in ToSet(acc.engine) : ~Merges(e, m) THEN Added(acc, m)
        ELSE Joined(acc, m, SelectInSeq(acc.engine, LAMBDA e : Merges(e, m)))
  IN FoldLeft(Add, [engine |-> <<>>, sources |-> <<>>], metrics)

\* _column_indices: the columns of an engine metric that a description reads.
OutputColumns(m, engineMetric) ==
  IF m.kind = "tally" THEN IndicesOf(m.roles.columns, engineMetric.roles.columns)
  ELSE ShapeColumns(m, engineMetric)

\* _validate: column is a function from the needed columns to their values by
\* node.  The population of Eguia's regions is checked with its benchmark.
Accepted(m, column) ==
  LET Negative(c) == \E n \in DOMAIN column[c] : column[c][n] < 0
  IN /\ m.kind # "tally" => \A c \in NeededColumns(m) : ~Negative(c)
     /\ m.kind \in PopulationKinds => SumFunction(column[m.roles.population]) > 0
     /\ m.kind \in DemographicKinds =>
          \A n \in DOMAIN column[m.roles.total] :
             column[m.roles.subgroup][n] <= column[m.roles.total][n]
     /\ m.kind = "eguia" => SumFunction(column[m.roles.population]) > 0

\* Eguia._compute_benchmark: the share of people in regions the party wins.
\* regionOf gives each node's region.
Benchmark(m, column, regionOf) ==
  LET Of(c, r) == SumFunctionOnSet(column[c], {n \in DOMAIN regionOf : regionOf[n] = r})
      won == {n \in DOMAIN regionOf :
                Of(m.roles.party, regionOf[n]) > Of(m.roles.opposition, regionOf[n])}
  IN Frac(SumFunctionOnSet(column[m.roles.population], won),
          SumFunction(column[m.roles.population]))

=============================================================================

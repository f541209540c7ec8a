--------------------------- MODULE PlanEvaluator ---------------------------
(***************************************************************************)
(* The plan evaluator: metrics are registered, the node columns they need  *)
(* are snapshotted when a plan is first scored, an engine is prepared for  *)
(* the registered metrics, and each metric's scores are read back from it. *)
(* The caller edits the graph (or the frame of unit geometries) meanwhile. *)
(***************************************************************************)
EXTENDS Metrics

-----------------------------------------------------------------------------
(* The scoring engine's own formulas (metrics/formulas.rs) over one plan's *)
(* tally table: a sequence of columns, each a tally by district.  A metric *)
(* names its columns by their index in the table.  The engine promises     *)
(* parity with gerrytools.scoring.formulas and checks less: what the       *)
(* latter refuses the evaluator has refused before the engine is asked.    *)

LOCAL Winners(p, o) == {d \in DOMAIN p : p[d] > o[d]}

LOCAL VoteShare(p, o, d) == Frac(p[d], p[d] + o[d])

LOCAL SeatsOver(p, o) == Frac(Cardinality(Winners(p, o)), Cardinality(DOMAIN p))

OverallShare(p, o) == Frac(SumFunction(p), SumFunction([d \in DOMAIN p |-> p[d] + o[d]]))

ReferenceShare(p, o, model) ==
  LET valid == {d \in DOMAIN p : VoteShare(p, o, d) # NaN}
  IN IF model = "observed" THEN OverallShare(p, o)
     ELSE Mean([d \in valid |-> VoteShare(p, o, d)])

\* Mistake: the opposition wins tied districts.
TwiceGapWithTiesWon(p, o, d) ==
  LET turnout == p[d] + o[d]
      whole == p[d] % Whole = 0 /\ o[d] % Whole = 0
      threshold == IF whole THEN 2 * Whole * (turnout \div (2 * Whole) + 1) ELSE turnout
  IN IF p[d] > o[d] THEN 2 * o[d] - (2 * p[d] - threshold) ELSE 2 * o[d] - threshold - 2 * p[d]

\* The votes a district adds to the gap, twice: the opposition's wasted votes
\* less the party's.  A tied district elects nobody: both waste every vote.
TwiceGap(p, o, d) ==
  LET turnout == p[d] + o[d]
      whole == p[d] % Whole = 0 /\ o[d] % Whole = 0
      threshold == IF whole THEN 2 * Whole * (turnout \div (2 * Whole) + 1) ELSE turnout
  IN IF p[d] > o[d] THEN 2 * o[d] - (2 * p[d] - threshold)
     ELSE IF o[d] > p[d] THEN 2 * o[d] - threshold - 2 * p[d]
     ELSE 2 * o[d] - 2 * p[d]

\* The shares of all districts as a list, sorted by Before.
LOCAL SortedShares(p, o, Before(_, _)) ==
  LET Share(d) == VoteShare(p, o, d)
      districts == SetToSortSeq(DOMAIN p, LAMBDA d, e : \/ Before(Share(d), Share(e))
                                                        \/ Share(d) = Share(e) /\ d < e)
  IN [r \in DOMAIN districts |-> Share(districts[r])]

LOCAL SomeShareIsMissing(p, o) == \E d \in DOMAIN p : VoteShare(p, o, d) = NaN

MeanMedianScore(p, o) ==
  LET shares == SortedShares(p, o, Less)
      middle == Len(shares) \div 2              \* the index from zero
      median == IF Len(shares) % 2 = 0 THEN Divide(Plus(shares[middle], shares[middle + 1]), 2)
                ELSE shares[middle + 1]
  IN IF SomeShareIsMissing(p, o) THEN NaN ELSE Minus(median, Mean(shares))

PartisanBiasScore(p, o, model) ==
  LET reference == ReferenceShare(p, o, model)
      valid == {d \in DOMAIN p : VoteShare(p, o, d) # NaN}
      HalfSeats(d) == IF Less(reference, VoteShare(p, o, d)) THEN 2
                      ELSE IF reference = VoteShare(p, o, d) THEN 1 ELSE 0
  IN Minus(Frac(MapThenSumSet(HalfSeats, valid), 2 * Cardinality(valid)), Half)

PartisanGiniScore(p, o, model) ==
  LET shares == SortedShares(p, o, LAMBDA x, y : Less(y, x))
      curve == [r \in DOMAIN shares |->
                  Clamp(Plus(Minus(ReferenceShare(p, o, model), shares[r]), Half))]
      Apart(r) == Abs(Minus(curve[r], Minus(Int2Frac(1), curve[Len(curve) + 1 - r])))
  IN IF SomeShareIsMissing(p, o) THEN NaN ELSE Mean([r \in DOMAIN curve |-> Apart(r)])

\* score_paired
ScorePaired(kind, p, o, model) ==
  CASE kind = "district_vote_shares" -> [d \in DOMAIN p |-> VoteShare(p, o, d)]
    [] kind = "district_wins" -> Winners(p, o)
    [] kind = "seats" -> Cardinality(Winners(p, o))
    [] kind = "overall_vote_share" -> OverallShare(p, o)
    [] kind = "efficiency_gap" ->
         Frac(SumFunction([d \in DOMAIN p |-> TwiceGap(p, o, d)]),
              2 * SumFunction([d \in DOMAIN p |-> p[d] + o[d]]))
    [] kind = "simplified_efficiency_gap" ->
         Minus(Plus(SeatsOver(p, o), Half), Plus(OverallShare(p, o), OverallShare(p, o)))
    [] kind = "mean_median" -> MeanMedianScore(p, o)
    [] kind = "disproportionality" -> Minus(SeatsOver(p, o), OverallShare(p, o))
    [] kind = "partisan_bias" -> PartisanBiasScore(p, o, model)
    [] kind = "partisan_gini" -> PartisanGiniScore(p, o, model)

\* score_population: no total is refused here, a plan without people has NaN.
ScorePopulation(kind, pop, relative) ==
  LET ideal == Frac(SumFunction(pop), Cardinality(DOMAIN pop))
      OverIdeal(x) == Frac(x[1] * ideal[2], x[2] * ideal[1])
      Off(d) == Minus(Int2Frac(pop[d]), ideal)
      Larger(x, y) == IF Less(x, y) THEN y ELSE x
      worst == MapThenFoldSet(Larger, Int2Frac(0), LAMBDA d : Abs(Off(d)),
                              LAMBDA S : CHOOSE d \in S : TRUE, DOMAIN pop)
      spread == Int2Frac(Max(Range(pop)) - Min(Range(pop)))
  IN CASE kind = "population_deviations" -> [d \in DOMAIN pop |-> OverIdeal(Off(d))]
       [] kind = "max_absolute_population_deviation" ->
            IF relative THEN OverIdeal(worst) ELSE worst
       [] kind = "max_population_deviation" -> IF relative THEN OverIdeal(spread) ELSE spread

\* score_demographic
ScoreDemographic(kind, sub, total, threshold) ==
  LET Share(d) == Frac(sub[d], total[d])
  IN IF kind = "demographic_shares" THEN [d \in DOMAIN sub |-> Share(d)]
     ELSE Cardinality({d \in DOMAIN sub : Less(threshold, Share(d))})

\* score_cross_election: ps and os hold one tally for each election.
ScoreCrossElection(kind, ps, os, margin) ==
  LET elections == DOMAIN ps
      districts == DOMAIN ps[1]
      partys == {d \in districts : \A e \in elections : ps[e][d] > os[e][d]}
      oppositions == {d \in districts : \A e \in elections : os[e][d] > ps[e][d]}
      Gap(e) == Minus(SeatsOver(ps[e], os[e]), OverallShare(ps[e], os[e]))
      IsClose(x) == Less(Minus(Half, margin), x) /\ Less(x, Plus(Half, margin))
  IN CASE kind = "competitive_contests" ->
            Cardinality({c \in elections \X districts :
                           IsClose(VoteShare(ps[c[1]], os[c[1]], c[2]))})
       [] kind = "party_wins_by_district" ->
            [d \in districts |-> Cardinality({e \in elections : ps[e][d] > os[e][d]})]
       [] kind = "swing_districts" -> Cardinality(districts \ (partys \cup oppositions))
       [] kind = "party_districts" -> Cardinality(partys)
       [] kind = "opposition_party_districts" -> Cardinality(oppositions)
       [] kind = "aggregate_seats" ->
            SumFunction([e \in elections |-> Cardinality(Winners(ps[e], os[e]))])
       [] kind = "mean_signed_seat_vote_gap" -> Mean([e \in elections |-> Gap(e)])
       [] kind = "mean_absolute_seat_vote_gap" -> Mean([e \in elections |-> Abs(Gap(e))])

\* The engine's Eguia score: the benchmark was computed when it was prepared.
ScoreEguia(p, o, benchmark) == Minus(SeatsOver(p, o), benchmark)

-----------------------------------------------------------------------------

CONSTANTS
  NodeCount,          \* nodes are 1..NodeCount, in the graph's node order
  Edges,              \* the graph's edges, in the order of their nodes
  GraphData,          \* by attribute, its successive values by node or by edge
  FrameData,          \* by column, the successive values of the frame's rows
  FrameRows,          \* the node of each row of the frame
  FrameCRS,           \* the reference system of the frame
  Unusable,           \* a value that is absent, boolean, not finite or not valid
  NoLabel,            \* a missing district or region label
  Rows,               \* the plans a caller may pass together
  Registrations,      \* the lists of metrics a caller may register together
  MaxEdits            \* bound on the edits of the graph or frame

Nodes == 1..NodeCount
Names == DOMAIN GraphData \cup DOMAIN FrameData
Editions(c) == IF c \in DOMAIN GraphData THEN DOMAIN GraphData[c] ELSE DOMAIN FrameData[c]

ASSUME EvaluatorAssumption ==
  /\ NodeCount \in Nat \ {0}
  /\ \A e \in DOMAIN Edges : Edges[e][1] \in Nodes /\ Edges[e][2] \in Nodes
  /\ \A c \in DOMAIN FrameData : \A e \in Editions(c) : DOMAIN FrameData[c][e] = Nodes
  /\ DOMAIN FrameRows = Nodes /\ ToSet(FrameRows) = Nodes      \* _alignment_positions
  /\ MaxEdits \in Nat

VARIABLES
  edition,            \* how often each column has been edited, plus one
  framed,             \* whether a frame was added, which then holds the columns
  metrics,            \* _metrics
  resources,          \* _resources: prepared values and Eguia benchmarks
  engine,             \* _engine with _engine_prepared and _outputs
  result              \* what the caller's call returned, until the caller has taken it

evaluatorVars == <<edition, framed, metrics, resources, engine, result>>

NoEngine == [bank |-> <<>>, kernels |-> <<>>, outputs |-> <<>>]
NoResult == [call |-> "none"]
Raised == [call |-> "raised"]
NoResources == [values |-> <<>>, fixed |-> <<>>]

EvaluatorInit ==
  /\ edition = [c \in Names |-> 1]
  /\ framed = FALSE
  /\ metrics = <<>>
  /\ resources = NoResources
  /\ engine = NoEngine
  /\ result = NoResult

-----------------------------------------------------------------------------
(* Where units come from: a graph, a graph with a frame ("both"), or the    *)
(* rows of a frame alone, which become the nodes of a graph without edges   *)

\* _ordinary_column_resource
Source(units) == IF units = "graph" THEN "graph" ELSE "geometry"

Units == IF framed THEN "both" ELSE "graph"

\* The frame's column by node (_build_alignment).
AlignedColumn(c) ==
  [n \in Nodes |-> FrameData[c][edition[c]][CHOOSE r \in Nodes : FrameRows[r] = n]]

Holds(units, r) ==
  CASE r \in {Topology, Alignment} -> TRUE
    [] r[2] = "graph" -> units # "frame" /\ r[3] \in DOMAIN GraphData
    [] r[2] = "geometry" -> units # "graph" /\ r[3] \in DOMAIN FrameData

\* _source_values, _build_topology: what a preparation would read now.
Current(units, r) ==
  CASE r = Topology -> IF units = "frame" THEN <<>> ELSE Edges
    [] r = Alignment -> IF units = "frame" THEN [n \in Nodes |-> n] ELSE FrameRows
    [] r[2] = "graph" -> GraphData[r[3]][edition[r[3]]]
    [] r[2] = "geometry" /\ r # Alignment ->
         IF units = "frame" THEN FrameData[r[3]][edition[r[3]]] ELSE AlignedColumn(r[3])

\* _checked_numeric_values, _validated_geometry_frame: region labels may be missing.
IsUsable(r, value) ==
  /\ Unusable \notin ToSet(value)
  /\ r[1] \in {"node", "edge"} => NoLabel \notin ToSet(value)

Required(ms, units) == UNION {Resources(ms[i], Source(units)) : i \in DOMAIN ms}

\* _build_resources: prepared values are kept and the missing ones read.
CandidateValues(ms, kept, units) ==
  kept.values @@ [r \in Required(ms, units) |-> Current(units, r)]

\* The node columns of a metric that reads tallies.
ColumnsOf(m, units, values) ==
  [c \in NeededColumns(m) |-> values[NodeColumn(Source(units), c)]]

RegionOf(m, units, values) == values[RegionLabels(Source(units), m.roles.region)]

\* A metric is validated and given to the engine.
IsPrepared(m, units, values) ==
  IF m.kind \in ShapeKinds THEN ShapeAccepted(m, Source(units), values, FrameCRS)
  ELSE /\ Accepted(m, ColumnsOf(m, units, values))
       /\ m.kind = "eguia" => NoLabel \notin ToSet(RegionOf(m, units, values))

\* The values are read one after the other and the metrics validated.
AreUsable(ms, units, values) ==
  /\ \A r \in DOMAIN values : IsUsable(r, values[r])
  /\ \A i \in DOMAIN ms : IsPrepared(ms[i], units, values)

CanPrepare(ms, kept, units) ==
  /\ ms # <<>>
  /\ \A r \in Required(ms, units) : Holds(units, r)
  /\ AreUsable(ms, units, CandidateValues(ms, kept, units))

\* _fixed_value: a benchmark is computed once and kept with the columns.
FixedValues(ms, kept, units, values) ==
  LET eguias == {ms[i] : i \in {j \in DOMAIN ms : ms[j].kind = "eguia"}}
      Of(m) == Benchmark(m, ColumnsOf(m, units, values), RegionOf(m, units, values))
  IN [roles \in DOMAIN kept.fixed \cup {m.roles : m \in eguias} |->
        IF roles \in DOMAIN kept.fixed THEN kept.fixed[roles]
        ELSE Of(CHOOSE m \in eguias : m.roles = roles)]

WithFixed(ms, kept, units, values) ==
  [values |-> values, fixed |-> FixedValues(ms, kept, units, values)]

Candidate(ms, kept, units) ==
  WithFixed(ms, kept, units, CandidateValues(ms, kept, units))

\* The engine _prepare builds: a bank of tally columns, a kernel for each
\* engine metric that names its columns by index, and the outputs to read.
TallyKernel(m, keys, fixed) ==
  LET At(key) == SelectInSeq(keys, LAMBDA k : k = key)
      AllAt(seq) == [i \in DOMAIN seq |-> At(seq[i])]
  IN [kind |-> m.kind,
      option |-> IF m.kind = "eguia" THEN fixed[m.roles] ELSE m.option,
      columns |-> CASE m.kind = "tally" -> AllAt(m.roles.columns)
                    [] m.kind = "eguia" -> [party |-> At(m.roles.party),
                                            opposition |-> At(m.roles.opposition)]
                    [] m.kind \in CrossElectionKinds ->
                         [r \in DOMAIN m.roles |-> AllAt(m.roles[r])]
                    [] OTHER -> [r \in DOMAIN m.roles |-> At(m.roles[r])]]

BankKeys(ms) == FoldLeft(LAMBDA acc, m : MergedKeys(acc, TallyKeys(m)), <<>>, ms)

EngineOf(ms, merging, keys, prepared, source) ==
  [bank |-> [i \in DOMAIN keys |-> prepared.values[NodeColumn(source, keys[i])]],
   kernels |-> [i \in DOMAIN merging.engine |->
                  LET m == merging.engine[i]
                  IN IF m.kind \in ShapeKinds
                     THEN ShapeKernel(m, source, prepared.values, NoLabel)
                     ELSE TallyKernel(m, keys, prepared.fixed)],
   outputs |-> [i \in DOMAIN ms |->
                  [source |-> merging.sources[i],
                   columns |-> OutputColumns(ms[i], merging.engine[merging.sources[i]])]]]

MergedEngine(ms, merging, prepared, source) ==
  EngineOf(ms, merging, BankKeys(merging.engine), prepared, source)

PreparedEngine(ms, prepared, units) ==
  MergedEngine(ms, Merging(ms), prepared, Source(units))

-----------------------------------------------------------------------------
(* A plan is a list of labels by node, and the edges of the partition it     *)
(* comes from                                                               *)

AnyEdges == <<>>       \* no partition: an assignment

\* _verify_partition_graph
IsOfGraph(plan) == plan.edges = AnyEdges \/ ToSet(plan.edges) = ToSet(Edges)

\* _normalize_assignment
IsComplete(row) == Len(row) = NodeCount /\ NoLabel \notin ToSet(row)

LabelRows(plans) == [i \in DOMAIN plans |-> plans[i].labels]

\* _encode_districts: labels get dense identifiers in the order they are met in
\* the first row, and every row must use the same labels.
LabelsOf(row) ==
  FoldLeft(LAMBDA seen, l : IF Contains(seen, l) THEN seen ELSE Append(seen, l), <<>>, row)

CanEncode(rows) ==
  /\ \A i \in DOMAIN rows : IsComplete(rows[i])
  /\ \A i \in DOMAIN rows : ToSet(rows[i]) = ToSet(rows[1])

Encoded(row, labels) == [n \in Nodes |-> SelectInSeq(labels, LAMBDA l : l = row[n]) - 1]

\* PreparedTally::score: every column of the bank by observed district.
TallyTable(e, assignment) ==
  [i \in DOMAIN e.bank |->
     [d \in Range(assignment) |->
        SumFunctionOnSet(e.bank[i], {n \in Nodes : assignment[n] = d})]]

\* SharedTallyMetric::score, or the score of an independent metric.
KernelScore(kernel, table, assignment) ==
  LET cols == kernel.columns
      All(seq) == [i \in DOMAIN seq |-> table[seq[i]]]
  IN CASE kernel.kind = "tally" -> All(cols)
       [] kernel.kind = "eguia" ->
            ScoreEguia(table[cols.party], table[cols.opposition], kernel.option)
       [] kernel.kind \in PairedKinds ->
            ScorePaired(kernel.kind, table[cols.party], table[cols.opposition], kernel.option)
       [] kernel.kind \in PopulationKinds ->
            ScorePopulation(kernel.kind, table[cols.population], kernel.option)
       [] kernel.kind \in DemographicKinds ->
            ScoreDemographic(kernel.kind, table[cols.subgroup], table[cols.total], kernel.option)
       [] kernel.kind \in CrossElectionKinds ->
            ScoreCrossElection(kernel.kind, All(cols.party), All(cols.opposition), kernel.option)
       [] kernel.kind \in ShapeKinds -> ShapeScore(kernel, assignment)

\* _OutputSpec: the metrics with one column of a value for each district.
DistrictKinds == {"district_vote_shares", "population_deviations", "demographic_shares",
                  "party_wins_by_district", "population_polygon"} \cup HullKinds

\* _score_rows: the flat columns of a regional tally by metric and region.
ByRegion(score, kernel) ==
  LET labels == kernel.columns.labels
      width == Len(labels)
  IN [j \in 1..(Len(kernel.columns.values) + (IF kernel.option THEN 1 ELSE 0)) |->
        [r \in ToSet(labels) |-> score[(j - 1) * width + SelectInSeq(labels, LAMBDA l : l = r)]]]

\* _score_rows: a kernel's score of a row, its districts labelled again.
ReadScore(kernel, output, labels, score) ==
  LET Labelled(f) == [l \in ToSet(labels) |-> f[SelectInSeq(labels, LAMBDA x : x = l) - 1]]
      LabelledTable(table) ==
        [j \in DOMAIN table |-> [r \in DOMAIN table[j] |-> Labelled(table[j][r])]]
  IN CASE kernel.kind = "tally" ->
            [j \in DOMAIN output.columns |-> Labelled(score[output.columns[j]])]
       [] kernel.kind \in RegionKinds -> [j \in DOMAIN output.columns |-> score[output.columns[j]]]
       [] kernel.kind \in AreaKinds \cup {"area_perimeter_metrics"} ->
            Labelled(score[output.columns[1]])
       [] kernel.kind = "tally_by_region" -> LabelledTable(ByRegion(score, kernel))
       [] kernel.kind = "district_wins" -> {labels[d + 1] : d \in score}
       [] kernel.kind \in DistrictKinds -> Labelled(score)
       [] OTHER -> score

\* Every metric's score of a plan; each kernel scores it once.
PlanScores(e, assignment, table, labels) ==
  [k \in DOMAIN e.outputs |->
     LET kernel == e.kernels[e.outputs[k].source]
     IN ReadScore(kernel, e.outputs[k], labels, KernelScore(kernel, table, assignment))]

\* The engine refuses all rows when it refuses one.
CanScore(e, rows) ==
  \A i \in DOMAIN rows, k \in DOMAIN e.kernels :
    ShapeScores(e.kernels[k], Encoded(rows[i], LabelsOf(rows[1])))

ScoredAs(e, assignment, labels) ==
  PlanScores(e, assignment, TallyTable(e, assignment), labels)

Scores(e, rows) ==
  [i \in DOMAIN rows |-> ScoredAs(e, Encoded(rows[i], LabelsOf(rows[1])), LabelsOf(rows[1]))]

-----------------------------------------------------------------------------
\* The caller changes the values of a column in place.
EditColumn(c) ==
  /\ result = NoResult
  /\ edition[c] + 1 \in Editions(c)
  /\ SumFunction(edition) - Cardinality(Names) < MaxEdits
  /\ edition' = [edition EXCEPT ![c] = @ + 1]
  /\ UNCHANGED <<framed, metrics, resources, engine, result>>

AddGeometry ==
  /\ result = NoResult /\ metrics = <<>> /\ ~framed
  /\ framed' = TRUE
  /\ engine' = NoEngine
  /\ UNCHANGED <<edition, metrics, resources, result>>

\* add_metric and add_metrics: all of a batch or none of it.  Names must differ,
\* and a metric that reads shapes needs a frame (_validate_metric_configuration).
AddMetrics ==
  /\ result = NoResult
  /\ UNCHANGED <<edition, framed, resources>>
  /\ \E batch \in Registrations :
       LET all == metrics \o batch
           clash == ~IsDistinct([i \in DOMAIN all |-> all[i].name])
           shapeless == \E i \in DOMAIN batch :
                          Shapes \in Resources(batch[i], Source(Units)) /\ ~framed
       IN IF clash \/ shapeless
          THEN result' = Raised /\ UNCHANGED <<metrics, engine>>
          ELSE metrics' = all /\ engine' = NoEngine /\ UNCHANGED result

IsReady == engine # NoEngine \/ CanPrepare(metrics, resources, Units)

\* _prepare: an engine that is still valid is kept.
Prepare ==
  IF engine # NoEngine THEN UNCHANGED <<resources, engine>>
  ELSE /\ resources' = Candidate(metrics, resources, Units)
       /\ engine' = PreparedEngine(metrics, resources', Units)

\* Mistake: the values read before the refusal are kept.
RefuseToPrepareKeepingValues ==
  /\ result' = Raised
  /\ resources' = [resources EXCEPT !.values =
                     @ @@ [r \in {q \in Required(metrics, Units) : Holds(Units, q)} |->
                             Current(Units, r)]]
  /\ UNCHANGED engine

\* Nothing of a preparation that fails is kept.
RefuseToPrepare ==
  /\ result' = Raised
  /\ UNCHANGED <<resources, engine>>

Evaluated(plans, rows) ==
  IF /\ \A i \in DOMAIN plans : IsOfGraph(plans[i])
     /\ CanEncode(rows) /\ CanScore(engine', rows)
  THEN [call |-> "evaluate", rows |-> rows, metrics |-> metrics, scores |-> Scores(engine', rows)]
  ELSE Raised

\* evaluate and evaluate_many: the engine is prepared unless it is still valid,
\* and only then are the plans looked at.
Evaluate ==
  /\ result = NoResult
  /\ UNCHANGED <<edition, framed, metrics>>
  /\ IF IsReady
     THEN Prepare /\ \E plans \in Rows : result' = Evaluated(plans, LabelRows(plans))
     ELSE RefuseToPrepare

\* The caller takes what a call returned.
Take ==
  /\ result # NoResult
  /\ result' = NoResult
  /\ UNCHANGED <<edition, framed, metrics, resources, engine>>

EvaluatorNext ==
  \/ Take
  \/ \E c \in Names : EditColumn(c)
  \/ AddGeometry
  \/ AddMetrics
  \/ Evaluate
============================================================================

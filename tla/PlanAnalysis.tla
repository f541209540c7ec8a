--------------------------- MODULE PlanAnalysis ---------------------------
(***************************************************************************)
(* An analysis session: a caller scores plans with an evaluator, one by    *)
(* one or as a stream that is written and read back, or with               *)
(* one-call functions, and compares plans with reference plans.            *)
(* The properties relate what the engine reports to the published formulas *)
(* over the tallies of the plan, and the relabelings a comparison finds to *)
(* all the relabelings there are.                                          *)
(***************************************************************************)
EXTENDS SinglePlan, Formulas, StreamedRun

-----------------------------------------------------------------------------
(* Comparing a plan with a reference plan over the same units: the overlap *)
(* of their districts, the relabelings of the comparison plan that keep    *)
(* most people under their reference label, with and without Wisconsin's   *)
(* parity convention, and the people a relabeling displaces.               *)
(*                                                                         *)
(* An overlap is a function from the comparison's labels to functions from *)
(* the reference's labels to people; a relabeling is a bijection between   *)
(* the two sets of labels.                                                 *)

\* population_overlap: rows and columns for the labels that occur.
PopulationOverlap(comparison, reference, people) ==
  [i \in Range(comparison) |-> [j \in Range(reference) |->
     SumFunctionOnSet(people, {u \in DOMAIN people : comparison[u] = i /\ reference[u] = j})]]

Sources(overlap) == DOMAIN overlap
Targets(overlap) == UNION {DOMAIN overlap[i] : i \in DOMAIN overlap}

\* _validated_overlap: only a square overlap has complete relabelings.
IsSquare(overlap) == Cardinality(Sources(overlap)) = Cardinality(Targets(overlap))

Relabelings(overlap) == Bijection(Sources(overlap), Targets(overlap))

LOCAL Total(overlap) == SumFunction([i \in Sources(overlap) |-> SumFunction(overlap[i])])

Retained(overlap, relabeling) == SumFunction([i \in DOMAIN relabeling |-> overlap[i][relabeling[i]]])

\* scipy's linear_sum_assignment: any of the allowed assignments of most weight.
LinearSumAssignments(overlap, allowed) ==
  {x \in allowed : \A y \in allowed : Retained(overlap, y) <= Retained(overlap, x)}

OptimalRelabelings(overlap) == LinearSumAssignments(overlap, Relabelings(overlap))

\* The people of a comparison district who were in odd reference districts.
OddPopulation(overlap, even) ==
  [i \in Sources(overlap) |-> SumFunctionOnSet(overlap[i], Targets(overlap) \ even)]

\* numpy.partition: the value in place k of the ascending order, from one.
OrderStatistic(f, k) ==
  CHOOSE v \in Range(f) : /\ Cardinality({i \in DOMAIN f : f[i] < v}) < k
                          /\ Cardinality({i \in DOMAIN f : f[i] <= v}) >= k

MustBeEven(overlap, even) ==
  LET q == OddPopulation(overlap, even)
      k == Cardinality(even)
  IN CASE k = 0 -> {}
       [] k = Cardinality(Sources(overlap)) -> Sources(overlap)
       [] OTHER -> {i \in Sources(overlap) : q[i] < OrderStatistic(q, k)}

\* Mistake: the threshold itself must be odd, as if no district were tied at it.
MustBeOddFromThreshold(overlap, even) ==
  LET q == OddPopulation(overlap, even)
      k == Cardinality(even)
  IN CASE k = 0 -> Sources(overlap)
       [] k = Cardinality(Sources(overlap)) -> {}
       [] OTHER -> {i \in Sources(overlap) : q[i] >= OrderStatistic(q, k)}

MustBeOdd(overlap, even) ==
  LET q == OddPopulation(overlap, even)
      k == Cardinality(even)
  IN CASE k = 0 -> Sources(overlap)
       [] k = Cardinality(Sources(overlap)) -> {}
       [] OTHER -> {i \in Sources(overlap) : q[i] > OrderStatistic(q, k)}

\* The assignments of finite cost.
ParityAllows(overlap, even) ==
  {x \in Relabelings(overlap) : /\ \A i \in MustBeEven(overlap, even) : x[i] \in even
                                /\ \A i \in MustBeOdd(overlap, even) : x[i] \notin even}

ParityRelabelings(overlap, even) ==
  LinearSumAssignments(overlap, ParityAllows(overlap, even))

\* _dispersion: the people whose label still changes.
Dispersion(overlap, relabeling) == Total(overlap) - Retained(overlap, relabeling)

\* population_dispersion: the labels as they are.
PopulationDispersion(overlap) ==
  Total(overlap) - SumFunction([l \in Sources(overlap) \cap Targets(overlap) |-> overlap[l][l]])

\* population_dispersion_by_district, by reference label.
DispersionByDistrict(overlap) ==
  [j \in Targets(overlap) |->
     SumFunction([i \in Sources(overlap) |-> overlap[i][j]])
       - (IF j \in Sources(overlap) THEN overlap[j][j] ELSE 0)]

-----------------------------------------------------------------------------

CONSTANTS
  References,         \* the reference plans a caller may compare with
  PeopleColumn        \* the column of people a comparison reads

\* _weights: the column is read from the caller's table when it is compared.
People == Current("graph", NodeColumn("graph", PeopleColumn))

ComparablePeople == Unusable \notin ToSet(People) /\ \A n \in Nodes : People[n] >= 0

\* minimum_population_dispersion, and the same with parity, where even are the
\* reference labels that are even.
Found(x, how, overlap, even) ==
  [call |-> how, overlap |-> overlap, even |-> even, relabeling |-> x,
   dispersion |-> Dispersion(overlap, x)]

CompareOverlap(overlap, even) ==
  IF ComparablePeople /\ IsSquare(overlap)
  THEN \/ \E x \in OptimalRelabelings(overlap) : result' = Found(x, "compare", overlap, even)
       \/ \E x \in ParityRelabelings(overlap, even) : result' = Found(x, "parity", overlap, even)
  ELSE result' = Raised

Compare(comparison, reference) ==
  /\ UNCHANGED <<edition, framed, metrics, resources, engine>>
  /\ \E even \in SUBSET Range(reference),
        overlap \in {PopulationOverlap(comparison, reference, People)} :
       CompareOverlap(overlap, even)

Next ==
  \/ EvaluatorNext
  \/ EvaluateStream
  \/ SinglePlanNext
  \/ /\ OneCallsAreTried
     /\ \E comparison \in OneCallPlans, reference \in References : Compare(comparison, reference)

Spec == EvaluatorInit /\ [][Next]_evaluatorVars

-----------------------------------------------------------------------------
\* What the definitions of the metrics by edge, region or shape say: value
\* gives each needed resource, by node.
PublishedShape(m, row, source, value) ==
  LET Of(l) == {n \in Nodes : row[n] = l}
      Label(key) == value[RegionLabels(source, key)]
      In(key, r) == {n \in Nodes : Label(key)[n] = r}
      LabelsIn(key) == ToSet(Label(key)) \ {NoLabel}
      EdgesWhere(test(_, _)) == {e \in DOMAIN Edges : test(Edges[e][1], Edges[e][2])}
      \* connected sets of units: none of their parts is apart from the rest
      Connected(set) ==
        \A part \in SUBSET set \ {{}, set} :
          \E e \in DOMAIN Edges : /\ ToSet(Edges[e]) \subseteq set
                                  /\ ToSet(Edges[e]) \cap part # {}
                                  /\ ~(ToSet(Edges[e]) \subseteq part)
      PartsOf(set) ==
        {part \in SUBSET set \ {{}} :
           /\ Connected(part)
           /\ \A n \in set \ part : ~Connected(part \cup {n})}
      Shared == value[EdgeColumn(GraphKeys(m).shared)]
      Outside(l) == SumFunctionOnSet(Shared, EdgesWhere(LAMBDA u, v : (row[u] = l) # (row[v] = l)))
      Inside(l) == SumFunctionOnSet(Shared, EdgesWhere(LAMBDA u, v : row[u] = l /\ row[v] = l))
      Given(l) == SumFunctionOnSet(value[NodeColumn("graph", PerimeterKey(m))], Of(l))
      Around(l) == IF m.roles.perimeter = None THEN Given(l) + Outside(l) ELSE Given(l) - 2 * Inside(l)
      Area(l) == SumFunctionOnSet(value[NodeColumn("graph", GraphKeys(m).area)], Of(l))
      ShapesOf(l) == {value[Shapes][n] : n \in Of(l)}
      ByDistrict(score(_)) == [l \in ToSet(row) |-> score(l)]
  IN CASE m.kind = "cut_edges" ->
            LET cut == EdgesWhere(LAMBDA u, v : row[u] # row[v])
            IN IF m.roles.weight = None THEN Cardinality(cut)
               ELSE SumFunctionOnSet(value[EdgeColumn(m.roles.weight)], cut)
       [] m.kind = "region_splits" ->
            [k \in DOMAIN m.roles.columns |->
               LET key == m.roles.columns[k]
               IN Cardinality({r \in LabelsIn(key) : \A l \in ToSet(row) : ~(In(key, r) \subseteq Of(l))})]
       [] m.kind = "region_pieces" ->
            [k \in DOMAIN m.roles.columns |->
               LET key == m.roles.columns[k]
               IN SumFunction([l \in ToSet(row) |-> Cardinality({Label(key)[n] : n \in Of(l)} \ {NoLabel})])]
       [] m.kind = "region_parts" ->
            [k \in DOMAIN m.roles.columns |->
               LET key == m.roles.columns[k]
               IN SumFunction([r \in LabelsIn(key) |->
                    SumFunction([l \in ToSet(row) |-> Cardinality(PartsOf(In(key, r) \cap Of(l)))])])]
       [] m.kind = "tally_by_region" ->
            LET Sum_(c) == [r \in LabelsIn(m.roles.region) |-> ByDistrict(LAMBDA l :
                             SumFunctionOnSet(value[NodeColumn(source, c)], In(m.roles.region, r) \cap Of(l)))]
                count == [r \in LabelsIn(m.roles.region) |-> ByDistrict(LAMBDA l :
                            Cardinality(In(m.roles.region, r) \cap Of(l)))]
            IN (IF m.option THEN <<count>> ELSE <<>>)
                 \o [k \in DOMAIN m.roles.columns |-> Sum_(m.roles.columns[k][2])]
       [] m.kind \in AreaKinds /\ ResolvedSource(m, source) = "geometry" ->
            ByDistrict(LAMBDA l : <<m.kind, ShapesOf(l)>>)
       [] m.kind = "polsby_popper" /\ ResolvedSource(m, source) = "graph" ->
            ByDistrict(LAMBDA l : Frac(Area(l), Around(l) * Around(l)))
       [] m.kind = "schwartzberg" /\ ResolvedSource(m, source) = "graph" ->
            ByDistrict(LAMBDA l : <<"root", Frac(Around(l) * Around(l), Area(l))>>)
       [] m.kind \in HullKinds ->
            ByDistrict(LAMBDA l : [measure |-> m.kind,
                                   of |-> [shapes |-> ShapesOf(l), state |-> m.roles.state]])
       [] m.kind = "population_polygon" ->
            ByDistrict(LAMBDA l :
              [measure |-> m.kind,
               of |-> [shapes |-> ShapesOf(l),
                       surface |->
                         IF m.option # FrameUnits THEN m.option.surface
                         ELSE {<<value[Shapes][n], value[NodeColumn(source, m.roles.population)][n]>> :
                                 n \in Nodes}]])

\* What the published formulas say of a metric.
Published(m, row, source, value) ==
  LET column == [c \in NeededColumns(m) |-> value[NodeColumn(source, c)]]
      DistrictTally(c) == [l \in ToSet(row) |->
                             SumFunctionOnSet(column[c], {n \in Nodes : row[n] = l})]
      Region == value[RegionLabels(source, m.roles.region)]
      RegionTally(c) == [r \in ToSet(Region) |->
                           SumFunctionOnSet(column[c], {n \in Nodes : Region[n] = r})]
      All(cs) == [i \in DOMAIN cs |-> DistrictTally(cs[i])]
      p == DistrictTally(m.roles.party)
      o == DistrictTally(m.roles.opposition)
      ps == All(m.roles.party)
      os == All(m.roles.opposition)
      pop == DistrictTally(m.roles.population)
      sub == DistrictTally(m.roles.subgroup)
      total == DistrictTally(m.roles.total)
  IN CASE m.kind \in ShapeKinds -> PublishedShape(m, row, source, value)
       [] m.kind = "tally" -> All(m.roles.columns)
       [] m.kind = "district_vote_shares" -> DistrictVoteShares(p, o)
       [] m.kind = "district_wins" -> DistrictWins(p, o)
       [] m.kind = "seats" -> Seats(p, o)
       [] m.kind = "overall_vote_share" -> OverallVoteShare(p, o)
       [] m.kind = "efficiency_gap" -> EfficiencyGap(p, o)
       [] m.kind = "simplified_efficiency_gap" -> SimplifiedEfficiencyGap(p, o)
       [] m.kind = "mean_median" -> MeanMedian(p, o)
       [] m.kind = "disproportionality" -> Disproportionality(p, o)
       [] m.kind = "partisan_bias" -> PartisanBias(p, o, m.option)
       [] m.kind = "partisan_gini" -> PartisanGini(p, o, m.option)
       [] m.kind = "eguia" -> Eguia(p, o, RegionTally(m.roles.party), RegionTally(m.roles.opposition),
                                    RegionTally(m.roles.population))
       [] m.kind = "population_deviations" -> PopulationDeviations(pop)
       [] m.kind = "max_absolute_population_deviation" ->
            MaxAbsolutePopulationDeviation(pop, m.option)
       [] m.kind = "max_population_deviation" -> MaxPopulationDeviation(pop, m.option)
       [] m.kind = "demographic_shares" -> DemographicShares(sub, total)
       [] m.kind = "districts_above_threshold" -> DistrictsAboveThreshold(sub, total, m.option)
       [] m.kind = "competitive_contests" -> CompetitiveContests(ps, os, m.option)
       [] m.kind = "party_wins_by_district" -> PartyWinsByDistrict(ps, os)
       [] m.kind = "swing_districts" -> SwingDistricts(ps, os)
       [] m.kind = "party_districts" -> PartyDistricts(ps, os)
       [] m.kind = "opposition_party_districts" -> OppositionPartyDistricts(ps, os)
       [] m.kind = "aggregate_seats" -> AggregateSeats(ps, os)
       [] m.kind = "mean_signed_seat_vote_gap" -> MeanSignedSeatVoteGap(ps, os)
       [] m.kind = "mean_absolute_seat_vote_gap" -> MeanAbsoluteSeatVoteGap(ps, os)

Reports == {"evaluate", "stream", "graph", "both", "frame"}

\* Where the units of the latest call come from, and what its scores are made of.
Scoring ==
  CASE result.call \in {"evaluate", "stream"} -> Units
    [] result.call = "frame" -> "both"
    [] OTHER -> result.call

Scored(m) ==
  [r \in Resources(m, Source(Scoring)) |->
     IF result.call \in {"evaluate", "stream"} THEN resources.values[r] ELSE Current(Scoring, r)]

\* Whatever else is registered, whatever was merged, projected or relabelled on
\* the way, and whatever the caller has edited since, each metric reports what
\* the published formula gives for the tallies of the columns as they were
\* snapshotted (metrics/formulas.rs:1-2 calls that parity contractual); a
\* one-call function does so for the columns as they are.
ScoresFollowTheFormulas ==
  result.call \in Reports =>
    \A i \in DOMAIN result.rows, k \in DOMAIN result.metrics :
      LET m == result.metrics[k]
      IN result.scores[i][k] = Published(m, result.rows[i], Source(Scoring), Scored(m))

\* What has been prepared, a column, the region labels, the edges, the shapes or a
\* benchmark, never changes; what is new holds what the caller's graph or frame
\* holds at that moment; and a call whose preparation is refused prepares nothing,
\* not even the values it could read.
ColumnsAreSnapshotted ==
  [][/\ DOMAIN resources.values \subseteq DOMAIN resources'.values
     /\ \A r \in DOMAIN resources'.values :
          resources'.values[r] = IF r \in DOMAIN resources.values THEN resources.values[r]
                                 ELSE Current(Units, r)
     /\ \A e \in DOMAIN resources.fixed : resources'.fixed[e] = resources.fixed[e]
     /\ engine' = NoEngine => resources' = resources]_evaluatorVars

\* Neither side is favoured by the way a score is computed: exchanging the party
\* and its opposition turns each signed score around and leaves the Gini score,
\* the competitive contests and the swing districts as they are (the wins of a
\* tied district go to nobody); and the cross-election counts agree with each other.
BothSidesAreTreatedAlike ==
  (result.call \in Reports) =>
    \A i \in DOMAIN result.rows, k \in DOMAIN result.metrics :
      LET m == result.metrics[k]
          row == result.rows[i]
          score == result.scores[i][k]
          Now(metric) == Published(metric, row, Source(Scoring), Scored(m))
          exchanged == [m EXCEPT !.roles = [@ EXCEPT !.party = m.roles.opposition,
                                                     !.opposition = m.roles.party]]
          swapped == Now(exchanged)
          districts == Cardinality(ToSet(row))
      IN /\ m.kind \in {"efficiency_gap", "mean_median", "partisan_bias"} => swapped = Neg(score)
         /\ m.kind \in {"partisan_gini", "competitive_contests", "swing_districts"} => swapped = score
         /\ m.kind \in {"partisan_gini"} => score = NaN \/ ~Less(score, Int2Frac(0))
         /\ m.kind = "district_wins" => score \cap swapped = {}
         /\ m.kind = "swing_districts" =>
              score + Now([m EXCEPT !.kind = "party_districts"])
                    + Now([m EXCEPT !.kind = "opposition_party_districts"])
                = districts
         /\ m.kind = "aggregate_seats" =>
              score = SumFunction(Now([m EXCEPT !.kind = "party_wins_by_district"]))

\* A comparison always finds a relabeling when the plans have as many districts,
\* and none of the others retains more people.  Under parity it is best in the
\* order the rule demands: no relabeling moves fewer people from odd reference
\* districts into even ones, and of those that move as few none retains more.
RelabelingsAreBest ==
  LET Shift(x) == SumFunctionOnSet(OddPopulation(result.overlap, result.even),
                                   {i \in DOMAIN x : x[i] \in result.even})
      Keeps(x) == Retained(result.overlap, x)
  IN /\ result.call = "compare" =>
          \A y \in Relabelings(result.overlap) : Keeps(y) <= Keeps(result.relabeling)
     /\ result.call = "parity" =>
          \A y \in Relabelings(result.overlap) :
            \/ Shift(result.relabeling) < Shift(y)
            \/ Shift(result.relabeling) = Shift(y) /\ Keeps(y) <= Keeps(result.relabeling)
     /\ result.call \in {"compare", "parity"} =>
          /\ ParityAllows(result.overlap, result.even) # {}
          /\ result.dispersion >= 0
          /\ result.call = "compare" /\ Sources(result.overlap) = Targets(result.overlap) =>
               result.dispersion <= PopulationDispersion(result.overlap)
          /\ SumFunction(DispersionByDistrict(result.overlap)) = PopulationDispersion(result.overlap)

\* What a run can be refused for, once the engine is prepared.
ReasonsToRefuse ==
  LET Registered(kinds) == {metrics[i] : i \in {j \in DOMAIN metrics : metrics[j].kind \in kinds}}
      Named == UNION {ToSet(m.roles.columns) : m \in Registered(RegionKinds)}
                 \cup {m.roles.weight : m \in Registered({"cut_edges"})}
      InDirectories == Registered({"tally", "tally_by_region"})
      Others == ToSet(metrics) \ InDirectories
      Taken == {"manifest__" \o result.run \o ".json"}
                 \cup {m.name \o "__" \o result.run \o ".parquet" : m \in Others}
      IsRefused(frame) ==
        \/ Len(frame) # NodeCount
        \/ ToSet(frame) # ToSet(result.rows[1])
        \/ \E k \in DOMAIN engine.kernels : ~ShapeScores(engine.kernels[k], frame)
  IN \/ Named \cap {"sample_offset", "repetitions", "accepted_index"} # {}
     \/ \E m \in InDirectories : m.name \in Taken
     \/ \E m \in Registered({"tally_by_region"}) :
          ToSet(RegionOf(m, Units, resources.values)) \cap Unstreamable # {}
     \/ result.order \notin {NoOrder, [n \in Nodes |-> n]}
     \/ \E i \in DOMAIN result.rows : IsRefused(result.rows[i])

\* A run that is written can be read, whatever the names, columns, regions and
\* districts of its metrics and whatever was merged or projected for them; and one
\* is refused, after the engine was prepared, for these reasons alone: a column of a
\* plan is named as a column every table begins with, a directory of tallies is named
\* as another metric's table or as the manifest, a region's label is of another type,
\* or a frame is not of this graph, of other districts than the first, or cannot be
\* scored.
StreamedRunsAreReadable ==
  /\ result.call # "unreadable"
  /\ result.call \in {"refused", "stream"} => (result.call = "refused") = ReasonsToRefuse
============================================================================

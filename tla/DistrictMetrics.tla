-------------------------- MODULE DistrictMetrics --------------------------
(***************************************************************************)
(* The metric states that hold more than one tally per district: tallies   *)
(* by region (rust/src/metrics/region_tally.rs), area and perimeter        *)
(* (polsby_popper.rs, which schwartzberg.rs and area_perimeter.rs wrap),   *)
(* the hull metrics (hull_metric.rs, driving reock.rs,                     *)
(* convex_hull_ratio.rs and state_clipped_convex_hull_ratio.rs) and the    *)
(* population polygon (population_polygon.rs).                             *)
(*                                                                         *)
(* Sums of floats are formal sums, as in IncrementalMetrics.  The score of *)
(* a hull metric is a function of the nodes handed to score_district in    *)
(* ascending order, so those nodes stand for it; the empty set stands for  *)
(* the 0.0 of a district without nodes.                                    *)
(***************************************************************************)
EXTENDS IncrementalMetrics

CONSTANTS
    Populated,      \* nodes that own a positive population
    HullReach       \* nodes whose polygon meets the hull of a set of nodes

ASSUME PopulationAssumption ==
    /\ Populated \subseteq Nodes
    /\ HullReach \in [SUBSET Nodes -> SUBSET Nodes]

Slots(a) == 0 .. DistrictCapacity(a) - 1

-----------------------------------------------------------------------------
(* IncrementalRegionTally: a node without a region is in no total. *)

InRegion(r, n) == IF RegionOf[n] = r THEN 1 ELSE 0

RegionTotals(a, slots) ==
    [r \in Regions |->
        [d \in 0 .. slots - 1 |->
            [n \in Nodes |-> IF a[n] = d THEN InRegion(r, n) ELSE 0]]]

ResetRegionTally(a) ==
    [slots |-> DistrictCapacity(a),
     totals |-> RegionTotals(a, DistrictCapacity(a)),
     occupancy |-> ResetOccupancy(a)]

UpdateRegionTally(state, canonical, changes) ==
    IF Expands(state.slots, changes)
    THEN ResetRegionTally(ApplyChanges(canonical, changes))
    ELSE LET moves == Moves(changes)
             gained(d, n) == IF \E c \in moves : c.node = n /\ c.new = d THEN 1 ELSE 0
             lost(d, n) == IF \E c \in moves : c.node = n /\ c.old = d THEN 1 ELSE 0
             shift(r, d, n) == IF RegionOf[n] = r THEN gained(d, n) - lost(d, n) ELSE 0
         IN [slots |-> state.slots,
             totals |-> [r \in Regions |->
                            [d \in 0 .. state.slots - 1 |->
                                [n \in Nodes |-> state.totals[r][d][n] + shift(r, d, n)]]],
             occupancy |-> ApplyMoves(state.occupancy, changes)]

RegionTallyResult(state) ==
    [r \in Regions |-> [d \in state.occupancy.observed |-> state.totals[r][d]]]

ScoreRegionTally(a) ==
    [r \in Regions |-> [d \in ObservedDistricts(a) |->
        [n \in Nodes |-> IF a[n] = d THEN InRegion(r, n) ELSE 0]]]

-----------------------------------------------------------------------------
(* IncrementalPolsbyPopper.  `units` holds the sums of unit areas and of   *)
(* total perimeters, which have the same terms; `inner` says how often     *)
(* twice the shared perimeter of an edge has been taken from a district.   *)

Inside(a, e, d) == IF a[e[1]] = d /\ a[e[2]] = d THEN 1 ELSE 0

ResetPerimeter(a) ==
    [units |-> ResetTally(a),
     inner |-> [d \in Slots(a) |-> [e \in Edges |-> Inside(a, e, d)]]]

\* Each edge at a changed node is met once: its inner boundary is given back
\* to the district it was inside, and taken from the one it is inside now.
UpdatePerimeter(state, canonical, changes) ==
    LET after == ApplyChanges(canonical, changes)
    IN IF Expands(state.units.slots, changes) THEN ResetPerimeter(after)
       ELSE [units |-> UpdateTally(state.units, canonical, changes),
             inner |-> [d \in 0 .. state.units.slots - 1 |->
                           [e \in Edges |->
                               IF e \in Incident(Changed(changes))
                               THEN state.inner[d][e] - Inside(canonical, e, d)
                                        + Inside(after, e, d)
                               ELSE state.inner[d][e]]]]

PerimeterResult(state) ==
    [d \in state.units.occupancy.observed |->
        [units |-> state.units.totals[d], inner |-> state.inner[d]]]

ScorePerimeter(a) ==
    [d \in ObservedDistricts(a) |->
        [units |-> [n \in Nodes |-> IF a[n] = d THEN 1 ELSE 0],
         inner |-> [e \in Edges |-> Inside(a, e, d)]]]

-----------------------------------------------------------------------------
(* IncrementalHullMetric *)

ResetHulls(a) ==
    [slots |-> DistrictCapacity(a),
     members |-> [d \in Slots(a) |-> Members(a, d)],
     scores |-> [d \in Slots(a) |-> Members(a, d)],
     occupancy |-> ResetOccupancy(a)]

MovedMembers(members, slots, changes) ==
    [d \in 0 .. slots - 1 |->
        (members[d] \ {c.node : c \in {m \in Moves(changes) : m.old = d}})
            \cup {c.node : c \in {m \in Moves(changes) : m.new = d}}]

\* Mistake: only the districts that gained a node are scored again.
TouchedByArrival(changes) == {c.new : c \in Moves(changes)}

Touched(changes) == {c.old : c \in Moves(changes)} \cup {c.new : c \in Moves(changes)}

\* Only the districts a node has left or joined are scored again; one without
\* nodes gets 0.0.
UpdateHulls(state, canonical, changes) ==
    IF Expands(state.slots, changes) THEN ResetHulls(ApplyChanges(canonical, changes))
    ELSE LET members == MovedMembers(state.members, state.slots, changes)
             occupancy == ApplyMoves(state.occupancy, changes)
         IN [slots |-> state.slots,
             members |-> members,
             scores |-> [d \in 0 .. state.slots - 1 |->
                            IF d \notin Touched(changes) THEN state.scores[d]
                            ELSE IF occupancy.counts[d] = 0 THEN {}
                            ELSE members[d]],
             occupancy |-> occupancy]

HullResult(state) == [d \in state.occupancy.observed |-> state.scores[d]]

ScoreHulls(a) == [d \in ObservedDistricts(a) |-> Members(a, d)]

-----------------------------------------------------------------------------
(* IncrementalPopulationPolygon.  A score is the population a district     *)
(* owns over the population whose polygons meet its hull; who owns those   *)
(* is read from the state's own assignment.                                *)

PopulationScore(a, nodes, d) ==
    [owned |-> nodes, around |-> {n \in HullReach[nodes] : a[n] # d}]

NoPopulationScore == [owned |-> {}, around |-> {}]

PositiveNodes(nodes) == Cardinality(nodes \cap Populated)

\* A district that owns no population has no score: the plan is refused.
Scorable(a) == \A d \in ObservedDistricts(a) : Members(a, d) \cap Populated # {}

ResetPopulation(a) ==
    [slots |-> DistrictCapacity(a),
     own |-> a,
     members |-> [d \in Slots(a) |-> Members(a, d)],
     positive |-> [d \in Slots(a) |-> PositiveNodes(Members(a, d))],
     scores |-> [d \in Slots(a) |->
                    IF Members(a, d) = {} THEN NoPopulationScore
                    ELSE PopulationScore(a, Members(a, d), d)],
     occupancy |-> ResetOccupancy(a)]

\* Mistake: populated nodes that leave are not taken off.
PositiveWithLeavers(state, changes, d) ==
    state.positive[d]
        + Cardinality({c \in Moves(changes) : c.new = d /\ c.node \in Populated})

PositiveAfter(state, changes, d) ==
    state.positive[d]
        + Cardinality({c \in Moves(changes) : c.new = d /\ c.node \in Populated})
        - Cardinality({c \in Moves(changes) : c.old = d /\ c.node \in Populated})

NodesAfter(state, changes, d) ==
    Cardinality(state.members[d]) + Cardinality({c \in Moves(changes) : c.new = d})
                                  - Cardinality({c \in Moves(changes) : c.old = d})

\* Checked before the state changes, from the counts alone.
PopulationAccepts(state, canonical, changes) ==
    IF Expands(state.slots, changes) THEN Scorable(ApplyChanges(canonical, changes))
    ELSE \A d \in Touched(changes) :
            NodesAfter(state, changes, d) > 0 => PositiveAfter(state, changes, d) # 0

UpdatePopulation(state, canonical, changes) ==
    IF Expands(state.slots, changes) THEN ResetPopulation(ApplyChanges(canonical, changes))
    ELSE LET members == MovedMembers(state.members, state.slots, changes)
             own == ApplyChanges(state.own, changes)
             occupancy == ApplyMoves(state.occupancy, changes)
         IN [slots |-> state.slots,
             own |-> own,
             members |-> members,
             positive |-> [d \in 0 .. state.slots - 1 |-> PositiveAfter(state, changes, d)],
             scores |-> [d \in 0 .. state.slots - 1 |->
                            IF d \notin Touched(changes) THEN state.scores[d]
                            ELSE IF occupancy.counts[d] = 0 THEN NoPopulationScore
                            ELSE PopulationScore(own, members[d], d)],
             occupancy |-> occupancy]

PopulationResult(state) == [d \in state.occupancy.observed |-> state.scores[d]]

ScorePopulation(a) ==
    [d \in ObservedDistricts(a) |-> PopulationScore(a, Members(a, d), d)]

=============================================================================

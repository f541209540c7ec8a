------------------------- MODULE IncrementalMetrics -------------------------
(***************************************************************************)
(* The metric states a scorer carries from one plan to the next: district  *)
(* occupancy, district tallies and cut edges (rust/src/scoring/delta.rs,   *)
(* district.rs and rust/src/metrics/tally.rs, cut_edges.rs).  Everything   *)
(* here is a pure operator; StreamScorer holds the state.                  *)
(*                                                                         *)
(* A tally total or a cut value is a running sum of floats.  It is kept    *)
(* here as a formal sum: for each node (or edge) the number of times its   *)
(* contribution is in the accumulator.  Two formal sums are equal exactly  *)
(* when the accumulators agree for every choice of weights, so rounding is *)
(* the only thing this leaves out.                                         *)
(*                                                                         *)
(* A slice of changes is the set of its entries and whether the slice      *)
(* lists them by strictly increasing node.  Every loop over a validated    *)
(* slice is written as its net effect: its entries name distinct nodes, so *)
(* the iterations add to disjoint parts of every formal sum.               *)
(***************************************************************************)
EXTENDS Integers, FiniteSets

CONSTANTS
    Nodes,                  \* positions of an assignment vector
    MaxLabel,               \* u16::MAX
    Edges,                  \* dual-graph edges as pairs of nodes
    RescanWorkMultiplier    \* MKV_FULL_RESCAN_WORK_MULTIPLIER

ASSUME NodesAssumption == Nodes \subseteq Nat /\ IsFiniteSet(Nodes) /\ Nodes # {}

ASSUME MaxLabelAssumption == MaxLabel \in Nat

Labels == 0 .. MaxLabel

\* validate_edge_nodes rejects foreign nodes, self-loops and repeated pairs.
ASSUME EdgesAssumption ==
    /\ Edges \subseteq Nodes \X Nodes
    /\ \A e \in Edges : e[1] # e[2] /\ <<e[2], e[1]>> \notin Edges

ASSUME MultiplierAssumption == RescanWorkMultiplier \in Nat

Assignments == [Nodes -> Labels]

-----------------------------------------------------------------------------
(* Changes between two assignments *)

DeltaChange == [node : Nat, old : Labels, new : Labels]

Slice(entries, increasing) == [entries |-> entries, increasing |-> increasing]

\* The comparison of adjacent frames: one change per node that differs.
Diff(a, b) ==
    Slice({[node |-> n, old |-> a[n], new |-> b[n]] :
              n \in {m \in Nodes : a[m] # b[m]}}, TRUE)

\* validate_changes: in range, made against `current`, strictly increasing
\* (which also means that no node is named twice).
ValidChanges(current, changes) ==
    /\ changes.increasing
    /\ \A c \in changes.entries : c.node \in Nodes /\ current[c.node] = c.old
    /\ \A c, d \in changes.entries : c.node = d.node => c = d

Changed(changes) == {c.node : c \in changes.entries}

NewLabel(changes, n) == (CHOOSE c \in changes.entries : c.node = n).new

ApplyChanges(a, changes) ==
    [n \in Nodes |-> IF n \in Changed(changes) THEN NewLabel(changes, n) ELSE a[n]]

Moves(changes) == {c \in changes.entries : c.old # c.new}

-----------------------------------------------------------------------------
(* Districts in use: observed_districts and DistrictOccupancy *)

ObservedDistricts(a) == {a[n] : n \in Nodes}

Members(a, d) == {n \in Nodes : a[n] = d}

\* district_capacity: the dense storage ends at the largest label in use.
DistrictCapacity(a) ==
    CHOOSE s \in {a[n] + 1 : n \in Nodes} : \A n \in Nodes : a[n] < s

ResetOccupancy(a) ==
    [counts |-> [d \in Labels |-> Cardinality(Members(a, d))],
     observed |-> ObservedDistricts(a)]

\* A count vector grows on demand and reads as zero beyond its end.  A
\* district is dropped from the observed set when its count reaches zero.
ApplyMoves(occ, changes) ==
    LET moves == Moves(changes)
        left(d) == Cardinality({c \in moves : c.old = d})
        joined(d) == Cardinality({c \in moves : c.new = d})
        counts == [d \in Labels |-> occ.counts[d] + joined(d) - left(d)]
        entered == {c.new : c \in moves}
        drained == {c.old : c \in moves}
    IN [counts |-> counts,
        observed |-> {d \in occ.observed \cup entered :
                         d \in drained => counts[d] # 0}]

-----------------------------------------------------------------------------
(* IncrementalTally.  `own` is the private assignment that only the        *)
(* standalone interface reads; a scorer passes its canonical one.          *)

ResetTally(a) ==
    [own |-> a,
     slots |-> DistrictCapacity(a),
     totals |-> [d \in 0 .. DistrictCapacity(a) - 1 |->
                    [n \in Nodes |-> IF a[n] = d THEN 1 ELSE 0]],
     occupancy |-> ResetOccupancy(a)]

\* A label beyond the dense storage rebuilds the state from the assignment
\* the changes lead to; otherwise each move shifts one node's contribution.
UpdateTally(tally, canonical, changes) ==
    IF \E c \in changes.entries : c.new >= tally.slots
    THEN ResetTally(ApplyChanges(canonical, changes))
    ELSE LET moves == Moves(changes)
             gained(d, n) == IF \E c \in moves : c.node = n /\ c.new = d THEN 1 ELSE 0
             lost(d, n) == IF \E c \in moves : c.node = n /\ c.old = d THEN 1 ELSE 0
         IN [own |-> tally.own,
             slots |-> tally.slots,
             totals |-> [d \in 0 .. tally.slots - 1 |->
                            [n \in Nodes |->
                                tally.totals[d][n] + gained(d, n) - lost(d, n)]],
             occupancy |-> ApplyMoves(tally.occupancy, changes)]

TallyResult(tally) ==
    [d \in tally.occupancy.observed |-> tally.totals[d]]

-----------------------------------------------------------------------------
(* IncrementalCutEdges *)

CutIndicator(a, e) == IF a[e[1]] # a[e[2]] THEN 1 ELSE 0

ResetCutEdges(a) ==
    [own |-> a,
     cut |-> [e \in Edges |-> CutIndicator(a, e)],
     occupancy |-> ResetOccupancy(a)]

\* Mistake: the adjacency lists hold an edge under its first end only.
IncidentFromFirst(nodes) == {e \in Edges : e[1] \in nodes}

Incident(nodes) == {e \in Edges : e[1] \in nodes \/ e[2] \in nodes}

\* An edge between two moved nodes is visited from both ends.
IncidentVisits(moves) ==
    Cardinality({v \in moves \X Edges : v[1].node \in {v[2][1], v[2][2]}})

UseFullRescan(changes) ==
    /\ Edges # {}
    /\ IncidentVisits(Moves(changes)) * RescanWorkMultiplier >= Cardinality(Edges)

\* PostDeltaLabels overlays the changes on the labels before them; seen_edges
\* makes an edge with two changed ends count once.
UpdateCutEdges(state, canonical, changes) ==
    LET after == ApplyChanges(canonical, changes)
    IN [own |-> state.own,
        cut |-> [e \in Edges |->
                    IF UseFullRescan(changes) THEN CutIndicator(after, e)
                    ELSE IF e \in Incident(Changed(changes))
                    THEN state.cut[e] + CutIndicator(after, e) - CutIndicator(canonical, e)
                    ELSE state.cut[e]],
        occupancy |-> ApplyMoves(state.occupancy, changes)]

CutResult(state) == [districts |-> state.occupancy.observed, cut |-> state.cut]

-----------------------------------------------------------------------------
(* What the metrics say of an assignment scored from scratch *)

ScoreTally(a) ==
    [d \in ObservedDistricts(a) |-> [n \in Nodes |-> IF a[n] = d THEN 1 ELSE 0]]

ScoreCutEdges(a) ==
    [districts |-> ObservedDistricts(a), cut |-> [e \in Edges |-> CutIndicator(a, e)]]

-----------------------------------------------------------------------------
(* What the metrics by region share (region.rs, region_tally.rs): one      *)
(* prepared region column, and the test that sends an update back to a     *)
(* reset.                                                                  *)

CONSTANTS
    Regions,        \* distinct region labels of a column
    NoRegion,       \* NO_REGION: the node has no label
    RegionOf        \* the prepared region column

ASSUME RegionAssumption ==
    /\ NoRegion \notin Regions
    /\ RegionOf \in [Nodes -> Regions \cup {NoRegion}]

\* expanded_assignment: a label beyond the dense storage.
Expands(slots, changes) == \E c \in changes.entries : c.new >= slots

=============================================================================

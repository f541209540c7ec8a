---------------------------- MODULE RegionParts ----------------------------
(***************************************************************************)
(* Region statistics carried across changes: splits and pieces from counts *)
(* of occupied (region, district) pairs (rust/src/metrics/region.rs), and  *)
(* parts from the connected components of those pairs (region_parts.rs).   *)
(*                                                                         *)
(* An update takes its nodes out of their components, repairs what each    *)
(* component has lost and then puts the nodes back one at a time.  A       *)
(* component is the set of its members: the position vector and the order  *)
(* of a member list only serve to find a member.  Among components of the  *)
(* same size the code keeps whichever its traversal met first or last; any *)
(* of them may be kept here.                                               *)
(***************************************************************************)
EXTENDS IncrementalMetrics, SequencesExt

CONSTANTS
    Plans,          \* plans an update may lead to
    Repeated        \* nodes every slice lists, moved or not

ASSUME PlansAssumption == Plans \subseteq Assignments /\ Plans # {}

ASSUME RepeatedAssumption == Repeated \subseteq Nodes

VARIABLES
    phase,          \* where the update stands
    assignment,     \* the plan the states stand for
    changes,        \* the slice of the update
    todo,           \* its moved nodes that are not back yet
    slots,          \* IncrementalRegion.district_slots
    counted,        \* OccupancyColumnState
    column          \* PartColumnState

vars == <<phase, assignment, changes, todo, slots, counted, column>>

NoComponent == 0

NoChanges == Slice({}, TRUE)

Placed == {n \in Nodes : RegionOf[n] # NoRegion}

Key(a, n) == <<RegionOf[n], a[n]>>

MovedPlaced(slice) == {c \in Moves(slice) : c.node \in Placed}

InNodeOrder(entries) == SetToSortSeq(entries, LAMBDA c, d : c.node < d.node)

-----------------------------------------------------------------------------
(* Connectivity inside a set of nodes *)

Neighbors(n) == {m \in Nodes : <<n, m>> \in Edges \/ <<m, n>> \in Edges}

Closed(part, within) == \A n \in part : Neighbors(n) \cap within \subseteq part

\* flood_component: the nodes a traversal from n meets.
Reached(within, n) ==
    {m \in within : \A part \in SUBSET within :
                        n \in part /\ Closed(part, within) => m \in part}

\* Placed nodes with the region and the district of n.
Peers(a, n) == {m \in Placed : Key(a, m) = Key(a, n)}

ComponentsOf(a, nodes) ==
    {Reached(Peers(a, n) \cap nodes, n) : n \in nodes}

-----------------------------------------------------------------------------
(* Scores of an assignment on its own *)

DistrictsOf(a, r) == {a[n] : n \in {m \in Nodes : RegionOf[m] = r}}

ScoreSplits(a) == Cardinality({r \in Regions : Cardinality(DistrictsOf(a, r)) > 1})

ScorePieces(a) == MapThenSumSet(LAMBDA r : Cardinality(DistrictsOf(a, r)), Regions)

ScoreParts(a) == Cardinality(ComponentsOf(a, Placed))

-----------------------------------------------------------------------------
(* OccupancyColumnState *)

NoneCounted(capacity) ==
    [counts |-> [k \in Regions \X (0 .. capacity - 1) |-> 0],
     distinct |-> [r \in Regions |-> 0],
     splits |-> 0,
     pieces |-> 0]

AddTo(state, k) ==
    IF state.counts[k] > 0 THEN [state EXCEPT !.counts[k] = @ + 1]
    ELSE [counts |-> [state.counts EXCEPT ![k] = 1],
          distinct |-> [state.distinct EXCEPT ![k[1]] = @ + 1],
          splits |-> state.splits + (IF state.distinct[k[1]] = 1 THEN 1 ELSE 0),
          pieces |-> state.pieces + 1]

\* Mistake: a region that keeps one district is still counted as split.
RemoveAndStaySplit(state, k) ==
    IF state.counts[k] > 1 THEN [state EXCEPT !.counts[k] = @ - 1]
    ELSE [state EXCEPT !.counts[k] = 0, !.distinct[k[1]] = @ - 1, !.pieces = @ - 1]

RemoveFrom(state, k) ==
    IF state.counts[k] > 1 THEN [state EXCEPT !.counts[k] = @ - 1]
    ELSE [counts |-> [state.counts EXCEPT ![k] = 0],
          distinct |-> [state.distinct EXCEPT ![k[1]] = @ - 1],
          splits |-> state.splits - (IF state.distinct[k[1]] = 2 THEN 1 ELSE 0),
          pieces |-> state.pieces - 1]

ResetCounted(a) ==
    FoldSet(LAMBDA n, state : AddTo(state, Key(a, n)),
            NoneCounted(DistrictCapacity(a)), Placed)

\* A node leaves its old pair before it enters the new one.
UpdateCounted(state, slice) ==
    FoldLeft(LAMBDA s, c : AddTo(RemoveFrom(s, <<RegionOf[c.node], c.old>>),
                                 <<RegionOf[c.node], c.new>>),
             state, InNodeOrder(MovedPlaced(slice)))

-----------------------------------------------------------------------------
(* PartColumnState *)

Least(nodes) == CHOOSE n \in nodes : \A m \in nodes : n <= m

ResetColumn(a) ==
    LET components == SetToSortSeq(ComponentsOf(a, Placed),
                                   LAMBDA p, q : Least(p) < Least(q))
    IN [of |-> [n \in Nodes |->
                   IF n \in Placed
                   THEN CHOOSE i \in DOMAIN components : n \in components[i]
                   ELSE NoComponent],
        components |-> components,
        keys |-> [i \in DOMAIN components |-> Key(a, Least(components[i]))],
        free |-> << >>,
        parts |-> Len(components),
        affected |-> << >>,
        removed |-> [i \in DOMAIN components |-> {}]]

\* relabel_component and assign_node: the component's list and its members'
\* entries change together.
WithMembers(state, i, members) ==
    [state EXCEPT !.components[i] = members,
                  !.of = [n \in Nodes |-> IF n \in members THEN i ELSE @[n]]]

\* allocate_component: a released identifier is used again before the vectors
\* grow.
Allocate(state, members, key) ==
    IF state.free # << >>
    THEN LET i == Last(state.free)
         IN WithMembers([state EXCEPT !.free = Front(@), !.keys[i] = key], i, members)
    ELSE WithMembers([state EXCEPT !.components = Append(@, {}),
                                   !.keys = Append(@, key),
                                   !.removed = Append(@, {})],
                     Len(state.components) + 1, members)

\* The first loop of update: every moved node leaves its component before any
\* component is repaired.
RemoveMoved(state, slice) ==
    FoldLeft(LAMBDA s, c :
                 LET i == s.of[c.node]
                 IN [s EXCEPT !.of[c.node] = NoComponent,
                              !.components[i] = @ \ {c.node},
                              !.affected = IF s.removed[i] = {} THEN Append(@, i) ELSE @,
                              !.removed[i] = @ \cup {c.node}],
             state, InNodeOrder(MovedPlaced(slice)))

\* Survivors next to a removed node: only a traversal between them can tell
\* whether the component fell apart.
Seeds(state, i) ==
    UNION {Neighbors(n) : n \in state.removed[i]} \cap state.components[i]

Largest(sets) == {s \in sets : \A t \in sets : Cardinality(t) <= Cardinality(s)}

\* The early returns of repair_after_removals.
StillWhole(state, i) ==
    \/ Cardinality(Seeds(state, i)) <= 1
    \/ \E s \in Seeds(state, i) : Seeds(state, i) \subseteq Reached(state.components[i], s)

\* The largest fragment keeps the identifier, the others become components.
Split(state, i, retained) ==
    LET fragments == {Reached(state.components[i], n) : n \in state.components[i]}
        kept == [WithMembers(state, i, retained) EXCEPT
                    !.parts = @ + Cardinality(fragments) - 1]
    IN FoldSet(LAMBDA fragment, s : Allocate(s, fragment, state.keys[i]),
               kept, fragments \ {retained})

\* Mistake: an emptied component is released without being taken off the count.
ReleaseOnly(state, i) == [state EXCEPT !.free = Append(@, i)]

Release(state, i) == [state EXCEPT !.free = Append(@, i), !.parts = @ - 1]

\* Components next to n that have its new key.
Adjoining(state, n, key) ==
    {i \in {state.of[m] : m \in Neighbors(n)} \ {NoComponent} : state.keys[i] = key}

\* attach_node with neighbours: `target` takes the node and the members of the
\* other components, whose identifiers are released.
Join(state, n, target, sources) ==
    LET members == state.components[target] \cup {n}
                       \cup UNION {state.components[i] : i \in sources}
        emptied == [state EXCEPT
                       !.components = [i \in DOMAIN @ |-> IF i \in sources THEN {} ELSE @[i]],
                       !.free = @ \o SetToSortSeq(sources, <),
                       !.parts = @ - Cardinality(sources)]
    IN WithMembers(emptied, target, members)

-----------------------------------------------------------------------------
(* IncrementalRegion *)

TypeOK ==
    /\ phase \in {"idle", "repair", "add"}
    /\ assignment \in Plans
    /\ changes.entries \subseteq DeltaChange
    /\ todo \subseteq changes.entries
    /\ slots \in 1 .. MaxLabel + 1
    /\ DOMAIN counted.counts = Regions \X (0 .. slots - 1)
    /\ column.of \in [Nodes -> NoComponent .. Len(column.components)]
    /\ DOMAIN column.keys = DOMAIN column.components
    /\ column.parts \in 0 .. Cardinality(Nodes)

Reset(a) ==
    /\ assignment' = a
    /\ slots' = DistrictCapacity(a)
    /\ counted' = ResetCounted(a)
    /\ column' = ResetColumn(a)

Init ==
    /\ phase = "idle"
    /\ assignment \in Plans
    /\ changes = NoChanges
    /\ todo = {}
    /\ slots = DistrictCapacity(assignment)
    /\ counted = ResetCounted(assignment)
    /\ column = ResetColumn(assignment)

\* Slices made against the current plan.  One may list nodes that keep their
\* label.
Slices ==
    {Slice({[node |-> n, old |-> assignment[n], new |-> a[n]] :
               n \in Repeated \cup {m \in Nodes : a[m] # assignment[m]}}, TRUE) : a \in Plans}

\* update_trusted: a label without a slot rebuilds everything.
Rebuild ==
    /\ phase = "idle"
    /\ \E slice \in Slices :
          Expands(slots, slice) /\ Reset(ApplyChanges(assignment, slice))
    /\ UNCHANGED <<phase, changes, todo>>

\* The occupancy columns, and the removals of the part columns.
CountAndRemove ==
    /\ phase = "idle"
    /\ \E slice \in Slices :
          /\ ~Expands(slots, slice)
          /\ changes' = slice
          /\ counted' = UpdateCounted(counted, slice)
          /\ column' = RemoveMoved(column, slice)
          /\ todo' = MovedPlaced(slice)
    /\ phase' = "repair"
    /\ UNCHANGED <<assignment, slots>>

RepairWith(state) ==
    /\ column' = state
    /\ UNCHANGED <<phase, assignment, changes, todo, slots, counted>>

\* One round of the repair loop.
Repair ==
    /\ phase = "repair"
    /\ column.affected # << >>
    /\ LET i == Last(column.affected)
           popped == [column EXCEPT !.affected = Front(@)]
           done(state) == [state EXCEPT !.removed[i] = {}]
       IN \/ /\ column.components[i] = {}
             /\ RepairWith(done(Release(popped, i)))
          \/ /\ column.components[i] # {}
             /\ StillWhole(column, i)
             /\ RepairWith(done(popped))
          \/ /\ column.components[i] # {}
             /\ ~StillWhole(column, i)
             /\ \E retained \in Largest({Reached(column.components[i], n) :
                                             n \in column.components[i]}) :
                   RepairWith(done(Split(popped, i, retained)))

Repaired ==
    /\ phase = "repair"
    /\ column.affected = << >>
    /\ phase' = "add"
    /\ UNCHANGED <<assignment, changes, todo, slots, counted, column>>

\* add_node, for the moved nodes in order.
Add ==
    /\ phase = "add"
    /\ todo # {}
    /\ LET c == Head(InNodeOrder(todo))
           key == <<RegionOf[c.node], c.new>>
           adjoining == Adjoining(column, c.node, key)
       IN /\ todo' = todo \ {c}
          /\ IF adjoining = {}
             THEN column' = [Allocate(column, {c.node}, key) EXCEPT !.parts = @ + 1]
             ELSE \E target \in adjoining :
                     /\ \A i \in adjoining : Cardinality(column.components[i])
                                                 <= Cardinality(column.components[target])
                     /\ column' = Join(column, c.node, target, adjoining \ {target})
    /\ UNCHANGED <<phase, assignment, changes, slots, counted>>

Finish ==
    /\ phase = "add"
    /\ todo = {}
    /\ assignment' = ApplyChanges(assignment, changes)
    /\ changes' = NoChanges
    /\ phase' = "idle"
    /\ UNCHANGED <<todo, slots, counted, column>>

Next == Rebuild \/ CountAndRemove \/ Repair \/ Repaired \/ Add \/ Finish

Spec == Init /\ [][Next]_vars

-----------------------------------------------------------------------------
(* Properties *)

Active == {i \in DOMAIN column.components : column.components[i] # {}}

\* Nodes that are in a component now, and the plan that tells their keys.
Present == Placed \ {c.node : c \in todo}

PlanSoFar == IF phase = "add" THEN ApplyChanges(assignment, changes) ELSE assignment

\* The inverse maps and the list of free identifiers never disagree, in the
\* middle of an update included: what is neither active nor awaiting repair
\* is free exactly once, so no component is handed out twice and none leaks.
BookkeepingAgrees ==
    /\ \A n \in Nodes, i \in DOMAIN column.components :
          column.of[n] = i <=> n \in column.components[i]
    /\ IsInjective(column.free)
    /\ Range(column.free) \cap Range(column.affected) = {}
    /\ Range(column.free) \cup Range(column.affected) \cup Active
           = DOMAIN column.components
    /\ Range(column.free) \cap Active = {}
    /\ column.parts = Cardinality(Active \cup Range(column.affected))

\* While nodes are put back, the components are always those of the nodes
\* present (region-parts-algorithm.md: "sequential addition is safe"); when
\* the update ends they are those of the new plan, and `parts` its score.
PlacedFormParts ==
    phase \in {"idle", "add"} =>
        /\ {column.components[i] : i \in Active}
               = ComponentsOf(PlanSoFar, Present)
        /\ \A i \in Active : \A n \in column.components[i] :
              column.keys[i] = Key(PlanSoFar, n)
        /\ phase = "idle" => column.parts = ScoreParts(assignment)

\* The components kept by repair are those of the plan, and none is lost or listed twice.
ComponentsAreKept == BookkeepingAgrees /\ PlacedFormParts

\* The counters kept per pair and per region give the counts of the plan they
\* have reached, as if it had been scored alone.
CountsAreExact ==
    LET a == ApplyChanges(assignment, changes)
    IN /\ counted.splits = ScoreSplits(a)
       /\ counted.pieces = ScorePieces(a)
       /\ \A r \in Regions : counted.distinct[r] = Cardinality(DistrictsOf(a, r))

\* Invariant.  What is kept between updates, and repaired after each removal and
\* arrival within one, is what the plan reached so far has: its components, each
\* once, and its counts.
RegionPartsAreExact == ComponentsAreKept /\ CountsAreExact

=============================================================================

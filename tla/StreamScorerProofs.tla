------------------------- MODULE StreamScorerProofs -------------------------
(***************************************************************************)
(* For every graph, every set of labels and every file, the incremental    *)
(* state of StreamScorer is what a reset would compute, and a stream does  *)
(* what scoring each plan from scratch would do: it implements PlanByPlan. *)
(*                                                                         *)
(* The first argument is one lemma per metric: updating an exact state     *)
(* with a slice that is valid for the assignment gives a state that is     *)
(* exact for the assignment the slice leads to.  The actions only choose   *)
(* between that update and a reset.  Tallies and cut edges come first,     *)
(* then the metrics that work district by district.                        *)
(*                                                                         *)
(* The second is how far each of the stream's counters has come: the       *)
(* budget has lost the samples of all frames that were read, the summary   *)
(* has those of the frames that were emitted, and the frames between are   *)
(* the pending one or the batch.  The distinct plans are those of the      *)
(* frames read (TwoDelta) or emitted (the others), and the membership the  *)
(* counts go on from is that of the last of these.                         *)
(*                                                                         *)
(* The third is about ScoreRun: the writer refuses nothing of the stream   *)
(* it is called from, and a published run is the file up to the limit.     *)
(* Nothing of the two components is proved again.  A step of the run is a  *)
(* step of the stream or leaves it alone, and one of the writer or leaves  *)
(* it alone, so that what is shown of the stream here and of a writer in   *)
(* RunWriterProofs holds of the run.  What is added is how the two keep in *)
(* step: the writer has the counts of the stream and one row for each it   *)
(* emitted.                                                                *)
(***************************************************************************)
EXTENDS ScoreRun, FiniteSetTheorems, SequenceTheorems, WellFoundedInduction, TLAPS

(* A slice whose entries carry node numbers and labels. *)
IsSlice(changes) == changes.entries \subseteq DeltaChange

(***************************************************************************)
(* Applying a slice                                                        *)
(***************************************************************************)

\* A validated entry is the only one for its node, so it decides the label.
LEMMA NewLabelOfEntry ==
    ASSUME NEW a \in Assignments, NEW changes, ValidChanges(a, changes),
           NEW c \in changes.entries
    PROVE  NewLabel(changes, c.node) = c.new
BY DEF ValidChanges, NewLabel

\* A valid slice leads from an assignment to an assignment.
LEMMA ApplyChangesType ==
    ASSUME NEW a \in Assignments, NEW changes, IsSlice(changes),
           ValidChanges(a, changes)
    PROVE  ApplyChanges(a, changes) \in Assignments
<1> SUFFICES ASSUME NEW n \in Nodes
             PROVE  ApplyChanges(a, changes)[n] \in Labels
    BY DEF ApplyChanges, Assignments
<1>1. CASE n \in Changed(changes)
    <2>1. PICK c \in changes.entries : c.node = n
        BY <1>1 DEF Changed
    <2>2. NewLabel(changes, n) = c.new
        BY <2>1, NewLabelOfEntry
    <2>3. QED
        BY <1>1, <2>1, <2>2 DEF ApplyChanges, IsSlice, DeltaChange
<1>2. CASE n \notin Changed(changes)
    BY <1>2 DEF ApplyChanges, Assignments
<1>3. QED
    BY <1>1, <1>2

\* The label of a node after the slice, by the entry that names it.
LEMMA LabelAfter ==
    ASSUME NEW a \in Assignments, NEW changes, ValidChanges(a, changes),
           NEW n \in Nodes
    PROVE  /\ \A c \in changes.entries : c.node = n =>
                 a[n] = c.old /\ ApplyChanges(a, changes)[n] = c.new
           /\ n \notin Changed(changes) => ApplyChanges(a, changes)[n] = a[n]
<1>1. ASSUME NEW c \in changes.entries, c.node = n
      PROVE  a[n] = c.old /\ ApplyChanges(a, changes)[n] = c.new
    <2>1. n \in Changed(changes)
        BY <1>1 DEF Changed
    <2>2. QED
        BY <1>1, <2>1, NewLabelOfEntry DEF ApplyChanges, ValidChanges
<1>2. QED
    BY <1>1 DEF ApplyChanges

(***************************************************************************)
(* District occupancy                                                      *)
(***************************************************************************)

\* One entry per node: entries can be counted by the nodes they name.
LEMMA CountByNode ==
    ASSUME NEW a \in Assignments, NEW changes, ValidChanges(a, changes),
           NEW entries \in SUBSET changes.entries
    PROVE  /\ IsFiniteSet(entries)
           /\ Cardinality(entries) = Cardinality({c.node : c \in entries})
<1> DEFINE named == {c.node : c \in entries}
           nodeOf == [c \in entries |-> c.node]
<1>1. named \subseteq Nodes /\ IsFiniteSet(named)
    <2>1. named \subseteq Nodes
        BY DEF ValidChanges
    <2>2. QED
        BY <2>1, NodesAssumption, FS_Subset
<1>2. nodeOf \in [entries -> named]
    OBVIOUS
<1>3. \A c, d \in entries : nodeOf[c] = nodeOf[d] => c = d
    BY DEF ValidChanges
<1>4. nodeOf \in Injection(entries, named)
    BY <1>2, <1>3 DEF Injection, IsInjective
<1>5. nodeOf \in Surjection(entries, named)
    BY <1>2 DEF Surjection
<1>6. QED
    BY <1>1, <1>4, <1>5, FS_Injection

\* The members of a district after a slice: those who stay and those who join.
LEMMA MembersAfter ==
    ASSUME NEW a \in Assignments, NEW changes, IsSlice(changes),
           ValidChanges(a, changes), NEW d
    PROVE  LET left == {c \in Moves(changes) : c.old = d}
               joined == {c \in Moves(changes) : c.new = d}
               b == ApplyChanges(a, changes)
           IN /\ Members(b, d) =
                    (Members(a, d) \ {c.node : c \in left}) \cup {c.node : c \in joined}
              /\ {c.node : c \in left} \subseteq Members(a, d)
              /\ {c.node : c \in joined} \cap Members(a, d) = {}
<1> DEFINE left == {c \in Moves(changes) : c.old = d}
           joined == {c \in Moves(changes) : c.new = d}
           b == ApplyChanges(a, changes)
<1>1. \A c \in changes.entries : c.node \in Nodes /\ a[c.node] = c.old /\ b[c.node] = c.new
    BY LabelAfter DEF ValidChanges
<1>2. \A n \in Nodes : n \notin Changed(changes) => b[n] = a[n]
    BY LabelAfter
<1>3. {c.node : c \in left} \subseteq Members(a, d)
    BY <1>1 DEF Moves, Members
<1>4. {c.node : c \in joined} \cap Members(a, d) = {}
    BY <1>1 DEF Moves, Members
<1>5. ASSUME NEW n \in Nodes
      PROVE  n \in Members(b, d) <=>
                n \in (Members(a, d) \ {c.node : c \in left}) \cup {c.node : c \in joined}
    <2>1. CASE n \notin Changed(changes)
        <3>1. n \notin {c.node : c \in left} /\ n \notin {c.node : c \in joined}
            BY <2>1 DEF Changed, Moves
        <3>2. QED
            BY <1>2, <2>1, <3>1 DEF Members
    <2>2. CASE n \in Changed(changes)
        <3>1. PICK c \in changes.entries : c.node = n
            BY <2>2 DEF Changed
        <3>2. a[n] = c.old /\ b[n] = c.new
            BY <1>1, <3>1
        <3>3. \A x \in changes.entries : x.node = n => x = c
            BY <3>1 DEF ValidChanges
        <3>4. n \in {x.node : x \in left} <=> c.old # c.new /\ c.old = d
            BY <3>1, <3>3 DEF Moves
        <3>5. n \in {x.node : x \in joined} <=> c.old # c.new /\ c.new = d
            BY <3>1, <3>3 DEF Moves
        <3>6. QED
            BY <3>2, <3>4, <3>5 DEF Members
    <2>3. QED
        BY <2>1, <2>2
<1>6. {c.node : c \in joined} \subseteq Nodes
    BY <1>1 DEF Moves
<1>7. Members(b, d) = (Members(a, d) \ {c.node : c \in left}) \cup {c.node : c \in joined}
    <2>1. Members(b, d) \subseteq Nodes /\ Members(a, d) \subseteq Nodes
        BY DEF Members
    <2>2. QED
        BY <1>5, <1>6, <2>1
<1>8. QED
    BY <1>3, <1>4, <1>7

\* The count of a district moves by the entries that join and leave it.
LEMMA CountAfter ==
    ASSUME NEW a \in Assignments, NEW changes, IsSlice(changes),
           ValidChanges(a, changes), NEW d \in Labels
    PROVE  /\ Cardinality(Members(ApplyChanges(a, changes), d)) =
                  Cardinality(Members(a, d))
                  + Cardinality({c \in Moves(changes) : c.new = d})
                  - Cardinality({c \in Moves(changes) : c.old = d})
           /\ Cardinality(Members(ApplyChanges(a, changes), d)) \in Nat
<1> DEFINE left == {c \in Moves(changes) : c.old = d}
           joined == {c \in Moves(changes) : c.new = d}
           b == ApplyChanges(a, changes)
           L == {c.node : c \in left}
           J == {c.node : c \in joined}
           M == Members(a, d)
<1>1. Members(b, d) = (M \ L) \cup J /\ L \subseteq M /\ J \cap M = {}
    BY MembersAfter
<1>2. IsFiniteSet(M)
    BY NodesAssumption, FS_Subset DEF Members
<1>3. left \in SUBSET changes.entries /\ joined \in SUBSET changes.entries
    BY DEF Moves
<1>4. Cardinality(left) = Cardinality(L) /\ IsFiniteSet(left)
    BY <1>3, CountByNode
<1>5. Cardinality(joined) = Cardinality(J) /\ IsFiniteSet(joined)
    BY <1>3, CountByNode
<1>6. IsFiniteSet(J)
    <2>1. J \subseteq Nodes
        BY <1>3 DEF ValidChanges
    <2>2. QED
        BY <2>1, NodesAssumption, FS_Subset
<1>7. Cardinality(M \ L) = Cardinality(M) - Cardinality(L) /\ IsFiniteSet(M \ L)
    <2>1. M \cap L = L
        BY <1>1
    <2>2. QED
        BY <1>2, <2>1, FS_Difference
<1>8. Cardinality((M \ L) \cup J) = Cardinality(M \ L) + Cardinality(J)
      /\ IsFiniteSet((M \ L) \cup J)
    <2>1. (M \ L) \cap J = {}
        BY <1>1
    <2>2. IsFiniteSet((M \ L) \cup J)
          /\ Cardinality((M \ L) \cup J) =
                Cardinality(M \ L) + Cardinality(J) - Cardinality((M \ L) \cap J)
        BY <1>6, <1>7, FS_Union
    <2>3. Cardinality(J) \in Nat /\ Cardinality(M \ L) \in Nat
        BY <1>6, <1>7, FS_CardinalityType
    <2>4. Cardinality((M \ L) \cap J) = 0
        BY <2>1, FS_EmptySet
    <2>5. QED
        <3> HIDE DEF M, L, J
        <3>1. QED
            BY <2>2, <2>3, <2>4
<1>9. Cardinality(M) \in Nat /\ Cardinality(L) \in Nat /\ Cardinality(J) \in Nat
    BY <1>2, <1>4, <1>5, FS_CardinalityType
<1>10. Cardinality(Members(b, d)) \in Nat
    BY <1>1, <1>8, FS_CardinalityType
<1>11. QED
    BY <1>1, <1>4, <1>5, <1>7, <1>8, <1>9, <1>10

\* A district is occupied exactly when its count is not zero.
LEMMA OccupiedIffCounted ==
    ASSUME NEW a \in Assignments, NEW d \in Labels
    PROVE  d \in ObservedDistricts(a) <=> Cardinality(Members(a, d)) # 0
<1>1. IsFiniteSet(Members(a, d))
    BY NodesAssumption, FS_Subset DEF Members
<1>2. Cardinality(Members(a, d)) = 0 <=> Members(a, d) = {}
    BY <1>1, FS_EmptySet
<1>3. QED
    BY <1>2 DEF ObservedDistricts, Members

\* Counting the moves of a slice keeps the occupancy exact.
LEMMA OccupancyAfter ==
    ASSUME NEW a \in Assignments, NEW changes, IsSlice(changes),
           ValidChanges(a, changes)
    PROVE  ApplyMoves(ResetOccupancy(a), changes) = ResetOccupancy(ApplyChanges(a, changes))
<1> DEFINE b == ApplyChanges(a, changes)
           moves == Moves(changes)
           after == ApplyMoves(ResetOccupancy(a), changes)
           entered == {c.new : c \in moves}
           drained == {c.old : c \in moves}
<1>1. b \in Assignments
    BY ApplyChangesType
<1>2. after.counts = [d \in Labels |-> Cardinality(Members(b, d))]
    <2>1. after.counts = [d \in Labels |-> Cardinality(Members(a, d))
                              + Cardinality({c \in Moves(changes) : c.new = d})
                              - Cardinality({c \in Moves(changes) : c.old = d})]
        BY DEF ApplyMoves, ResetOccupancy
    <2>2. QED
        BY <2>1, CountAfter
<1>3. \A c \in moves : c.node \in Nodes /\ a[c.node] = c.old /\ b[c.node] = c.new
    BY LabelAfter DEF ValidChanges, Moves
<1>4. after.observed = {d \in ObservedDistricts(a) \cup entered :
                            d \in drained => Cardinality(Members(b, d)) # 0}
    <2>1. after.observed = {d \in ObservedDistricts(a) \cup entered :
                                d \in drained => after.counts[d] # 0}
        BY DEF ApplyMoves, ResetOccupancy
    <2>2. drained \subseteq Labels
        BY DEF IsSlice, DeltaChange, Moves
    <2>3. QED
        BY <1>2, <2>1, <2>2
<1>5. \A d \in Labels : d \in after.observed <=> d \in ObservedDistricts(b)
    <2> SUFFICES ASSUME NEW d \in Labels
                 PROVE  d \in after.observed <=> d \in ObservedDistricts(b)
        OBVIOUS
    <2>1. d \in ObservedDistricts(b) <=> Cardinality(Members(b, d)) # 0
        BY <1>1, OccupiedIffCounted
    <2>2. d \in entered => d \in ObservedDistricts(b)
        BY <1>3 DEF ObservedDistricts
    <2>3. d \in ObservedDistricts(a) /\ d \notin drained => d \in ObservedDistricts(b)
        <3> SUFFICES ASSUME NEW n \in Nodes, a[n] = d, d \notin drained
                     PROVE  b[n] = d
            BY DEF ObservedDistricts
        <3>1. CASE n \notin Changed(changes)
            BY <3>1, LabelAfter
        <3>2. CASE n \in Changed(changes)
            <4>1. PICK c \in changes.entries : c.node = n
                BY <3>2 DEF Changed
            <4>2. a[n] = c.old /\ b[n] = c.new
                BY <4>1, LabelAfter
            <4>3. c.old = c.new
                BY <4>2 DEF Moves
            <4>4. QED
                BY <4>2, <4>3
        <3>3. QED
            BY <3>1, <3>2
    <2>4. d \in ObservedDistricts(b) => d \in ObservedDistricts(a) \cup entered
        <3> SUFFICES ASSUME NEW n \in Nodes, b[n] = d, d \notin entered
                     PROVE  a[n] = d
            BY DEF ObservedDistricts
        <3>1. CASE n \notin Changed(changes)
            BY <3>1, LabelAfter
        <3>2. CASE n \in Changed(changes)
            <4>1. PICK c \in changes.entries : c.node = n
                BY <3>2 DEF Changed
            <4>2. a[n] = c.old /\ b[n] = c.new
                BY <4>1, LabelAfter
            <4>3. c.old = c.new
                BY <4>2 DEF Moves
            <4>4. QED
                BY <4>2, <4>3
        <3>3. QED
            BY <3>1, <3>2
    <2>5. QED
        BY <1>4, <2>1, <2>2, <2>3, <2>4
<1>6. after.observed = ObservedDistricts(b)
    <2>1. ObservedDistricts(b) \subseteq Labels
        BY <1>1 DEF ObservedDistricts, Assignments
    <2>2. after.observed \subseteq Labels
        <3>1. entered \subseteq Labels
            BY DEF IsSlice, DeltaChange, Moves
        <3>2. ObservedDistricts(a) \subseteq Labels
            BY DEF ObservedDistricts, Assignments
        <3>3. QED
            BY <1>4, <3>1, <3>2
    <2>3. QED
        BY <1>5, <2>1, <2>2
<1>7. after = [counts |-> after.counts, observed |-> after.observed]
    BY DEF ApplyMoves
<1>8. QED
    BY <1>2, <1>6, <1>7 DEF ResetOccupancy

(***************************************************************************)
(* Tallies                                                                 *)
(***************************************************************************)

\* district_capacity is a natural number above every label in use.
LEMMA CapacityBounds ==
    ASSUME NEW a \in Assignments
    PROVE  /\ DistrictCapacity(a) \in Nat
           /\ \A n \in Nodes : a[n] < DistrictCapacity(a)
<1> DEFINE ends == {a[n] + 1 : n \in Nodes}
           bounds == {s \in Nat : \A n \in Nodes : a[n] < s}
<1>1. \A n \in Nodes : a[n] \in Nat /\ a[n] <= MaxLabel
    BY MaxLabelAssumption DEF Assignments, Labels
<1>2. MaxLabel + 1 \in bounds
    BY <1>1, MaxLabelAssumption
<1>3. PICK s \in bounds : \A t \in bounds : ~(<<t, s>> \in OpToRel(<, Nat))
    BY <1>2, NatLessThanWellFounded, WFMin
<1>4. s \in Nat /\ \A t \in bounds : ~(t < s)
    BY <1>3 DEF OpToRel
<1>5. \E n \in Nodes : s = a[n] + 1
    <2> SUFFICES ASSUME \A n \in Nodes : s # a[n] + 1
                 PROVE  FALSE
        OBVIOUS
    <2>1. s # 0
        <3>1. PICK n \in Nodes : TRUE
            BY NodesAssumption
        <3>2. a[n] < s /\ a[n] \in Nat
            BY <1>1
        <3>3. QED
            BY <1>4, <3>2
    <2>2. s - 1 \in Nat /\ \A n \in Nodes : a[n] < s - 1
        BY <1>1, <1>4, <2>1
    <2>3. s - 1 \in bounds
        BY <2>2
    <2>4. QED
        BY <1>4, <2>3
<1>6. \E t \in ends : \A n \in Nodes : a[n] < t
    BY <1>5
<1>7. /\ DistrictCapacity(a) \in ends
      /\ \A n \in Nodes : a[n] < DistrictCapacity(a)
    BY <1>6 DEF DistrictCapacity
<1>8. QED
    BY <1>1, <1>7

\* A reset builds an exact tally.
LEMMA ResetTallyExact ==
    ASSUME NEW a \in Assignments
    PROVE  TallyExact(ResetTally(a), a)
BY CapacityBounds DEF TallyExact, ResetTally

\* Moving the contributions of the nodes that moved, or rebuilding the tally
\* for a label it has no slot for, keeps it exact.
LEMMA UpdateTallyExact ==
    ASSUME NEW a \in Assignments, NEW changes, IsSlice(changes),
           ValidChanges(a, changes),
           NEW tally, TallyExact(tally, a)
    PROVE  TallyExact(UpdateTally(tally, a, changes), ApplyChanges(a, changes))
<1> DEFINE b == ApplyChanges(a, changes)
           updated == UpdateTally(tally, a, changes)
<1>1. b \in Assignments
    BY ApplyChangesType
<1>2. CASE \E c \in changes.entries : c.new >= tally.slots
    BY <1>1, <1>2, ResetTallyExact DEF UpdateTally
<1>3. CASE ~ \E c \in changes.entries : c.new >= tally.slots
    <2> DEFINE moves == Moves(changes)
               gained(d, n) == IF \E c \in moves : c.node = n /\ c.new = d THEN 1 ELSE 0
               lost(d, n) == IF \E c \in moves : c.node = n /\ c.old = d THEN 1 ELSE 0
               belongs(x, d, n) == IF x[n] = d THEN 1 ELSE 0
    <2>1. updated = [own |-> tally.own, slots |-> tally.slots,
                     totals |-> [d \in 0 .. tally.slots - 1 |->
                                    [n \in Nodes |->
                                        tally.totals[d][n] + gained(d, n) - lost(d, n)]],
                     occupancy |-> ApplyMoves(tally.occupancy, changes)]
        BY <1>3 DEF UpdateTally
    <2>2. updated.occupancy = ResetOccupancy(b)
        BY <2>1, OccupancyAfter DEF TallyExact
    <2>3. ASSUME NEW n \in Nodes, NEW d
          PROVE  belongs(a, d, n) + gained(d, n) - lost(d, n) = belongs(b, d, n)
        <3>1. CASE n \notin Changed(changes)
            <4>1. b[n] = a[n]
                BY <3>1, LabelAfter
            <4>2. gained(d, n) = 0 /\ lost(d, n) = 0
                BY <3>1 DEF Changed, Moves
            <4>3. QED
                BY <4>1, <4>2
        <3>2. CASE n \in Changed(changes)
            <4>1. PICK c \in changes.entries : c.node = n
                BY <3>2 DEF Changed
            <4>2. a[n] = c.old /\ b[n] = c.new
                BY <4>1, LabelAfter
            <4>3. \A x \in changes.entries : x.node = n => x = c
                BY <4>1 DEF ValidChanges
            <4>4. gained(d, n) = IF c.old # c.new /\ c.new = d THEN 1 ELSE 0
                BY <4>1, <4>3 DEF Moves
            <4>5. lost(d, n) = IF c.old # c.new /\ c.old = d THEN 1 ELSE 0
                BY <4>1, <4>3 DEF Moves
            <4>6. QED
                BY <4>2, <4>4, <4>5
        <3>3. QED
            BY <3>1, <3>2
    <2>4. updated.totals = [d \in 0 .. tally.slots - 1 |->
                               [n \in Nodes |-> belongs(b, d, n)]]
        <3>1. ASSUME NEW d \in 0 .. tally.slots - 1, NEW n \in Nodes
              PROVE  tally.totals[d][n] = belongs(a, d, n)
            BY DEF TallyExact
        <3> HIDE DEF gained, lost, belongs
        <3>2. QED
            BY <2>1, <2>3, <3>1
    <2>5. \A n \in Nodes : b[n] < tally.slots
        <3> SUFFICES ASSUME NEW n \in Nodes
                     PROVE  b[n] < tally.slots
            OBVIOUS
        <3>1. CASE n \notin Changed(changes)
            BY <3>1, LabelAfter DEF TallyExact
        <3>2. CASE n \in Changed(changes)
            <4>1. PICK c \in changes.entries : c.node = n
                BY <3>2 DEF Changed
            <4>2. b[n] = c.new
                BY <4>1, LabelAfter
            <4>3. c.new \in Nat
                BY MaxLabelAssumption DEF IsSlice, DeltaChange, Labels
            <4>4. tally.slots \in Nat
                BY DEF TallyExact
            <4>5. QED
                BY <1>3, <4>1, <4>2, <4>3, <4>4
        <3>3. QED
            BY <3>1, <3>2
    <2>6. updated.slots = tally.slots /\ tally.slots \in Nat
        BY <2>1 DEF TallyExact
    <2>7. QED
        <3> HIDE DEF updated, b
        <3>1. TallyExact(updated, b)
            BY <2>2, <2>4, <2>5, <2>6 DEF TallyExact
        <3>2. QED
            BY <3>1 DEF updated, b
<1>4. QED
    BY <1>2, <1>3

(***************************************************************************)
(* Cut edges                                                               *)
(***************************************************************************)

\* A reset builds exact cut edges.
LEMMA ResetCutEdgesExact ==
    ASSUME NEW a \in Assignments
    PROVE  CutEdgesExact(ResetCutEdges(a), a)
BY DEF CutEdgesExact, ResetCutEdges

\* Rescanning every edge and replacing the indicators of the edges incident to
\* a changed node give the same cut: no other edge has an end that changed.
LEMMA UpdateCutEdgesExact ==
    ASSUME NEW a \in Assignments, NEW changes, IsSlice(changes),
           ValidChanges(a, changes),
           NEW state, CutEdgesExact(state, a)
    PROVE  CutEdgesExact(UpdateCutEdges(state, a, changes), ApplyChanges(a, changes))
<1> DEFINE b == ApplyChanges(a, changes)
           updated == UpdateCutEdges(state, a, changes)
           replaced(e) == IF UseFullRescan(changes) THEN CutIndicator(b, e)
                          ELSE IF e \in Incident(Changed(changes))
                          THEN state.cut[e] + CutIndicator(b, e) - CutIndicator(a, e)
                          ELSE state.cut[e]
<1>1. updated = [own |-> state.own,
                 cut |-> [e \in Edges |-> replaced(e)],
                 occupancy |-> ApplyMoves(state.occupancy, changes)]
    BY DEF UpdateCutEdges
<1>2. updated.occupancy = ResetOccupancy(b)
    BY <1>1, OccupancyAfter DEF CutEdgesExact
<1>3. ASSUME NEW e \in Edges
      PROVE  replaced(e) = CutIndicator(b, e)
    <2>1. state.cut[e] = CutIndicator(a, e)
        BY DEF CutEdgesExact
    <2>2. CutIndicator(a, e) \in Int /\ CutIndicator(b, e) \in Int
        BY DEF CutIndicator
    <2>3. CASE e \in Incident(Changed(changes))
        <3> HIDE DEF b
        <3>1. QED
            BY <2>1, <2>2, <2>3
    <2>4. CASE e \notin Incident(Changed(changes))
        <3>1. e[1] \in Nodes /\ e[2] \in Nodes
            BY EdgesAssumption
        <3>2. e[1] \notin Changed(changes) /\ e[2] \notin Changed(changes)
            BY <2>4 DEF Incident
        <3>3. b[e[1]] = a[e[1]] /\ b[e[2]] = a[e[2]]
            BY <3>1, <3>2, LabelAfter
        <3>4. CutIndicator(a, e) = CutIndicator(b, e)
            BY <3>3 DEF CutIndicator
        <3>5. QED
            BY <2>1, <2>4, <3>4
    <2>5. QED
        BY <2>3, <2>4
<1>4. updated.cut = [e \in Edges |-> CutIndicator(b, e)]
    <2> HIDE DEF replaced
    <2>1. QED
        BY <1>1, <1>3
<1>5. QED
    <2> HIDE DEF updated, b
    <2>1. CutEdgesExact(updated, b)
        BY <1>2, <1>4 DEF CutEdgesExact
    <2>2. QED
        BY <2>1 DEF updated, b

(***************************************************************************)
(* The scorer's state                                                      *)
(***************************************************************************)

\* What a state is at every step: an assignment and its exact metrics.
StateExact(state) ==
    /\ state # NoState
    /\ state.assignment \in Assignments
    /\ TallyExact(state.tally, state.assignment)
    /\ CutEdgesExact(state.cuts, state.assignment)

\* A state built from a plan is exact.
LEMMA FreshStateExact ==
    ASSUME NEW a \in Assignments
    PROVE  StateExact(FreshState(a))
<1>1. FreshState(a) # NoState
    BY NodesAssumption DEF FreshState, NoState, Assignments
<1>2. QED
    BY <1>1, ResetTallyExact, ResetCutEdgesExact DEF StateExact, FreshState

\* A validated slice takes an exact state to an exact state.
LEMMA UpdateStateExact ==
    ASSUME NEW state, StateExact(state), NEW changes, IsSlice(changes),
           ValidChanges(state.assignment, changes)
    PROVE  StateExact(UpdateState(state, changes))
<1> DEFINE a == state.assignment
           b == ApplyChanges(a, changes)
<1>1. a \in Assignments /\ TallyExact(state.tally, a) /\ CutEdgesExact(state.cuts, a)
    BY DEF StateExact
<1>2. b \in Assignments
    BY <1>1, ApplyChangesType
<1>3. TallyExact(UpdateTally(state.tally, a, changes), b)
    BY <1>1, UpdateTallyExact
<1>4. CutEdgesExact(UpdateCutEdges(state.cuts, a, changes), b)
    BY <1>1, UpdateCutEdgesExact
<1>5. UpdateState(state, changes) # NoState
    BY <1>2, NodesAssumption DEF UpdateState, NoState, Assignments
<1>6. QED
    BY <1>2, <1>3, <1>4, <1>5 DEF StateExact, UpdateState

\* The comparison of two plans is a slice that is valid for the first and
\* leads to the second.
LEMMA DiffLeads ==
    ASSUME NEW a \in Assignments, NEW b \in Assignments
    PROVE  /\ IsSlice(Diff(a, b))
           /\ ValidChanges(a, Diff(a, b))
           /\ ApplyChanges(a, Diff(a, b)) = b
<1> DEFINE changes == Diff(a, b)
           moved == {m \in Nodes : a[m] # b[m]}
<1>1. changes.entries = {[node |-> n, old |-> a[n], new |-> b[n]] : n \in moved}
      /\ changes.increasing
    BY DEF Diff, Slice
<1>2. IsSlice(changes)
    BY <1>1, NodesAssumption DEF IsSlice, DeltaChange, Assignments
<1>3. ValidChanges(a, changes)
    BY <1>1 DEF ValidChanges
<1>4. \A n \in Nodes : n \in Changed(changes) <=> a[n] # b[n]
    <2>1. \A c \in changes.entries : c.node \in moved
        BY <1>1
    <2>2. ASSUME NEW n \in moved
          PROVE  \E c \in changes.entries : c.node = n
        <3>1. [node |-> n, old |-> a[n], new |-> b[n]] \in changes.entries
            BY <1>1
        <3>2. QED
            BY <3>1
    <2>3. QED
        <3> HIDE DEF changes
        <3>1. QED
            BY <2>1, <2>2 DEF Changed
<1>5. ASSUME NEW n \in Nodes
      PROVE  ApplyChanges(a, changes)[n] = b[n]
    <2>1. CASE a[n] = b[n]
        BY <1>3, <1>4, <2>1, LabelAfter
    <2>2. CASE a[n] # b[n]
        <3>1. [node |-> n, old |-> a[n], new |-> b[n]] \in changes.entries
            BY <1>1, <2>2
        <3>2. QED
            BY <1>3, <3>1, LabelAfter
    <2>3. QED
        BY <2>1, <2>2
<1>6. ApplyChanges(a, changes) = b
    BY <1>5 DEF ApplyChanges, Assignments
<1>7. QED
    BY <1>2, <1>3, <1>6

\* Every slice a file may hold has well-formed entries.
LEMMA DeltasAreSlices ==
    ASSUME NEW changes \in Deltas \cup {NoDelta}
    PROVE  IsSlice(changes)
<1>1. CASE changes = NoDelta
    BY <1>1 DEF NoDelta, Slice, IsSlice
<1>2. CASE changes \in Deltas
    <2>1. PICK p \in Plans, q \in Plans :
              \/ changes.entries = Diff(p, q).entries
              \/ changes.entries = {[node |-> n, old |-> p[n], new |-> q[n]] : n \in Nodes}
        BY <1>2 DEF Deltas, Slice
    <2>2. p \in Assignments /\ q \in Assignments
        BY PlansAssumption
    <2>3. CASE changes.entries = Diff(p, q).entries
        BY <2>2, <2>3, DiffLeads DEF IsSlice
    <2>4. CASE changes.entries = {[node |-> n, old |-> p[n], new |-> q[n]] : n \in Nodes}
        BY <2>2, <2>4, NodesAssumption DEF IsSlice, DeltaChange, Assignments
    <2>5. QED
        BY <2>1, <2>3, <2>4
<1>3. QED
    BY <1>1, <1>2

(***************************************************************************)
(* The invariant                                                           *)
(***************************************************************************)

\* A slice is applied to a state that is there: a delta checks that, a chain
\* has one from its first accepted plan on, and a frame that waits to be
\* emitted has just made one.  Standard files never wait for an emission the
\* incremental way, the other two never have a batch.
ScorerInv ==
    /\ current # NoState => StateExact(current)
    /\ pc = "emit" => current # NoState
    /\ variant = "MkvChain" /\ current = NoState => accepted = 0
    /\ variant # "Standard" => batch = << >> /\ pc \notin {"batch", "lastbatch"}

\* A snapshot resets the state or brings changes that are checked first.
LEMMA ReadSnapshotInv ==
    ASSUME ScorerInv, NEW plan \in Plans, NEW delta \in Deltas \cup {NoDelta},
           NEW count \in Counts, ReadSnapshot(plan, delta, count)
    PROVE  ScorerInv'
<1>1. plan \in Assignments
    BY PlansAssumption
<1>2. CASE pc' = "failed"
    <2>1. UNCHANGED <<current, variant, accepted, batch>>
        BY <1>2 DEF ReadSnapshot, Fail
    <2>2. QED
        BY <1>2, <2>1 DEF ScorerInv
<1>3. CASE pc' # "failed"
    <2>1. /\ pc' = "emit" /\ variant = "TwoDelta" /\ UNCHANGED <<variant, accepted, batch>>
          /\ current' = IF current = NoState \/ delta = NoDelta THEN FreshState(plan)
                        ELSE UpdateState(current, delta)
          /\ current # NoState /\ delta # NoDelta => ValidChanges(current.assignment, delta)
        BY <1>3 DEF ReadSnapshot, Fail, Reading
    <2>2. CASE current = NoState \/ delta = NoDelta
        <3>1. StateExact(current')
            BY <1>1, <2>1, <2>2, FreshStateExact
        <3>2. QED
            BY <2>1, <3>1 DEF ScorerInv, StateExact
    <2>3. CASE current # NoState /\ delta # NoDelta
        <3>1. StateExact(current')
            BY <2>1, <2>3, DeltasAreSlices, UpdateStateExact DEF ScorerInv
        <3>2. QED
            BY <2>1, <3>1 DEF ScorerInv, StateExact
    <2>4. QED
        BY <2>2, <2>3
<1>4. QED
    BY <1>2, <1>3

\* A delta is applied to a state it has been validated against.
LEMMA ReadDeltaInv ==
    ASSUME ScorerInv, NEW delta \in Deltas, NEW count \in Counts,
           ReadDelta(delta, count)
    PROVE  ScorerInv'
<1>1. CASE pc' = "failed"
    <2>1. UNCHANGED <<current, variant, accepted, batch>>
        BY <1>1 DEF ReadDelta, Fail
    <2>2. QED
        BY <1>1, <2>1 DEF ScorerInv
<1>2. CASE pc' # "failed"
    <2>1. /\ pc' = "emit" /\ variant = "TwoDelta" /\ UNCHANGED <<variant, accepted, batch>>
          /\ current # NoState /\ ValidChanges(current.assignment, delta)
          /\ current' = UpdateState(current, delta)
        BY <1>2 DEF ReadDelta, Fail, Reading
    <2>2. StateExact(current')
        BY <2>1, DeltasAreSlices, UpdateStateExact DEF ScorerInv
    <2>3. QED
        BY <2>1, <2>2 DEF ScorerInv, StateExact
<1>3. QED
    BY <1>1, <1>2

\* The first plan of a chain is accepted number zero, so it resets the state;
\* a later one is compared with the plan the state holds.
LEMMA ReadPlanInv ==
    ASSUME ScorerInv, NEW plan \in Plans, NEW count \in Counts, ReadPlan(plan, count)
    PROVE  ScorerInv'
<1> DEFINE changes == IF current = NoState THEN Slice({}, TRUE)
                      ELSE Diff(current.assignment, plan)
<1>1. CASE pc' = "failed"
    <2>1. UNCHANGED <<current, variant, accepted, batch>>
        BY <1>1 DEF ReadPlan, Fail
    <2>2. QED
        BY <1>1, <2>1 DEF ScorerInv
<1>2. CASE pc' # "failed"
    <2>1. /\ pc' = "emit" /\ variant = "MkvChain" /\ UNCHANGED <<variant, accepted, batch>>
          /\ current' = IF accepted % ResyncInterval = 0 THEN FreshState(plan)
                        ELSE UpdateState(current, changes)
        BY <1>2 DEF ReadPlan, Reading, Fail
    <2>2. plan \in Assignments
        BY PlansAssumption
    <2>3. CASE accepted % ResyncInterval = 0
        <3>1. StateExact(current')
            BY <2>1, <2>2, <2>3, FreshStateExact
        <3>2. QED
            BY <2>1, <3>1 DEF ScorerInv, StateExact
    <2>4. CASE accepted % ResyncInterval # 0
        <3>1. current # NoState
            <4>1. 0 % ResyncInterval = 0
                BY StreamAssumption
            <4>2. QED
                BY <2>1, <2>4, <4>1 DEF ScorerInv
        <3>2. StateExact(current)
            BY <3>1 DEF ScorerInv
        <3>3. current.assignment \in Assignments
            BY <3>2 DEF StateExact
        <3>4. IsSlice(changes) /\ ValidChanges(current.assignment, changes)
            BY <2>2, <3>1, <3>3, DiffLeads
        <3>5. current' = UpdateState(current, changes)
            BY <2>1, <2>4
        <3>6. StateExact(current')
            <4> HIDE DEF changes
            <4>1. QED
                BY <3>2, <3>4, <3>5, UpdateStateExact
        <3>7. QED
            BY <2>1, <3>6 DEF ScorerInv, StateExact
    <2>5. QED
        BY <2>3, <2>4
<1>3. QED
    BY <1>1, <1>2

\* ScorerInv holds in every reachable state.
LEMMA ScorerInvariant == Spec => []ScorerInv
<1>1. Init => ScorerInv
    BY DEF Init, ScorerInv
<1>2. ScorerInv /\ [Next]_vars => ScorerInv'
    <2> SUFFICES ASSUME ScorerInv, [Next]_vars
                 PROVE  ScorerInv'
        OBVIOUS
    <2>1. ASSUME NEW plan \in Plans, NEW delta \in Deltas \cup {NoDelta},
                 NEW count \in Counts, ReadSnapshot(plan, delta, count)
          PROVE  ScorerInv'
        BY <2>1, ReadSnapshotInv
    <2>2. ASSUME NEW delta \in Deltas, NEW count \in Counts, ReadDelta(delta, count)
          PROVE  ScorerInv'
        BY <2>2, ReadDeltaInv
    <2>3. ASSUME NEW plan \in Plans, NEW count \in Counts, ReadPlan(plan, count)
          PROVE  ScorerInv'
        BY <2>3, ReadPlanInv
    <2>4. ASSUME NEW plan \in Plans, NEW count \in Counts, ReadIndependent(plan, count)
          PROVE  ScorerInv'
        BY <2>4 DEF ReadIndependent, Reading, ScorerInv
    <2>5. CASE ReadFails
        BY <2>5 DEF ReadFails, Fail, ScorerInv
    <2>6. CASE EmitIncremental
        BY <2>6 DEF EmitIncremental, EmitRow, ScorerInv
    <2>7. CASE EmitFromBatch
        <3>1. UNCHANGED <<variant, current>> /\ variant = "Standard" /\ pc' # "emit"
            BY <2>7 DEF EmitFromBatch, Complete, ScorerInv
        <3>2. QED
            BY <3>1 DEF ScorerInv
    <2>8. CASE EmitFails
        BY <2>8 DEF EmitFails, Fail, ScorerInv
    <2>9. CASE StopReading
        BY <2>9 DEF StopReading, Complete, ScorerInv
    <2>10. CASE UNCHANGED vars
        BY <2>10 DEF vars, ScorerInv
    <2>11. QED
        BY <2>1, <2>2, <2>3, <2>4, <2>5, <2>6, <2>7, <2>8, <2>9, <2>10 DEF Next
<1>3. QED
    BY <1>1, <1>2, PTL DEF Spec

\* For every graph, label range, resynchronisation interval and file, the
\* incremental metric states are the ones a reset would compute.
THEOREM IncrementalStateIsExact == Spec => []IncrementalExact
<1>1. ScorerInv => IncrementalExact
    BY DEF ScorerInv, StateExact, IncrementalExact
<1>2. QED
    BY <1>1, ScorerInvariant, PTL

(***************************************************************************)
(* The plan the scorer holds                                               *)
(***************************************************************************)

Decoded == [plan : Assignments, count : Nat \ {0}]

HistoryInv == frames \in Seq(Decoded) /\ HoldsLastPlan

\* Accepting a frame makes its plan the last one.
LEMMA AcceptAppends ==
    ASSUME frames \in Seq(Decoded), NEW plan \in Assignments, NEW count \in Counts,
           Accept(plan, count)
    PROVE  /\ frames' \in Seq(Decoded)
           /\ frames' # << >>
           /\ frames'[Len(frames')].plan = plan
<1>1. frames' = Append(frames, [plan |-> plan, count |-> count])
    BY DEF Accept
<1>2. [plan |-> plan, count |-> count] \in Decoded
    BY StreamAssumption DEF Decoded
<1>3. QED
    BY <1>1, <1>2

\* A snapshot's state holds the snapshot's plan: its changes must lead to it.
LEMMA ReadSnapshotHolds ==
    ASSUME ScorerInv, HistoryInv, NEW plan \in Plans,
           NEW delta \in Deltas \cup {NoDelta}, NEW count \in Counts,
           ReadSnapshot(plan, delta, count)
    PROVE  HistoryInv'
<1>1. plan \in Assignments
    BY PlansAssumption
<1>2. CASE pc' = "failed"
    <2>1. UNCHANGED frames
        BY <1>2 DEF ReadSnapshot, Fail
    <2>2. QED
        BY <1>2, <2>1 DEF HistoryInv, HoldsLastPlan
<1>3. CASE pc' # "failed"
    <2>1. /\ Accept(plan, count)
          /\ current' = IF current = NoState \/ delta = NoDelta THEN FreshState(plan)
                        ELSE UpdateState(current, delta)
          /\ current # NoState /\ delta # NoDelta =>
                ApplyChanges(current.assignment, delta) = plan
        BY <1>3 DEF ReadSnapshot, Fail
    <2>2. current'.assignment = plan
        BY <2>1 DEF FreshState, UpdateState
    <2>3. QED
        BY <1>1, <2>1, <2>2, AcceptAppends DEF HistoryInv, HoldsLastPlan
<1>4. QED
    BY <1>2, <1>3

\* A delta is relative to the last plan, which is the one the state holds.
LEMMA ReadDeltaHolds ==
    ASSUME ScorerInv, HistoryInv, NEW delta \in Deltas, NEW count \in Counts,
           ReadDelta(delta, count)
    PROVE  HistoryInv'
<1>1. CASE pc' = "failed"
    <2>1. UNCHANGED frames
        BY <1>1 DEF ReadDelta, Fail
    <2>2. QED
        BY <1>1, <2>1 DEF HistoryInv, HoldsLastPlan
<1>2. CASE pc' # "failed"
    <2> DEFINE plan == ApplyChanges(frames[Len(frames)].plan, delta)
    <2>1. /\ Accept(plan, count) /\ pc = "read" /\ variant = "TwoDelta"
          /\ current # NoState /\ ValidChanges(current.assignment, delta)
          /\ current' = UpdateState(current, delta)
        BY <1>2 DEF ReadDelta, Fail, Reading
    <2>2. current.assignment = frames[Len(frames)].plan
        BY <2>1 DEF HistoryInv, HoldsLastPlan
    <2>3. current.assignment \in Assignments
        BY <2>1 DEF ScorerInv, StateExact
    <2>4. plan \in Assignments
        BY <2>1, <2>2, <2>3, DeltasAreSlices, ApplyChangesType
    <2>5. current'.assignment = plan
        BY <2>1, <2>2 DEF UpdateState
    <2>6. QED
        <3> HIDE DEF plan
        <3>1. QED
            BY <2>1, <2>4, <2>5, AcceptAppends DEF HistoryInv, HoldsLastPlan
<1>3. QED
    BY <1>1, <1>2

\* A plan of a chain is held whether the state is rebuilt or updated.
LEMMA ReadPlanHolds ==
    ASSUME ScorerInv, HistoryInv, NEW plan \in Plans, NEW count \in Counts,
           ReadPlan(plan, count)
    PROVE  HistoryInv'
<1> DEFINE changes == IF current = NoState THEN Slice({}, TRUE)
                      ELSE Diff(current.assignment, plan)
<1>1. CASE pc' = "failed"
    <2>1. UNCHANGED frames
        BY <1>1 DEF ReadPlan, Fail
    <2>2. QED
        BY <1>1, <2>1 DEF HistoryInv, HoldsLastPlan
<1>2. CASE pc' # "failed"
    <2>1. /\ Accept(plan, count) /\ variant = "MkvChain"
          /\ current' = IF accepted % ResyncInterval = 0 THEN FreshState(plan)
                        ELSE UpdateState(current, changes)
        BY <1>2 DEF ReadPlan, Reading, Fail
    <2>2. plan \in Assignments
        BY PlansAssumption
    <2>3. current'.assignment = plan
        <3>1. CASE accepted % ResyncInterval = 0
            BY <2>1, <3>1 DEF FreshState
        <3>2. CASE accepted % ResyncInterval # 0
            <4>1. current # NoState
                <5>1. 0 % ResyncInterval = 0
                    BY StreamAssumption
                <5>2. QED
                    BY <2>1, <3>2, <5>1 DEF ScorerInv
            <4>2. current.assignment \in Assignments
                BY <4>1 DEF ScorerInv, StateExact
            <4>3. ApplyChanges(current.assignment, changes) = plan
                BY <2>2, <4>1, <4>2, DiffLeads
            <4>4. current' = UpdateState(current, changes)
                BY <2>1, <3>2
            <4>5. QED
                BY <4>3, <4>4 DEF UpdateState
        <3>3. QED
            BY <3>1, <3>2
    <2>4. QED
        BY <2>1, <2>2, <2>3, AcceptAppends DEF HistoryInv, HoldsLastPlan
<1>3. QED
    BY <1>1, <1>2

\* HistoryInv holds in every reachable state.
LEMMA HistoryInvariant == Spec => []HistoryInv
<1>1. Init => HistoryInv
    BY DEF Init, HistoryInv, HoldsLastPlan
<1>2. ScorerInv /\ HistoryInv /\ [Next]_vars => HistoryInv'
    <2> SUFFICES ASSUME ScorerInv, HistoryInv, [Next]_vars
                 PROVE  HistoryInv'
        OBVIOUS
    <2>1. ASSUME NEW plan \in Plans, NEW delta \in Deltas \cup {NoDelta},
                 NEW count \in Counts, ReadSnapshot(plan, delta, count)
          PROVE  HistoryInv'
        BY <2>1, ReadSnapshotHolds
    <2>2. ASSUME NEW delta \in Deltas, NEW count \in Counts, ReadDelta(delta, count)
          PROVE  HistoryInv'
        BY <2>2, ReadDeltaHolds
    <2>3. ASSUME NEW plan \in Plans, NEW count \in Counts, ReadPlan(plan, count)
          PROVE  HistoryInv'
        BY <2>3, ReadPlanHolds
    <2>4. ASSUME NEW plan \in Plans, NEW count \in Counts, ReadIndependent(plan, count)
          PROVE  HistoryInv'
        <3>1. variant' = "Standard" /\ Accept(plan, count) /\ plan \in Assignments
            BY <2>4, PlansAssumption DEF ReadIndependent, Reading
        <3>2. QED
            BY <3>1, AcceptAppends DEF HistoryInv, HoldsLastPlan
    <2>5. CASE ReadFails
        BY <2>5 DEF ReadFails, Fail, HistoryInv, HoldsLastPlan
    <2>6. CASE EmitIncremental
        BY <2>6 DEF EmitIncremental, HistoryInv, HoldsLastPlan
    <2>7. CASE EmitFromBatch
        <3>1. variant' = "Standard" /\ UNCHANGED frames
            BY <2>7 DEF EmitFromBatch, ScorerInv
        <3>2. QED
            BY <3>1 DEF HistoryInv, HoldsLastPlan
    <2>8. CASE EmitFails
        BY <2>8 DEF EmitFails, Fail, HistoryInv, HoldsLastPlan
    <2>9. CASE StopReading
        BY <2>9 DEF StopReading, Complete, HistoryInv, HoldsLastPlan
    <2>10. CASE UNCHANGED vars
        BY <2>10 DEF vars, HistoryInv, HoldsLastPlan
    <2>11. QED
        BY <2>1, <2>2, <2>3, <2>4, <2>5, <2>6, <2>7, <2>8, <2>9, <2>10 DEF Next
<1>3. QED
    BY <1>1, <1>2, ScorerInvariant, PTL DEF Spec

\* Between frames the scorer holds the plan the file has just decoded to.
THEOREM ScorerHoldsLastPlan == Spec => []HoldsLastPlan
<1>1. HistoryInv => HoldsLastPlan
    BY DEF HistoryInv
<1>2. QED
    BY <1>1, HistoryInvariant, PTL

(***************************************************************************)
(* The metrics of DistrictMetrics: a state that recomputes only what a     *)
(* slice touches is the state a reset would compute, and an update refuses *)
(* exactly the plans that scoring them from scratch refuses                *)
(***************************************************************************)

(***************************************************************************)
(* What the four states have in common                                     *)
(***************************************************************************)

\* A slice that names no label beyond the dense storage leads to an assignment
\* that fits into it.
LEMMA LabelsFit ==
    ASSUME NEW a \in Assignments, NEW changes, IsSlice(changes),
           ValidChanges(a, changes), NEW slots \in Nat,
           \A n \in Nodes : a[n] < slots, ~Expands(slots, changes)
    PROVE  \A n \in Nodes : ApplyChanges(a, changes)[n] < slots
<1> SUFFICES ASSUME NEW n \in Nodes
             PROVE  ApplyChanges(a, changes)[n] < slots
    OBVIOUS
<1>1. CASE n \notin Changed(changes)
    BY <1>1, LabelAfter
<1>2. CASE n \in Changed(changes)
    <2>1. PICK c \in changes.entries : c.node = n
        BY <1>2 DEF Changed
    <2>2. ApplyChanges(a, changes)[n] = c.new
        BY <2>1, LabelAfter
    <2>3. c.new \in Nat
        BY MaxLabelAssumption DEF IsSlice, DeltaChange, Labels
    <2>4. QED
        BY <2>1, <2>2, <2>3 DEF Expands
<1>3. QED
    BY <1>1, <1>2

\* The moves of a slice shift the contribution of each node.
LEMMA ContributionAfter ==
    ASSUME NEW a \in Assignments, NEW changes, ValidChanges(a, changes),
           NEW n \in Nodes, NEW d
    PROVE  LET gained == IF \E c \in Moves(changes) : c.node = n /\ c.new = d THEN 1 ELSE 0
               lost == IF \E c \in Moves(changes) : c.node = n /\ c.old = d THEN 1 ELSE 0
           IN (IF a[n] = d THEN 1 ELSE 0) + gained - lost
                  = IF ApplyChanges(a, changes)[n] = d THEN 1 ELSE 0
<1> DEFINE b == ApplyChanges(a, changes)
           gained == IF \E c \in Moves(changes) : c.node = n /\ c.new = d THEN 1 ELSE 0
           lost == IF \E c \in Moves(changes) : c.node = n /\ c.old = d THEN 1 ELSE 0
<1>1. CASE n \notin Changed(changes)
    <2>1. b[n] = a[n]
        BY <1>1, LabelAfter
    <2>2. gained = 0 /\ lost = 0
        BY <1>1 DEF Changed, Moves
    <2>3. QED
        BY <2>1, <2>2
<1>2. CASE n \in Changed(changes)
    <2>1. PICK c \in changes.entries : c.node = n
        BY <1>2 DEF Changed
    <2>2. a[n] = c.old /\ b[n] = c.new
        BY <2>1, LabelAfter
    <2>3. \A x \in changes.entries : x.node = n => x = c
        BY <2>1 DEF ValidChanges
    <2>4. gained = IF c.old # c.new /\ c.new = d THEN 1 ELSE 0
        BY <2>1, <2>3 DEF Moves
    <2>5. lost = IF c.old # c.new /\ c.old = d THEN 1 ELSE 0
        BY <2>1, <2>3 DEF Moves
    <2>6. QED
        BY <2>2, <2>4, <2>5
<1>3. QED
    BY <1>1, <1>2

\* Membership lists follow the moves, and a district no move names keeps its
\* nodes.
LEMMA MembersFollow ==
    ASSUME NEW a \in Assignments, NEW changes, IsSlice(changes),
           ValidChanges(a, changes), NEW slots \in Nat
    PROVE  /\ MovedMembers([d \in 0 .. slots - 1 |-> Members(a, d)], slots, changes)
                  = [d \in 0 .. slots - 1 |-> Members(ApplyChanges(a, changes), d)]
           /\ \A d : d \notin Touched(changes) =>
                  Members(ApplyChanges(a, changes), d) = Members(a, d)
<1>1. ASSUME NEW d
      PROVE  /\ Members(ApplyChanges(a, changes), d) =
                   (Members(a, d) \ {c.node : c \in {m \in Moves(changes) : m.old = d}})
                       \cup {c.node : c \in {m \in Moves(changes) : m.new = d}}
             /\ d \notin Touched(changes) =>
                   Members(ApplyChanges(a, changes), d) = Members(a, d)
    <2>1. Members(ApplyChanges(a, changes), d) =
              (Members(a, d) \ {c.node : c \in {m \in Moves(changes) : m.old = d}})
                  \cup {c.node : c \in {m \in Moves(changes) : m.new = d}}
        BY MembersAfter
    <2>2. d \notin Touched(changes) => /\ {m \in Moves(changes) : m.old = d} = {}
                                       /\ {m \in Moves(changes) : m.new = d} = {}
        BY DEF Touched
    <2>3. QED
        BY <2>1, <2>2
<1>2. QED
    BY <1>1 DEF MovedMembers

\* A touched district is a label, so its count says whether it is occupied.
LEMMA TouchedCount ==
    ASSUME NEW a \in Assignments, NEW changes, IsSlice(changes),
           ValidChanges(a, changes), NEW d \in Touched(changes)
    PROVE  /\ d \in Labels
           /\ ApplyMoves(ResetOccupancy(a), changes).counts[d] = 0
                  <=> Members(ApplyChanges(a, changes), d) = {}
<1> DEFINE b == ApplyChanges(a, changes)
<1>1. d \in Labels
    BY DEF Touched, Moves, IsSlice, DeltaChange
<1>2. ApplyMoves(ResetOccupancy(a), changes).counts = [x \in Labels |-> Cardinality(Members(b, x))]
    <2>1. ApplyMoves(ResetOccupancy(a), changes) = ResetOccupancy(b)
        BY OccupancyAfter
    <2>2. QED
        BY <2>1 DEF ResetOccupancy
<1>3. IsFiniteSet(Members(b, d))
    BY NodesAssumption, FS_Subset DEF Members
<1>4. Cardinality(Members(b, d)) = 0 <=> Members(b, d) = {}
    BY <1>3, FS_EmptySet
<1>5. QED
    <2> HIDE DEF b
    <2>1. ApplyMoves(ResetOccupancy(a), changes).counts[d] = Cardinality(Members(b, d))
        BY <1>1, <1>2
    <2>2. QED
        BY <1>1, <1>4, <2>1 DEF b

(***************************************************************************)
(* Region tallies                                                          *)
(***************************************************************************)

\* A reset builds exact region totals.
LEMMA ResetRegionTallyExact ==
    ASSUME NEW a \in Assignments
    PROVE  RegionTallyExact(ResetRegionTally(a), a)
BY CapacityBounds DEF RegionTallyExact, ResetRegionTally

\* Moving the contributions of the nodes that have a region keeps the totals
\* of every region exact.
LEMMA UpdateRegionTallyExact ==
    ASSUME NEW a \in Assignments, NEW changes, IsSlice(changes),
           ValidChanges(a, changes),
           NEW state, RegionTallyExact(state, a)
    PROVE  RegionTallyExact(UpdateRegionTally(state, a, changes), ApplyChanges(a, changes))
<1> DEFINE b == ApplyChanges(a, changes)
           updated == UpdateRegionTally(state, a, changes)
<1>1. b \in Assignments
    BY ApplyChangesType
<1>2. CASE Expands(state.slots, changes)
    BY <1>1, <1>2, ResetRegionTallyExact DEF UpdateRegionTally
<1>3. CASE ~Expands(state.slots, changes)
    <2> DEFINE moves == Moves(changes)
               gained(d, n) == IF \E c \in moves : c.node = n /\ c.new = d THEN 1 ELSE 0
               lost(d, n) == IF \E c \in moves : c.node = n /\ c.old = d THEN 1 ELSE 0
               shift(r, d, n) == IF RegionOf[n] = r THEN gained(d, n) - lost(d, n) ELSE 0
               total(x, r, d, n) == IF x[n] = d THEN InRegion(r, n) ELSE 0
    <2>1. updated = [slots |-> state.slots,
                     totals |-> [r \in Regions |->
                                    [d \in 0 .. state.slots - 1 |->
                                        [n \in Nodes |->
                                            state.totals[r][d][n] + shift(r, d, n)]]],
                     occupancy |-> ApplyMoves(state.occupancy, changes)]
        BY <1>3 DEF UpdateRegionTally
    <2>2. ASSUME NEW r \in Regions, NEW d, NEW n \in Nodes
          PROVE  total(a, r, d, n) + shift(r, d, n) = total(b, r, d, n)
        <3>1. (IF a[n] = d THEN 1 ELSE 0) + gained(d, n) - lost(d, n)
                  = IF b[n] = d THEN 1 ELSE 0
            BY ContributionAfter
        <3>2. gained(d, n) \in Int /\ lost(d, n) \in Int
            OBVIOUS
        <3> HIDE DEF gained, lost, b
        <3>3. QED
            BY <3>1, <3>2 DEF InRegion
    <2>3. updated.totals = RegionTotals(b, state.slots)
        <3>1. ASSUME NEW r \in Regions, NEW d \in 0 .. state.slots - 1, NEW n \in Nodes
              PROVE  state.totals[r][d][n] = total(a, r, d, n)
            BY DEF RegionTallyExact, RegionTotals
        <3>2. RegionTotals(b, state.slots) =
                  [r \in Regions |-> [d \in 0 .. state.slots - 1 |->
                      [n \in Nodes |-> total(b, r, d, n)]]]
            BY DEF RegionTotals
        <3> HIDE DEF shift, total
        <3>3. QED
            BY <2>1, <2>2, <3>1, <3>2
    <2>4. updated.occupancy = ResetOccupancy(b)
        BY <2>1, OccupancyAfter DEF RegionTallyExact
    <2>5. updated.slots \in Nat /\ \A n \in Nodes : b[n] < updated.slots
        BY <1>3, <2>1, LabelsFit DEF RegionTallyExact
    <2>6. QED
        <3>1. updated.slots = state.slots
            BY <2>1
        <3> HIDE DEF updated, b
        <3>2. RegionTallyExact(updated, b)
            BY <2>3, <2>4, <2>5, <3>1 DEF RegionTallyExact
        <3>3. QED
            BY <3>2 DEF updated, b
<1>4. QED
    BY <1>2, <1>3

(***************************************************************************)
(* Area and perimeter                                                      *)
(***************************************************************************)

\* A reset builds exact inner boundaries.
LEMMA ResetPerimeterExact ==
    ASSUME NEW a \in Assignments
    PROVE  PerimeterExact(ResetPerimeter(a), a)
<1>1. TallyExact(ResetTally(a), a)
    BY ResetTallyExact
<1>2. ResetTally(a).slots = DistrictCapacity(a)
    BY DEF ResetTally
<1>3. QED
    BY <1>1, <1>2 DEF PerimeterExact, ResetPerimeter, Slots

\* Only an edge with a changed end can be inside another district than before.
LEMMA UpdatePerimeterExact ==
    ASSUME NEW a \in Assignments, NEW changes, IsSlice(changes),
           ValidChanges(a, changes),
           NEW state, PerimeterExact(state, a)
    PROVE  PerimeterExact(UpdatePerimeter(state, a, changes), ApplyChanges(a, changes))
<1> DEFINE b == ApplyChanges(a, changes)
           updated == UpdatePerimeter(state, a, changes)
           inner(d, e) == IF e \in Incident(Changed(changes))
                          THEN state.inner[d][e] - Inside(a, e, d) + Inside(b, e, d)
                          ELSE state.inner[d][e]
<1>1. b \in Assignments
    BY ApplyChangesType
<1>2. CASE Expands(state.units.slots, changes)
    BY <1>1, <1>2, ResetPerimeterExact DEF UpdatePerimeter
<1>3. CASE ~Expands(state.units.slots, changes)
    <2>1. updated = [units |-> UpdateTally(state.units, a, changes),
                     inner |-> [d \in 0 .. state.units.slots - 1 |->
                                   [e \in Edges |-> inner(d, e)]]]
        BY <1>3 DEF UpdatePerimeter
    <2>2. TallyExact(updated.units, b)
        BY <2>1, UpdateTallyExact DEF PerimeterExact
    <2>3. updated.units.slots = state.units.slots
        BY <1>3, <2>1 DEF UpdateTally, Expands
    <2>4. ASSUME NEW d \in 0 .. state.units.slots - 1, NEW e \in Edges
          PROVE  inner(d, e) = Inside(b, e, d)
        <3>1. state.inner[d][e] = Inside(a, e, d)
            BY DEF PerimeterExact
        <3>2. Inside(a, e, d) \in Int /\ Inside(b, e, d) \in Int
            BY DEF Inside
        <3>3. CASE e \in Incident(Changed(changes))
            <4> HIDE DEF b
            <4>1. QED
                BY <3>1, <3>2, <3>3
        <3>4. CASE e \notin Incident(Changed(changes))
            <4>1. e[1] \in Nodes /\ e[2] \in Nodes
                BY EdgesAssumption
            <4>2. e[1] \notin Changed(changes) /\ e[2] \notin Changed(changes)
                BY <3>4 DEF Incident
            <4>3. b[e[1]] = a[e[1]] /\ b[e[2]] = a[e[2]]
                BY <4>1, <4>2, LabelAfter
            <4>4. Inside(a, e, d) = Inside(b, e, d)
                BY <4>3 DEF Inside
            <4>5. QED
                BY <3>1, <3>4, <4>4
        <3>5. QED
            BY <3>3, <3>4
    <2>5. updated.inner = [d \in 0 .. state.units.slots - 1 |->
                              [e \in Edges |-> Inside(b, e, d)]]
        <3> HIDE DEF inner
        <3>1. QED
            BY <2>1, <2>4
    <2>6. QED
        <3> HIDE DEF updated, b
        <3>1. PerimeterExact(updated, b)
            BY <2>2, <2>3, <2>5 DEF PerimeterExact
        <3>2. QED
            BY <3>1 DEF updated, b
<1>4. QED
    BY <1>2, <1>3

(***************************************************************************)
(* Hulls                                                                   *)
(***************************************************************************)

\* A reset scores every district from its members.
LEMMA ResetHullsExact ==
    ASSUME NEW a \in Assignments
    PROVE  HullsExact(ResetHulls(a), a)
BY CapacityBounds DEF HullsExact, ResetHulls, Slots

\* The members of a district no move names are those of before, so the score
\* it keeps is the score it would get.
LEMMA UpdateHullsExact ==
    ASSUME NEW a \in Assignments, NEW changes, IsSlice(changes),
           ValidChanges(a, changes),
           NEW state, HullsExact(state, a)
    PROVE  HullsExact(UpdateHulls(state, a, changes), ApplyChanges(a, changes))
<1> DEFINE b == ApplyChanges(a, changes)
           updated == UpdateHulls(state, a, changes)
           after == [d \in 0 .. state.slots - 1 |-> Members(b, d)]
<1>1. b \in Assignments
    BY ApplyChangesType
<1>2. CASE Expands(state.slots, changes)
    BY <1>1, <1>2, ResetHullsExact DEF UpdateHulls
<1>3. CASE ~Expands(state.slots, changes)
    <2>1. state.occupancy = ResetOccupancy(a) /\ state.slots \in Nat
        BY DEF HullsExact
    <2>2. MovedMembers(state.members, state.slots, changes) = after
        BY <2>1, MembersFollow DEF HullsExact
    <2>3. updated = [slots |-> state.slots,
                     members |-> after,
                     scores |-> [d \in 0 .. state.slots - 1 |->
                        IF d \notin Touched(changes) THEN state.scores[d]
                        ELSE IF ApplyMoves(state.occupancy, changes).counts[d] = 0 THEN {}
                        ELSE after[d]],
                     occupancy |-> ApplyMoves(state.occupancy, changes)]
        BY <1>3, <2>2 DEF UpdateHulls
    <2>4. ASSUME NEW d \in 0 .. state.slots - 1
          PROVE  (IF d \notin Touched(changes) THEN state.scores[d]
                  ELSE IF ApplyMoves(state.occupancy, changes).counts[d] = 0 THEN {}
                  ELSE after[d]) = Members(b, d)
        <3>1. CASE d \notin Touched(changes)
            <4>1. state.scores[d] = Members(a, d)
                BY DEF HullsExact
            <4>2. QED
                BY <2>1, <3>1, <4>1, MembersFollow
        <3>2. CASE d \in Touched(changes)
            BY <2>1, <3>2, TouchedCount
        <3>3. QED
            BY <3>1, <3>2
    <2>5. updated.scores = after
        <3> HIDE DEF b
        <3>1. QED
            BY <2>3, <2>4
    <2>6. updated.occupancy = ResetOccupancy(b)
        BY <2>1, <2>3, OccupancyAfter
    <2>7. updated.slots \in Nat /\ \A n \in Nodes : b[n] < updated.slots
        BY <1>3, <2>3, LabelsFit DEF HullsExact
    <2>8. updated.slots = state.slots /\ updated.members = after
        BY <2>3
    <2>9. QED
        <3> HIDE DEF updated, b
        <3>1. HullsExact(updated, b)
            BY <2>5, <2>6, <2>7, <2>8 DEF HullsExact
        <3>2. QED
            BY <3>1 DEF updated, b
<1>4. QED
    BY <1>2, <1>3

(***************************************************************************)
(* Population polygon                                                      *)
(***************************************************************************)

\* Taking members away and adding others moves the size of a set by theirs.
LEMMA CardinalityShift ==
    ASSUME NEW M, NEW L, NEW J, IsFiniteSet(M), IsFiniteSet(J),
           L \subseteq M, J \cap M = {}
    PROVE  /\ Cardinality((M \ L) \cup J) = Cardinality(M) + Cardinality(J) - Cardinality(L)
           /\ Cardinality((M \ L) \cup J) \in Nat
           /\ Cardinality(M) \in Nat /\ Cardinality(J) \in Nat /\ Cardinality(L) \in Nat
<1>1. Cardinality(M \ L) = Cardinality(M) - Cardinality(L) /\ IsFiniteSet(M \ L)
    <2>1. M \cap L = L
        OBVIOUS
    <2>2. QED
        BY <2>1, FS_Difference
<1>2. IsFiniteSet((M \ L) \cup J)
      /\ Cardinality((M \ L) \cup J) =
            Cardinality(M \ L) + Cardinality(J) - Cardinality((M \ L) \cap J)
    BY <1>1, FS_Union
<1>3. Cardinality((M \ L) \cap J) = 0
    <2>1. (M \ L) \cap J = {}
        OBVIOUS
    <2>2. QED
        BY <2>1, FS_EmptySet
<1>4. IsFiniteSet(L)
    BY FS_Subset
<1>5. /\ Cardinality(M) \in Nat /\ Cardinality(J) \in Nat /\ Cardinality(L) \in Nat
      /\ Cardinality((M \ L) \cup J) \in Nat /\ Cardinality(M \ L) \in Nat
    BY <1>1, <1>2, <1>4, FS_CardinalityType
<1>6. QED
    BY <1>1, <1>2, <1>3, <1>5

\* The counts of all nodes and of populated nodes of a district move by the
\* entries that join and leave it.
LEMMA PopulationCountsAfter ==
    ASSUME NEW a \in Assignments, NEW changes, IsSlice(changes),
           ValidChanges(a, changes), NEW state, PopulationExact(state, a),
           NEW d \in 0 .. state.slots - 1
    PROVE  /\ PositiveAfter(state, changes, d) =
                  PositiveNodes(Members(ApplyChanges(a, changes), d))
           /\ NodesAfter(state, changes, d) =
                  Cardinality(Members(ApplyChanges(a, changes), d))
<1> DEFINE b == ApplyChanges(a, changes)
           left == {c \in Moves(changes) : c.old = d}
           joined == {c \in Moves(changes) : c.new = d}
           leftP == {c \in Moves(changes) : c.old = d /\ c.node \in Populated}
           joinedP == {c \in Moves(changes) : c.new = d /\ c.node \in Populated}
           L == {c.node : c \in left}
           J == {c.node : c \in joined}
           LP == {c.node : c \in leftP}
           JP == {c.node : c \in joinedP}
           M == Members(a, d)
           MP == M \cap Populated
<1>1. Members(b, d) = (M \ L) \cup J /\ L \subseteq M /\ J \cap M = {}
    BY MembersAfter
<1>2. IsFiniteSet(M) /\ IsFiniteSet(MP)
    BY NodesAssumption, FS_Subset DEF Members
<1>3. /\ left \in SUBSET changes.entries /\ joined \in SUBSET changes.entries
      /\ leftP \in SUBSET changes.entries /\ joinedP \in SUBSET changes.entries
    BY DEF Moves
<1>4. /\ Cardinality(left) = Cardinality(L) /\ Cardinality(joined) = Cardinality(J)
      /\ Cardinality(leftP) = Cardinality(LP) /\ Cardinality(joinedP) = Cardinality(JP)
    BY <1>3, CountByNode
<1>5. IsFiniteSet(J) /\ IsFiniteSet(JP)
    <2>1. J \subseteq Nodes /\ JP \subseteq Nodes
        BY <1>3 DEF ValidChanges
    <2>2. QED
        BY <2>1, NodesAssumption, FS_Subset
<1>6. LP = L \cap Populated /\ JP = J \cap Populated
    OBVIOUS
<1>7. state.members[d] = M /\ state.positive[d] = Cardinality(MP)
    BY DEF PopulationExact, PositiveNodes
<1>8. Cardinality(Members(b, d)) = Cardinality(M) + Cardinality(J) - Cardinality(L)
    <2> HIDE DEF M, L, J, b
    <2>1. QED
        BY <1>1, <1>2, <1>5, CardinalityShift
<1>9. Cardinality(Members(b, d) \cap Populated)
          = Cardinality(MP) + Cardinality(JP) - Cardinality(LP)
    <2> HIDE DEF M, L, J, LP, JP, b
    <2>1. /\ Members(b, d) \cap Populated = (MP \ LP) \cup JP
          /\ LP \subseteq MP /\ JP \cap MP = {}
        BY <1>1, <1>6
    <2> HIDE DEF MP
    <2>2. QED
        BY <1>2, <1>5, <2>1, CardinalityShift
<1>10. /\ Cardinality(M) \in Nat /\ Cardinality(J) \in Nat /\ Cardinality(L) \in Nat
       /\ Cardinality(MP) \in Nat /\ Cardinality(JP) \in Nat /\ Cardinality(LP) \in Nat
    <2>1. IsFiniteSet(L) /\ IsFiniteSet(LP)
        BY <1>1, <1>2, <1>6, FS_Subset
    <2>2. QED
        BY <1>2, <1>5, <2>1, FS_CardinalityType
<1>11. PositiveAfter(state, changes, d) =
           Cardinality(MP) + Cardinality(JP) - Cardinality(LP)
    BY <1>4, <1>7 DEF PositiveAfter
<1>12. NodesAfter(state, changes, d) = Cardinality(M) + Cardinality(J) - Cardinality(L)
    BY <1>4, <1>7 DEF NodesAfter
<1>13. QED
    BY <1>8, <1>9, <1>11, <1>12 DEF PositiveNodes

\* Touched districts have a slot unless the slice outgrows the storage.
LEMMA TouchedHasSlot ==
    ASSUME NEW a \in Assignments, NEW changes, IsSlice(changes),
           ValidChanges(a, changes), NEW slots \in Nat,
           \A n \in Nodes : a[n] < slots, ~Expands(slots, changes),
           NEW d \in Touched(changes)
    PROVE  d \in 0 .. slots - 1
<1>1. PICK c \in Moves(changes) : d = c.old \/ d = c.new
    BY DEF Touched
<1>2. c \in changes.entries /\ c.old \in Nat /\ c.new \in Nat
    BY <1>1, MaxLabelAssumption DEF Moves, IsSlice, DeltaChange, Labels
<1>3. c.old < slots
    BY <1>2 DEF ValidChanges
<1>4. c.new < slots
    BY <1>2 DEF Expands
<1>5. QED
    BY <1>1, <1>2, <1>3, <1>4

\* A reset builds an exact population state.
LEMMA ResetPopulationExact ==
    ASSUME NEW a \in Assignments
    PROVE  PopulationExact(ResetPopulation(a), a)
BY CapacityBounds DEF PopulationExact, ResetPopulation, Slots

\* Who owns the polygons around an untouched district may change, but not
\* whether it is the district itself.
LEMMA UpdatePopulationExact ==
    ASSUME NEW a \in Assignments, NEW changes, IsSlice(changes),
           ValidChanges(a, changes),
           NEW state, PopulationExact(state, a)
    PROVE  PopulationExact(UpdatePopulation(state, a, changes), ApplyChanges(a, changes))
<1> DEFINE b == ApplyChanges(a, changes)
           updated == UpdatePopulation(state, a, changes)
           after == [d \in 0 .. state.slots - 1 |-> Members(b, d)]
           score(x, d) == IF Members(x, d) = {} THEN NoPopulationScore
                          ELSE PopulationScore(x, Members(x, d), d)
           rescored(d) == IF d \notin Touched(changes) THEN state.scores[d]
                          ELSE IF ApplyMoves(state.occupancy, changes).counts[d] = 0
                          THEN NoPopulationScore
                          ELSE PopulationScore(b, after[d], d)
<1>1. b \in Assignments
    BY ApplyChangesType
<1>2. CASE Expands(state.slots, changes)
    BY <1>1, <1>2, ResetPopulationExact DEF UpdatePopulation
<1>3. CASE ~Expands(state.slots, changes)
    <2>1. state.occupancy = ResetOccupancy(a) /\ state.slots \in Nat /\ state.own = a
        BY DEF PopulationExact
    <2>2. MovedMembers(state.members, state.slots, changes) = after
        BY <2>1, MembersFollow DEF PopulationExact
    <2>3. updated = [slots |-> state.slots,
                     own |-> b,
                     members |-> after,
                     positive |-> [d \in 0 .. state.slots - 1 |->
                                      PositiveAfter(state, changes, d)],
                     scores |-> [d \in 0 .. state.slots - 1 |-> rescored(d)],
                     occupancy |-> ApplyMoves(state.occupancy, changes)]
        BY <1>3, <2>1, <2>2 DEF UpdatePopulation
    <2>4. ASSUME NEW d \in 0 .. state.slots - 1
          PROVE  rescored(d) = score(b, d)
        <3>1. CASE d \notin Touched(changes)
            <4>1. state.scores[d] = score(a, d)
                BY DEF PopulationExact
            <4>2. Members(b, d) = Members(a, d)
                BY <2>1, <3>1, MembersFollow
            <4>3. \A n \in Nodes : a[n] = d <=> b[n] = d
                BY <4>2 DEF Members
            <4>4. HullReach[Members(a, d)] \subseteq Nodes
                BY PopulationAssumption DEF Members
            <4>5. PopulationScore(a, Members(a, d), d) = PopulationScore(b, Members(b, d), d)
                BY <4>2, <4>3, <4>4 DEF PopulationScore
            <4>6. QED
                <5> HIDE DEF b
                <5>1. QED
                    BY <3>1, <4>1, <4>2, <4>5
        <3>2. CASE d \in Touched(changes)
            BY <2>1, <3>2, TouchedCount
        <3>3. QED
            BY <3>1, <3>2
    <2>5. updated.scores = [d \in 0 .. state.slots - 1 |-> score(b, d)]
        <3> HIDE DEF score, rescored
        <3>1. QED
            BY <2>3, <2>4
    <2>6. updated.positive = [d \in 0 .. state.slots - 1 |-> PositiveNodes(Members(b, d))]
        <3>1. \A d \in 0 .. state.slots - 1 :
                  PositiveAfter(state, changes, d) = PositiveNodes(Members(b, d))
            BY PopulationCountsAfter
        <3> HIDE DEF b
        <3>2. QED
            BY <2>3, <3>1
    <2>7. updated.occupancy = ResetOccupancy(b)
        BY <2>1, <2>3, OccupancyAfter
    <2>8. updated.slots \in Nat /\ \A n \in Nodes : b[n] < updated.slots
        <3>1. \A n \in Nodes : a[n] < state.slots
            BY DEF PopulationExact
        <3>2. \A n \in Nodes : b[n] < state.slots
            BY <1>3, <2>1, <3>1, LabelsFit
        <3> HIDE DEF b
        <3>3. QED
            BY <2>1, <2>3, <3>2
    <2>9. updated.slots = state.slots /\ updated.members = after /\ updated.own = b
        BY <2>3
    <2>10. QED
        <3> HIDE DEF updated, b
        <3>1. PopulationExact(updated, b)
            BY <2>5, <2>6, <2>7, <2>8, <2>9 DEF PopulationExact
        <3>2. QED
            BY <3>1 DEF updated, b
<1>4. QED
    BY <1>2, <1>3

\* The counts an update checks refuse what scoring from scratch refuses: a
\* touched district by its counts, an untouched one because the plan before
\* was not refused.
LEMMA AcceptsIffScorable ==
    ASSUME NEW a \in Assignments, NEW changes, IsSlice(changes),
           ValidChanges(a, changes), Scorable(a),
           NEW state, PopulationExact(state, a)
    PROVE  PopulationAccepts(state, a, changes) <=> Scorable(ApplyChanges(a, changes))
<1> DEFINE b == ApplyChanges(a, changes)
<1>1. CASE Expands(state.slots, changes)
    BY <1>1 DEF PopulationAccepts
<1>2. CASE ~Expands(state.slots, changes)
    <2>1. state.slots \in Nat /\ \A n \in Nodes : a[n] < state.slots
        BY DEF PopulationExact
    <2>2. ASSUME NEW d \in Touched(changes)
          PROVE  /\ NodesAfter(state, changes, d) > 0 <=> Members(b, d) # {}
                 /\ PositiveAfter(state, changes, d) # 0 <=> Members(b, d) \cap Populated # {}
        <3>1. d \in 0 .. state.slots - 1
            BY <1>2, <2>1, TouchedHasSlot
        <3>2. /\ PositiveAfter(state, changes, d) = Cardinality(Members(b, d) \cap Populated)
              /\ NodesAfter(state, changes, d) = Cardinality(Members(b, d))
            BY <3>1, PopulationCountsAfter DEF PositiveNodes
        <3>3. IsFiniteSet(Members(b, d)) /\ IsFiniteSet(Members(b, d) \cap Populated)
            BY NodesAssumption, FS_Subset DEF Members
        <3> HIDE DEF b
        <3>4. /\ Cardinality(Members(b, d)) \in Nat
              /\ Cardinality(Members(b, d)) = 0 <=> Members(b, d) = {}
              /\ Cardinality(Members(b, d) \cap Populated) = 0
                     <=> Members(b, d) \cap Populated = {}
            BY <3>3, FS_EmptySet, FS_CardinalityType
        <3>5. QED
            BY <3>2, <3>4
    <2>3. \A d : d \notin Touched(changes) => Members(b, d) = Members(a, d)
        BY <2>1, MembersFollow
    <2>4. PopulationAccepts(state, a, changes) <=>
              \A d \in Touched(changes) :
                  Members(b, d) # {} => Members(b, d) \cap Populated # {}
        BY <1>2, <2>2 DEF PopulationAccepts
    <2>5. \A x, d : d \in ObservedDistricts(x) <=> Members(x, d) # {}
        BY DEF ObservedDistricts, Members
    <2>6. Scorable(b) <=> \A d : Members(b, d) # {} => Members(b, d) \cap Populated # {}
        BY <2>5 DEF Scorable
    <2>7. \A d : Members(a, d) # {} => Members(a, d) \cap Populated # {}
        BY <2>5 DEF Scorable
    <2>8. QED
        <3> HIDE DEF b
        <3>1. PopulationAccepts(state, a, changes) <=> Scorable(b)
            BY <2>3, <2>4, <2>6, <2>7
        <3>2. QED
            BY <3>1 DEF b
<1>3. QED
    BY <1>1, <1>2

(***************************************************************************)
(* The invariant of the district metrics                                   *)
(***************************************************************************)

DistrictExact(state) ==
    /\ RegionTallyExact(state.regions, state.assignment)
    /\ PerimeterExact(state.perimeter, state.assignment)
    /\ HullsExact(state.hulls, state.assignment)
    /\ PopulationExact(state.population, state.assignment)
    /\ Scorable(state.assignment)

DistrictInv == current # NoState => DistrictExact(current)

\* A state built from a plan that is not refused is exact.
LEMMA FreshDistrictExact ==
    ASSUME NEW a \in Assignments, Scorable(a)
    PROVE  DistrictExact(FreshState(a))
BY ResetRegionTallyExact, ResetPerimeterExact, ResetHullsExact, ResetPopulationExact
   DEF DistrictExact, FreshState

\* An update that is not refused takes an exact state to an exact state.
LEMMA UpdateDistrictExact ==
    ASSUME NEW state, StateExact(state), DistrictExact(state), NEW changes,
           IsSlice(changes), ValidChanges(state.assignment, changes),
           ~Refused(state, changes)
    PROVE  DistrictExact(UpdateState(state, changes))
<1> DEFINE a == state.assignment
           b == ApplyChanges(a, changes)
<1>1. /\ a \in Assignments
      /\ RegionTallyExact(state.regions, a) /\ PerimeterExact(state.perimeter, a)
      /\ HullsExact(state.hulls, a) /\ PopulationExact(state.population, a) /\ Scorable(a)
    BY DEF StateExact, DistrictExact
<1>2. RegionTallyExact(UpdateRegionTally(state.regions, a, changes), b)
    BY <1>1, UpdateRegionTallyExact
<1>3. PerimeterExact(UpdatePerimeter(state.perimeter, a, changes), b)
    BY <1>1, UpdatePerimeterExact
<1>4. HullsExact(UpdateHulls(state.hulls, a, changes), b)
    BY <1>1, UpdateHullsExact
<1>5. PopulationExact(UpdatePopulation(state.population, a, changes), b)
    BY <1>1, UpdatePopulationExact
<1>6. Scorable(b)
    BY <1>1, AcceptsIffScorable DEF Refused
<1>7. QED
    BY <1>2, <1>3, <1>4, <1>5, <1>6 DEF DistrictExact, UpdateState

\* A snapshot resets the states from its plan or updates them.
LEMMA ReadSnapshotDistricts ==
    ASSUME ScorerInv, DistrictInv, NEW plan \in Plans,
           NEW delta \in Deltas \cup {NoDelta}, NEW count \in Counts,
           ReadSnapshot(plan, delta, count)
    PROVE  DistrictInv'
<1>1. CASE pc' = "failed"
    BY <1>1 DEF ReadSnapshot, Fail, DistrictInv
<1>2. CASE pc' # "failed" /\ (current = NoState \/ delta = NoDelta)
    <2>1. current' = FreshState(plan) /\ Scorable(plan)
        BY <1>2 DEF ReadSnapshot, Fail
    <2>2. QED
        BY <2>1, FreshDistrictExact, PlansAssumption DEF DistrictInv
<1>3. CASE pc' # "failed" /\ current # NoState /\ delta # NoDelta
    <2>1. /\ current' = UpdateState(current, delta) /\ ~Refused(current, delta)
          /\ ValidChanges(current.assignment, delta)
        BY <1>3 DEF ReadSnapshot, Fail
    <2>2. QED
        BY <1>3, <2>1, DeltasAreSlices, UpdateDistrictExact DEF ScorerInv, DistrictInv
<1>4. QED
    BY <1>1, <1>2, <1>3

\* A delta updates them.
LEMMA ReadDeltaDistricts ==
    ASSUME ScorerInv, DistrictInv, NEW delta \in Deltas, NEW count \in Counts,
           ReadDelta(delta, count)
    PROVE  DistrictInv'
<1>1. CASE pc' = "failed"
    BY <1>1 DEF ReadDelta, Fail, DistrictInv
<1>2. CASE pc' # "failed"
    <2>1. /\ current # NoState /\ current' = UpdateState(current, delta)
          /\ ~Refused(current, delta) /\ ValidChanges(current.assignment, delta)
        BY <1>2 DEF ReadDelta, Fail
    <2>2. QED
        BY <2>1, DeltasAreSlices, UpdateDistrictExact DEF ScorerInv, DistrictInv
<1>3. QED
    BY <1>1, <1>2

\* A plan of a chain rebuilds them or updates them with its differences.
LEMMA ReadPlanDistricts ==
    ASSUME ScorerInv, DistrictInv, NEW plan \in Plans, NEW count \in Counts,
           ReadPlan(plan, count)
    PROVE  DistrictInv'
<1> DEFINE changes == IF current = NoState THEN Slice({}, TRUE)
                      ELSE Diff(current.assignment, plan)
<1>1. CASE pc' = "failed"
    BY <1>1 DEF ReadPlan, Fail, DistrictInv
<1>2. CASE pc' # "failed" /\ accepted % ResyncInterval = 0
    <2>1. current' = FreshState(plan) /\ Scorable(plan)
        BY <1>2 DEF ReadPlan, Fail
    <2>2. QED
        BY <2>1, FreshDistrictExact, PlansAssumption DEF DistrictInv
<1>3. CASE pc' # "failed" /\ accepted % ResyncInterval # 0
    <2>1. variant = "MkvChain" /\ current' = UpdateState(current, changes)
          /\ ~Refused(current, changes)
        BY <1>3 DEF ReadPlan, Reading, Fail
    <2>2. current # NoState
        <3>1. 0 % ResyncInterval = 0
            BY StreamAssumption
        <3>2. QED
            BY <1>3, <2>1, <3>1 DEF ScorerInv
    <2>3. StateExact(current) /\ DistrictExact(current)
        BY <2>2 DEF ScorerInv, DistrictInv
    <2>4. current.assignment \in Assignments /\ plan \in Assignments
        BY <2>3, PlansAssumption DEF StateExact
    <2>5. IsSlice(changes) /\ ValidChanges(current.assignment, changes)
        BY <2>2, <2>4, DiffLeads
    <2> HIDE DEF changes
    <2>6. QED
        BY <2>1, <2>3, <2>5, UpdateDistrictExact DEF DistrictInv
<1>4. QED
    BY <1>1, <1>2, <1>3

\* DistrictInv holds in every reachable state.
LEMMA DistrictInvariant == Spec => []DistrictInv
<1>1. Init => DistrictInv
    BY DEF Init, DistrictInv
<1>2. ScorerInv /\ DistrictInv /\ [Next]_vars => DistrictInv'
    <2> SUFFICES ASSUME ScorerInv, DistrictInv, [Next]_vars
                 PROVE  DistrictInv'
        OBVIOUS
    <2>1. ASSUME NEW plan \in Plans, NEW delta \in Deltas \cup {NoDelta},
                 NEW count \in Counts, ReadSnapshot(plan, delta, count)
          PROVE  DistrictInv'
        BY <2>1, ReadSnapshotDistricts
    <2>2. ASSUME NEW delta \in Deltas, NEW count \in Counts, ReadDelta(delta, count)
          PROVE  DistrictInv'
        BY <2>2, ReadDeltaDistricts
    <2>3. ASSUME NEW plan \in Plans, NEW count \in Counts, ReadPlan(plan, count)
          PROVE  DistrictInv'
        BY <2>3, ReadPlanDistricts
    <2>4. ASSUME NEW plan \in Plans, NEW count \in Counts, ReadIndependent(plan, count)
          PROVE  DistrictInv'
        BY <2>4 DEF ReadIndependent, DistrictInv
    <2>5. CASE ReadFails \/ EmitFails
        BY <2>5 DEF ReadFails, EmitFails, Fail, DistrictInv
    <2>6. CASE EmitIncremental \/ EmitFromBatch \/ StopReading
        BY <2>6 DEF EmitIncremental, EmitFromBatch, StopReading, DistrictInv
    <2>7. CASE UNCHANGED vars
        BY <2>7 DEF vars, DistrictInv
    <2>8. QED
        BY <2>1, <2>2, <2>3, <2>4, <2>5, <2>6, <2>7 DEF Next
<1>3. QED
    BY <1>1, <1>2, ScorerInvariant, PTL DEF Spec

\* For every graph, region column, population and file, the states that
\* recompute only what a slice touches are the ones a reset would compute.
THEOREM DistrictStatesAreExact == Spec => []DistrictMetricsExact
<1>1. DistrictInv => DistrictMetricsExact
    BY DEF DistrictInv, DistrictExact, DistrictMetricsExact
<1>2. QED
    BY <1>1, DistrictInvariant, PTL

\* For every file, an update is refused exactly when the plan it leads to would
\* be refused by scoring it from scratch.
THEOREM RefusalsAreThoseOfScratch == Spec => []RefusesAsFromScratch
<1>1. ScorerInv /\ DistrictInv => RefusesAsFromScratch
    <2> SUFFICES ASSUME ScorerInv, DistrictInv, current # NoState
                 PROVE  /\ Scorable(current.assignment)
                        /\ \A delta \in Deltas :
                              ValidChanges(current.assignment, delta) =>
                                  (Refused(current, delta)
                                       <=> ~Scorable(ApplyChanges(current.assignment, delta)))
        BY DEF RefusesAsFromScratch
    <2>1. /\ current.assignment \in Assignments
          /\ Scorable(current.assignment)
          /\ PopulationExact(current.population, current.assignment)
        BY DEF ScorerInv, StateExact, DistrictInv, DistrictExact
    <2>2. ASSUME NEW delta \in Deltas, ValidChanges(current.assignment, delta)
          PROVE  Refused(current, delta)
                     <=> ~Scorable(ApplyChanges(current.assignment, delta))
        BY <2>1, <2>2, DeltasAreSlices, AcceptsIffScorable DEF Refused
    <2>3. QED
        BY <2>1, <2>2
<1>2. QED
    BY <1>1, ScorerInvariant, DistrictInvariant, PTL


(***************************************************************************)
(* Expanded samples                                                        *)
(***************************************************************************)

\* The running totals of SamplesThrough, and the recurrence they solve.
Recurrence(fs, total) ==
    total = [j \in 0 .. Len(fs) |-> IF j = 0 THEN 0 ELSE total[j - 1] + fs[j].count]

Totals(fs) == CHOOSE total : Recurrence(fs, total)

\* A sequence with a frame more: its totals go on from those of the sequence.
LEMMA TotalsGoOn ==
    ASSUME NEW fs \in Seq(Decoded), NEW n \in 0 .. Len(fs) - 1, NEW total,
           total = [j \in 0 .. n |-> IF j = 0 THEN 0 ELSE total[j - 1] + fs[j].count]
    PROVE  \E longer : longer = [j \in 0 .. n + 1 |->
                                    IF j = 0 THEN 0 ELSE longer[j - 1] + fs[j].count]
<1> DEFINE longer == [j \in 0 .. n + 1 |-> IF j = 0 THEN 0 ELSE total[j - 1] + fs[j].count]
<1>1. n \in Nat /\ 0 .. n \subseteq 0 .. n + 1
    OBVIOUS
<1>2. \A j \in 0 .. n : longer[j] = total[j]
    <2> SUFFICES ASSUME NEW j \in 0 .. n
                 PROVE  longer[j] = total[j]
        OBVIOUS
    <2>1. longer[j] = IF j = 0 THEN 0 ELSE total[j - 1] + fs[j].count
        BY <1>1
    <2>2. total[j] = IF j = 0 THEN 0 ELSE total[j - 1] + fs[j].count
        OBVIOUS
    <2>3. QED
        BY <2>1, <2>2
<1>3. \A j \in 0 .. n + 1 : j # 0 => longer[j - 1] = total[j - 1]
    BY <1>1, <1>2
<1> DEFINE again == [j \in 0 .. n + 1 |-> IF j = 0 THEN 0 ELSE longer[j - 1] + fs[j].count]
<1>4. \A j \in 0 .. n + 1 : longer[j] = again[j]
    <2> SUFFICES ASSUME NEW j \in 0 .. n + 1
                 PROVE  longer[j] = again[j]
        OBVIOUS
    <2>1. longer[j] = IF j = 0 THEN 0 ELSE total[j - 1] + fs[j].count
        OBVIOUS
    <2>2. again[j] = IF j = 0 THEN 0 ELSE longer[j - 1] + fs[j].count
        OBVIOUS
    <2>3. QED
        BY <2>1, <2>2, <1>3
<1>5. longer = again
    <2>1. DOMAIN longer = 0 .. n + 1 /\ DOMAIN again = 0 .. n + 1
        OBVIOUS
    <2> HIDE DEF longer, again
    <2>2. longer = [j \in 0 .. n + 1 |-> longer[j]] /\ again = [j \in 0 .. n + 1 |-> again[j]]
        BY DEF longer, again
    <2>3. QED
        BY <2>1, <2>2, <1>4
<1>6. QED
    BY <1>5

\* Every sequence of frames has totals: the shortest beginning without them
\* would follow one that has them.
LEMMA TotalsExist ==
    ASSUME NEW fs \in Seq(Decoded)
    PROVE  Recurrence(fs, Totals(fs))
<1> DEFINE Has(n) == \E total : total = [j \in 0 .. n |->
                                    IF j = 0 THEN 0 ELSE total[j - 1] + fs[j].count]
           without == {n \in 0 .. Len(fs) : ~Has(n)}
<1>1. without = {}
    <2> SUFFICES ASSUME without # {}
                 PROVE  FALSE
        OBVIOUS
    <2>1. without \subseteq Nat
        OBVIOUS
    <2>2. PICK n \in without : \A m \in without : ~(<<m, n>> \in OpToRel(<, Nat))
        <3> HIDE DEF without
        <3>1. QED
            BY <2>1, NatLessThanWellFounded, WFMin
    <2>3. \A m \in without : ~(m < n)
        <3> HIDE DEF without
        <3>1. QED
            BY <2>1, <2>2 DEF OpToRel
    <2>4. n \in 0 .. Len(fs) /\ ~Has(n)
        OBVIOUS
    <2>5. n # 0
        <3>1. [j \in 0 .. 0 |-> 0]
                = [j \in 0 .. 0 |-> IF j = 0 THEN 0 ELSE [i \in 0 .. 0 |-> 0][j - 1] + fs[j].count]
            OBVIOUS
        <3>2. Has(0)
            BY <3>1
        <3> HIDE DEF Has
        <3>3. QED
            BY <2>4, <3>2
    <2>6. n - 1 \in 0 .. Len(fs) - 1 /\ n - 1 \in 0 .. Len(fs) /\ n - 1 + 1 = n
        BY <2>4, <2>5
    <2>7. Has(n - 1)
        <3> HIDE DEF Has
        <3>1. QED
            BY <2>3, <2>4, <2>6
    <2>8. Has(n - 1 + 1)
        BY <2>6, <2>7, TotalsGoOn
    <2> HIDE DEF Has
    <2>9. QED
        BY <2>4, <2>6, <2>8
<1>2. Has(Len(fs))
    <2> HIDE DEF Has
    <2>1. Len(fs) \in 0 .. Len(fs)
        OBVIOUS
    <2>2. QED
        BY <1>1, <2>1
<1>3. QED
    BY <1>2 DEF Totals, Recurrence

\* The totals add the counts up.
LEMMA TotalsAddUp ==
    ASSUME NEW fs \in Seq(Decoded)
    PROVE  /\ Totals(fs)[0] = 0
           /\ \A j \in 1 .. Len(fs) : Totals(fs)[j] = Totals(fs)[j - 1] + fs[j].count
           /\ \A j \in 0 .. Len(fs) : Totals(fs)[j] \in Nat
<1> DEFINE total == Totals(fs)
           other == {n \in 0 .. Len(fs) : total[n] \notin Nat}
<1>1. total = [j \in 0 .. Len(fs) |-> IF j = 0 THEN 0 ELSE total[j - 1] + fs[j].count]
    BY TotalsExist DEF Recurrence
<1> HIDE DEF total
<1>2. total[0] = 0 /\ \A j \in 1 .. Len(fs) : total[j] = total[j - 1] + fs[j].count
    <2>1. 0 \in 0 .. Len(fs) /\ 1 .. Len(fs) \subseteq 0 .. Len(fs)
        OBVIOUS
    <2>2. \A j \in 0 .. Len(fs) : total[j] = IF j = 0 THEN 0 ELSE total[j - 1] + fs[j].count
        BY <1>1
    <2>3. QED
        BY <2>1, <2>2
<1>3. other = {}
    <2> SUFFICES ASSUME other # {}
                 PROVE  FALSE
        OBVIOUS
    <2>1. other \subseteq Nat
        OBVIOUS
    <2>2. PICK n \in other : \A m \in other : ~(<<m, n>> \in OpToRel(<, Nat))
        <3> HIDE DEF other
        <3>1. QED
            BY <2>1, NatLessThanWellFounded, WFMin
    <2>3. \A m \in other : ~(m < n)
        <3> HIDE DEF other
        <3>1. QED
            BY <2>1, <2>2 DEF OpToRel
    <2>4. n \in 1 .. Len(fs) /\ total[n] \notin Nat
        BY <1>2
    <2>5. total[n - 1] \in Nat
        BY <2>3, <2>4
    <2>6. fs[n].count \in Nat
        <3>1. fs[n] \in Decoded
            BY <2>4
        <3>2. QED
            BY <3>1 DEF Decoded
    <2>7. QED
        BY <1>2, <2>4, <2>5, <2>6
<1>4. \A j \in 0 .. Len(fs) : total[j] \in Nat
    BY <1>3
<1>5. QED
    BY <1>2, <1>4 DEF total

\* A further frame leaves the totals of those before it as they are.
LEMMA TotalsOfMore ==
    ASSUME NEW fs \in Seq(Decoded), NEW frame \in Decoded
    PROVE  \A j \in 0 .. Len(fs) : Totals(Append(fs, frame))[j] = Totals(fs)[j]
<1> DEFINE more == Append(fs, frame)
           differ == {n \in 0 .. Len(fs) : Totals(more)[n] # Totals(fs)[n]}
<1>1. more \in Seq(Decoded) /\ Len(more) = Len(fs) + 1
      /\ \A j \in 1 .. Len(fs) : more[j] = fs[j]
    OBVIOUS
<1> HIDE DEF more
<1>2. differ = {}
    <2> SUFFICES ASSUME differ # {}
                 PROVE  FALSE
        OBVIOUS
    <2>1. differ \subseteq Nat
        OBVIOUS
    <2>2. PICK n \in differ : \A m \in differ : ~(<<m, n>> \in OpToRel(<, Nat))
        <3> HIDE DEF differ
        <3>1. QED
            BY <2>1, NatLessThanWellFounded, WFMin
    <2>3. \A m \in differ : ~(m < n)
        <3> HIDE DEF differ
        <3>1. QED
            BY <2>1, <2>2 DEF OpToRel
    <2>4. n \in 1 .. Len(fs) /\ Totals(more)[n] # Totals(fs)[n]
        BY <1>1, TotalsAddUp
    <2>5. Totals(more)[n - 1] = Totals(fs)[n - 1]
        BY <2>3, <2>4
    <2>6. n \in 1 .. Len(more)
        BY <1>1, <2>4
    <2>7. Totals(more)[n] = Totals(more)[n - 1] + more[n].count
        BY <1>1, <2>6, TotalsAddUp
    <2>8. Totals(fs)[n] = Totals(fs)[n - 1] + fs[n].count
        BY <2>4, TotalsAddUp
    <2>9. QED
        BY <1>1, <2>4, <2>5, <2>7, <2>8
<1>3. QED
    BY <1>2 DEF more

\* What the sample limit leaves of the frames.
SamplesOf(bound, fs, i) == Reference!SamplesThrough(bound, fs, i)

Bounds == Nat \cup {Unlimited}

LEMMA SamplesAreCappedTotals ==
    ASSUME NEW bound, NEW fs, NEW i
    PROVE  SamplesOf(bound, fs, i) =
               IF bound = Unlimited \/ Totals(fs)[i] < bound THEN Totals(fs)[i] ELSE bound
BY DEF SamplesOf, Reference!SamplesThrough, Reference!Capped, Totals, Recurrence

\* Each frame gives its count, or what the limit still allows.
LEMMA SamplesAddUp ==
    ASSUME NEW bound \in Bounds, NEW fs \in Seq(Decoded)
    PROVE  /\ SamplesOf(bound, fs, 0) = 0
           /\ \A i \in 0 .. Len(fs) :
                 /\ SamplesOf(bound, fs, i) \in Nat
                 /\ bound # Unlimited => SamplesOf(bound, fs, i) <= bound
           /\ \A i \in 1 .. Len(fs) :
                 LET before == SamplesOf(bound, fs, i - 1)
                 IN SamplesOf(bound, fs, i) - before =
                        IF bound = Unlimited \/ fs[i].count < bound - before
                        THEN fs[i].count ELSE bound - before
<1>1. Unlimited \notin Nat
    BY StreamAssumption
<1>2. ASSUME NEW i \in 0 .. Len(fs)
      PROVE  /\ SamplesOf(bound, fs, i) \in Nat
             /\ bound # Unlimited => SamplesOf(bound, fs, i) <= bound
    <2>1. Totals(fs)[i] \in Nat
        BY TotalsAddUp
    <2>2. QED
        BY <1>1, <2>1, SamplesAreCappedTotals DEF Bounds
<1>3. SamplesOf(bound, fs, 0) = 0
    BY <1>1, TotalsAddUp, SamplesAreCappedTotals DEF Bounds
<1>4. ASSUME NEW i \in 1 .. Len(fs)
      PROVE  LET before == SamplesOf(bound, fs, i - 1)
             IN SamplesOf(bound, fs, i) - before =
                    IF bound = Unlimited \/ fs[i].count < bound - before
                    THEN fs[i].count ELSE bound - before
    <2>1. i - 1 \in 0 .. Len(fs) /\ i \in 0 .. Len(fs)
        OBVIOUS
    <2>2. /\ Totals(fs)[i] = Totals(fs)[i - 1] + fs[i].count
          /\ Totals(fs)[i - 1] \in Nat
        BY <2>1, TotalsAddUp
    <2>3. fs[i].count \in Nat
        <3>1. fs[i] \in Decoded
            OBVIOUS
        <3>2. QED
            BY <3>1 DEF Decoded
    <2>4. /\ SamplesOf(bound, fs, i) =
                 IF bound = Unlimited \/ Totals(fs)[i] < bound THEN Totals(fs)[i] ELSE bound
          /\ SamplesOf(bound, fs, i - 1) =
                 IF bound = Unlimited \/ Totals(fs)[i - 1] < bound THEN Totals(fs)[i - 1] ELSE bound
        BY SamplesAreCappedTotals
    <2>5. QED
        BY <1>1, <2>2, <2>3, <2>4 DEF Bounds
<1>5. QED
    BY <1>2, <1>3, <1>4

\* A further frame leaves the samples of those before it as they are.
LEMMA SamplesOfMore ==
    ASSUME NEW bound, NEW fs \in Seq(Decoded), NEW frame \in Decoded, NEW i \in 0 .. Len(fs)
    PROVE  SamplesOf(bound, Append(fs, frame), i) = SamplesOf(bound, fs, i)
BY TotalsOfMore, SamplesAreCappedTotals

(***************************************************************************)
(* Distinct plans and districts                                            *)
(***************************************************************************)

\* The membership of a plan gives the hashes of the plan.
LEMMA HashesOfMembership ==
    ASSUME NEW a \in Assignments
    PROVE  MembershipHashes(NewMembership(a)) = AssignmentHashes(a)
<1>1. \A d \in Labels : NewMembership(a).hashes[d] = Members(a, d)
    BY DEF NewMembership
<1>2. \A d \in Labels : d \in ObservedDistricts(a) <=> Members(a, d) # {}
    BY DEF ObservedDistricts, Members
<1>3. ObservedDistricts(a) \subseteq Labels
    BY DEF ObservedDistricts, Assignments
<1>4. MembershipHashes(NewMembership(a)) = {Members(a, d) : d \in Labels} \ {{}}
    BY <1>1 DEF MembershipHashes
<1>5. QED
    BY <1>2, <1>3, <1>4 DEF AssignmentHashes

\* No plan has the membership of a stream without one.
LEMMA MembershipIsThere ==
    ASSUME NEW a \in Assignments
    PROVE  NewMembership(a) # NoMembership
<1>1. 0 \in Labels
    BY MaxLabelAssumption DEF Labels
<1>2. DOMAIN NewMembership(a).nodes = Labels
    BY DEF NewMembership
<1>3. DOMAIN NoMembership.nodes = {}
    BY DEF NoMembership
<1>4. QED
    BY <1>1, <1>2, <1>3

\* Hashing only the districts that a slice touches gives the membership of the
\* plan the slice leads to.
LEMMA MembershipAfter ==
    ASSUME NEW a \in Assignments, NEW changes, IsSlice(changes), ValidChanges(a, changes)
    PROVE  ApplyToMembership(NewMembership(a), changes) = NewMembership(ApplyChanges(a, changes))
<1> DEFINE b == ApplyChanges(a, changes)
           from(d) == {c.node : c \in {x \in changes.entries : x.old = d}}
           to(d) == {c.node : c \in {x \in changes.entries : x.new = d}}
           touched == {c.old : c \in changes.entries} \cup {c.new : c \in changes.entries}
           nodes == [d \in Labels |-> (NewMembership(a).nodes[d] \ from(d)) \cup to(d)]
           hashes == [d \in Labels |->
                         IF d \in touched THEN nodes[d] ELSE NewMembership(a).hashes[d]]
<1>1. ASSUME NEW d \in Labels
      PROVE  /\ (Members(a, d) \ from(d)) \cup to(d) = Members(b, d)
             /\ d \notin touched => Members(a, d) = Members(b, d)
    <2>1. \A c \in changes.entries :
             /\ c.node \in Nodes /\ a[c.node] = c.old /\ b[c.node] = c.new
        <3>1. \A c \in changes.entries : c.node \in Nodes
            BY DEF ValidChanges
        <3>2. QED
            BY <3>1, LabelAfter
    <2>2. \A n \in Nodes : b[n] = a[n] \/ \E c \in changes.entries : c.node = n
        BY LabelAfter DEF Changed
    <2> HIDE DEF b
    <2>3. ASSUME NEW n \in Nodes
          PROVE  /\ (n \in Members(a, d) /\ n \notin from(d)) \/ n \in to(d) <=> n \in Members(b, d)
                 /\ d \notin touched => (n \in Members(a, d) <=> n \in Members(b, d))
        <3>1. CASE \E c \in changes.entries : c.node = n
            <4>1. PICK c \in changes.entries : c.node = n
                BY <3>1
            <4>2. a[n] = c.old /\ b[n] = c.new
                BY <2>1, <4>1
            <4>3. n \in from(d) <=> c.old = d
                BY <2>1, <4>1, <4>2
            <4>4. n \in to(d) <=> c.new = d
                BY <2>1, <4>1, <4>2
            <4>5. d \notin touched => c.old # d /\ c.new # d
                OBVIOUS
            <4> HIDE DEF from, to, touched
            <4>6. QED
                BY <4>2, <4>3, <4>4, <4>5 DEF Members
        <3>2. CASE ~\E c \in changes.entries : c.node = n
            <4>1. b[n] = a[n] /\ n \notin from(d) /\ n \notin to(d)
                BY <3>2, <2>2
            <4> HIDE DEF from, to, touched
            <4>2. QED
                BY <4>1 DEF Members
        <3>3. QED
            BY <3>1, <3>2
    <2>4. to(d) \subseteq Nodes
        BY <2>1
    <2> HIDE DEF from, to, touched
    <2>5. Members(a, d) \subseteq Nodes /\ Members(b, d) \subseteq Nodes
        BY DEF Members
    <2>6. QED
        BY <2>3, <2>4, <2>5
<1>2. \A d \in Labels : NewMembership(a).nodes[d] = Members(a, d)
                        /\ NewMembership(a).hashes[d] = Members(a, d)
    BY DEF NewMembership
<1>3. nodes = [d \in Labels |-> Members(b, d)]
    BY <1>1, <1>2
<1>4. hashes = [d \in Labels |-> Members(b, d)]
    <2>1. \A d \in Labels : nodes[d] = Members(b, d)
        BY <1>3
    <2> HIDE DEF nodes, touched, b
    <2>2. QED
        BY <1>1, <1>2, <2>1
<1>5. ApplyToMembership(NewMembership(a), changes) = [nodes |-> nodes, hashes |-> hashes]
    BY DEF ApplyToMembership
<1>6. QED
    BY <1>3, <1>4, <1>5 DEF NewMembership

\* The hashes of the first k frames.
Seen(fs, k) == {AssignmentHashes(fs[i].plan) : i \in 1 .. k}

Counted(plans, districts, membership) ==
    [plans |-> plans, districts |-> districts, current |-> membership]

\* The counts after the first k frames, with the membership they go on from.
CountsOf(fs, k, membership) == Counted(Seen(fs, k), UNION Seen(fs, k), membership)

LEMMA SeenGrows ==
    ASSUME NEW fs, NEW k \in Nat
    PROVE  Seen(fs, k + 1) = Seen(fs, k) \cup {AssignmentHashes(fs[k + 1].plan)}
<1>1. 1 .. k + 1 = 1 .. k \cup {k + 1}
    OBVIOUS
<1>2. QED
    BY <1>1 DEF Seen

WithCurrent(counts, membership) == [counts EXCEPT !.current = membership]

LEMMA CountedMoves ==
    ASSUME NEW plans, NEW districts, NEW old, NEW new
    PROVE  WithCurrent(Counted(plans, districts, old), new) = Counted(plans, districts, new)
<1> DEFINE moved == WithCurrent(Counted(plans, districts, old), new)
           after == Counted(plans, districts, new)
           parts == {"plans", "districts", "current"}
<1>1. moved = [x \in parts |-> moved[x]] /\ after = [x \in parts |-> after[x]]
    BY DEF Counted, WithCurrent
<1>2. \A x \in parts : moved[x] = after[x]
    BY DEF Counted, WithCurrent
<1> HIDE DEF moved, after
<1>3. moved = after
    BY <1>1, <1>2
<1>4. QED
    BY <1>3 DEF moved, after

LEMMA CountedObserves ==
    ASSUME NEW plans, NEW districts, NEW membership, NEW hashes
    PROVE  ObserveHashes(Counted(plans, districts, membership), hashes)
               = Counted(plans \cup {hashes}, districts \cup hashes, membership)
<1> DEFINE before == Counted(plans, districts, membership)
           more == ObserveHashes(before, hashes)
           after == Counted(plans \cup {hashes}, districts \cup hashes, membership)
           parts == {"plans", "districts", "current"}
<1>1. more = [x \in parts |-> more[x]] /\ after = [x \in parts |-> after[x]]
    BY DEF ObserveHashes, Counted
<1>2. /\ more.plans = plans \cup {hashes} /\ after.plans = plans \cup {hashes}
      /\ more.districts = districts \cup hashes /\ after.districts = districts \cup hashes
      /\ more.current = membership /\ after.current = membership
    BY DEF Counted, ObserveHashes
<1> HIDE DEF before, more, after
<1>3. more = after
    BY <1>1, <1>2
<1>4. QED
    BY <1>3 DEF before, more, after

\* One more frame, observed by its hashes.
LEMMA ObserveGoesOn ==
    ASSUME NEW fs, NEW k \in Nat, NEW old, NEW new
    PROVE  ObserveHashes(WithCurrent(CountsOf(fs, k, old), new),
                         AssignmentHashes(fs[k + 1].plan))
               = CountsOf(fs, k + 1, new)
<1> DEFINE hashes == AssignmentHashes(fs[k + 1].plan)
<1>1. UNION (Seen(fs, k) \cup {hashes}) = (UNION Seen(fs, k)) \cup hashes
    OBVIOUS
<1>2. Seen(fs, k + 1) = Seen(fs, k) \cup {hashes}
    BY SeenGrows
<1> HIDE DEF hashes
<1> DEFINE plans == Seen(fs, k)
           districts == UNION plans
<1>3. CountsOf(fs, k, old) = Counted(plans, districts, old)
    BY DEF CountsOf
<1>4. CountsOf(fs, k + 1, new) = Counted(plans \cup {hashes}, districts \cup hashes, new)
    BY <1>1, <1>2 DEF CountsOf
<1> HIDE DEF plans, districts
<1>5. WithCurrent(Counted(plans, districts, old), new) = Counted(plans, districts, new)
    BY CountedMoves
<1>6. ObserveHashes(Counted(plans, districts, new), hashes)
          = Counted(plans \cup {hashes}, districts \cup hashes, new)
    BY CountedObserves
<1>7. QED
    BY <1>3, <1>4, <1>5, <1>6 DEF hashes

\* A frame whose counts are reset.
LEMMA ResetGoesOn ==
    ASSUME NEW fs, NEW k \in Nat, NEW old
    PROVE  ResetCounts(CountsOf(fs, k, old), fs[k + 1].plan)
               = CountsOf(fs, k + 1, NewMembership(fs[k + 1].plan))
BY ObserveGoesOn DEF ResetCounts, WithCurrent

\* A frame whose counts are those of the changes that lead to it.
LEMMA ChangesGoOn ==
    ASSUME NEW fs, NEW k \in Nat, NEW a \in Assignments, NEW changes, IsSlice(changes),
           ValidChanges(a, changes), fs[k + 1].plan = ApplyChanges(a, changes)
    PROVE  ObserveChanges(CountsOf(fs, k, NewMembership(a)), changes)
               = CountsOf(fs, k + 1, NewMembership(fs[k + 1].plan))
<1> DEFINE b == ApplyChanges(a, changes)
<1>1. b \in Assignments
    BY ApplyChangesType
<1>2. ApplyToMembership(NewMembership(a), changes) = NewMembership(b)
    BY MembershipAfter
<1>3. MembershipHashes(NewMembership(b)) = AssignmentHashes(b)
    BY <1>1, HashesOfMembership
<1>4. CountsOf(fs, k, NewMembership(a)).current = NewMembership(a)
    BY DEF CountsOf, Counted
<1> HIDE DEF b
<1>5. ObserveChanges(CountsOf(fs, k, NewMembership(a)), changes)
          = ObserveHashes(WithCurrent(CountsOf(fs, k, NewMembership(a)), NewMembership(b)),
                          AssignmentHashes(b))
    BY <1>2, <1>3, <1>4 DEF ObserveChanges, WithCurrent
<1>6. fs[k + 1].plan = b
    BY DEF b
<1>7. QED
    BY <1>5, <1>6, ObserveGoesOn

(***************************************************************************)
(* Scores                                                                  *)
(***************************************************************************)

\* A district in use has a slot of every dense storage.
LEMMA ObservedHaveSlots ==
    ASSUME NEW a \in Assignments, NEW slots \in Nat, \A n \in Nodes : a[n] < slots,
           NEW d \in ObservedDistricts(a)
    PROVE  d \in 0 .. slots - 1 /\ Members(a, d) # {}
<1>1. PICK n \in Nodes : d = a[n]
    BY DEF ObservedDistricts
<1>2. a[n] \in Nat /\ a[n] < slots
    BY MaxLabelAssumption DEF Assignments, Labels
<1>3. QED
    BY <1>1, <1>2 DEF Members

\* An exact tally shows the districts in use and nothing else.
LEMMA TallyShows ==
    ASSUME NEW a \in Assignments, NEW tally, TallyExact(tally, a)
    PROVE  /\ tally.occupancy.observed = ObservedDistricts(a)
           /\ \A d \in ObservedDistricts(a) :
                 tally.totals[d] = [n \in Nodes |-> IF a[n] = d THEN 1 ELSE 0]
<1>1. tally.occupancy.observed = ObservedDistricts(a)
    BY DEF TallyExact, ResetOccupancy
<1>2. ASSUME NEW d \in ObservedDistricts(a)
      PROVE  tally.totals[d] = [n \in Nodes |-> IF a[n] = d THEN 1 ELSE 0]
    <2>1. d \in 0 .. tally.slots - 1
        BY ObservedHaveSlots DEF TallyExact
    <2>2. QED
        BY <2>1 DEF TallyExact
<1>3. QED
    BY <1>1, <1>2

LEMMA TallyResultIsScore ==
    ASSUME NEW a \in Assignments, NEW tally, TallyExact(tally, a)
    PROVE  TallyResult(tally) = ScoreTally(a)
BY TallyShows DEF TallyResult, ScoreTally

LEMMA CutResultIsScore ==
    ASSUME NEW a \in Assignments, NEW state, CutEdgesExact(state, a)
    PROVE  CutResult(state) = ScoreCutEdges(a)
BY DEF CutEdgesExact, CutResult, ScoreCutEdges, ResetOccupancy

LEMMA RegionResultIsScore ==
    ASSUME NEW a \in Assignments, NEW state, RegionTallyExact(state, a)
    PROVE  RegionTallyResult(state) = ScoreRegionTally(a)
<1>1. state.occupancy.observed = ObservedDistricts(a)
    BY DEF RegionTallyExact, ResetOccupancy
<1>2. ASSUME NEW r \in Regions, NEW d \in ObservedDistricts(a)
      PROVE  state.totals[r][d] = [n \in Nodes |-> IF a[n] = d THEN InRegion(r, n) ELSE 0]
    <2>1. d \in 0 .. state.slots - 1
        BY ObservedHaveSlots DEF RegionTallyExact
    <2>2. QED
        BY <2>1 DEF RegionTallyExact, RegionTotals
<1>3. QED
    BY <1>1, <1>2 DEF RegionTallyResult, ScoreRegionTally

LEMMA PerimeterResultIsScore ==
    ASSUME NEW a \in Assignments, NEW state, PerimeterExact(state, a)
    PROVE  PerimeterResult(state) = ScorePerimeter(a)
<1>1. /\ state.units.occupancy.observed = ObservedDistricts(a)
      /\ \A d \in ObservedDistricts(a) :
            state.units.totals[d] = [n \in Nodes |-> IF a[n] = d THEN 1 ELSE 0]
    BY TallyShows DEF PerimeterExact
<1>2. ASSUME NEW d \in ObservedDistricts(a)
      PROVE  state.inner[d] = [e \in Edges |-> Inside(a, e, d)]
    <2>1. d \in 0 .. state.units.slots - 1
        BY ObservedHaveSlots DEF PerimeterExact, TallyExact
    <2>2. QED
        BY <2>1 DEF PerimeterExact
<1>3. QED
    BY <1>1, <1>2 DEF PerimeterResult, ScorePerimeter

LEMMA HullResultIsScore ==
    ASSUME NEW a \in Assignments, NEW state, HullsExact(state, a)
    PROVE  HullResult(state) = ScoreHulls(a)
<1>1. state.occupancy.observed = ObservedDistricts(a)
    BY DEF HullsExact, ResetOccupancy
<1>2. ASSUME NEW d \in ObservedDistricts(a)
      PROVE  state.scores[d] = Members(a, d)
    <2>1. d \in 0 .. state.slots - 1
        BY ObservedHaveSlots DEF HullsExact
    <2>2. QED
        BY <2>1 DEF HullsExact
<1>3. QED
    BY <1>1, <1>2 DEF HullResult, ScoreHulls

LEMMA PopulationResultIsScore ==
    ASSUME NEW a \in Assignments, NEW state, PopulationExact(state, a)
    PROVE  PopulationResult(state) = ScorePopulation(a)
<1>1. state.occupancy.observed = ObservedDistricts(a)
    BY DEF PopulationExact, ResetOccupancy
<1>2. ASSUME NEW d \in ObservedDistricts(a)
      PROVE  state.scores[d] = PopulationScore(a, Members(a, d), d)
    <2>1. d \in 0 .. state.slots - 1 /\ Members(a, d) # {}
        BY ObservedHaveSlots DEF PopulationExact
    <2>2. QED
        BY <2>1 DEF PopulationExact
<1>3. QED
    BY <1>1, <1>2 DEF PopulationResult, ScorePopulation

\* What an exact state reports is what scoring its plan reports.
LEMMA ResultIsScore ==
    ASSUME NEW state, StateExact(state), DistrictExact(state)
    PROVE  StateResult(state) = ScoreAssignment(state.assignment)
BY TallyResultIsScore, CutResultIsScore, RegionResultIsScore, PerimeterResultIsScore,
   HullResultIsScore, PopulationResultIsScore
   DEF StateExact, DistrictExact, StateResult, ScoreAssignment

\* The abstract specification scores, refuses and hashes plans alike.
LEMMA ReferenceScores ==
    ASSUME NEW a
    PROVE  /\ Reference!Score(a) = ScoreAssignment(a)
           /\ Reference!Scorable(a) <=> Scorable(a)
           /\ Reference!AssignmentHashes(a) = AssignmentHashes(a)
<1>1. Reference!AssignmentHashes(a) = AssignmentHashes(a)
    BY DEF Reference!AssignmentHashes, AssignmentHashes, Reference!Members, Members,
           Reference!ObservedDistricts, ObservedDistricts
<1>2. Reference!Scorable(a) <=> Scorable(a)
    BY DEF Reference!Scorable, Scorable, Reference!Members, Members,
           Reference!ObservedDistricts, ObservedDistricts
<1>3. /\ Reference!ScoreTally(a) = ScoreTally(a)
      /\ Reference!ScoreCutEdges(a) = ScoreCutEdges(a)
    BY DEF Reference!ScoreTally, ScoreTally, Reference!ScoreCutEdges, ScoreCutEdges,
           Reference!CutIndicator, CutIndicator, Reference!ObservedDistricts, ObservedDistricts
<1>4. /\ Reference!ScoreRegionTally(a) = ScoreRegionTally(a)
      /\ Reference!ScorePerimeter(a) = ScorePerimeter(a)
    BY DEF Reference!ScoreRegionTally, ScoreRegionTally, Reference!InRegion, InRegion,
           Reference!ScorePerimeter, ScorePerimeter, Reference!Inside, Inside,
           Reference!ObservedDistricts, ObservedDistricts
<1>5. /\ Reference!ScoreHulls(a) = ScoreHulls(a)
      /\ Reference!ScorePopulation(a) = ScorePopulation(a)
    BY DEF Reference!ScoreHulls, ScoreHulls, Reference!ScorePopulation, ScorePopulation,
           Reference!PopulationScore, PopulationScore, Reference!Members, Members,
           Reference!ObservedDistricts, ObservedDistricts
<1>6. QED
    BY <1>1, <1>2, <1>3, <1>4, <1>5 DEF Reference!Score, ScoreAssignment

LEMMA ReferenceFrames == Reference!Frame = Decoded
BY DEF Reference!Frame, Decoded, Reference!Assignments, Assignments, Reference!Labels, Labels

(***************************************************************************)
(* The invariant                                                           *)
(***************************************************************************)

\* The frames whose plans are counted, and the membership of the last of them.
Observed == IF variant = "TwoDelta" THEN Len(frames) ELSE accepted

MembershipAt(fs, k) == IF k = 0 THEN NoMembership ELSE NewMembership(fs[k].plan)

\* What is in flight between reading and emitting: a frame that was read last
\* and, in a chain, the changes that lead to it.
FrameInFlight ==
    /\ pc = "read" => accepted = Len(frames)
    /\ pc = "emit" =>
          /\ accepted + 1 = Len(frames)
          /\ pending.repetitions
                 = SamplesOf(limit, frames, accepted + 1) - SamplesOf(limit, frames, accepted)
    /\ pc = "emit" /\ variant = "MkvChain" /\ accepted # 0 =>
          /\ IsSlice(pending.changes)
          /\ ValidChanges(frames[accepted].plan, pending.changes)
          /\ ApplyChanges(frames[accepted].plan, pending.changes) = frames[accepted + 1].plan

\* Or the frames of a batch.
BatchEntry == [plan : Assignments, repetitions : Nat]

BatchInFlight ==
    /\ batch \in Seq(BatchEntry)
    /\ Len(batch) = Len(frames) - accepted
    /\ \A i \in 1 .. Len(batch) :
          /\ batch[i].plan = frames[accepted + i].plan
          /\ batch[i].repetitions
                 = SamplesOf(limit, frames, accepted + i)
                       - SamplesOf(limit, frames, accepted + i - 1)
    /\ pc \in {"batch", "lastbatch"} => batch # << >>

EmittedRow ==
    [sample_offset : Nat, repetitions : Nat, accepted_index : Nat,
     metrics : {ScoreAssignment(a) : a \in Assignments}]

StreamInv ==
    /\ variant \in Variants
    /\ pc \in {"read", "emit", "batch", "lastbatch", "done", "failed"}
    /\ limit \in Bounds
    /\ frames \in Seq(Decoded)
    /\ accepted \in 0 .. Len(frames)
    /\ rows \in Seq(EmittedRow) /\ Len(rows) = accepted
    /\ samples = SamplesOf(limit, frames, accepted)
    /\ remaining = IF limit = Unlimited THEN Unlimited
                   ELSE limit - SamplesOf(limit, frames, Len(frames))
    /\ uniqueness = CountsOf(frames, Observed,
                             IF variant = "Standard" THEN NoMembership
                             ELSE MembershipAt(frames, Observed))
    /\ variant # "Standard" => FrameInFlight
    /\ variant = "Standard" => pc # "emit" /\ BatchInFlight

\* What is known of a frame that is read: it takes its samples from the budget
\* and leaves all that was counted before it as it was.
Extended(plan, count) ==
    /\ frames' = Append(frames, [plan |-> plan, count |-> count])
    /\ [plan |-> plan, count |-> count] \in Decoded
    /\ frames' \in Seq(Decoded)
    /\ Len(frames) \in Nat
    /\ Len(frames') = Len(frames) + 1
    /\ frames'[Len(frames) + 1].plan = plan
    /\ \A i \in 1 .. Len(frames) : frames'[i] = frames[i]
    /\ \A i \in 0 .. Len(frames) : SamplesOf(limit, frames', i) = SamplesOf(limit, frames, i)
    /\ CapRepetitions(count) \in Nat
    /\ CapRepetitions(count) = SamplesOf(limit, frames', Len(frames) + 1)
                                   - SamplesOf(limit, frames', Len(frames))
    /\ remaining' = IF limit = Unlimited THEN Unlimited
                    ELSE limit - SamplesOf(limit, frames', Len(frames'))
    /\ \A k \in 0 .. Len(frames) :
          /\ Seen(frames', k) = Seen(frames, k)
          /\ MembershipAt(frames', k) = MembershipAt(frames, k)

LEMMA AcceptExtends ==
    ASSUME StreamInv, NEW plan \in Assignments, NEW count \in Counts, Accept(plan, count)
    PROVE  Extended(plan, count)
<1> DEFINE frame == [plan |-> plan, count |-> count]
           len == Len(frames)
           before == SamplesOf(limit, frames, len)
           after == SamplesOf(limit, frames', len + 1)
<1>1. /\ limit \in Bounds /\ Unlimited \notin Nat
      /\ frames \in Seq(Decoded) /\ len \in Nat
      /\ remaining = IF limit = Unlimited THEN Unlimited ELSE limit - before
    BY StreamAssumption DEF StreamInv
<1>2. count \in Nat /\ frame \in Decoded /\ frame.plan = plan /\ frame.count = count
    BY StreamAssumption DEF Decoded
<1>3. /\ frames' = Append(frames, frame)
      /\ remaining' = IF remaining = Unlimited THEN Unlimited
                      ELSE remaining - CapRepetitions(count)
    BY DEF Accept
<1> HIDE DEF frame
<1>4. /\ frames' \in Seq(Decoded) /\ Len(frames') = len + 1
      /\ frames'[len + 1] = frame
      /\ \A i \in 1 .. len : frames'[i] = frames[i]
    BY <1>1, <1>2, <1>3
<1>5. \A i \in 0 .. len : SamplesOf(limit, frames', i) = SamplesOf(limit, frames, i)
    BY <1>1, <1>2, <1>3, SamplesOfMore
<1>6. SamplesOf(limit, frames', len) = before
    BY <1>1, <1>5
<1>7. before \in Nat /\ (limit # Unlimited => before <= limit)
    BY <1>1, SamplesAddUp
<1>8. after - before = IF limit = Unlimited \/ count < limit - before THEN count ELSE limit - before
    <2>1. len + 1 \in 1 .. Len(frames') /\ len + 1 - 1 = len
        BY <1>1, <1>4
    <2>2. SamplesOf(limit, frames', len + 1) - SamplesOf(limit, frames', len + 1 - 1)
            = IF limit = Unlimited
                 \/ frames'[len + 1].count < limit - SamplesOf(limit, frames', len + 1 - 1)
              THEN frames'[len + 1].count ELSE limit - SamplesOf(limit, frames', len + 1 - 1)
        BY <1>1, <1>4, <2>1, SamplesAddUp
    <2>3. QED
        BY <1>2, <1>4, <1>6, <2>1, <2>2
<1>9. after \in Nat
    <2>1. len + 1 \in 0 .. Len(frames')
        BY <1>1, <1>4
    <2>2. QED
        BY <1>1, <1>4, <2>1, SamplesAddUp
<1> HIDE DEF before, after, len
<1>10. CapRepetitions(count) = after - before /\ CapRepetitions(count) \in Nat
    <2>1. CASE limit = Unlimited
        BY <1>1, <1>2, <1>8, <2>1 DEF CapRepetitions
    <2>2. CASE limit # Unlimited
        <3>1. remaining = limit - before /\ remaining \in Nat /\ remaining # Unlimited
            BY <1>1, <1>7, <2>2 DEF Bounds
        <3>2. QED
            BY <1>2, <1>8, <2>2, <3>1 DEF CapRepetitions
    <2>3. QED
        BY <2>1, <2>2
<1>11. remaining' = IF limit = Unlimited THEN Unlimited ELSE limit - after
    BY <1>1, <1>3, <1>7, <1>9, <1>10 DEF Bounds
<1>12. ASSUME NEW k \in 0 .. len
       PROVE  /\ Seen(frames', k) = Seen(frames, k)
              /\ MembershipAt(frames', k) = MembershipAt(frames, k)
    <2>1. \A i \in 1 .. k : frames'[i] = frames[i]
        BY <1>1, <1>4
    <2>2. Seen(frames', k) = Seen(frames, k)
        BY <2>1 DEF Seen
    <2>3. k # 0 => k \in 1 .. k
        BY <1>1
    <2>4. QED
        BY <2>1, <2>2, <2>3 DEF MembershipAt
<1>13. QED
    BY <1>1, <1>2, <1>3, <1>4, <1>5, <1>6, <1>10, <1>11, <1>12
       DEF Extended, len, before, after, frame

\* The counts of earlier frames are those they were.
LEMMA CountsStay ==
    ASSUME NEW plan, NEW count, Extended(plan, count), NEW k \in 0 .. Len(frames), NEW membership
    PROVE  CountsOf(frames', k, membership) = CountsOf(frames, k, membership)
<1>1. Seen(frames', k) = Seen(frames, k)
    BY DEF Extended
<1>2. QED
    BY <1>1 DEF CountsOf

\* A frame of a TwoDelta file or of a chain is read: what remains to be shown
\* is what it adds to the counts, and what its changes lead to.
LEMMA FrameIsInFlight ==
    ASSUME StreamInv, NEW plan, NEW count, Extended(plan, count),
           variant # "Standard", pc = "read", pc' = "emit",
           UNCHANGED <<variant, limit, samples, accepted, rows>>,
           pending'.repetitions = CapRepetitions(count),
           uniqueness' = CountsOf(frames', Observed', MembershipAt(frames', Observed')),
           variant = "MkvChain" /\ accepted # 0 =>
               /\ IsSlice(pending'.changes)
               /\ ValidChanges(frames'[accepted].plan, pending'.changes)
               /\ ApplyChanges(frames'[accepted].plan, pending'.changes) = plan
    PROVE  StreamInv'
<1>1. accepted = Len(frames) /\ accepted \in Nat
    BY DEF StreamInv, FrameInFlight
<1>2. /\ Len(frames') = accepted + 1 /\ accepted \in 0 .. Len(frames')
      /\ frames'[accepted + 1].plan = plan
      /\ SamplesOf(limit, frames', accepted) = SamplesOf(limit, frames, accepted)
      /\ CapRepetitions(count) = SamplesOf(limit, frames', accepted + 1)
                                     - SamplesOf(limit, frames', accepted)
    BY <1>1 DEF Extended
<1>3. FrameInFlight'
    BY <1>2 DEF FrameInFlight
<1>4. /\ (variant \in Variants)' /\ (limit \in Bounds)' /\ (frames \in Seq(Decoded))'
      /\ (pc \in {"read", "emit", "batch", "lastbatch", "done", "failed"})'
      /\ (accepted \in 0 .. Len(frames))'
      /\ (rows \in Seq(EmittedRow) /\ Len(rows) = accepted)'
    BY <1>2 DEF StreamInv, Extended
<1>5. (samples = SamplesOf(limit, frames, accepted))'
    BY <1>2 DEF StreamInv
<1>6. (remaining = IF limit = Unlimited THEN Unlimited
                   ELSE limit - SamplesOf(limit, frames, Len(frames)))'
    BY DEF Extended
<1>7. QED
    BY <1>3, <1>4, <1>5, <1>6 DEF StreamInv

\* Without a state no frame has been read, and nothing is counted.
LEMMA NothingCounted ==
    ASSUME StreamInv, HistoryInv, variant # "Standard", pc = "read"
    PROVE  /\ current = NoState <=> Len(frames) = 0
           /\ HasCurrent(uniqueness) <=> current # NoState
           /\ current # NoState =>
                 /\ current.assignment = frames[Len(frames)].plan
                 /\ current.assignment \in Assignments
                 /\ uniqueness = CountsOf(frames, Len(frames), NewMembership(current.assignment))
           /\ current = NoState => uniqueness = CountsOf(frames, 0, NoMembership)
<1>1. /\ Observed = Len(frames) /\ Len(frames) \in Nat
      /\ frames \in Seq(Decoded)
    BY DEF StreamInv, FrameInFlight, Observed
<1>2. uniqueness = CountsOf(frames, Len(frames), MembershipAt(frames, Len(frames)))
    BY <1>1 DEF StreamInv
<1>3. uniqueness.current = MembershipAt(frames, Len(frames))
    BY <1>2 DEF CountsOf, Counted
<1>4. CASE frames = << >>
    <2>1. Len(frames) = 0 /\ current = NoState
        BY <1>4 DEF HistoryInv, HoldsLastPlan
    <2>2. QED
        BY <1>2, <1>3, <2>1 DEF MembershipAt, HasCurrent
<1>5. CASE frames # << >>
    <2>1. Len(frames) # 0 /\ frames[Len(frames)] \in Decoded
        BY <1>1, <1>5
    <2>2. /\ current.assignment = frames[Len(frames)].plan
          /\ frames[Len(frames)].plan \in Assignments
        BY <1>5, <2>1 DEF HistoryInv, HoldsLastPlan, Decoded
    <2>3. current # NoState
        <3>1. DOMAIN NoState.assignment = {} /\ DOMAIN current.assignment = Nodes
            BY <2>2 DEF NoState, Assignments
        <3>2. QED
            BY <3>1, NodesAssumption
    <2>4. MembershipAt(frames, Len(frames)) = NewMembership(current.assignment)
        BY <2>1, <2>2 DEF MembershipAt
    <2>5. HasCurrent(uniqueness)
        BY <1>3, <2>2, <2>4, MembershipIsThere DEF HasCurrent
    <2>6. QED
        BY <1>2, <2>1, <2>2, <2>3, <2>4, <2>5
<1>6. QED
    BY <1>4, <1>5

\* A failure changes nothing but the program counter.
LEMMA FailCounts ==
    ASSUME StreamInv, Fail
    PROVE  StreamInv'
<1>1. pc' = "failed" /\ UNCHANGED <<variant, limit, frames, remaining, uniqueness, pending, batch,
                                     samples, accepted, rows>>
    BY DEF Fail
<1>2. (variant # "Standard" => FrameInFlight)'
    BY <1>1 DEF FrameInFlight
<1>3. (variant = "Standard" => pc # "emit" /\ BatchInFlight)'
    BY <1>1 DEF BatchInFlight, StreamInv
<1>4. Observed' = Observed
    BY <1>1 DEF Observed
<1>5. QED
    BY <1>1, <1>2, <1>3, <1>4 DEF StreamInv

LEMMA ReadSnapshotCounts ==
    ASSUME ScorerInv, HistoryInv, StreamInv, NEW plan \in Plans,
           NEW delta \in Deltas \cup {NoDelta}, NEW count \in Counts,
           ReadSnapshot(plan, delta, count), pc' # "failed"
    PROVE  /\ pc = "read" /\ remaining # 0 /\ pc' = "emit"
           /\ plan \in Assignments /\ Accept(plan, count)
           /\ UNCHANGED <<limit, rows, summary>>
           /\ StreamInv'
<1>1. plan \in Assignments
    BY PlansAssumption
<1>2. /\ pc = "read" /\ variant = "TwoDelta" /\ remaining # 0 /\ pc' = "emit"
      /\ Accept(plan, count)
      /\ UNCHANGED <<variant, limit, samples, accepted, rows, summary>>
      /\ uniqueness' = IF HasCurrent(uniqueness) /\ delta # NoDelta
                       THEN ObserveChanges(uniqueness, delta)
                       ELSE ResetCounts(uniqueness, plan)
      /\ pending'.repetitions = CapRepetitions(count)
      /\ current # NoState /\ delta # NoDelta =>
            /\ ValidChanges(current.assignment, delta)
            /\ ApplyChanges(current.assignment, delta) = plan
    BY DEF ReadSnapshot, Reading, Fail, NoPending
<1>3. Extended(plan, count)
    BY <1>1, <1>2, AcceptExtends
<1>4. /\ frames'[Len(frames) + 1].plan = plan /\ Len(frames) \in Nat
      /\ Observed' = Len(frames) + 1
      /\ MembershipAt(frames', Observed') = NewMembership(plan)
    BY <1>2, <1>3 DEF Extended, Observed, MembershipAt
<1>5. uniqueness' = CountsOf(frames', Len(frames) + 1, NewMembership(plan))
    <2>1. \A m : CountsOf(frames', Len(frames), m) = CountsOf(frames, Len(frames), m)
        BY <1>3, <1>4, CountsStay
    <2>2. CASE HasCurrent(uniqueness) /\ delta # NoDelta
        <3>1. /\ current.assignment \in Assignments
              /\ uniqueness = CountsOf(frames', Len(frames), NewMembership(current.assignment))
              /\ ValidChanges(current.assignment, delta)
              /\ ApplyChanges(current.assignment, delta) = plan
            BY <1>2, <2>1, <2>2, NothingCounted
        <3>2. IsSlice(delta)
            BY DeltasAreSlices
        <3>3. QED
            BY <1>2, <1>4, <2>2, <3>1, <3>2, ChangesGoOn
    <2>3. CASE ~(HasCurrent(uniqueness) /\ delta # NoDelta)
        <3>1. PICK m : uniqueness = CountsOf(frames', Len(frames), m)
            BY <1>2, <2>1, NothingCounted
        <3>2. QED
            BY <1>2, <1>4, <2>3, <3>1, ResetGoesOn
    <2>4. QED
        BY <2>2, <2>3
<1>6. StreamInv'
    BY <1>2, <1>3, <1>4, <1>5, FrameIsInFlight
<1>7. QED
    BY <1>1, <1>2, <1>6

LEMMA ReadDeltaCounts ==
    ASSUME ScorerInv, HistoryInv, StreamInv, NEW delta \in Deltas, NEW count \in Counts,
           ReadDelta(delta, count), pc' # "failed"
    PROVE  /\ pc = "read" /\ remaining # 0 /\ pc' = "emit"
           /\ \E plan \in Assignments : Accept(plan, count)
           /\ UNCHANGED <<limit, rows, summary>>
           /\ StreamInv'
<1> DEFINE last == frames[Len(frames)].plan
           plan == ApplyChanges(last, delta)
<1>1. /\ pc = "read" /\ variant = "TwoDelta" /\ remaining # 0 /\ pc' = "emit"
      /\ Accept(plan, count)
      /\ UNCHANGED <<variant, limit, samples, accepted, rows, summary>>
      /\ uniqueness' = ObserveChanges(uniqueness, delta)
      /\ pending'.repetitions = CapRepetitions(count)
      /\ current # NoState /\ ValidChanges(current.assignment, delta)
    BY DEF ReadDelta, Reading, Fail, NoPending
<1>2. /\ current.assignment = last /\ last \in Assignments
      /\ ValidChanges(last, delta)
      /\ uniqueness = CountsOf(frames, Len(frames), NewMembership(last))
    BY <1>1, NothingCounted
<1> HIDE DEF last
<1>3. IsSlice(delta)
    BY DeltasAreSlices
<1>4. plan \in Assignments
    BY <1>2, <1>3, ApplyChangesType
<1>5. ValidChanges(last, delta) /\ plan = ApplyChanges(last, delta)
    BY <1>2
<1> HIDE DEF plan
<1>6. Extended(plan, count)
    BY <1>1, <1>4, AcceptExtends
<1>7. /\ frames'[Len(frames) + 1].plan = plan /\ Len(frames) \in Nat
      /\ Observed' = Len(frames) + 1
      /\ MembershipAt(frames', Observed') = NewMembership(plan)
    BY <1>1, <1>6 DEF Extended, Observed, MembershipAt
<1>8. uniqueness' = CountsOf(frames', Len(frames) + 1, NewMembership(plan))
    <2>1. uniqueness = CountsOf(frames', Len(frames), NewMembership(last))
        BY <1>2, <1>6, <1>7, CountsStay
    <2>2. QED
        BY <1>1, <1>2, <1>3, <1>5, <1>7, <2>1, ChangesGoOn
<1>9. StreamInv'
    BY <1>1, <1>6, <1>7, <1>8, FrameIsInFlight
<1>10. QED
    BY <1>1, <1>4, <1>9

LEMMA ReadPlanCounts ==
    ASSUME ScorerInv, HistoryInv, StreamInv, NEW plan \in Plans, NEW count \in Counts,
           ReadPlan(plan, count), pc' # "failed"
    PROVE  /\ pc = "read" /\ remaining # 0 /\ pc' = "emit"
           /\ plan \in Assignments /\ Accept(plan, count)
           /\ UNCHANGED <<limit, rows, summary>>
           /\ StreamInv'
<1> DEFINE changes == IF current = NoState THEN Slice({}, TRUE)
                      ELSE Diff(current.assignment, plan)
<1>1. plan \in Assignments
    BY PlansAssumption
<1>2. /\ pc = "read" /\ variant = "MkvChain" /\ remaining # 0 /\ pc' = "emit"
      /\ Accept(plan, count)
      /\ UNCHANGED <<variant, limit, uniqueness, samples, accepted, rows, summary>>
      /\ pending' = [repetitions |-> CapRepetitions(count), changes |-> changes]
    BY DEF ReadPlan, Reading, Fail
<1>3. Extended(plan, count)
    BY <1>1, <1>2, AcceptExtends
<1>4. accepted = Len(frames) /\ Len(frames) \in Nat /\ accepted \in 0 .. Len(frames)
    BY <1>2 DEF StreamInv, FrameInFlight
<1>5. uniqueness' = CountsOf(frames', Observed', MembershipAt(frames', Observed'))
    <2>1. Observed' = accepted /\ Observed = accepted
        BY <1>2 DEF Observed
    <2>2. MembershipAt(frames', accepted) = MembershipAt(frames, accepted)
        BY <1>3, <1>4 DEF Extended
    <2>3. uniqueness = CountsOf(frames, accepted, MembershipAt(frames, accepted))
        BY <1>2, <2>1 DEF StreamInv
    <2>4. QED
        BY <1>2, <1>3, <1>4, <2>1, <2>2, <2>3, CountsStay
<1>6. ASSUME accepted # 0
      PROVE  /\ IsSlice(changes)
             /\ ValidChanges(frames'[accepted].plan, changes)
             /\ ApplyChanges(frames'[accepted].plan, changes) = plan
    <2>1. /\ current # NoState
          /\ current.assignment = frames[accepted].plan /\ current.assignment \in Assignments
        BY <1>2, <1>4, <1>6, NothingCounted
    <2>2. frames'[accepted] = frames[accepted]
        BY <1>3, <1>4, <1>6 DEF Extended
    <2>3. changes = Diff(current.assignment, plan)
        BY <2>1
    <2> HIDE DEF changes
    <2>4. QED
        BY <1>1, <2>1, <2>2, <2>3, DiffLeads
<1>7. pending'.repetitions = CapRepetitions(count) /\ pending'.changes = changes
    BY <1>2
<1> HIDE DEF changes
<1>8. StreamInv'
    BY <1>2, <1>3, <1>5, <1>6, <1>7, FrameIsInFlight
<1>9. QED
    BY <1>1, <1>2, <1>8

\* A Standard plan joins the batch with what it adds to the samples.
LEMMA ReadIndependentCounts ==
    ASSUME StreamInv, NEW plan \in Plans, NEW count \in Counts, ReadIndependent(plan, count)
    PROVE  /\ pc = "read" /\ remaining # 0 /\ pc' \in {"read", "batch"}
           /\ plan \in Assignments /\ Accept(plan, count)
           /\ UNCHANGED <<limit, rows, summary>>
           /\ StreamInv'
<1> DEFINE entry == [plan |-> plan, repetitions |-> CapRepetitions(count)]
<1>1. plan \in Assignments
    BY PlansAssumption
<1>2. /\ pc = "read" /\ variant = "Standard" /\ remaining # 0 /\ pc' \in {"read", "batch"}
      /\ Accept(plan, count)
      /\ batch' = Append(batch, entry)
      /\ UNCHANGED <<variant, limit, uniqueness, samples, accepted, rows, summary>>
    BY DEF ReadIndependent, Reading
<1>3. Extended(plan, count)
    BY <1>1, <1>2, AcceptExtends
<1>4. /\ batch \in Seq(BatchEntry) /\ Len(batch) = Len(frames) - accepted
      /\ accepted \in 0 .. Len(frames) /\ Len(frames) \in Nat
    BY <1>2, <1>3 DEF StreamInv, BatchInFlight, Extended
<1>5. entry \in BatchEntry /\ entry.plan = plan /\ entry.repetitions = CapRepetitions(count)
    BY <1>1, <1>3 DEF Extended, BatchEntry
<1> HIDE DEF entry
<1>6. /\ batch' \in Seq(BatchEntry) /\ Len(batch') = Len(batch) + 1
      /\ batch'[Len(batch) + 1] = entry
      /\ \A i \in 1 .. Len(batch) : batch'[i] = batch[i]
      /\ batch' # << >>
    BY <1>2, <1>4, <1>5
<1>7. ASSUME NEW i \in 1 .. Len(batch')
      PROVE  /\ batch'[i].plan = frames'[accepted + i].plan
             /\ batch'[i].repetitions
                    = SamplesOf(limit, frames', accepted + i)
                          - SamplesOf(limit, frames', accepted + i - 1)
    <2>1. CASE i = Len(batch) + 1
        <3>1. accepted + i = Len(frames) + 1 /\ accepted + i - 1 = Len(frames)
            BY <1>4, <2>1
        <3>2. QED
            BY <1>3, <1>5, <1>6, <2>1, <3>1 DEF Extended
    <2>2. CASE i # Len(batch) + 1
        <3>1. i \in 1 .. Len(batch) /\ accepted + i \in 1 .. Len(frames)
              /\ accepted + i \in 0 .. Len(frames) /\ accepted + i - 1 \in 0 .. Len(frames)
            BY <1>4, <1>6, <2>2
        <3>2. /\ batch[i].plan = frames[accepted + i].plan
              /\ batch[i].repetitions
                     = SamplesOf(limit, frames, accepted + i)
                           - SamplesOf(limit, frames, accepted + i - 1)
            BY <1>2, <3>1 DEF StreamInv, BatchInFlight
        <3>3. frames'[accepted + i] = frames[accepted + i]
            BY <1>3, <3>1 DEF Extended
        <3>4. /\ SamplesOf(limit, frames', accepted + i) = SamplesOf(limit, frames, accepted + i)
              /\ SamplesOf(limit, frames', accepted + i - 1)
                     = SamplesOf(limit, frames, accepted + i - 1)
            BY <1>3, <3>1 DEF Extended
        <3>5. QED
            BY <1>6, <3>1, <3>2, <3>3, <3>4
    <2>3. QED
        BY <2>1, <2>2
<1>8. Len(batch') = Len(frames') - accepted
    BY <1>3, <1>4, <1>6 DEF Extended
<1>9. BatchInFlight'
    BY <1>2, <1>6, <1>7, <1>8 DEF BatchInFlight
<1>10. /\ (variant \in Variants)' /\ (limit \in Bounds)' /\ (frames \in Seq(Decoded))'
       /\ (pc \in {"read", "emit", "batch", "lastbatch", "done", "failed"})' /\ pc' # "emit"
       /\ (accepted \in 0 .. Len(frames))'
       /\ (rows \in Seq(EmittedRow) /\ Len(rows) = accepted)'
       /\ (samples = SamplesOf(limit, frames, accepted))'
    BY <1>2, <1>3, <1>4 DEF StreamInv, Extended
<1>11. (remaining = IF limit = Unlimited THEN Unlimited
                    ELSE limit - SamplesOf(limit, frames, Len(frames)))'
    BY <1>2, <1>3 DEF Extended
<1>12. uniqueness' = CountsOf(frames', accepted, NoMembership)
    <2>1. uniqueness = CountsOf(frames, accepted, NoMembership)
        BY <1>2 DEF StreamInv, Observed
    <2>2. QED
        BY <1>2, <1>3, <1>4, <2>1, CountsStay
<1>13. Observed' = accepted' /\ variant' = "Standard"
    BY <1>2 DEF Observed
<1>14. StreamInv'
    BY <1>2, <1>9, <1>10, <1>11, <1>12, <1>13 DEF StreamInv
<1>15. QED
    BY <1>1, <1>2, <1>14

\* A row that is emitted is the next one of the abstract specification.
LEMMA EmitsNext ==
    ASSUME StreamInv, accepted < Len(frames), NEW repetitions, NEW metrics,
           EmitRow(repetitions, metrics), UNCHANGED <<limit, frames>>,
           repetitions = SamplesOf(limit, frames, accepted + 1)
                             - SamplesOf(limit, frames, accepted),
           metrics = ScoreAssignment(frames[accepted + 1].plan),
           Scorable(frames[accepted + 1].plan)
    PROVE  /\ Reference!AppendsNext
           /\ accepted' = accepted + 1 /\ accepted' \in 0 .. Len(frames)
           /\ rows' \in Seq(EmittedRow) /\ Len(rows') = accepted'
           /\ samples' = SamplesOf(limit, frames, accepted')
<1> DEFINE next == accepted + 1
           row == [sample_offset |-> samples, repetitions |-> repetitions,
                   accepted_index |-> accepted, metrics |-> metrics]
<1>1. /\ limit \in Bounds /\ frames \in Seq(Decoded) /\ Len(frames) \in Nat
      /\ accepted \in Nat /\ next \in 1 .. Len(frames) /\ next \in 0 .. Len(frames)
      /\ accepted \in 0 .. Len(frames) /\ next - 1 = accepted
      /\ rows \in Seq(EmittedRow) /\ Len(rows) = accepted
      /\ samples = SamplesOf(limit, frames, accepted)
    BY DEF StreamInv
<1>2. rows' = Append(rows, row) /\ samples' = samples + repetitions /\ accepted' = next
    BY DEF EmitRow
<1>3. frames[next].plan \in Assignments
    <2>1. frames[next] \in Decoded
        BY <1>1
    <2>2. QED
        BY <2>1 DEF Decoded
<1>4. /\ SamplesOf(limit, frames, next) \in Nat /\ SamplesOf(limit, frames, accepted) \in Nat
      /\ repetitions \in Nat
    <2>1. /\ SamplesOf(limit, frames, next) \in Nat
          /\ SamplesOf(limit, frames, accepted) \in Nat
          /\ limit # Unlimited => SamplesOf(limit, frames, accepted) <= limit
        BY <1>1, SamplesAddUp
    <2>2. repetitions = IF limit = Unlimited
                           \/ frames[next].count < limit - SamplesOf(limit, frames, accepted)
                        THEN frames[next].count
                        ELSE limit - SamplesOf(limit, frames, accepted)
        <3>1. SamplesOf(limit, frames, next) - SamplesOf(limit, frames, next - 1)
                = IF limit = Unlimited
                     \/ frames[next].count < limit - SamplesOf(limit, frames, next - 1)
                  THEN frames[next].count
                  ELSE limit - SamplesOf(limit, frames, next - 1)
            BY <1>1, SamplesAddUp
        <3>2. QED
            BY <1>1, <3>1
    <2>3. frames[next].count \in Nat
        <3>1. frames[next] \in Decoded
            BY <1>1
        <3>2. QED
            BY <3>1 DEF Decoded
    <2>4. QED
        BY <1>1, <2>1, <2>2, <2>3 DEF Bounds
<1>5. row \in EmittedRow
    BY <1>1, <1>3, <1>4 DEF EmittedRow
<1>6. row = Reference!Row(limit, frames, Len(rows) + 1)
    <2>1. Reference!SamplesThrough(limit, frames, accepted) = samples
          /\ Reference!SamplesThrough(limit, frames, next) - samples = repetitions
        BY <1>1 DEF SamplesOf
    <2>2. Reference!Score(frames[next].plan) = metrics
        BY ReferenceScores
    <2>3. Len(rows) + 1 = next
        BY <1>1
    <2> HIDE DEF next
    <2>4. Reference!Row(limit, frames, next) = row
        BY <1>1, <2>1, <2>2 DEF Reference!Row
    <2>5. QED
        BY <2>3, <2>4
<1>7. Reference!AppendsNext
    <2>1. Len(rows) < Len(frames) /\ Reference!Scorable(frames[Len(rows) + 1].plan)
        BY <1>1, ReferenceScores
    <2> HIDE DEF row
    <2>2. QED
        BY <1>2, <1>6, <2>1 DEF Reference!AppendsNext
<1> HIDE DEF row
<1>8. rows' \in Seq(EmittedRow) /\ Len(rows') = accepted'
    BY <1>1, <1>2, <1>5
<1>9. QED
    BY <1>1, <1>2, <1>4, <1>7, <1>8

LEMMA EmitIncrementalCounts ==
    ASSUME ScorerInv, HistoryInv, DistrictInv, StreamInv, EmitIncremental
    PROVE  /\ Reference!AppendsNext
           /\ pc' = "read" /\ UNCHANGED <<limit, frames, summary>>
           /\ StreamInv'
<1>1. /\ pc = "emit" /\ pc' = "read"
      /\ EmitRow(pending.repetitions, StateResult(current))
      /\ UNCHANGED <<variant, limit, frames, remaining, current, batch, summary>>
      /\ uniqueness' = IF variant # "MkvChain" THEN uniqueness
                       ELSE IF HasCurrent(uniqueness)
                       THEN ObserveChanges(uniqueness, pending.changes)
                       ELSE ResetCounts(uniqueness, current.assignment)
    BY DEF EmitIncremental
<1>2. /\ variant \in {"TwoDelta", "MkvChain"} /\ variant # "Standard"
      /\ accepted + 1 = Len(frames) /\ accepted \in Nat
      /\ frames \in Seq(Decoded)
      /\ pending.repetitions
             = SamplesOf(limit, frames, accepted + 1) - SamplesOf(limit, frames, accepted)
    BY <1>1 DEF StreamInv, FrameInFlight, Variants
<1>3. /\ current.assignment = frames[accepted + 1].plan
      /\ StateExact(current) /\ DistrictExact(current)
    <2>1. frames # << >>
        BY <1>2
    <2>2. QED
        BY <1>1, <1>2, <2>1 DEF ScorerInv, HistoryInv, HoldsLastPlan, DistrictInv
<1>4. /\ StateResult(current) = ScoreAssignment(frames[accepted + 1].plan)
      /\ Scorable(frames[accepted + 1].plan)
    BY <1>3, ResultIsScore DEF DistrictExact
<1>5. /\ Reference!AppendsNext
      /\ accepted' = accepted + 1 /\ accepted' \in 0 .. Len(frames)
      /\ rows' \in Seq(EmittedRow) /\ Len(rows') = accepted'
      /\ samples' = SamplesOf(limit, frames, accepted')
    BY <1>1, <1>2, <1>4, EmitsNext
<1>6. uniqueness' = CountsOf(frames, accepted + 1, NewMembership(frames[accepted + 1].plan))
    <2>1. CASE variant = "TwoDelta"
        <3>1. Observed = accepted + 1 /\ accepted + 1 # 0
            BY <1>2, <2>1 DEF Observed
        <3>2. QED
            BY <1>1, <1>2, <2>1, <3>1 DEF StreamInv, MembershipAt
    <2>2. CASE variant = "MkvChain"
        <3>1. uniqueness = CountsOf(frames, accepted, MembershipAt(frames, accepted))
            BY <1>2, <2>2 DEF StreamInv, Observed
        <3>2. uniqueness.current = MembershipAt(frames, accepted)
            BY <3>1 DEF CountsOf, Counted
        <3>3. CASE accepted = 0
            <4>1. ~HasCurrent(uniqueness)
                BY <3>2, <3>3 DEF MembershipAt, HasCurrent
            <4>2. QED
                BY <1>1, <1>2, <1>3, <2>2, <3>1, <4>1, ResetGoesOn
        <3>4. CASE accepted # 0
            <4>1. frames[accepted].plan \in Assignments
                <5>1. frames[accepted] \in Decoded
                    BY <1>2, <3>4
                <5>2. QED
                    BY <5>1 DEF Decoded
            <4>2. /\ HasCurrent(uniqueness)
                  /\ MembershipAt(frames, accepted) = NewMembership(frames[accepted].plan)
                BY <3>2, <3>4, <4>1, MembershipIsThere DEF MembershipAt, HasCurrent
            <4>3. /\ IsSlice(pending.changes)
                  /\ ValidChanges(frames[accepted].plan, pending.changes)
                  /\ ApplyChanges(frames[accepted].plan, pending.changes)
                         = frames[accepted + 1].plan
                BY <1>1, <1>2, <2>2, <3>4 DEF StreamInv, FrameInFlight
            <4>4. uniqueness' = ObserveChanges(uniqueness, pending.changes)
                BY <1>1, <2>2, <4>2
            <4>5. QED
                BY <1>2, <3>1, <4>1, <4>2, <4>3, <4>4, ChangesGoOn
        <3>5. QED
            BY <3>3, <3>4
    <2>3. QED
        BY <1>2, <2>1, <2>2
<1>7. /\ Observed' = accepted + 1
      /\ MembershipAt(frames, accepted + 1) = NewMembership(frames[accepted + 1].plan)
    BY <1>1, <1>2, <1>5 DEF Observed, MembershipAt
<1>8. FrameInFlight'
    BY <1>1, <1>2, <1>5 DEF FrameInFlight
<1>9. /\ (variant \in Variants)' /\ (limit \in Bounds)' /\ (frames \in Seq(Decoded))'
      /\ (pc \in {"read", "emit", "batch", "lastbatch", "done", "failed"})'
      /\ (remaining = IF limit = Unlimited THEN Unlimited
                      ELSE limit - SamplesOf(limit, frames, Len(frames)))'
    BY <1>1 DEF StreamInv
<1>10. StreamInv'
    BY <1>1, <1>2, <1>5, <1>6, <1>7, <1>8, <1>9 DEF StreamInv
<1>11. QED
    BY <1>1, <1>5, <1>10

LEMMA EmitFromBatchCounts ==
    ASSUME ScorerInv, StreamInv, EmitFromBatch
    PROVE  /\ Reference!AppendsNext
           /\ UNCHANGED <<limit, frames>>
           /\ accepted' = Len(rows')
           /\ \/ pc' \in {"read", "batch", "lastbatch"} /\ UNCHANGED summary
              \/ /\ Len(rows') = Len(frames)
                 /\ Complete(uniqueness', samples', accepted')
           /\ StreamInv'
<1>1. /\ pc \in {"batch", "lastbatch"}
      /\ \A i \in DOMAIN batch : Scorable(batch[i].plan)
      /\ EmitRow(Head(batch).repetitions, ScoreAssignment(Head(batch).plan))
      /\ uniqueness' = ObserveHashes(uniqueness, AssignmentHashes(Head(batch).plan))
      /\ batch' = Tail(batch)
      /\ IF batch' # << >> THEN UNCHANGED <<pc, summary>>
         ELSE IF pc = "batch" THEN pc' = "read" /\ UNCHANGED summary
         ELSE Complete(uniqueness', samples', accepted')
      /\ UNCHANGED <<variant, limit, frames, remaining, current, pending>>
    BY DEF EmitFromBatch
<1>2. /\ variant = "Standard" /\ batch # << >>
      /\ batch \in Seq(BatchEntry) /\ Len(batch) = Len(frames) - accepted
      /\ frames \in Seq(Decoded) /\ accepted \in Nat /\ Len(frames) \in Nat
    <2>1. variant = "Standard"
        BY <1>1 DEF ScorerInv
    <2>2. QED
        BY <1>1, <2>1 DEF StreamInv, BatchInFlight
<1>3. /\ 1 \in 1 .. Len(batch) /\ Head(batch) = batch[1] /\ 1 \in DOMAIN batch
      /\ accepted < Len(frames)
    BY <1>2
<1>4. /\ Head(batch).plan = frames[accepted + 1].plan
      /\ Head(batch).repetitions
             = SamplesOf(limit, frames, accepted + 1) - SamplesOf(limit, frames, accepted)
    <2>1. accepted + 1 - 1 = accepted
        BY <1>2
    <2>2. /\ batch[1].plan = frames[accepted + 1].plan
          /\ batch[1].repetitions
                 = SamplesOf(limit, frames, accepted + 1)
                       - SamplesOf(limit, frames, accepted + 1 - 1)
        BY <1>2, <1>3 DEF StreamInv, BatchInFlight
    <2>3. QED
        BY <1>3, <2>1, <2>2
<1>5. /\ Reference!AppendsNext
      /\ accepted' = accepted + 1 /\ accepted' \in 0 .. Len(frames)
      /\ rows' \in Seq(EmittedRow) /\ Len(rows') = accepted'
      /\ samples' = SamplesOf(limit, frames, accepted')
    BY <1>1, <1>2, <1>3, <1>4, EmitsNext
<1>6. /\ batch' \in Seq(BatchEntry) /\ Len(batch') = Len(batch) - 1
      /\ \A i \in 1 .. Len(batch') : batch'[i] = batch[i + 1]
      /\ (batch' = << >> <=> Len(batch') = 0)
    <2>1. /\ Tail(batch) \in Seq(BatchEntry) /\ Len(Tail(batch)) = Len(batch) - 1
          /\ \A i \in 1 .. Len(Tail(batch)) : Tail(batch)[i] = batch[i + 1]
        BY <1>2, HeadTailProperties
    <2>2. batch' = << >> <=> Len(batch') = 0
        BY <1>1, <2>1, EmptySeq
    <2>3. QED
        BY <1>1, <2>1, <2>2
<1>7. Len(batch') = Len(frames) - accepted'
    BY <1>2, <1>5, <1>6
<1>8. ASSUME NEW i \in 1 .. Len(batch')
      PROVE  /\ batch'[i].plan = frames[accepted' + i].plan
             /\ batch'[i].repetitions
                    = SamplesOf(limit, frames, accepted' + i)
                          - SamplesOf(limit, frames, accepted' + i - 1)
    <2>1. /\ i + 1 \in 1 .. Len(batch) /\ accepted + (i + 1) = accepted' + i
          /\ accepted + (i + 1) - 1 = accepted' + i - 1
        BY <1>2, <1>5, <1>6
    <2>2. /\ batch[i + 1].plan = frames[accepted + (i + 1)].plan
          /\ batch[i + 1].repetitions
                 = SamplesOf(limit, frames, accepted + (i + 1))
                       - SamplesOf(limit, frames, accepted + (i + 1) - 1)
        BY <1>2, <2>1 DEF StreamInv, BatchInFlight
    <2>3. QED
        BY <1>6, <2>1, <2>2
<1>9. /\ pc' \in {"read", "batch", "lastbatch", "done"}
      /\ pc' \in {"batch", "lastbatch"} => batch' # << >>
      /\ \/ pc' \in {"read", "batch", "lastbatch"} /\ UNCHANGED summary
         \/ batch' = << >> /\ Complete(uniqueness', samples', accepted')
    BY <1>1 DEF Complete
<1>10. BatchInFlight'
    BY <1>1, <1>6, <1>7, <1>8, <1>9 DEF BatchInFlight
<1>11. uniqueness' = CountsOf(frames, accepted + 1, NoMembership)
    <2>1. uniqueness = CountsOf(frames, accepted, NoMembership)
        BY <1>2 DEF StreamInv, Observed
    <2>2. WithCurrent(CountsOf(frames, accepted, NoMembership), NoMembership)
              = CountsOf(frames, accepted, NoMembership)
        BY CountedMoves DEF CountsOf
    <2>3. QED
        BY <1>1, <1>2, <1>4, <2>1, <2>2, ObserveGoesOn
<1>12. /\ (variant \in Variants)' /\ (limit \in Bounds)' /\ (frames \in Seq(Decoded))'
       /\ (pc \in {"read", "emit", "batch", "lastbatch", "done", "failed"})' /\ pc' # "emit"
       /\ (remaining = IF limit = Unlimited THEN Unlimited
                       ELSE limit - SamplesOf(limit, frames, Len(frames)))'
       /\ (variant = "Standard")' /\ Observed' = accepted + 1
    BY <1>1, <1>2, <1>5, <1>9 DEF StreamInv, Observed
<1>13. StreamInv'
    BY <1>1, <1>5, <1>10, <1>11, <1>12 DEF StreamInv
<1>14. batch' = << >> => Len(rows') = Len(frames)
    BY <1>2, <1>5, <1>6, <1>7
<1>15. QED
    BY <1>1, <1>5, <1>9, <1>13, <1>14

\* The file ends, or enough samples were read: nothing is left to be emitted
\* but the last batch.
LEMMA StopReadingCounts ==
    ASSUME ScorerInv, StreamInv, StopReading
    PROVE  /\ UNCHANGED <<limit, frames, rows>>
           /\ \/ pc' = "lastbatch" /\ UNCHANGED summary
              \/ /\ accepted' = Len(frames)
                 /\ Complete(uniqueness', samples', accepted')
           /\ StreamInv'
<1>1. /\ pc = "read"
      /\ UNCHANGED <<variant, limit, frames, remaining, uniqueness, pending, batch, samples,
                     accepted, rows>>
      /\ \/ batch = << >> /\ Complete(uniqueness', samples', accepted') /\ pc' = "done"
         \/ batch # << >> /\ pc' = "lastbatch" /\ UNCHANGED summary
    BY DEF StopReading, Complete
<1>2. batch = << >> => accepted = Len(frames)
    <2>1. CASE variant = "Standard"
        <3>1. Len(batch) = Len(frames) - accepted /\ accepted \in Nat /\ Len(frames) \in Nat
            BY <2>1 DEF StreamInv, BatchInFlight
        <3>2. QED
            BY <3>1
    <2>2. CASE variant # "Standard"
        BY <1>1, <2>2 DEF StreamInv, FrameInFlight
    <2>3. QED
        BY <2>1, <2>2
<1>3. (variant # "Standard" => FrameInFlight)'
    BY <1>1 DEF FrameInFlight, ScorerInv
<1>4. (variant = "Standard" => pc # "emit" /\ BatchInFlight)'
    BY <1>1 DEF BatchInFlight, StreamInv
<1>5. Observed' = Observed
    BY <1>1 DEF Observed
<1>6. StreamInv'
    BY <1>1, <1>3, <1>4, <1>5 DEF StreamInv
<1>7. QED
    BY <1>1, <1>2, <1>6

LEMMA StutterCounts ==
    ASSUME StreamInv, UNCHANGED vars
    PROVE  StreamInv'
<1>1. UNCHANGED <<variant, limit, frames, remaining, uniqueness, pending, batch, samples, accepted,
                  rows, pc>>
    BY DEF vars
<1>2. FrameInFlight' = FrameInFlight /\ BatchInFlight' = BatchInFlight /\ Observed' = Observed
    BY <1>1 DEF FrameInFlight, BatchInFlight, Observed
<1>3. QED
    BY <1>1, <1>2 DEF StreamInv

\* Nothing has been read, emitted or counted.
LEMMA StreamStarts == Init => StreamInv
<1> SUFFICES ASSUME Init PROVE StreamInv
    OBVIOUS
<1>1. /\ variant \in Variants /\ limit \in Limits /\ frames = << >> /\ remaining = limit
      /\ uniqueness = NewCounts /\ batch = << >> /\ samples = 0 /\ accepted = 0
      /\ rows = << >> /\ pc = "read"
    BY DEF Init
<1>2. /\ limit \in Bounds /\ frames \in Seq(Decoded) /\ Len(frames) = 0
      /\ rows \in Seq(EmittedRow) /\ Len(rows) = 0
    BY <1>1, StreamAssumption DEF Bounds
<1>3. SamplesOf(limit, frames, 0) = 0
    BY <1>2, SamplesAddUp
<1>4. remaining = IF limit = Unlimited THEN Unlimited ELSE limit - 0
    BY <1>1, <1>2 DEF Bounds
<1>5. Observed = 0 /\ MembershipAt(frames, 0) = NoMembership
    BY <1>1, <1>2 DEF Observed, MembershipAt
<1>6. uniqueness = CountsOf(frames, 0, NoMembership)
    <2>1. Seen(frames, 0) = {}
        BY DEF Seen
    <2>2. QED
        BY <1>1, <2>1 DEF CountsOf, Counted, NewCounts
<1>7. FrameInFlight
    BY <1>1, <1>2 DEF FrameInFlight
<1>8. BatchInFlight
    BY <1>1, <1>2 DEF BatchInFlight
<1>9. QED
    BY <1>1, <1>2, <1>3, <1>4, <1>5, <1>6, <1>7, <1>8 DEF StreamInv

(***************************************************************************)
(* Steps of the abstract specification                                     *)
(***************************************************************************)

\* A frame is read while samples are wanted.
LEMMA ReadRefines ==
    ASSUME StreamInv, pc = "read", remaining # 0, pc' \notin {"done", "failed"},
           NEW plan \in Assignments, NEW count \in Counts, Accept(plan, count),
           UNCHANGED <<limit, rows, summary>>
    PROVE  Reference!Read
<1>1. Extended(plan, count)
    BY AcceptExtends
<1>2. /\ limit \in Bounds /\ frames \in Seq(Decoded) /\ Len(frames) \in Nat
      /\ remaining = IF limit = Unlimited THEN Unlimited
                     ELSE limit - SamplesOf(limit, frames, Len(frames))
    BY DEF StreamInv
<1>3. Reference!SamplesThrough(limit, frames, Len(frames)) # limit
    <2>1. SamplesOf(limit, frames, Len(frames)) \in Nat
        BY <1>2, SamplesAddUp
    <2>2. Unlimited \notin Nat
        BY StreamAssumption
    <2>3. SamplesOf(limit, frames, Len(frames)) # limit
        BY <1>2, <2>1, <2>2 DEF Bounds
    <2>4. QED
        BY <2>3 DEF SamplesOf
<1>4. /\ frames' \in Seq(Decoded) /\ Len(frames') = Len(frames) + 1
      /\ \A i \in 1 .. Len(frames) : frames'[i] = frames[i]
    BY <1>1 DEF Extended
<1>5. SubSeq(frames', 1, Len(frames)) = frames
    BY <1>2, <1>4
<1>6. frames'[Len(frames) + 1] \in Reference!Frame
    BY <1>2, <1>4, ReferenceFrames
<1>7. QED
    BY <1>3, <1>4, <1>5, <1>6 DEF Reference!Read

LEMMA FailRefines ==
    ASSUME Fail, pc \notin {"done", "failed"}
    PROVE  Reference!Fail
BY DEF Fail, Reference!Fail

LEMMA EmitRefines ==
    ASSUME Reference!AppendsNext, pc \notin {"done", "failed"}, pc' \notin {"done", "failed"},
           UNCHANGED <<limit, frames, summary>>
    PROVE  Reference!Emit
BY DEF Reference!Emit

\* A run that ends has emitted and counted all frames, and says so.
LEMMA FinishRefines ==
    ASSUME StreamInv', pc \notin {"done", "failed"}, UNCHANGED <<limit, frames>>,
           accepted' = Len(frames), Complete(uniqueness', samples', accepted'),
           rows' = rows \/ Reference!AppendsNext
    PROVE  Reference!Finish
<1>1. /\ Len(rows') = Len(frames)
      /\ samples' = SamplesOf(limit, frames, Len(frames))
      /\ Observed' = Len(frames)
    BY DEF StreamInv, Observed
<1>2. /\ uniqueness'.plans = Seen(frames, Len(frames))
      /\ uniqueness'.districts = UNION Seen(frames, Len(frames))
    BY <1>1 DEF StreamInv, CountsOf, Counted
<1>3. DOMAIN frames = 1 .. Len(frames)
    <2>1. frames \in Seq(Decoded)
        BY DEF StreamInv
    <2>2. QED
        BY <2>1
<1>4. {Reference!AssignmentHashes(frames[i].plan) : i \in DOMAIN frames} = Seen(frames, Len(frames))
    BY <1>3, ReferenceScores DEF Seen
<1>5. summary' = Reference!Summary(limit, frames)
    <2>1. Reference!Summary(limit, frames)
              = [samples |-> SamplesOf(limit, frames, Len(frames)), accepted |-> Len(frames),
                 unique_plans |-> Cardinality(Seen(frames, Len(frames))),
                 unique_districts |-> Cardinality(UNION Seen(frames, Len(frames)))]
        BY <1>4 DEF Reference!Summary, SamplesOf, Reference!Cardinality, Cardinality
    <2>2. summary' = [samples |-> samples', accepted |-> accepted',
                      unique_plans |-> Cardinality(uniqueness'.plans),
                      unique_districts |-> Cardinality(uniqueness'.districts)]
        BY DEF Complete
    <2>3. QED
        BY <1>1, <1>2, <2>1, <2>2
<1>6. pc' = "done"
    BY DEF Complete
<1>7. QED
    BY <1>1, <1>5, <1>6 DEF Reference!Finish

LEMMA StepRefines ==
    ASSUME ScorerInv, HistoryInv, DistrictInv, StreamInv, [Next]_vars
    PROVE  /\ StreamInv'
           /\ Reference!Next \/ UNCHANGED Reference!vars
<1>1. ASSUME Fail, pc \notin {"done", "failed"}
      PROVE  StreamInv' /\ Reference!Next
    BY <1>1, FailCounts, FailRefines DEF Reference!Next
<1>2. ASSUME NEW plan \in Plans, NEW delta \in Deltas \cup {NoDelta}, NEW count \in Counts,
             ReadSnapshot(plan, delta, count)
      PROVE  StreamInv' /\ Reference!Next
    <2>1. CASE pc' = "failed"
        <3>1. Fail /\ pc = "read"
            BY <1>2, <2>1 DEF ReadSnapshot, Reading
        <3>2. QED
            BY <1>1, <3>1
    <2>2. CASE pc' # "failed"
        <3>1. StreamInv' /\ Reference!Read
            BY <1>2, <2>2, ReadSnapshotCounts, ReadRefines
        <3>2. QED
            BY <3>1 DEF Reference!Next
    <2>3. QED
        BY <2>1, <2>2
<1>3. ASSUME NEW delta \in Deltas, NEW count \in Counts, ReadDelta(delta, count)
      PROVE  StreamInv' /\ Reference!Next
    <2>1. CASE pc' = "failed"
        <3>1. Fail /\ pc = "read"
            BY <1>3, <2>1 DEF ReadDelta, Reading
        <3>2. QED
            BY <1>1, <3>1
    <2>2. CASE pc' # "failed"
        <3>1. StreamInv' /\ Reference!Read
            BY <1>3, <2>2, ReadDeltaCounts, ReadRefines
        <3>2. QED
            BY <3>1 DEF Reference!Next
    <2>3. QED
        BY <2>1, <2>2
<1>4. ASSUME NEW plan \in Plans, NEW count \in Counts, ReadPlan(plan, count)
      PROVE  StreamInv' /\ Reference!Next
    <2>1. CASE pc' = "failed"
        <3>1. Fail /\ pc = "read"
            BY <1>4, <2>1 DEF ReadPlan, Reading
        <3>2. QED
            BY <1>1, <3>1
    <2>2. CASE pc' # "failed"
        <3>1. StreamInv' /\ Reference!Read
            BY <1>4, <2>2, ReadPlanCounts, ReadRefines
        <3>2. QED
            BY <3>1 DEF Reference!Next
    <2>3. QED
        BY <2>1, <2>2
<1>5. ASSUME NEW plan \in Plans, NEW count \in Counts, ReadIndependent(plan, count)
      PROVE  StreamInv' /\ Reference!Next
    <2>1. StreamInv' /\ Reference!Read
        BY <1>5, ReadIndependentCounts, ReadRefines
    <2>2. QED
        BY <2>1 DEF Reference!Next
<1>6. CASE ReadFails
    <2>1. Fail /\ pc = "read"
        BY <1>6 DEF ReadFails, Reading
    <2>2. QED
        BY <1>1, <2>1
<1>7. CASE EmitIncremental
    <2>1. pc = "emit"
        BY <1>7 DEF EmitIncremental
    <2>2. StreamInv' /\ Reference!Emit
        BY <1>7, <2>1, EmitIncrementalCounts, EmitRefines
    <2>3. QED
        BY <2>2 DEF Reference!Next
<1>8. CASE EmitFromBatch
    <2>1. pc \in {"batch", "lastbatch"}
        BY <1>8 DEF EmitFromBatch
    <2>2. /\ StreamInv' /\ Reference!AppendsNext /\ UNCHANGED <<limit, frames>>
          /\ accepted' = Len(rows')
          /\ \/ pc' \in {"read", "batch", "lastbatch"} /\ UNCHANGED summary
             \/ Len(rows') = Len(frames) /\ Complete(uniqueness', samples', accepted')
        BY <1>8, EmitFromBatchCounts
    <2>3. Reference!Emit \/ Reference!Finish
        BY <2>1, <2>2, EmitRefines, FinishRefines
    <2>4. QED
        BY <2>2, <2>3 DEF Reference!Next
<1>9. CASE EmitFails
    <2>1. Fail /\ pc \notin {"done", "failed"}
        BY <1>9 DEF EmitFails
    <2>2. QED
        BY <1>1, <2>1
<1>10. CASE StopReading
    <2>1. pc = "read"
        BY <1>10 DEF StopReading
    <2>2. /\ StreamInv' /\ UNCHANGED <<limit, frames, rows>>
          /\ \/ pc' = "lastbatch" /\ UNCHANGED summary
             \/ accepted' = Len(frames) /\ Complete(uniqueness', samples', accepted')
        BY <1>10, StopReadingCounts
    <2>3. CASE pc' = "lastbatch" /\ UNCHANGED summary
        BY <2>1, <2>2, <2>3 DEF Reference!vars
    <2>4. CASE accepted' = Len(frames) /\ Complete(uniqueness', samples', accepted')
        <3>1. Reference!Finish
            BY <2>1, <2>2, <2>4, FinishRefines
        <3>2. QED
            BY <2>2, <3>1 DEF Reference!Next
    <2>5. QED
        BY <2>2, <2>3, <2>4
<1>11. CASE UNCHANGED vars
    <2>1. UNCHANGED <<limit, frames, rows, pc, summary>>
        BY <1>11 DEF vars
    <2>2. UNCHANGED Reference!vars
        BY <2>1 DEF Reference!vars
    <2>3. QED
        BY <1>11, <2>2, StutterCounts
<1>12. QED
    BY <1>2, <1>3, <1>4, <1>5, <1>6, <1>7, <1>8, <1>9, <1>10, <1>11 DEF Next

LEMMA StreamInvariant == Spec => []StreamInv
<1>1. Init => StreamInv
    BY StreamStarts
<1>2. ScorerInv /\ HistoryInv /\ DistrictInv /\ StreamInv /\ [Next]_vars => StreamInv'
    BY StepRefines
<1>3. QED
    BY <1>1, <1>2, ScorerInvariant, HistoryInvariant, DistrictInvariant, PTL DEF Spec

\* For every file, the variables of a stream have their types, and a stream has
\* emitted one row for each frame it has counted.
THEOREM StreamTypesHold == Spec => []TypeOK
<1> DEFINE LimitGiven == limit \in Limits
<1>1. Init => LimitGiven
    BY DEF Init
<1>2. LimitGiven /\ [Next]_vars => LimitGiven'
    <2>1. ASSUME [Next]_vars
          PROVE  limit' = limit
        BY <2>1 DEF Next, ReadSnapshot, ReadDelta, ReadPlan, ReadIndependent, ReadFails, Fail,
                    EmitIncremental, EmitFromBatch, EmitFails, StopReading, vars
    <2>2. QED
        BY <2>1
<1>3. ScorerInv /\ StreamInv /\ LimitGiven => TypeOK
    <2> SUFFICES ASSUME ScorerInv, StreamInv, LimitGiven
                 PROVE  TypeOK
        OBVIOUS
    <2>1. /\ limit \in Bounds /\ frames \in Seq(Decoded) /\ accepted \in 0 .. Len(frames)
          /\ Len(frames) \in Nat /\ Unlimited \notin Nat
          /\ samples = SamplesOf(limit, frames, accepted)
          /\ remaining = IF limit = Unlimited THEN Unlimited
                         ELSE limit - SamplesOf(limit, frames, Len(frames))
        BY StreamAssumption DEF StreamInv
    <2>2. /\ samples \in Nat
          /\ SamplesOf(limit, frames, Len(frames)) \in Nat
          /\ limit # Unlimited => SamplesOf(limit, frames, Len(frames)) <= limit
        BY <2>1, SamplesAddUp
    <2>3. remaining \in Nat \cup {Unlimited}
        BY <2>1, <2>2 DEF Bounds
    <2>4. current # NoState => current.assignment \in Assignments
        BY DEF ScorerInv, StateExact
    <2>5. frames \in Seq([plan : Assignments, count : Nat \ {0}]) /\ accepted \in Nat
        BY <2>1 DEF Decoded
    <2>6. QED
        BY <2>2, <2>3, <2>4, <2>5 DEF StreamInv, TypeOK
<1> HIDE DEF LimitGiven
<1>4. QED
    BY <1>1, <1>2, <1>3, ScorerInvariant, StreamInvariant, PTL DEF Spec

\* StreamScorer implements PlanByPlan: for every file in every encoding and
\* every sample limit, the rows are those of scoring each plan from scratch, in
\* file order, with the offsets and repetitions the limit leaves, and the
\* summary of a completed run counts exactly the plans it has emitted.
THEOREM StreamsScorePlanByPlan == Spec => ScoresPlanByPlan
<1>1. Init => Reference!Init
    <2> SUFFICES ASSUME Init PROVE Reference!Init
        OBVIOUS
    <2>1. limit \in Nat \cup {Unlimited}
        BY StreamAssumption DEF Init
    <2>2. QED
        BY <2>1 DEF Init, Reference!Init, NoSummary, Reference!NoSummary
<1>2. ScorerInv /\ HistoryInv /\ DistrictInv /\ StreamInv /\ [Next]_vars
          => Reference!Next \/ UNCHANGED Reference!vars
    BY StepRefines
<1>3. QED
    BY <1>1, <1>2, ScorerInvariant, HistoryInvariant, DistrictInvariant, StreamInvariant, PTL
       DEF Spec, ScoresPlanByPlan, Reference!Spec


(***************************************************************************)
(* The two components                                                      *)
(***************************************************************************)

\* What is proved of writers, for the only one of this run.
Run == INSTANCE RunWriterProofs WITH
    Writers <- {"run"},
    samples <- wSamples,
    accepted <- wAccepted,
    districts <- wDistricts,
    DistrictSets <- SUBSET Labels,
    Repetitions <- Nat,
    UniqueCounts <- [plans : Nat \cup {None}, districts : Nat \cup {None}],
    MaxOffers <- MaxFrames,
    parent <- "durable"

LEMMA RunAssumed == Run!WriterAssumption
BY RunAssumption, StreamAssumption DEF Run!WriterAssumption

LEMMA OpensAlike ==
    /\ Writer!Init => Run!Init
    /\ Writer!Open("run") => Run!Open("run")
    /\ Writer!OpenFails("run") => Run!OpenFails("run")
    /\ Writer!Drop("run") => Run!Drop("run")
BY DEF Writer!Init, Run!Init, Writer!Open, Run!Open, Writer!OpenFails, Run!OpenFails,
       Writer!Drop, Run!Drop, Writer!Close, Run!Close, Writer!NoDirectory, Run!NoDirectory,
       Writer!NoSummary, Run!NoSummary, Writer!EmptyDirectory, Run!EmptyDirectory,
       Writer!UnwrittenFile, Run!UnwrittenFile, Writer!NoManifest, Run!NoManifest,
       Writer!CreatedParent, Run!CreatedParent

LEMMA PushesAlike ==
    ASSUME NEW row
    PROVE  /\ Writer!Acceptable("run", row) <=> Run!Acceptable("run", row)
           /\ Writer!Push("run", row) => Run!Push("run", row)
           /\ Writer!PushRejected("run", row) => Run!PushRejected("run", row)
           /\ \A reached : Writer!PushFailsMidway("run", row, reached)
                               => Run!PushFailsMidway("run", row, reached)
<1>1. Writer!Acceptable("run", row) <=> Run!Acceptable("run", row)
    BY DEF Writer!Acceptable, Run!Acceptable
<1>2. Writer!Offer("run") => Run!Offer("run")
    BY DEF Writer!Offer, Run!Offer
<1>3. ASSUME NEW reached, Writer!PushTo("run", reached, row)
      PROVE  Run!PushTo("run", reached, row)
    BY <1>3 DEF Writer!PushTo, Run!PushTo, Writer!Extended, Run!Extended
<1>4. QED
    BY <1>1, <1>2, <1>3 DEF Writer!Push, Run!Push, Writer!PushRejected, Run!PushRejected,
                            Writer!PushFailsMidway, Run!PushFailsMidway

LEMMA FinishesAlike ==
    ASSUME NEW s
    PROVE  /\ Writer!Finishable("run", s) <=> Run!Finishable("run", s)
           /\ Writer!Finish("run", s) => Run!Finish("run", s)
<1>1. Writer!PlausibleUniqueness("run", s) <=> Run!PlausibleUniqueness("run", s)
    BY DEF Writer!PlausibleUniqueness, Run!PlausibleUniqueness,
           Writer!Cardinality, Run!Cardinality
<1>2. Writer!Finishable("run", s) <=> Run!Finishable("run", s)
    BY <1>1 DEF Writer!Finishable, Run!Finishable
<1>3. QED
    BY <1>2 DEF Writer!Finish, Run!Finish, Writer!Close, Run!Close,
                Writer!NoDirectory, Run!NoDirectory

LEMMA ClosesAlike ==
    /\ Writer!FinishTables("run") => Run!FinishTables("run")
    /\ Writer!SyncDirectories("run") => Run!SyncDirectories("run")
    /\ Writer!WriteManifest("run") => Run!WriteManifest("run")
    /\ Writer!SyncTemp("run") => Run!SyncTemp("run")
    /\ Writer!Publish("run") => Run!Publish("run")
    /\ Writer!SyncParent("run") => Run!SyncParent("run")
    /\ Writer!FinishFails("run") => Run!FinishFails("run")
<1>1. \A from, to : Writer!Advance("run", from, to) => Run!Advance("run", from, to)
    BY DEF Writer!Advance, Run!Advance
<1>2. \A outcome : Writer!Close("run", outcome) => Run!Close("run", outcome)
    BY DEF Writer!Close, Run!Close, Writer!NoDirectory, Run!NoDirectory
<1>3. Writer!FinishTables("run") => Run!FinishTables("run")
    BY <1>1 DEF Writer!FinishTables, Run!FinishTables, Writer!Extended, Run!Extended
<1>4. Writer!SyncDirectories("run") => Run!SyncDirectories("run")
    BY <1>1 DEF Writer!SyncDirectories, Run!SyncDirectories, Writer!Linked, Run!Linked
<1>5. Writer!WriteManifest("run") => Run!WriteManifest("run")
    BY <1>1 DEF Writer!WriteManifest, Run!WriteManifest
<1>6. Writer!SyncTemp("run") => Run!SyncTemp("run")
    BY <1>1 DEF Writer!SyncTemp, Run!SyncTemp, Writer!Linked, Run!Linked
<1>7. Writer!Publish("run") => Run!Publish("run")
    BY <1>1, <1>2 DEF Writer!Publish, Run!Publish, Writer!NoDirectory, Run!NoDirectory
<1>8. Writer!SyncParent("run") => Run!SyncParent("run")
    BY <1>1 DEF Writer!SyncParent, Run!SyncParent
<1>9. Writer!FinishFails("run") => Run!FinishFails("run")
    BY <1>2 DEF Writer!FinishFails, Run!FinishFails, Writer!Finishing, Run!Finishing
<1>10. QED
    BY <1>3, <1>4, <1>5, <1>6, <1>7, <1>8, <1>9

(***************************************************************************)
(* What the stream has delivered                                           *)
(***************************************************************************)

\* Samples were wanted of every frame that was read.
Wanted == \A i \in 1 .. Len(frames) : SamplesOf(limit, frames, i - 1) # limit

\* The rows are those of PlanByPlan, and so is the summary.
Delivered ==
    /\ \A i \in 1 .. Len(rows) : rows[i] = Reference!Row(limit, frames, i)
    /\ pc = "done" => Len(rows) = Len(frames) /\ summary = Reference!Summary(limit, frames)

DeliveryInv == Wanted /\ Delivered

StreamKnown == ScorerInv /\ HistoryInv /\ DistrictInv /\ StreamInv /\ DeliveryInv

LEMMA RowOfMore ==
    ASSUME NEW bound, NEW fs \in Seq(Decoded), NEW frame \in Decoded, NEW i \in 1 .. Len(fs)
    PROVE  Reference!Row(bound, Append(fs, frame), i) = Reference!Row(bound, fs, i)
<1>1. i \in 0 .. Len(fs) /\ i - 1 \in 0 .. Len(fs) /\ Append(fs, frame)[i] = fs[i]
    OBVIOUS
<1>2. /\ Reference!SamplesThrough(bound, Append(fs, frame), i)
             = Reference!SamplesThrough(bound, fs, i)
      /\ Reference!SamplesThrough(bound, Append(fs, frame), i - 1)
             = Reference!SamplesThrough(bound, fs, i - 1)
    BY <1>1, SamplesOfMore DEF SamplesOf
<1>3. QED
    BY <1>1, <1>2 DEF Reference!Row

\* Every step of PlanByPlan delivers what it says.
LEMMA StepDelivers ==
    ASSUME StreamInv, StreamInv', DeliveryInv, Reference!Next \/ UNCHANGED Reference!vars
    PROVE  DeliveryInv'
<1>1. /\ frames \in Seq(Decoded) /\ frames' \in Seq(Decoded)
      /\ rows \in Seq(EmittedRow) /\ Len(rows) \in 0 .. Len(frames)
      /\ Len(frames) \in Nat /\ Len(rows) \in Nat
    BY DEF StreamInv
<1>2. CASE Reference!Read
    <2> DEFINE frame == frames'[Len(frames) + 1]
    <2>1. /\ Len(frames') = Len(frames) + 1
          /\ SubSeq(frames', 1, Len(frames)) = frames
          /\ SamplesOf(limit, frames, Len(frames)) # limit
          /\ limit' = limit /\ rows' = rows /\ pc' # "done"
        BY <1>2 DEF Reference!Read, SamplesOf
    <2>2. frame \in Decoded
        BY <1>1, <2>1
    <2>3. frames' = Append(frames, frame)
        <3>1. \A i \in 1 .. Len(frames) : frames'[i] = frames[i]
            BY <1>1, <2>1
        <3>2. QED
            BY <1>1, <2>1, <3>1
    <2> HIDE DEF frame
    <2>4. ASSUME NEW i \in 1 .. Len(frames')
          PROVE  SamplesOf(limit', frames', i - 1) # limit'
        <3>1. i - 1 \in 0 .. Len(frames)
            BY <1>1, <2>1
        <3>2. SamplesOf(limit, frames', i - 1) = SamplesOf(limit, frames, i - 1)
            BY <1>1, <2>2, <2>3, <3>1, SamplesOfMore
        <3>3. i = Len(frames) + 1 \/ i \in 1 .. Len(frames)
            BY <1>1, <2>1
        <3>4. SamplesOf(limit, frames, i - 1) # limit
            <4>1. CASE i = Len(frames) + 1
                <5>1. i - 1 = Len(frames)
                    BY <1>1, <4>1
                <5>2. QED
                    BY <2>1, <5>1
            <4>2. CASE i \in 1 .. Len(frames)
                BY <4>2 DEF DeliveryInv, Wanted
            <4>3. QED
                BY <3>3, <4>1, <4>2
        <3>5. QED
            BY <2>1, <3>2, <3>4
    <2>5. ASSUME NEW i \in 1 .. Len(rows')
          PROVE  rows'[i] = Reference!Row(limit', frames', i)
        <3>1. i \in 1 .. Len(rows) /\ i \in 1 .. Len(frames)
            BY <1>1, <2>1
        <3>2. Reference!Row(limit, frames', i) = Reference!Row(limit, frames, i)
            BY <1>1, <2>2, <2>3, <3>1, RowOfMore
        <3>3. QED
            BY <2>1, <3>1, <3>2 DEF DeliveryInv, Delivered
    <2>6. Wanted'
        BY <2>4 DEF Wanted
    <2>7. Delivered'
        BY <2>1, <2>5 DEF Delivered
    <2>8. QED
        BY <2>6, <2>7 DEF DeliveryInv
<1>3. ASSUME limit' = limit, frames' = frames, Reference!AppendsNext \/ rows' = rows
      PROVE  /\ Wanted'
             /\ \A i \in 1 .. Len(rows') : rows'[i] = Reference!Row(limit', frames', i)
    <2>1. Wanted'
        BY <1>3 DEF DeliveryInv, Wanted
    <2>2. ASSUME NEW i \in 1 .. Len(rows')
          PROVE  rows'[i] = Reference!Row(limit', frames', i)
        <3>1. CASE rows' = rows
            BY <1>3, <2>2, <3>1 DEF DeliveryInv, Delivered
        <3>2. CASE Reference!AppendsNext
            <4>1. rows' = Append(rows, Reference!Row(limit, frames, Len(rows) + 1))
                BY <3>2 DEF Reference!AppendsNext
            <4>2. i \in 1 .. Len(rows) \/ i = Len(rows) + 1
                BY <1>1, <2>2, <4>1
            <4>3. CASE i \in 1 .. Len(rows)
                <5>1. rows'[i] = rows[i]
                    BY <1>1, <4>1, <4>3
                <5>2. QED
                    BY <1>3, <4>3, <5>1 DEF DeliveryInv, Delivered
            <4>4. CASE i = Len(rows) + 1
                BY <1>1, <1>3, <4>1, <4>4
            <4>5. QED
                BY <4>2, <4>3, <4>4
        <3>3. QED
            BY <1>3, <3>1, <3>2
    <2>3. QED
        BY <2>1, <2>2
<1>4. CASE Reference!Emit
    <2>1. limit' = limit /\ frames' = frames /\ Reference!AppendsNext /\ pc' # "done"
        BY <1>4 DEF Reference!Emit
    <2>2. QED
        BY <1>3, <2>1 DEF DeliveryInv, Delivered
<1>5. CASE Reference!Finish
    <2>1. /\ limit' = limit /\ frames' = frames /\ (Reference!AppendsNext \/ rows' = rows)
          /\ Len(rows') = Len(frames) /\ summary' = Reference!Summary(limit, frames)
        BY <1>5 DEF Reference!Finish
    <2>2. QED
        BY <1>3, <2>1 DEF DeliveryInv, Delivered
<1>6. CASE Reference!Fail
    <2>1. limit' = limit /\ frames' = frames /\ rows' = rows /\ pc' # "done"
        BY <1>6 DEF Reference!Fail
    <2>2. QED
        BY <1>3, <2>1 DEF DeliveryInv, Delivered
<1>7. CASE UNCHANGED Reference!vars
    <2>1. limit' = limit /\ frames' = frames /\ rows' = rows /\ summary' = summary
          /\ (pc' = "done" <=> pc = "done")
        BY <1>7 DEF Reference!vars
    <2>2. QED
        BY <1>3, <2>1 DEF DeliveryInv, Delivered
<1>8. QED
    BY <1>2, <1>4, <1>5, <1>6, <1>7 DEF Reference!Next

LEMMA StreamIsKnown == Spec => []StreamKnown
<1>1. Init => DeliveryInv
    BY DEF Init, DeliveryInv, Wanted, Delivered
<1>2. ScorerInv /\ HistoryInv /\ DistrictInv /\ StreamInv /\ DeliveryInv /\ [Next]_vars
          => DeliveryInv'
    BY StepRefines, StepDelivers
<1>3. QED
    BY <1>1, <1>2, ScorerInvariant, HistoryInvariant, DistrictInvariant, StreamInvariant, PTL
       DEF Spec, StreamKnown

(***************************************************************************)
(* The row to be pushed                                                    *)
(***************************************************************************)

\* The samples that the limit leaves to the frame after the first k.
SamplesAt(k) == SamplesOf(limit, frames, k + 1) - SamplesOf(limit, frames, k)

\* Every row that is emitted repeats its plan at least once.
LEMMA SamplesAreTaken ==
    ASSUME StreamInv, Wanted, NEW k \in Nat, k < Len(frames)
    PROVE  SamplesAt(k) \in Nat \ {0}
<1>1. /\ limit \in Bounds /\ frames \in Seq(Decoded) /\ Len(frames) \in Nat
      /\ k + 1 \in 1 .. Len(frames) /\ k \in 0 .. Len(frames) /\ k + 1 - 1 = k
      /\ Unlimited \notin Nat
    BY StreamAssumption DEF StreamInv
<1>2. SamplesOf(limit, frames, k) # limit
    <2>1. SamplesOf(limit, frames, k + 1 - 1) # limit
        BY <1>1 DEF Wanted
    <2>2. QED
        BY <1>1, <2>1
<1>3. frames[k + 1].count \in Nat \ {0}
    <2>1. frames[k + 1] \in Decoded
        BY <1>1
    <2>2. QED
        BY <2>1 DEF Decoded
<1>4. /\ SamplesOf(limit, frames, k) \in Nat
      /\ limit # Unlimited => SamplesOf(limit, frames, k) <= limit
    BY <1>1, SamplesAddUp
<1>5. SamplesAt(k) = IF limit = Unlimited
                        \/ frames[k + 1].count < limit - SamplesOf(limit, frames, k)
                     THEN frames[k + 1].count
                     ELSE limit - SamplesOf(limit, frames, k)
    <2>1. SamplesOf(limit, frames, k + 1) - SamplesOf(limit, frames, k + 1 - 1)
              = IF limit = Unlimited
                   \/ frames[k + 1].count < limit - SamplesOf(limit, frames, k + 1 - 1)
                THEN frames[k + 1].count
                ELSE limit - SamplesOf(limit, frames, k + 1 - 1)
        BY <1>1, SamplesAddUp
    <2>2. QED
        BY <1>1, <2>1 DEF SamplesAt
<1>6. QED
    BY <1>1, <1>2, <1>3, <1>4, <1>5 DEF Bounds

Emitting == pc \in {"emit", "batch", "lastbatch"}

\* The frame whose row is to be emitted, and its plan.
NextPlan == frames[accepted + 1].plan

\* A row shows the next plan, and its metrics agree on the districts.
LEMMA NextIsScored ==
    ASSUME StreamKnown, Emitting
    PROVE  /\ accepted \in Nat /\ accepted < Len(frames)
           /\ NextPlan \in Assignments
           /\ NextMetrics = ScoreAssignment(NextPlan)
           /\ MetricsAgree
           /\ NextRow = [sample_offset |-> samples, repetitions |-> SamplesAt(accepted),
                         accepted_index |-> accepted,
                         districts |-> ObservedDistricts(NextPlan)]
<1>1. /\ frames \in Seq(Decoded) /\ Len(frames) \in Nat /\ accepted \in 0 .. Len(frames)
      /\ accepted \in Nat /\ variant \in Variants
    BY DEF StreamKnown, StreamInv
<1>2. ASSUME pc = "emit"
      PROVE  /\ accepted < Len(frames) /\ NextMetrics = ScoreAssignment(NextPlan)
             /\ pending.repetitions = SamplesAt(accepted)
    <2>1. /\ accepted + 1 = Len(frames) /\ pending.repetitions = SamplesAt(accepted)
          /\ variant # "Standard"
        BY <1>2 DEF StreamKnown, StreamInv, FrameInFlight, SamplesAt
    <2>2. /\ current.assignment = NextPlan
          /\ StateExact(current) /\ DistrictExact(current)
        <3>1. frames # << >>
            BY <1>1, <2>1
        <3>2. QED
            BY <1>2, <2>1, <3>1
               DEF StreamKnown, ScorerInv, HistoryInv, HoldsLastPlan, DistrictInv, NextPlan
    <2>3. NextMetrics = ScoreAssignment(NextPlan)
        BY <1>2, <2>2, ResultIsScore DEF NextMetrics
    <2>4. QED
        BY <1>1, <1>2, <2>1, <2>3
<1>3. ASSUME pc \in {"batch", "lastbatch"}
      PROVE  /\ accepted < Len(frames) /\ NextMetrics = ScoreAssignment(NextPlan)
             /\ Head(batch).repetitions = SamplesAt(accepted)
    <2>1. /\ variant = "Standard" /\ batch # << >> /\ batch \in Seq(BatchEntry)
          /\ Len(batch) = Len(frames) - accepted
        BY <1>3 DEF StreamKnown, ScorerInv, StreamInv, BatchInFlight
    <2>2. 1 \in 1 .. Len(batch) /\ accepted < Len(frames) /\ Head(batch) = batch[1]
        BY <1>1, <2>1
    <2>3. /\ batch[1].plan = frames[accepted + 1].plan
          /\ batch[1].repetitions
                 = SamplesOf(limit, frames, accepted + 1)
                       - SamplesOf(limit, frames, accepted + 1 - 1)
        BY <2>1, <2>2 DEF StreamKnown, StreamInv, BatchInFlight
    <2>4. accepted + 1 - 1 = accepted
        BY <1>1
    <2>5. Head(batch).plan = NextPlan /\ Head(batch).repetitions = SamplesAt(accepted)
        BY <2>2, <2>3, <2>4 DEF NextPlan, SamplesAt
    <2>6. NextMetrics = ScoreAssignment(NextPlan)
        BY <1>3, <2>5 DEF NextMetrics
    <2>7. QED
        BY <1>1, <1>3, <2>2, <2>5, <2>6
<1>4. /\ accepted < Len(frames)
      /\ NextMetrics = ScoreAssignment(NextPlan)
      /\ SamplesAt(accepted) = IF pc = "emit" THEN pending.repetitions
                               ELSE Head(batch).repetitions
    BY <1>2, <1>3 DEF Emitting
<1>5. NextPlan \in Assignments
    <2>1. frames[accepted + 1] \in Decoded
        BY <1>1, <1>4
    <2>2. QED
        BY <2>1 DEF Decoded, NextPlan
<1>6. DOMAIN NextMetrics.tally = ObservedDistricts(NextPlan)
    BY <1>4 DEF ScoreAssignment, ScoreTally
<1>7. MetricsAgree
    <2>1. /\ NextMetrics.cuts.districts = ObservedDistricts(NextPlan)
          /\ DOMAIN NextMetrics.perimeter = ObservedDistricts(NextPlan)
          /\ DOMAIN NextMetrics.hulls = ObservedDistricts(NextPlan)
          /\ DOMAIN NextMetrics.population = ObservedDistricts(NextPlan)
        BY <1>4 DEF ScoreAssignment, ScoreCutEdges, ScorePerimeter, ScoreHulls, ScorePopulation
    <2>2. QED
        BY <1>6, <2>1 DEF MetricsAgree
<1>8. NextRow = [sample_offset |-> samples, repetitions |-> SamplesAt(accepted),
                 accepted_index |-> accepted, districts |-> ObservedDistricts(NextPlan)]
    BY <1>4, <1>6 DEF NextRow
<1>9. QED
    BY <1>1, <1>4, <1>5, <1>7, <1>8

(***************************************************************************)
(* The unique counts                                                       *)
(***************************************************************************)

\* Districts of one plan have different nodes, so that it has one hash for each.
LEMMA HashPerDistrict ==
    ASSUME NEW a \in Assignments
    PROVE  /\ IsFiniteSet(ObservedDistricts(a)) /\ IsFiniteSet(AssignmentHashes(a))
           /\ Cardinality(ObservedDistricts(a)) \in Nat
           /\ Cardinality(AssignmentHashes(a)) = Cardinality(ObservedDistricts(a))
<1> DEFINE hash == [d \in ObservedDistricts(a) |-> Members(a, d)]
<1>1. IsFiniteSet(ObservedDistricts(a))
    <2>1. IsFiniteSet(Labels)
        BY MaxLabelAssumption, FS_Interval DEF Labels
    <2>2. ObservedDistricts(a) \subseteq Labels
        BY DEF ObservedDistricts, Assignments
    <2>3. QED
        BY <2>1, <2>2, FS_Subset
<1>2. hash \in [ObservedDistricts(a) -> AssignmentHashes(a)]
    BY DEF AssignmentHashes
<1>3. \A d, e \in ObservedDistricts(a) : hash[d] = hash[e] => d = e
    BY DEF ObservedDistricts, Members
<1>4. hash \in Injection(ObservedDistricts(a), AssignmentHashes(a))
    BY <1>2, <1>3 DEF Injection, IsInjective
<1>5. hash \in Surjection(ObservedDistricts(a), AssignmentHashes(a))
    BY <1>2 DEF Surjection, AssignmentHashes
<1>6. IsFiniteSet(AssignmentHashes(a))
    BY <1>1, <1>5, FS_Surjection
<1>7. QED
    BY <1>1, <1>4, <1>5, <1>6, FS_Injection, FS_CardinalityType

\* What finish checks of the unique counts of k plans with these districts.
CountsFit(fs, k, districts) ==
    /\ \A i \in 1 .. k : ObservedDistricts(fs[i].plan) = districts
    /\ Cardinality(Seen(fs, k)) \in 1 .. k
    /\ Cardinality(UNION Seen(fs, k)) \in Cardinality(districts) .. k * Cardinality(districts)

LEMMA SeenIsFinite ==
    ASSUME NEW fs, NEW k
    PROVE  IsFiniteSet(Seen(fs, k)) /\ IsFiniteSet(UNION Seen(fs, k))
<1>1. IsFiniteSet(SUBSET Nodes) /\ IsFiniteSet(SUBSET (SUBSET Nodes))
    BY NodesAssumption, FS_SUBSET
<1>2. \A a : AssignmentHashes(a) \subseteq SUBSET Nodes
    BY DEF AssignmentHashes, Members
<1>3. Seen(fs, k) \subseteq SUBSET (SUBSET Nodes) /\ UNION Seen(fs, k) \subseteq SUBSET Nodes
    BY <1>2 DEF Seen
<1>4. QED
    BY <1>1, <1>3, FS_Subset

LEMMA CountsFitFirst ==
    ASSUME NEW fs, fs[1].plan \in Assignments
    PROVE  CountsFit(fs, 1, ObservedDistricts(fs[1].plan))
<1> DEFINE hashes == AssignmentHashes(fs[1].plan)
           districts == ObservedDistricts(fs[1].plan)
<1>1. Seen(fs, 1) = {hashes}
    BY DEF Seen
<1>2. UNION Seen(fs, 1) = hashes
    BY <1>1
<1>3. Cardinality(Seen(fs, 1)) = 1
    BY <1>1, FS_Singleton
<1>4. Cardinality(hashes) = Cardinality(districts) /\ Cardinality(districts) \in Nat
    BY HashPerDistrict
<1>5. \A i \in 1 .. 1 : ObservedDistricts(fs[i].plan) = districts
    OBVIOUS
<1> HIDE DEF hashes, districts
<1>6. Cardinality(UNION Seen(fs, 1)) \in Cardinality(districts) .. 1 * Cardinality(districts)
    <2>1. Cardinality(UNION Seen(fs, 1)) = Cardinality(districts)
        BY <1>2, <1>4
    <2>2. 1 * Cardinality(districts) = Cardinality(districts)
        BY <1>4
    <2>3. Cardinality(districts) \in Cardinality(districts) .. Cardinality(districts)
        BY <1>4
    <2>4. QED
        BY <2>1, <2>2, <2>3
<1>7. CountsFit(fs, 1, districts)
    BY <1>3, <1>5, <1>6 DEF CountsFit
<1>8. QED
    BY <1>7 DEF districts

\* A further plan adds at most one plan, and its districts at most.
LEMMA CountsFitMore ==
    ASSUME NEW fs, NEW k \in Nat \ {0}, NEW districts, CountsFit(fs, k, districts),
           fs[k + 1].plan \in Assignments, ObservedDistricts(fs[k + 1].plan) = districts
    PROVE  CountsFit(fs, k + 1, districts)
<1> DEFINE hashes == AssignmentHashes(fs[k + 1].plan)
           before == Seen(fs, k)
           c == Cardinality(districts)
<1>1. Seen(fs, k + 1) = before \cup {hashes}
    BY SeenGrows
<1>2. UNION Seen(fs, k + 1) = (UNION before) \cup hashes
    BY <1>1
<1>3. IsFiniteSet(before) /\ IsFiniteSet(UNION before)
    BY SeenIsFinite
<1>4. IsFiniteSet(hashes) /\ Cardinality(hashes) = c /\ c \in Nat
    BY HashPerDistrict
<1> HIDE DEF hashes, before, c
<1>5. Cardinality(Seen(fs, k + 1)) \in 1 .. k + 1
    <2>1. Cardinality(before) \in 1 .. k
        BY DEF CountsFit, before
    <2>2. Cardinality(before \cup {hashes})
              = IF hashes \in before THEN Cardinality(before) ELSE Cardinality(before) + 1
        BY <1>3, FS_AddElement
    <2>3. QED
        BY <1>1, <2>1, <2>2
<1>6. Cardinality(UNION Seen(fs, k + 1)) \in c .. (k + 1) * c
    <2>1. Cardinality(UNION before) \in c .. k * c
        BY DEF CountsFit, before, c
    <2>2. /\ IsFiniteSet((UNION before) \cup hashes)
          /\ Cardinality((UNION before) \cup hashes)
                 = Cardinality(UNION before) + Cardinality(hashes)
                       - Cardinality((UNION before) \cap hashes)
        BY <1>3, <1>4, FS_Union
    <2>3. Cardinality((UNION before) \cap hashes) \in Nat
        BY <1>3, FS_Subset, FS_CardinalityType
    <2>4. Cardinality((UNION before) \cap hashes) <= Cardinality(UNION before)
          /\ Cardinality((UNION before) \cap hashes) <= Cardinality(hashes)
        BY <1>3, <1>4, FS_Subset
    <2>5. k * c \in Nat /\ (k + 1) * c = k * c + c
        BY <1>4
    <2> DEFINE u == Cardinality(UNION before)
               both == Cardinality((UNION before) \cap hashes)
    <2>6. Cardinality(UNION Seen(fs, k + 1)) = u + c - both
        BY <1>2, <1>4, <2>2
    <2>7. u \in c .. k * c /\ both \in Nat /\ both <= u /\ both <= c
        BY <1>4, <2>1, <2>3, <2>4
    <2> HIDE DEF u, both
    <2>8. QED
        BY <1>4, <2>5, <2>6, <2>7
<1>7. \A i \in 1 .. k + 1 : ObservedDistricts(fs[i].plan) = districts
    <2>1. \A i \in 1 .. k + 1 : i \in 1 .. k \/ i = k + 1
        OBVIOUS
    <2>2. QED
        BY <2>1 DEF CountsFit
<1>8. QED
    BY <1>5, <1>6, <1>7 DEF CountsFit, c

(***************************************************************************)
(* The invariant of the run                                                *)
(***************************************************************************)

\* A row of the stream as the writer takes it.
RowOf(row) ==
    [sample_offset |-> row.sample_offset, repetitions |-> row.repetitions,
     accepted_index |-> row.accepted_index, districts |-> DOMAIN row.metrics.tally]

RowsEmitted == [i \in 1 .. Len(rows) |-> RowOf(rows[i])]

\* The counts of the writer are those of the stream, and finish will find the
\* unique counts plausible.
InStep ==
    /\ ~failed["run"]
    /\ wSamples["run"] = samples
    /\ wAccepted["run"] = accepted
    /\ accepted = 0 => wDistricts["run"] = None
    /\ accepted # 0 => CountsFit(frames, accepted, wDistricts["run"])

\* While the stream goes on, while the run is finished, and once it is there.
Streaming == phase["run"] = "open" /\ pc # "failed"
Storing == phase["run"] \in Run!Finishing \ {"parent"}
Ended == phase["run"] \in Run!Finishing \/ dest # << >>

\* The writer is opened before the first frame is read, with no districts yet.
OpensFirst ==
    phase["run"] = "absent" => pc = "read" /\ accepted = 0 /\ wDistricts["run"] = None

\* From then on writer and stream have the same counts.
StaysInStep == Streaming \/ Ended => InStep

\* The writer is finished once the stream has been delivered.
EndsWhenDone == Ended => pc = "done"

\* Each table holds the rows emitted so far.
HoldsRows ==
    Streaming \/ Storing => \A t \in Tables : Run!Held("run", t) = RowsEmitted

HasSummary(s) == \E tracked \in BOOLEAN : s = Summarised(tracked)

\* The summary handed to finish is the stream's, and so is the manifest's.
CarriesSummary ==
    /\ Storing => HasSummary(expected["run"])
    /\ phase["run"] \in {"temp", "publish"} =>
          temp["run"].manifest.summary = expected["run"]

\* What lies at the output path is what the stream has delivered.
PublishedAsDelivered ==
    dest # << >> =>
        /\ HasSummary(dest.manifest.summary)
        /\ \A t \in Tables : dest.tables[t].rows = RowsEmitted

RunInv ==
    /\ phase["run"] # "killed"
    /\ OpensFirst
    /\ StaysInStep
    /\ EndsWhenDone
    /\ HoldsRows
    /\ CarriesSummary
    /\ PublishedAsDelivered

\* What is known in every state of a run.
RunKnown == StreamKnown /\ Run!IInv /\ RunInv

\* Nothing is published before the rename.
LEMMA NothingYet ==
    ASSUME RunKnown, phase["run"] \notin {"parent", "closed"}
    PROVE  dest = << >>
BY DEF RunKnown, RunInv, Run!IInv, Run!DestinationInv, Run!NoDirectory

LEMMA RunTypes ==
    ASSUME RunKnown
    PROVE  /\ phase \in [{"run"} -> Run!Phases]
           /\ failed \in [{"run"} -> BOOLEAN]
           /\ wSamples \in [{"run"} -> Nat] /\ wAccepted \in [{"run"} -> Nat]
           /\ wDistricts \in [{"run"} -> (SUBSET Labels) \cup {None}]
           /\ DOMAIN expected = {"run"} /\ DOMAIN temp = {"run"}
           /\ buffer \in [{"run"} -> [Tables -> Seq(Run!Row)]]
BY DEF RunKnown, Run!IInv, Run!Types, Run!TypeOK

\* What was counted stays counted when more is read.
LEMMA CountsFitStay ==
    ASSUME NEW fs, NEW gs, NEW k, NEW districts, CountsFit(fs, k, districts),
           \A i \in 1 .. k : gs[i] = fs[i]
    PROVE  CountsFit(gs, k, districts)
<1>1. Seen(gs, k) = Seen(fs, k)
    BY DEF Seen
<1>2. QED
    BY <1>1 DEF CountsFit

\* A step that the stream sits out.
LEMMA StreamWaits ==
    ASSUME UNCHANGED vars
    PROVE  /\ UNCHANGED <<limit, frames, rows, samples, accepted, pc, summary>>
           /\ RowsEmitted' = RowsEmitted
           /\ \A s : HasSummary(s)' <=> HasSummary(s)
<1>1. UNCHANGED <<limit, frames, rows, samples, accepted, pc, summary>>
    BY DEF vars
<1>2. QED
    BY <1>1 DEF RowsEmitted, HasSummary, Summarised

LEMMA StepStays ==
    ASSUME InStep, UNCHANGED <<frames, samples, accepted>>,
           UNCHANGED <<wSamples, wAccepted, wDistricts, failed>>
    PROVE  InStep'
BY DEF InStep, CountsFit, Seen

(***************************************************************************)
(* The steps                                                               *)
(***************************************************************************)

LEMMA RunStarts == RunInit => Run!IInv /\ RunInv
<1> SUFFICES ASSUME RunInit PROVE Run!IInv /\ RunInv
    OBVIOUS
<1>1. Run!Init
    BY OpensAlike DEF RunInit
<1>2. Run!IInv
    BY <1>1, RunAssumed, Run!InitKeeps
<1>3. phase["run"] = "absent" /\ dest = << >> /\ wDistricts["run"] = None
    BY <1>1 DEF Run!Init, Run!NoDirectory
<1>4. pc = "read" /\ accepted = 0
    BY DEF RunInit, Init
<1>5. RunInv
    BY <1>3, <1>4 DEF RunInv, OpensFirst, StaysInStep, EndsWhenDone, HoldsRows, CarriesSummary,
                      PublishedAsDelivered, Streaming, Storing, Ended, Run!Finishing
<1>6. QED
    BY <1>2, <1>5

LEMMA OpenRunKeeps ==
    ASSUME RunKnown, OpenRun
    PROVE  Run!IInv' /\ RunInv'
<1>1. UNCHANGED vars /\ (Run!Open("run") \/ Run!OpenFails("run"))
    BY OpensAlike DEF OpenRun
<1>2. Run!IInv'
    <2>1. Run!OpenFails("run") => Run!Close("run", "error") /\ phase["run"] # "closed"
        BY DEF Run!OpenFails
    <2>2. QED
        BY <1>1, <2>1, RunAssumed, Run!OpenKeeps, Run!CloseKeeps DEF RunKnown
<1>3. phase["run"] = "absent" /\ dest = << >>
    <2>1. phase["run"] = "absent"
        BY <1>1 DEF Run!Open, Run!OpenFails
    <2>2. QED
        BY <2>1, NothingYet
<1>4. /\ dest' = << >>
      /\ \/ phase'["run"] = "closed"
         \/ /\ phase'["run"] = "open" /\ temp' = [temp EXCEPT !["run"] = Run!EmptyDirectory]
            /\ UNCHANGED <<wSamples, wAccepted, wDistricts, failed, buffer>>
    BY <1>1, <1>3, RunTypes DEF Run!Open, Run!OpenFails, Run!Close, Run!NoDirectory
<1>5. CASE phase'["run"] = "closed"
    BY <1>2, <1>4, <1>5 DEF RunInv, OpensFirst, StaysInStep, EndsWhenDone, HoldsRows, CarriesSummary,
                      PublishedAsDelivered, Streaming, Storing, Ended, Run!Finishing
<1>6. CASE phase'["run"] # "closed"
    <2>1. /\ phase'["run"] = "open" /\ temp'["run"] = Run!EmptyDirectory
          /\ UNCHANGED <<wSamples, wAccepted, wDistricts, failed, buffer>>
        BY <1>4, <1>6, RunTypes
    <2>2. /\ accepted = 0 /\ wDistricts["run"] = None /\ wSamples["run"] = 0
          /\ wAccepted["run"] = 0 /\ ~failed["run"]
          /\ \A t \in Tables : buffer["run"][t] = << >>
        BY <1>3 DEF RunKnown, RunInv, OpensFirst, Run!IInv, Run!WriterInv, Run!AbsentIsNew
    <2>3. samples = 0 /\ Len(rows) = 0 /\ rows = << >>
        <3>1. /\ samples = SamplesOf(limit, frames, 0) /\ limit \in Bounds
              /\ frames \in Seq(Decoded) /\ rows \in Seq(EmittedRow) /\ Len(rows) = 0
            BY <2>2 DEF RunKnown, StreamKnown, StreamInv
        <3>2. QED
            BY <3>1, SamplesAddUp
    <2>4. InStep'
        BY <1>1, <2>1, <2>2, <2>3, StreamWaits DEF InStep
    <2>5. \A t \in Tables : Run!Held("run", t)' = RowsEmitted'
        <3>1. \A t \in Tables : Run!Held("run", t)' = << >> \o << >>
            BY <2>1, <2>2 DEF Run!Held, Run!EmptyDirectory, Run!UnwrittenFile
        <3>2. << >> \o << >> = << >>
            BY EmptySeq, ConcatEmptySeq
        <3>3. RowsEmitted = << >>
            BY <2>3 DEF RowsEmitted
        <3>4. QED
            BY <1>1, <3>1, <3>2, <3>3, StreamWaits
    <2>6. QED
        BY <1>2, <1>4, <2>1, <2>4, <2>5
           DEF RunInv, OpensFirst, StaysInStep, EndsWhenDone, HoldsRows, CarriesSummary,
               PublishedAsDelivered, Storing, Ended, Run!Finishing
<1>7. QED
    BY <1>2, <1>5, <1>6

\* While it reads, the stream changes nothing that the writer is concerned with.
LEMMA ReadFrameKeeps ==
    ASSUME RunKnown, ReadFrame
    PROVE  Run!IInv' /\ RunInv'
<1>1. phase["run"] = "open" /\ UNCHANGED writerState
    BY DEF ReadFrame
<1>2. Run!IInv'
    <2>1. UNCHANGED Run!vars
        BY <1>1 DEF writerState, Run!vars, Run!writerVars
    <2>2. QED
        BY <2>1, RunAssumed, Run!NextKeeps DEF RunKnown
<1>3. /\ pc = "read" /\ UNCHANGED <<rows, samples, accepted>>
      /\ frames' = frames \/ \E frame : frames' = Append(frames, frame)
    BY DEF ReadFrame, ReadSnapshot, ReadDelta, ReadPlan, ReadIndependent, ReadFails, StopReading,
           Reading, Accept, Fail
<1>4. \A i \in 1 .. accepted : frames'[i] = frames[i]
    <2>1. frames \in Seq(Decoded) /\ accepted \in 0 .. Len(frames)
        BY DEF RunKnown, StreamKnown, StreamInv
    <2>2. QED
        BY <1>3, <2>1
<1>5. InStep'
    <2>1. InStep
        BY <1>1, <1>3 DEF RunKnown, RunInv, StaysInStep, Streaming
    <2>2. accepted # 0 => CountsFit(frames', accepted, wDistricts["run"])
        BY <1>4, <2>1, CountsFitStay DEF InStep
    <2>3. QED
        BY <1>1, <1>3, <2>1, <2>2 DEF InStep, writerState
<1>6. \A t \in Tables : Run!Held("run", t)' = RowsEmitted'
    <2>1. \A t \in Tables : Run!Held("run", t) = RowsEmitted
        BY <1>1, <1>3 DEF RunKnown, RunInv, HoldsRows, Streaming
    <2>2. QED
        BY <1>1, <1>3, <2>1 DEF RowsEmitted, writerState, Run!Held
<1>7. dest' = << >> /\ phase'["run"] = "open"
    BY <1>1, NothingYet DEF writerState
<1>8. RunInv'
    BY <1>5, <1>6, <1>7
       DEF RunInv, OpensFirst, StaysInStep, EndsWhenDone, HoldsRows, CarriesSummary,
           PublishedAsDelivered, Storing, Ended, Run!Finishing
<1>9. QED
    BY <1>2, <1>8

\* The writer accepts the next row unless its plan uses other districts.
LEMMA NextRowIsNext ==
    ASSUME RunKnown, Streaming, Emitting
    PROVE  /\ NextRow \in Run!Row
           /\ wDistricts["run"] \in {None, ObservedDistricts(NextPlan)}
                  => Run!Acceptable("run", NextRow)
<1>1. /\ accepted \in Nat /\ NextPlan \in Assignments
      /\ NextRow = [sample_offset |-> samples, repetitions |-> SamplesAt(accepted),
                    accepted_index |-> accepted, districts |-> ObservedDistricts(NextPlan)]
      /\ SamplesAt(accepted) \in Nat \ {0}
    BY NextIsScored, SamplesAreTaken DEF RunKnown, StreamKnown, DeliveryInv
<1>2. ObservedDistricts(NextPlan) \in SUBSET Labels
    BY <1>1 DEF ObservedDistricts, Assignments
<1>3. wSamples["run"] = samples /\ wAccepted["run"] = accepted /\ ~failed["run"]
    BY DEF RunKnown, RunInv, StaysInStep, InStep
<1>4. samples \in Nat
    BY <1>3, RunTypes
<1>5. NextRow \in Run!Row
    BY <1>1, <1>2, <1>4 DEF Run!Row
<1>6. QED
    BY <1>1, <1>3, <1>5 DEF Run!Acceptable

\* The callback takes the row that the stream emits.
LEMMA PushRowKeeps ==
    ASSUME RunKnown, PushRow
    PROVE  Run!IInv' /\ RunInv'
<1>1. /\ Emitting /\ Streaming
      /\ Run!Push("run", NextRow) /\ Run!Offer("run") /\ Run!Acceptable("run", NextRow)
    BY PushesAlike DEF PushRow, EmitIncremental, EmitFromBatch, Emitting, Streaming,
                       Run!Push, Run!Offer
<1>2. Run!IInv'
    BY <1>1, RunAssumed, NextRowIsNext, Run!PushKeeps DEF RunKnown
<1>3. /\ accepted \in Nat /\ accepted < Len(frames) /\ NextPlan \in Assignments
      /\ NextRow = [sample_offset |-> samples, repetitions |-> SamplesAt(accepted),
                    accepted_index |-> accepted, districts |-> ObservedDistricts(NextPlan)]
    BY <1>1, NextIsScored DEF RunKnown
<1>4. /\ rows' = Append(rows, [sample_offset |-> samples, repetitions |-> NextRow.repetitions,
                               accepted_index |-> accepted, metrics |-> NextMetrics])
      /\ samples' = samples + NextRow.repetitions /\ accepted' = accepted + 1
      /\ frames' = frames
    BY DEF PushRow, EmitIncremental, EmitFromBatch, EmitRow, NextRow, NextMetrics
<1>5. /\ phase'["run"] = "open" /\ dest' = << >>
      /\ wSamples'["run"] = wSamples["run"] + NextRow.repetitions
      /\ wAccepted'["run"] = wAccepted["run"] + 1
      /\ wDistricts'["run"] = ObservedDistricts(NextPlan)
      /\ wDistricts["run"] \in {None, ObservedDistricts(NextPlan)}
      /\ failed' = failed
    BY <1>1, <1>3, RunTypes, NothingYet DEF Run!Push, Run!Offer, Run!Acceptable, Streaming
<1>6. InStep
    BY <1>1 DEF RunKnown, RunInv, StaysInStep
<1>7. CountsFit(frames', accepted', wDistricts'["run"])
    <2>1. CASE accepted = 0
        <3>1. NextPlan = frames[1].plan
            BY <2>1 DEF NextPlan
        <3>2. QED
            BY <1>3, <1>4, <1>5, <2>1, <3>1, CountsFitFirst
    <2>2. CASE accepted # 0
        <3>1. CountsFit(frames, accepted, wDistricts["run"]) /\ 1 \in 1 .. accepted
            BY <1>3, <1>6, <2>2 DEF InStep
        <3>2. wDistricts["run"] = ObservedDistricts(frames[1].plan)
            BY <3>1 DEF CountsFit
        <3>3. frames[1].plan \in Assignments
            <4>1. frames \in Seq(Decoded) /\ 1 \in 1 .. Len(frames)
                BY <1>3, <2>2 DEF RunKnown, StreamKnown, StreamInv
            <4>2. frames[1] \in Decoded
                BY <4>1
            <4>3. QED
                BY <4>2 DEF Decoded
        <3>4. ObservedDistricts(frames[1].plan) \in SUBSET Labels
            BY <3>3 DEF ObservedDistricts, Assignments
        <3>5. wDistricts["run"] # None
            BY <3>2, <3>4, RunAssumption
        <3>6. ObservedDistricts(frames[accepted + 1].plan) = wDistricts["run"]
            BY <1>5, <3>5 DEF NextPlan
        <3>7. accepted \in Nat \ {0} /\ frames[accepted + 1].plan \in Assignments
            BY <1>3, <2>2 DEF NextPlan
        <3>8. CountsFit(frames, accepted + 1, wDistricts["run"])
            BY <3>1, <3>6, <3>7, CountsFitMore
        <3>9. QED
            BY <1>4, <1>5, <3>6, <3>8 DEF NextPlan
    <2>3. QED
        BY <2>1, <2>2
<1>8. InStep'
    BY <1>3, <1>4, <1>5, <1>6, <1>7 DEF InStep
<1>9. RowsEmitted' = Append(RowsEmitted, NextRow)
    <2> DEFINE row == [sample_offset |-> samples, repetitions |-> NextRow.repetitions,
                       accepted_index |-> accepted, metrics |-> NextMetrics]
    <2>1. RowOf(row) = NextRow
        BY DEF RowOf, NextRow
    <2> HIDE DEF row
    <2>2. rows \in Seq(EmittedRow) /\ rows' = Append(rows, row)
        BY <1>4 DEF RunKnown, StreamKnown, StreamInv, row
    <2>3. /\ Len(rows) \in Nat /\ Len(rows') = Len(rows) + 1 /\ rows'[Len(rows) + 1] = row
          /\ \A i \in 1 .. Len(rows) : rows'[i] = rows[i]
        BY <2>2
    <2>4. QED
        BY <2>1, <2>3 DEF RowsEmitted
<1>10. \A t \in Tables : Run!Held("run", t)' = RowsEmitted'
    <2>1. \A t \in Tables : Run!Held("run", t) = RowsEmitted
        BY <1>1 DEF RunKnown, RunInv, HoldsRows
    <2>2. \A t \in Tables : Run!Held("run", t)' = Append(Run!Held("run", t), NextRow)
        <3>1. /\ Run!Types /\ phase["run"] = "open" /\ Run!HasDirectory("run")
              /\ NextRow \in Run!Row /\ Run!PushTo("run", Tables, NextRow)
            BY <1>1, NextRowIsNext
               DEF RunKnown, Run!IInv, Run!WriterInv, Streaming, Run!Push
        <3>2. QED
            BY <3>1, RunAssumed, Run!PushToAppends
    <2>3. QED
        BY <1>9, <2>1, <2>2
<1>11. accepted' # 0
    BY <1>3, <1>4
<1>12. RunInv'
    BY <1>5, <1>8, <1>10
       DEF RunInv, OpensFirst, StaysInStep, EndsWhenDone, HoldsRows, CarriesSummary,
           PublishedAsDelivered, Storing, Ended, Run!Finishing
<1>13. QED
    BY <1>2, <1>12

\* Once the callback has failed, nothing holds the writer and the stream together
\* any more, and nothing is published.
LEMMA CallbackFailsKeeps ==
    ASSUME RunKnown, CallbackFails
    PROVE  Run!IInv' /\ RunInv'
<1>1. /\ Emitting /\ pc # "failed" /\ pc' = "failed"
      /\ \/ Run!PushRejected("run", NextRow)
         \/ \E reached \in SUBSET Tables : Run!PushFailsMidway("run", NextRow, reached)
         \/ Run!Push("run", NextRow)
    BY PushesAlike DEF CallbackFails, EmitFails, Fail, Emitting
<1>2. phase["run"] = "open" /\ phase' = phase /\ dest' = dest
    BY <1>1 DEF Run!PushRejected, Run!PushFailsMidway, Run!Push, Run!Offer
<1>3. NextRow \in Run!Row
    BY <1>1, <1>2, NextRowIsNext DEF Streaming
<1>4. Run!IInv'
    BY <1>1, <1>3, RunAssumed, Run!PushRejectedKeeps, Run!PushFailsMidwayKeeps, Run!PushKeeps
       DEF RunKnown
<1>5. dest' = << >> /\ phase'["run"] = "open"
    BY <1>2, NothingYet
<1>6. RunInv'
    BY <1>1, <1>5
       DEF RunInv, OpensFirst, StaysInStep, EndsWhenDone, HoldsRows, CarriesSummary,
           PublishedAsDelivered, Streaming, Storing, Ended, Run!Finishing
<1>7. QED
    BY <1>4, <1>6

LEMMA RunAbandonedKeeps ==
    ASSUME RunKnown, RunAbandoned
    PROVE  Run!IInv' /\ RunInv'
<1>1. phase["run"] = "open" /\ Run!Close("run", "dropped")
    BY OpensAlike DEF RunAbandoned, Run!Drop
<1>2. Run!IInv'
    BY <1>1, RunAssumed, Run!CloseKeeps DEF RunKnown
<1>3. dest' = << >> /\ phase'["run"] = "closed"
    BY <1>1, NothingYet, RunTypes DEF Run!Close
<1>4. RunInv'
    BY <1>3
       DEF RunInv, OpensFirst, StaysInStep, EndsWhenDone, HoldsRows, CarriesSummary,
           PublishedAsDelivered, Streaming, Storing, Ended, Run!Finishing
<1>5. QED
    BY <1>2, <1>4

(***************************************************************************)
(* The end of a run                                                        *)
(***************************************************************************)

\* The summary of a stream that is done.
LEMMA SummaryOfAll ==
    ASSUME StreamKnown, pc = "done"
    PROVE  /\ accepted = Len(frames) /\ accepted \in Nat
           /\ summary = [samples |-> samples, accepted |-> accepted,
                         unique_plans |-> Cardinality(Seen(frames, accepted)),
                         unique_districts |-> Cardinality(UNION Seen(frames, accepted))]
<1>1. /\ accepted = Len(frames) /\ accepted \in Nat /\ DOMAIN frames = 1 .. Len(frames)
      /\ samples = SamplesOf(limit, frames, accepted)
      /\ summary = Reference!Summary(limit, frames)
    <2>1. frames \in Seq(Decoded)
        BY DEF StreamKnown, StreamInv
    <2>2. QED
        BY <2>1 DEF StreamKnown, StreamInv, DeliveryInv, Delivered
<1>2. {Reference!AssignmentHashes(frames[i].plan) : i \in DOMAIN frames} = Seen(frames, accepted)
    BY <1>1, ReferenceScores DEF Seen
<1>3. QED
    BY <1>1, <1>2 DEF Reference!Summary, SamplesOf, Reference!Cardinality, Cardinality

LEMMA SummaryParts ==
    ASSUME StreamKnown, pc = "done", NEW tracked \in BOOLEAN
    PROVE  LET s == Summarised(tracked)
           IN /\ s.samples = samples /\ s.accepted = accepted
              /\ tracked => /\ s.unique_plans = Cardinality(Seen(frames, accepted))
                            /\ s.unique_districts = Cardinality(UNION Seen(frames, accepted))
              /\ ~tracked => s.unique_plans = None /\ s.unique_districts = None
<1>1. PICK plans, units : summary = [samples |-> samples, accepted |-> accepted,
                                     unique_plans |-> plans, unique_districts |-> units]
                          /\ plans = Cardinality(Seen(frames, accepted))
                          /\ units = Cardinality(UNION Seen(frames, accepted))
    BY SummaryOfAll
<1>2. QED
    BY <1>1 DEF Summarised

\* The summary is one that finish accepts.
LEMMA SummaryIsPlausible ==
    ASSUME StreamKnown, InStep, pc = "done", NEW tracked \in BOOLEAN
    PROVE  Run!Finishable("run", Summarised(tracked))
<1> DEFINE s == Summarised(tracked)
           plans == Cardinality(Seen(frames, accepted))
           units == Cardinality(UNION Seen(frames, accepted))
           c == Cardinality(wDistricts["run"])
<1>1. /\ s.samples = samples /\ s.accepted = accepted /\ accepted \in Nat
      /\ tracked => s.unique_plans = plans /\ s.unique_districts = units
      /\ ~tracked => s.unique_plans = None /\ s.unique_districts = None
    BY SummaryParts, SummaryOfAll
<1>2. accepted = 0 => plans = 0 /\ units = 0
    <2>1. Seen(frames, 0) = {} /\ UNION {} = {}
        BY DEF Seen
    <2>2. QED
        BY <2>1, FS_EmptySet
<1>3. accepted # 0 => plans \in 1 .. accepted /\ units \in c .. accepted * c
    BY DEF InStep, CountsFit
<1>4. plans \in Nat /\ units \in Nat
    BY SeenIsFinite, FS_CardinalityType
<1> HIDE DEF s, plans, units
<1>5. Run!PlausibleUniqueness("run", s)
    <2>1. CASE tracked
        <3>1. s.unique_plans # None /\ s.unique_districts # None
            BY <1>1, <1>4, <2>1, RunAssumption
        <3>2. QED
            BY <1>1, <1>2, <1>3, <2>1, <3>1
               DEF Run!PlausibleUniqueness, Run!Cardinality, Cardinality
    <2>2. CASE ~tracked
        BY <1>1, <2>2 DEF Run!PlausibleUniqueness
    <2>3. QED
        BY <2>1, <2>2
<1>6. QED
    BY <1>1, <1>5 DEF Run!Finishable, InStep, s

LEMMA FinishRunKeeps ==
    ASSUME RunKnown, FinishRun
    PROVE  Run!IInv' /\ RunInv'
<1>1. PICK tracked \in BOOLEAN : Run!Finish("run", Summarised(tracked))
    BY FinishesAlike DEF FinishRun
<1>2. UNCHANGED vars /\ pc = "done" /\ phase["run"] = "open"
    BY <1>1 DEF FinishRun, Run!Finish
<1>3. Run!IInv'
    BY <1>1, RunAssumed, Run!FinishKeeps DEF RunKnown
<1>4. InStep /\ \A t \in Tables : Run!Held("run", t) = RowsEmitted
    BY <1>2 DEF RunKnown, RunInv, StaysInStep, HoldsRows, Streaming
<1>5. Run!Finishable("run", Summarised(tracked))
    BY <1>2, <1>4, SummaryIsPlausible DEF RunKnown
<1>6. /\ phase'["run"] = "tables" /\ expected'["run"] = Summarised(tracked)
      /\ UNCHANGED <<wSamples, wAccepted, wDistricts, failed, buffer, temp, dest>>
    BY <1>1, <1>5, RunTypes DEF Run!Finish
<1>7. InStep' /\ \A t \in Tables : Run!Held("run", t)' = RowsEmitted'
    BY <1>2, <1>4, <1>6, StreamWaits, StepStays DEF Run!Held
<1>8. HasSummary(expected["run"])'
    BY <1>2, <1>6, StreamWaits DEF HasSummary
<1>9. dest' = << >> /\ pc' = "done"
    BY <1>2, <1>6, NothingYet, StreamWaits
<1>10. RunInv'
    BY <1>6, <1>7, <1>8, <1>9
       DEF RunInv, OpensFirst, StaysInStep, EndsWhenDone, HoldsRows, CarriesSummary,
           PublishedAsDelivered, Streaming, Storing, Ended
<1>11. QED
    BY <1>3, <1>10

\* A step of finish that keeps the rows and the summary.
LEMMA StageCarries ==
    ASSUME RunKnown, UNCHANGED vars, Storing, phase'["run"] \in Run!Finishing \ {"parent"},
           UNCHANGED <<wSamples, wAccepted, wDistricts, failed, expected, dest>>,
           \A t \in Tables : Run!Held("run", t)' = Run!Held("run", t),
           phase'["run"] \in {"temp", "publish"} =>
               temp'["run"].manifest.summary = expected["run"]
    PROVE  RunInv'
<1>1. /\ pc = "done" /\ InStep /\ HasSummary(expected["run"])
      /\ \A t \in Tables : Run!Held("run", t) = RowsEmitted
    BY DEF RunKnown, RunInv, EndsWhenDone, StaysInStep, CarriesSummary, HoldsRows, Storing, Ended
<1>2. dest' = << >>
    BY NothingYet DEF Storing, Run!Finishing
<1>3. /\ InStep' /\ pc' = "done" /\ HasSummary(expected["run"])'
      /\ \A t \in Tables : Run!Held("run", t)' = RowsEmitted'
    BY <1>1, StreamWaits, StepStays DEF HasSummary
<1>4. QED
    BY <1>2, <1>3
       DEF RunInv, OpensFirst, StaysInStep, EndsWhenDone, HoldsRows, CarriesSummary,
           PublishedAsDelivered, Streaming, Storing, Ended, Run!Finishing

LEMMA FinishTablesCarries ==
    ASSUME RunKnown, UNCHANGED vars, Run!FinishTables("run")
    PROVE  Run!IInv' /\ RunInv'
<1>1. Run!IInv'
    BY RunAssumed, Run!FinishTablesKeeps DEF RunKnown
<1>2. /\ phase["run"] = "tables" /\ phase'["run"] = "directories"
      /\ buffer' = [buffer EXCEPT !["run"] = [t \in Tables |-> << >>]]
      /\ temp' = [temp EXCEPT !["run"].tables =
                     [t \in Tables |-> [Run!Extended(@[t], buffer["run"][t]) EXCEPT
                                          !.closed = TRUE, !.synced = TRUE]]]
      /\ UNCHANGED <<wSamples, wAccepted, wDistricts, failed, expected, dest>>
    BY RunTypes DEF Run!FinishTables, Run!Advance
<1>3. /\ DOMAIN temp["run"] = {"tables", "manifest"}
      /\ temp["run"].tables \in [Tables -> Run!File]
    BY <1>2 DEF RunKnown, Run!IInv, Run!WriterInv, Run!HasDirectory, Run!AtWork, Run!Live,
                Run!Finishing
<1>4. ASSUME NEW t \in Tables
      PROVE  Run!Held("run", t)' = Run!Held("run", t)
    <2>1. temp["run"].tables[t] \in Run!File /\ buffer["run"][t] \in Seq(Run!Row)
        BY <1>3, RunTypes
    <2>2. PICK file \in Run!File :
             /\ file = Run!Extended(temp["run"].tables[t], buffer["run"][t])
             /\ file.rows = Run!Held("run", t)
        BY <2>1, RunAssumed, Run!ExtendedFile DEF Run!Held
    <2>3. temp'["run"].tables[t] = [file EXCEPT !.closed = TRUE, !.synced = TRUE]
        BY <1>2, <1>3, <2>2, RunTypes
    <2>4. temp'["run"].tables[t].rows = Run!Held("run", t) /\ buffer'["run"][t] = << >>
        BY <1>2, <2>2, <2>3, RunTypes DEF Run!File
    <2>5. Run!Held("run", t) \in Seq(Run!Row)
        BY <2>2 DEF Run!File
    <2>6. Run!Held("run", t) \o << >> = Run!Held("run", t)
        BY <2>5, ConcatEmptySeq
    <2>7. QED
        BY <2>4, <2>6 DEF Run!Held
<1>5. RunInv'
    BY <1>2, <1>4, StageCarries DEF Storing, Run!Finishing
<1>6. QED
    BY <1>1, <1>5

\* The later stages mark files and write the manifest.
LEMMA StagesCarry ==
    ASSUME RunKnown, UNCHANGED vars,
           \/ Run!SyncDirectories("run") \/ Run!WriteManifest("run") \/ Run!SyncTemp("run")
    PROVE  Run!IInv' /\ RunInv'
<1>1. Run!IInv'
    BY RunAssumed, Run!SyncDirectoriesKeeps, Run!WriteManifestKeeps, Run!SyncTempKeeps
       DEF RunKnown
<1>2. /\ phase["run"] \in Run!StoredPhases
      /\ UNCHANGED <<wSamples, wAccepted, wDistricts, failed, expected, buffer, dest>>
      /\ \/ phase'["run"] = "manifest" /\ Run!SyncDirectories("run")
         \/ phase'["run"] = "temp" /\ Run!WriteManifest("run")
         \/ phase'["run"] = "publish" /\ Run!SyncTemp("run") /\ phase["run"] = "temp"
    BY RunTypes DEF Run!SyncDirectories, Run!WriteManifest, Run!SyncTemp, Run!Advance,
                    Run!StoredPhases
<1>3. /\ DOMAIN temp["run"] = {"tables", "manifest"}
      /\ temp["run"].tables \in [Tables -> Run!File]
    BY <1>2 DEF RunKnown, Run!IInv, Run!WriterInv, Run!HasDirectory, Run!AtWork, Run!Live,
                Run!Finishing, Run!StoredPhases
<1>4. /\ \A t \in Tables : temp'["run"].tables[t].rows = temp["run"].tables[t].rows
      /\ phase'["run"] \in {"temp", "publish"} =>
            temp'["run"].manifest.summary = expected["run"]
    <2>1. CASE Run!SyncDirectories("run")
        <3>1. temp'["run"].tables = Run!Linked(temp["run"].tables, Nested)
            BY <1>3, <2>1, RunTypes DEF Run!SyncDirectories
        <3>2. phase'["run"] = "manifest"
            BY <2>1, RunTypes DEF Run!SyncDirectories, Run!Advance
        <3>3. QED
            BY <1>3, <3>1, <3>2 DEF Run!Linked, Run!File
    <2>2. CASE Run!WriteManifest("run")
        BY <1>3, <2>2, RunTypes DEF Run!WriteManifest
    <2>3. CASE Run!SyncTemp("run")
        <3>1. /\ phase["run"] = "temp"
              /\ DOMAIN temp["run"].manifest = {"summary", "districts", "checksums", "synced",
                                                "linked"}
            BY <2>3 DEF Run!SyncTemp, Run!Advance, RunKnown, Run!IInv, Run!WriterInv,
                        Run!IsDescribed, Run!Describes, Run!DescribedPhases
        <3>2. /\ temp'["run"].tables = Run!Linked(temp["run"].tables, Tables \ Nested)
              /\ temp'["run"].manifest = [temp["run"].manifest EXCEPT !.linked = TRUE]
            BY <1>3, <2>3, RunTypes DEF Run!SyncTemp
        <3>3. temp'["run"].manifest.summary = expected["run"]
            BY <3>1, <3>2 DEF RunKnown, RunInv, CarriesSummary
        <3>4. QED
            BY <1>3, <3>2, <3>3 DEF Run!Linked, Run!File
    <2>4. QED
        BY <2>1, <2>2, <2>3
<1>5. \A t \in Tables : Run!Held("run", t)' = Run!Held("run", t)
    BY <1>2, <1>4 DEF Run!Held
<1>6. RunInv'
    BY <1>2, <1>4, <1>5, StageCarries DEF Storing, Run!Finishing, Run!StoredPhases
<1>7. QED
    BY <1>1, <1>6

\* The rename shows what was stored.
LEMMA PublishCarries ==
    ASSUME RunKnown, UNCHANGED vars, Run!Publish("run")
    PROVE  Run!IInv' /\ RunInv'
<1>1. Run!IInv'
    BY RunAssumed, Run!PublishKeeps DEF RunKnown
<1>2. phase["run"] = "publish"
    BY DEF Run!Publish, Run!Advance
<1>3. dest = << >>
    BY <1>2, NothingYet
<1>4. /\ phase'["run"] = "parent"
      /\ dest' = [owner |-> "run", tables |-> temp["run"].tables,
                  manifest |-> temp["run"].manifest]
      /\ UNCHANGED <<wSamples, wAccepted, wDistricts, failed, expected>>
    BY <1>3, RunTypes DEF Run!Publish, Run!Advance, Run!NoDirectory
<1>5. /\ pc = "done" /\ InStep /\ HasSummary(expected["run"])
      /\ temp["run"].manifest.summary = expected["run"]
      /\ \A t \in Tables : Run!Held("run", t) = RowsEmitted
    BY <1>2 DEF RunKnown, RunInv, EndsWhenDone, StaysInStep, CarriesSummary, HoldsRows, Storing,
                Ended, Run!Finishing
<1>6. \A t \in Tables : temp["run"].tables[t].rows = RowsEmitted
    <2> SUFFICES ASSUME NEW t \in Tables
                 PROVE  temp["run"].tables[t].rows = RowsEmitted
        OBVIOUS
    <2>1. /\ buffer["run"][t] = << >>
          /\ temp["run"].tables \in [Tables -> Run!File]
        BY <1>2 DEF RunKnown, Run!IInv, Run!WriterInv, Run!IsStored, Run!HasDirectory,
                    Run!StoredPhases, Run!AtWork, Run!Live, Run!Finishing
    <2>2. temp["run"].tables[t].rows \in Seq(Run!Row)
        <3>1. temp["run"].tables[t] \in Run!File
            BY <2>1
        <3>2. QED
            BY <3>1 DEF Run!File
    <2>3. temp["run"].tables[t].rows \o << >> = temp["run"].tables[t].rows
        BY <2>2, ConcatEmptySeq
    <2>4. QED
        BY <1>5, <2>1, <2>3 DEF Run!Held
<1>7. InStep' /\ pc' = "done" /\ RowsEmitted' = RowsEmitted
    BY <1>4, <1>5, StreamWaits, StepStays
<1>8. HasSummary(dest.manifest.summary)'
    <2>1. dest'.manifest.summary = expected["run"]
        BY <1>4, <1>5
    <2>2. QED
        BY <1>5, <2>1, StreamWaits DEF HasSummary
<1>9. \A t \in Tables : dest'.tables[t].rows = RowsEmitted'
    BY <1>4, <1>6, <1>7
<1>10. RunInv'
    BY <1>4, <1>7, <1>8, <1>9
       DEF RunInv, OpensFirst, StaysInStep, EndsWhenDone, HoldsRows, CarriesSummary,
           PublishedAsDelivered, Streaming, Storing, Ended, Run!Finishing
<1>11. QED
    BY <1>1, <1>10

\* The last step of finish, or a step of it that fails.
LEMMA CloseCarries ==
    ASSUME RunKnown, UNCHANGED vars, Run!SyncParent("run") \/ Run!FinishFails("run")
    PROVE  Run!IInv' /\ RunInv'
<1>1. Run!IInv'
    <2>1. Run!FinishFails("run") => Run!Close("run", "error") /\ phase["run"] # "closed"
        BY DEF Run!FinishFails, Run!Finishing
    <2>2. QED
        BY <2>1, RunAssumed, Run!SyncParentKeeps, Run!CloseKeeps DEF RunKnown
<1>2. /\ phase["run"] \in Run!Finishing /\ phase'["run"] = "closed"
      /\ UNCHANGED <<wSamples, wAccepted, wDistricts, failed, dest>>
    BY RunTypes DEF Run!SyncParent, Run!Advance, Run!FinishFails, Run!Close, Run!Finishing
<1>3. pc = "done" /\ InStep
    BY <1>2 DEF RunKnown, RunInv, EndsWhenDone, StaysInStep, Ended
<1>4. InStep' /\ pc' = "done"
    BY <1>2, <1>3, StreamWaits, StepStays
<1>5. PublishedAsDelivered'
    <2>1. PublishedAsDelivered
        BY DEF RunKnown, RunInv
    <2>2. QED
        BY <1>2, <2>1, StreamWaits DEF PublishedAsDelivered, HasSummary
<1>6. RunInv'
    BY <1>2, <1>4, <1>5
       DEF RunInv, OpensFirst, StaysInStep, EndsWhenDone, HoldsRows, CarriesSummary,
           Streaming, Storing, Ended, Run!Finishing
<1>7. QED
    BY <1>1, <1>6

LEMMA CloseRunKeeps ==
    ASSUME RunKnown, CloseRun
    PROVE  Run!IInv' /\ RunInv'
<1>1. UNCHANGED vars
    BY DEF CloseRun
<1>2. \/ Run!FinishTables("run") \/ Run!SyncDirectories("run") \/ Run!WriteManifest("run")
      \/ Run!SyncTemp("run") \/ Run!Publish("run") \/ Run!SyncParent("run")
      \/ Run!FinishFails("run")
    BY ClosesAlike DEF CloseRun
<1>3. QED
    BY <1>1, <1>2, FinishTablesCarries, StagesCarry, PublishCarries, CloseCarries

LEMMA RunStutters ==
    ASSUME RunKnown, UNCHANGED runVars
    PROVE  Run!IInv' /\ RunInv'
<1>1. UNCHANGED vars /\ UNCHANGED writerState
    BY DEF runVars
<1>2. Run!IInv'
    <2>1. UNCHANGED Run!vars
        BY <1>1 DEF writerState, Run!vars, Run!writerVars
    <2>2. QED
        BY <2>1, RunAssumed, Run!NextKeeps DEF RunKnown
<1>3. UNCHANGED <<phase, wSamples, wAccepted, wDistricts, failed, buffer, expected, temp, dest>>
    BY <1>1 DEF writerState
<1>4. /\ pc' = pc /\ accepted' = accepted /\ RowsEmitted' = RowsEmitted
      /\ \A s : HasSummary(s)' <=> HasSummary(s)
    BY <1>1, StreamWaits
<1>5. InStep => InStep'
    BY <1>1, <1>3, StreamWaits, StepStays
<1>6. /\ StaysInStep' /\ EndsWhenDone' /\ OpensFirst' /\ phase'["run"] # "killed"
    BY <1>3, <1>4, <1>5 DEF RunKnown, RunInv, StaysInStep, EndsWhenDone, OpensFirst, Streaming,
                           Ended
<1>7. HoldsRows'
    BY <1>3, <1>4 DEF RunKnown, RunInv, HoldsRows, Streaming, Storing, Run!Held
<1>8. CarriesSummary' /\ PublishedAsDelivered'
    <2>1. CarriesSummary /\ PublishedAsDelivered
        BY DEF RunKnown, RunInv
    <2>2. \A s : HasSummary(s) => \E tracked \in BOOLEAN : s = Summarised(tracked)'
        BY <1>1 DEF HasSummary, Summarised, vars
    <2>3. QED
        BY <1>3, <1>4, <2>1, <2>2 DEF CarriesSummary, PublishedAsDelivered, Storing, HasSummary
<1>9. QED
    BY <1>2, <1>6, <1>7, <1>8 DEF RunInv

(***************************************************************************)
(* The theorems                                                            *)
(***************************************************************************)

\* To the stream a run is a stream.
LEMMA RunStreams == RunSpec => Spec
<1>1. RunInit => Init
    BY DEF RunInit
<1>2. [RunNext]_runVars => [Next]_vars
    BY DEF RunNext, OpenRun, ReadFrame, PushRow, CallbackFails, RunAbandoned, FinishRun,
           CloseRun, runVars, Next
<1>3. QED
    BY <1>1, <1>2, PTL DEF RunSpec, Spec

LEMMA RunInvariant == RunSpec => []RunKnown
<1>1. RunInit => Run!IInv /\ RunInv
    BY RunStarts
<1>2. RunKnown /\ [RunNext]_runVars => Run!IInv' /\ RunInv'
    BY OpenRunKeeps, ReadFrameKeeps, PushRowKeeps, CallbackFailsKeeps, RunAbandonedKeeps,
       FinishRunKeeps, CloseRunKeeps, RunStutters DEF RunNext
<1>3. RunKnown <=> StreamKnown /\ Run!IInv /\ RunInv
    BY DEF RunKnown
<1>4. QED
    BY <1>1, <1>2, <1>3, RunStreams, StreamIsKnown, PTL DEF RunSpec

\* For every file in every encoding, the writer refuses neither a row whose
\* plan uses the districts of the plans before it nor the summary of the stream.
THEOREM TheWriterRefusesNothing == RunSpec => []WriterRefusesNothing
<1>1. ASSUME RunKnown
      PROVE  RowsAreAcceptable
    <2> SUFFICES ASSUME phase["run"] = "open", pc \in {"emit", "batch", "lastbatch"},
                        wDistricts["run"] \in {None, ObservedDistricts(frames[accepted + 1].plan)}
                 PROVE  MetricsAgree /\ Writer!Acceptable("run", NextRow)
        BY DEF RowsAreAcceptable
    <2>1. Streaming /\ Emitting
        BY DEF Streaming, Emitting
    <2>2. Run!Acceptable("run", NextRow)
        BY <1>1, <2>1, NextRowIsNext DEF NextPlan
    <2>3. MetricsAgree
        BY <1>1, <2>1, NextIsScored DEF RunKnown
    <2>4. QED
        BY <2>2, <2>3, PushesAlike
<1>2. ASSUME RunKnown
      PROVE  SummaryIsAccepted
    <2> SUFFICES ASSUME phase["run"] = "open", pc = "done", NEW tracked \in BOOLEAN
                 PROVE  Writer!Finishable("run", Summarised(tracked))
        BY DEF SummaryIsAccepted
    <2>1. InStep
        BY <1>2 DEF RunKnown, RunInv, StaysInStep, Streaming
    <2>2. Run!Finishable("run", Summarised(tracked))
        BY <1>2, <2>1, SummaryIsPlausible DEF RunKnown
    <2>3. QED
        BY <2>2, FinishesAlike
<1>3. RunKnown => WriterRefusesNothing
    BY <1>1, <1>2 DEF WriterRefusesNothing
<1>4. QED
    BY <1>3, RunInvariant, PTL

\* For every file in every encoding, a run that is published has one row for
\* each plan up to the limit and counts the samples, plans and districts of
\* exactly these.
THEOREM PublishedRunsMatchTheirFile == RunSpec => []PublishedMatchesFile
<1>1. ASSUME RunKnown
      PROVE  PublishedMatchesFile
    <2> SUFFICES ASSUME dest # << >>
                 PROVE  PublishedMatchesFile
        BY DEF PublishedMatchesFile, Writer!NoDirectory
    <2> DEFINE expectedRow(i) ==
                   [sample_offset |-> Reference!Row(limit, frames, i).sample_offset,
                    repetitions |-> Reference!Row(limit, frames, i).repetitions,
                    accepted_index |-> i - 1,
                    districts |-> ObservedDistricts(frames[i].plan)]
    <2>1. /\ pc = "done" /\ HasSummary(dest.manifest.summary)
          /\ \A t \in Tables : dest.tables[t].rows = RowsEmitted
        BY <1>1 DEF RunKnown, RunInv, EndsWhenDone, PublishedAsDelivered, Ended
    <2>2. /\ Len(rows) = Len(frames) /\ summary = Reference!Summary(limit, frames)
          /\ \A i \in 1 .. Len(rows) : rows[i] = Reference!Row(limit, frames, i)
        BY <1>1, <2>1 DEF RunKnown, StreamKnown, DeliveryInv, Delivered
    <2>3. ASSUME NEW i \in 1 .. Len(frames)
          PROVE  RowOf(rows[i]) = expectedRow(i)
        <3>1. rows[i] = Reference!Row(limit, frames, i)
            BY <2>2
        <3>2. /\ Reference!Row(limit, frames, i).accepted_index = i - 1
              /\ Reference!Row(limit, frames, i).metrics = ScoreAssignment(frames[i].plan)
            BY ReferenceScores DEF Reference!Row
        <3>3. DOMAIN ScoreAssignment(frames[i].plan).tally = ObservedDistricts(frames[i].plan)
            BY DEF ScoreAssignment, ScoreTally
        <3>4. QED
            BY <3>1, <3>2, <3>3 DEF RowOf
    <2>4. RowsEmitted = [i \in 1 .. Len(frames) |-> expectedRow(i)]
        <3> HIDE DEF expectedRow
        <3>1. QED
            BY <2>2, <2>3 DEF RowsEmitted
    <2>5. \E tracked \in BOOLEAN : dest.manifest.summary =
             IF tracked THEN Reference!Summary(limit, frames)
             ELSE [Reference!Summary(limit, frames)
                      EXCEPT !.unique_plans = None, !.unique_districts = None]
        BY <2>1, <2>2 DEF HasSummary, Summarised
    <2>6. QED
        BY <2>1, <2>4, <2>5 DEF PublishedMatchesFile
<1>2. QED
    BY <1>1, RunInvariant, PTL

\* Whatever the writer accepts or refuses, and wherever a run fails, what the scorer keeps of the
\* plans is what it would compute of each alone: the three facts above, of a stream in a run.
THEOREM MetricsStayExact == RunSpec => []MetricsAreExact
<1>1. IncrementalExact /\ DistrictMetricsExact /\ RefusesAsFromScratch => MetricsAreExact
    BY DEF MetricsAreExact
<1>2. QED
    BY <1>1, RunStreams, IncrementalStateIsExact, DistrictStatesAreExact, RefusalsAreThoseOfScratch, PTL

\* A run of scorer and writer scores plan by plan: the writer can only end it early.
THEOREM RunsScorePlanByPlan == RunSpec => ScoresPlanByPlan
BY RunStreams, StreamsScorePlanByPlan

=============================================================================

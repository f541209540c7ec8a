---------------------------- MODULE StreamScorer ----------------------------
(***************************************************************************)
(* Scorer::score_stream (rust/src/scoring/stream.rs): one pass over an     *)
(* assignment file.  TwoDelta files hold snapshots and deltas and MkvChain *)
(* files hold plans that are compared with their predecessor; both update  *)
(* one ScorerState from plan to plan.  Standard files are scored plan by   *)
(* plan in parallel batches.                                               *)
(*                                                                         *)
(* The file is chosen frame by frame as it is read; `frames` remembers the *)
(* plans it decodes to.  Wrong lengths, zero repetition counts, truncated  *)
(* and undecodable frames are the failures of ReadFails, and an error of   *)
(* the emit callback is EmitFails.                                         *)
(***************************************************************************)
EXTENDS Uniqueness, DistrictMetrics, Sequences

CONSTANTS
    Plans,              \* the assignments a file may hold
    Counts,             \* repetition counts of a frame
    Limits,             \* values of max_samples, Unlimited for None
    Unlimited,
    BatchSize,          \* StreamOptions::batch_size
    ResyncInterval,     \* MKVCHAIN_RESYNC_INTERVAL
    MaxFrames           \* bound: frames in a file

ASSUME PlansAssumption == Plans \subseteq Assignments

ASSUME StreamAssumption ==
    /\ Counts \subseteq Nat \ {0}
    /\ Unlimited \notin Nat
    /\ Limits \subseteq Nat \cup {Unlimited}
    /\ BatchSize \in Nat \ {0}
    /\ ResyncInterval \in Nat \ {0}
    /\ MaxFrames \in Nat

VARIABLES
    variant,    \* BenVariant of the source
    limit,      \* options.max_samples
    frames,     \* history: what has been decoded
    remaining,  \* samples still wanted
    current,    \* the ScorerState, or NoState
    uniqueness, \* UniquenessCounts
    pending,    \* the frame that is scored but not yet emitted
    batch,      \* Standard frames read and not yet emitted
    samples, accepted,  \* the running StreamSummary
    rows,       \* what emit has been called with
    pc,         \* "read", "emit", "batch", "lastbatch", "done" or "failed"
    summary

vars == <<variant, limit, frames, remaining, current, uniqueness, pending, batch,
          samples, accepted, rows, pc, summary>>

Variants == {"TwoDelta", "MkvChain", "Standard"}

NoState == [assignment |-> << >>]
NoDelta == Slice({}, FALSE)
NoPending == [repetitions |-> 0, changes |-> NoDelta]
NoSummary == << >>

-----------------------------------------------------------------------------
(* ScorerState *)

\* incremental_state and ScorerState::reset
FreshState(a) ==
    [assignment |-> a,
     tally |-> ResetTally(a),
     cuts |-> ResetCutEdges(a),
     regions |-> ResetRegionTally(a),
     perimeter |-> ResetPerimeter(a),
     hulls |-> ResetHulls(a),
     population |-> ResetPopulation(a)]

\* The population polygon is the one metric here that refuses plans.
Refused(state, changes) ==
    ~PopulationAccepts(state.population, state.assignment, changes)

\* Mistake: the canonical assignment is not advanced.
UpdateStateInPlace(state, changes) ==
    [state EXCEPT !.tally = UpdateTally(@, state.assignment, changes),
                  !.cuts = UpdateCutEdges(@, state.assignment, changes)]

\* ScorerState::update, once validate_changes has accepted the slice: every
\* metric reads the canonical assignment from before the changes.
UpdateState(state, changes) ==
    [assignment |-> ApplyChanges(state.assignment, changes),
     tally |-> UpdateTally(state.tally, state.assignment, changes),
     cuts |-> UpdateCutEdges(state.cuts, state.assignment, changes),
     regions |-> UpdateRegionTally(state.regions, state.assignment, changes),
     perimeter |-> UpdatePerimeter(state.perimeter, state.assignment, changes),
     hulls |-> UpdateHulls(state.hulls, state.assignment, changes),
     population |-> UpdatePopulation(state.population, state.assignment, changes)]

StateResult(state) ==
    [tally |-> TallyResult(state.tally),
     cuts |-> CutResult(state.cuts),
     regions |-> RegionTallyResult(state.regions),
     perimeter |-> PerimeterResult(state.perimeter),
     hulls |-> HullResult(state.hulls),
     population |-> PopulationResult(state.population)]

ScoreAssignment(a) ==
    [tally |-> ScoreTally(a), cuts |-> ScoreCutEdges(a), regions |-> ScoreRegionTally(a),
     perimeter |-> ScorePerimeter(a), hulls |-> ScoreHulls(a),
     population |-> ScorePopulation(a)]

\* Mistake: the last frame is not truncated.
WholeRepetitions(count) == count

CapRepetitions(count) ==
    IF remaining = Unlimited \/ count < remaining THEN count ELSE remaining

-----------------------------------------------------------------------------

Init ==
    /\ variant \in Variants
    /\ limit \in Limits
    /\ frames = << >>
    /\ remaining = limit
    /\ current = NoState
    /\ uniqueness = NewCounts
    /\ pending = NoPending
    /\ batch = << >>
    /\ samples = 0
    /\ accepted = 0
    /\ rows = << >>
    /\ pc = "read"
    /\ summary = NoSummary

\* Mistake: a frame is read although no more samples are wanted.
ReadingPastLimit(kind) ==
    /\ pc = "read"
    /\ variant = kind
    /\ Len(frames) < MaxFrames

\* The loop asks for another frame.
Reading(kind) ==
    /\ pc = "read"
    /\ variant = kind
    /\ remaining # 0
    /\ Len(frames) < MaxFrames

\* A frame that decodes to `plan` is accepted with the repetitions that are
\* still wanted.
Accept(plan, count) ==
    /\ frames' = Append(frames, [plan |-> plan, count |-> count])
    /\ remaining' = IF remaining = Unlimited THEN Unlimited
                    ELSE remaining - CapRepetitions(count)

Fail ==
    /\ pc' = "failed"
    /\ UNCHANGED <<variant, limit, frames, remaining, current, uniqueness, pending,
                   batch, samples, accepted, rows, summary>>

\* A TwoDelta snapshot: the first one builds the state, one without changes
\* resets it, and one with changes must be what its changes lead to.
ReadSnapshot(plan, delta, count) ==
    /\ Reading("TwoDelta")
    /\ LET next == IF current = NoState \/ delta = NoDelta THEN FreshState(plan)
                   ELSE UpdateState(current, delta)
           agrees == current # NoState /\ delta # NoDelta =>
                        /\ ValidChanges(current.assignment, delta)
                        /\ ApplyChanges(current.assignment, delta) = plan
           refused == IF current = NoState \/ delta = NoDelta THEN ~Scorable(plan)
                      ELSE Refused(current, delta)
       IN IF agrees /\ ~refused
          THEN /\ Accept(plan, count)
               /\ current' = next
               /\ uniqueness' = IF HasCurrent(uniqueness) /\ delta # NoDelta
                                THEN ObserveChanges(uniqueness, delta)
                                ELSE ResetCounts(uniqueness, plan)
               /\ pending' = [NoPending EXCEPT !.repetitions = CapRepetitions(count)]
               /\ pc' = "emit"
               /\ UNCHANGED <<variant, limit, batch, samples, accepted, rows, summary>>
          ELSE Fail

\* A TwoDelta delta, which needs a snapshot before it.
ReadDelta(delta, count) ==
    /\ Reading("TwoDelta")
    /\ IF /\ current # NoState
          /\ ValidChanges(current.assignment, delta)
          /\ ~Refused(current, delta)
       THEN /\ Accept(ApplyChanges(frames[Len(frames)].plan, delta), count)
            /\ current' = UpdateState(current, delta)
            /\ uniqueness' = ObserveChanges(uniqueness, delta)
            /\ pending' = [NoPending EXCEPT !.repetitions = CapRepetitions(count)]
            /\ pc' = "emit"
            /\ UNCHANGED <<variant, limit, batch, samples, accepted, rows, summary>>
       ELSE Fail

\* An MkvChain plan is compared with the one before it; every ResyncInterval
\* accepted plans the state is rebuilt from the plan itself.
ReadPlan(plan, count) ==
    /\ Reading("MkvChain")
    /\ LET changes == IF current = NoState THEN Slice({}, TRUE)
                      ELSE Diff(current.assignment, plan)
           rebuilt == accepted % ResyncInterval = 0
           refused == IF rebuilt THEN ~Scorable(plan) ELSE Refused(current, changes)
       IN IF refused THEN Fail
          ELSE /\ Accept(plan, count)
               /\ current' = IF rebuilt THEN FreshState(plan)
                             ELSE UpdateState(current, changes)
               /\ pending' = [repetitions |-> CapRepetitions(count), changes |-> changes]
               /\ pc' = "emit"
               /\ UNCHANGED <<variant, limit, uniqueness, batch, samples, accepted, rows,
                              summary>>

\* A Standard plan joins the batch.
ReadIndependent(plan, count) ==
    /\ Reading("Standard")
    /\ Accept(plan, count)
    /\ batch' = Append(batch, [plan |-> plan, repetitions |-> CapRepetitions(count)])
    /\ pc' = IF Len(batch') = BatchSize THEN "batch" ELSE "read"
    /\ UNCHANGED <<variant, limit, current, uniqueness, pending, samples, accepted,
                   rows, summary>>

ReadFails ==
    /\ \E kind \in Variants : Reading(kind)
    /\ Fail

-----------------------------------------------------------------------------

EmitRow(repetitions, metrics) ==
    /\ rows' = Append(rows, [sample_offset |-> samples, repetitions |-> repetitions,
                             accepted_index |-> accepted, metrics |-> metrics])
    /\ samples' = samples + repetitions
    /\ accepted' = accepted + 1

\* UniquenessCounts::apply_to and the end of the call.
Complete(counts, total, count) ==
    /\ pc' = "done"
    /\ summary' = [samples |-> total, accepted |-> count,
                   unique_plans |-> Cardinality(counts.plans),
                   unique_districts |-> Cardinality(counts.districts)]

\* An incremental frame is emitted; MkvChain counts its plan only now.
EmitIncremental ==
    /\ pc = "emit"
    /\ EmitRow(pending.repetitions, StateResult(current))
    /\ uniqueness' = IF variant # "MkvChain" THEN uniqueness
                     ELSE IF HasCurrent(uniqueness)
                     THEN ObserveChanges(uniqueness, pending.changes)
                     ELSE ResetCounts(uniqueness, current.assignment)
    /\ pending' = NoPending
    /\ pc' = "read"
    /\ UNCHANGED <<variant, limit, frames, remaining, current, batch, summary>>

\* emit_full_batch: its rows go out in order once the whole batch is scored, so
\* a batch with a plan that is refused emits none.
EmitFromBatch ==
    /\ pc \in {"batch", "lastbatch"}
    /\ \A i \in DOMAIN batch : Scorable(batch[i].plan)
    /\ EmitRow(Head(batch).repetitions, ScoreAssignment(Head(batch).plan))
    /\ uniqueness' = ObserveHashes(uniqueness, AssignmentHashes(Head(batch).plan))
    /\ batch' = Tail(batch)
    /\ IF batch' # << >> THEN UNCHANGED <<pc, summary>>
       ELSE IF pc = "batch" THEN pc' = "read" /\ UNCHANGED summary
       ELSE Complete(uniqueness', samples', accepted')
    /\ UNCHANGED <<variant, limit, frames, remaining, current, pending>>

EmitFails ==
    /\ pc \in {"emit", "batch", "lastbatch"}
    /\ Fail

\* The file ends or enough samples have been scored.
StopReading ==
    /\ pc = "read"
    /\ IF batch = << >> THEN Complete(uniqueness, samples, accepted)
       ELSE pc' = "lastbatch" /\ UNCHANGED summary
    /\ UNCHANGED <<variant, limit, frames, remaining, current, uniqueness, pending,
                   batch, samples, accepted, rows>>

\* Slices a file may hold: made against the right plan or another one, naming
\* only the nodes that move or all of them, in order or not.
Deltas ==
    LET listing(p, q) == {[node |-> n, old |-> p[n], new |-> q[n]] : n \in Nodes}
        slices == {Slice(entries, increasing) : entries \in
                      {Diff(p, q).entries : p, q \in Plans}
                          \cup {listing(p, q) : p, q \in Plans},
                   increasing \in BOOLEAN}
    IN {s \in slices : s.increasing \/ Cardinality(s.entries) > 1}

Next ==
    \/ \E plan \in Plans, delta \in Deltas \cup {NoDelta}, count \in Counts :
          ReadSnapshot(plan, delta, count)
    \/ \E delta \in Deltas, count \in Counts : ReadDelta(delta, count)
    \/ \E plan \in Plans, count \in Counts : ReadPlan(plan, count)
    \/ \E plan \in Plans, count \in Counts : ReadIndependent(plan, count)
    \/ ReadFails
    \/ EmitIncremental
    \/ EmitFromBatch
    \/ EmitFails
    \/ StopReading

Spec == Init /\ [][Next]_vars

-----------------------------------------------------------------------------
(* Properties *)

\* Every variable has its type; a scorer state has all of its parts, and every
\* Standard frame is either emitted or still in the batch.
TypeOK ==
    /\ variant \in Variants
    /\ limit \in Limits
    /\ frames \in Seq([plan : Assignments, count : Nat \ {0}])
    /\ remaining \in Nat \cup {Unlimited}
    /\ samples \in Nat
    /\ accepted \in Nat
    /\ pc \in {"read", "emit", "batch", "lastbatch", "done", "failed"}
    /\ current # NoState => current.assignment \in Assignments
    /\ Len(rows) = accepted

TallyExact(tally, a) ==
    /\ tally.occupancy = ResetOccupancy(a)
    /\ tally.slots \in Nat
    /\ \A n \in Nodes : a[n] < tally.slots
    /\ tally.totals = [d \in 0 .. tally.slots - 1 |->
                          [n \in Nodes |-> IF a[n] = d THEN 1 ELSE 0]]

CutEdgesExact(state, a) ==
    /\ state.occupancy = ResetOccupancy(a)
    /\ state.cut = [e \in Edges |-> CutIndicator(a, e)]

\* However many deltas, rescans and growths of the dense storage led to it, the
\* state of every metric is the one its reset would compute from the
\* assignment the scorer holds, and every label of that assignment has a slot.
IncrementalExact ==
    current # NoState =>
        /\ TallyExact(current.tally, current.assignment)
        /\ CutEdgesExact(current.cuts, current.assignment)

RegionTallyExact(state, a) ==
    /\ state.occupancy = ResetOccupancy(a)
    /\ state.slots \in Nat
    /\ \A n \in Nodes : a[n] < state.slots
    /\ state.totals = RegionTotals(a, state.slots)

PerimeterExact(state, a) ==
    /\ TallyExact(state.units, a)
    /\ state.inner = [d \in 0 .. state.units.slots - 1 |-> [e \in Edges |-> Inside(a, e, d)]]

HullsExact(state, a) ==
    /\ state.occupancy = ResetOccupancy(a)
    /\ state.slots \in Nat
    /\ \A n \in Nodes : a[n] < state.slots
    /\ state.members = [d \in 0 .. state.slots - 1 |-> Members(a, d)]
    /\ state.scores = state.members

PopulationExact(state, a) ==
    /\ state.own = a
    /\ state.occupancy = ResetOccupancy(a)
    /\ state.slots \in Nat
    /\ \A n \in Nodes : a[n] < state.slots
    /\ state.members = [d \in 0 .. state.slots - 1 |-> Members(a, d)]
    /\ state.positive = [d \in 0 .. state.slots - 1 |-> PositiveNodes(Members(a, d))]
    /\ state.scores = [d \in 0 .. state.slots - 1 |->
                          IF Members(a, d) = {} THEN NoPopulationScore
                          ELSE PopulationScore(a, Members(a, d), d)]

\* The metrics that recompute only what a slice touches lose nothing by it:
\* region totals, inner boundaries, the members and scores of hulls, and the
\* population polygon's own copy of the assignment are those of a reset, for
\* districts that no change of the slice names as well.
DistrictMetricsExact ==
    current # NoState =>
        /\ RegionTallyExact(current.regions, current.assignment)
        /\ PerimeterExact(current.perimeter, current.assignment)
        /\ HullsExact(current.hulls, current.assignment)
        /\ PopulationExact(current.population, current.assignment)

\* The counts an update checks before it changes anything refuse exactly the
\* plans that scoring them from scratch would refuse, so whether a file can be
\* scored does not depend on its encoding.
RefusesAsFromScratch ==
    current # NoState =>
        /\ Scorable(current.assignment)
        /\ \A delta \in Deltas :
              ValidChanges(current.assignment, delta) =>
                  (Refused(current, delta)
                       <=> ~Scorable(ApplyChanges(current.assignment, delta)))

\* However a file encodes its plans, what the scorer keeps of them is what it
\* would compute of each plan alone: the state of every metric, and whether the
\* next plan can be scored.
MetricsAreExact == IncrementalExact /\ DistrictMetricsExact /\ RefusesAsFromScratch

\* Between frames the scorer holds the plan the file has just decoded to, so a
\* delta is never validated against another plan than the one it follows.
HoldsLastPlan ==
    /\ variant # "Standard" /\ pc \in {"read", "emit"} =>
          IF frames = << >> THEN current = NoState
          ELSE current.assignment = frames[Len(frames)].plan

\* All three variants emit what scoring each plan from scratch would emit, and a
\* completed run reports the samples, frames and distinct plans and districts
\* of exactly the rows it emitted.
Reference == INSTANCE PlanByPlan WITH
    status <- IF pc \in {"done", "failed"} THEN pc ELSE "running",
    Unlimited <- Unlimited

ScoresPlanByPlan == Reference!Spec

=============================================================================

----------------------------- MODULE PlanByPlan -----------------------------
(***************************************************************************)
(* What Scorer::score_stream promises, whatever the encoding of the source *)
(* is: every accepted frame is scored from scratch and emitted once, in    *)
(* file order, until the file ends, the sample limit is reached or the run *)
(* fails.                                                                  *)
(***************************************************************************)
EXTENDS Uniqueness, DistrictMetrics, Sequences

CONSTANT Unlimited      \* the limit of a run without one

VARIABLES
    limit,      \* StreamOptions::max_samples
    frames,     \* the plans decoded so far, with their repetition counts
    rows,       \* the PlanScores emitted so far
    status,     \* "running", "done" or "failed"
    summary     \* the StreamSummary returned by a completed run

vars == <<limit, frames, rows, status, summary>>

NoSummary == << >>

Frame == [plan : Assignments, count : Nat \ {0}]

Capped(bound, n) == IF bound = Unlimited \/ n < bound THEN n ELSE bound

\* Expanded samples of the first i frames, cut at the limit.
SamplesThrough(bound, fs, i) ==
    LET total[j \in 0 .. Len(fs)] ==
            IF j = 0 THEN 0 ELSE total[j - 1] + fs[j].count
    IN Capped(bound, total[i])

Score(a) ==
    [tally |-> ScoreTally(a), cuts |-> ScoreCutEdges(a), regions |-> ScoreRegionTally(a),
     perimeter |-> ScorePerimeter(a), hulls |-> ScoreHulls(a),
     population |-> ScorePopulation(a)]

Row(bound, fs, i) ==
    LET offset == SamplesThrough(bound, fs, i - 1)
    IN [sample_offset |-> offset,
        repetitions |-> SamplesThrough(bound, fs, i) - offset,
        accepted_index |-> i - 1,
        metrics |-> Score(fs[i].plan)]

Summary(bound, fs) ==
    LET plans == {AssignmentHashes(fs[i].plan) : i \in DOMAIN fs}
    IN [samples |-> SamplesThrough(bound, fs, Len(fs)),
        accepted |-> Len(fs),
        unique_plans |-> Cardinality(plans),
        unique_districts |-> Cardinality(UNION plans)]

-----------------------------------------------------------------------------

Init ==
    /\ limit \in Nat \cup {Unlimited}
    /\ frames = << >>
    /\ rows = << >>
    /\ status = "running"
    /\ summary = NoSummary

Read ==
    /\ status = "running"
    /\ SamplesThrough(limit, frames, Len(frames)) # limit
    /\ Len(frames') = Len(frames) + 1
    /\ SubSeq(frames', 1, Len(frames)) = frames
    /\ frames'[Len(frames) + 1] \in Frame
    /\ UNCHANGED <<limit, rows, status, summary>>

\* Only a plan that every metric accepts has a row.
AppendsNext ==
    /\ Len(rows) < Len(frames)
    /\ Scorable(frames[Len(rows) + 1].plan)
    /\ rows' = Append(rows, Row(limit, frames, Len(rows) + 1))

Emit ==
    /\ status = "running"
    /\ AppendsNext
    /\ UNCHANGED <<limit, frames, status, summary>>

\* The last emission of a run may also finish it.
Finish ==
    /\ status = "running"
    /\ Len(rows') = Len(frames)
    /\ rows' = rows \/ AppendsNext
    /\ status' = "done"
    /\ summary' = Summary(limit, frames)
    /\ UNCHANGED <<limit, frames>>

Fail ==
    /\ status = "running"
    /\ status' = "failed"
    /\ UNCHANGED <<limit, frames, rows, summary>>

Next == Read \/ Emit \/ Finish \/ Fail

Spec == Init /\ [][Next]_vars

=============================================================================

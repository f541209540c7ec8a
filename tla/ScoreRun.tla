------------------------------ MODULE ScoreRun ------------------------------
(***************************************************************************)
(* ScoringEngine::score_run (rust/src/python.rs): a RunWriter is opened,   *)
(* score_stream calls back with every row, the callback pushes it, and the *)
(* summary of the stream finishes the run.  Any error on the way drops the *)
(* writer.  Kills and power losses are RunWriter's own runs; without them  *)
(* it makes no difference how durable the parent directory is.             *)
(***************************************************************************)
EXTENDS StreamScorer

CONSTANTS Tables, Nested, BatchRows, None

ASSUME RunAssumption ==
    /\ Tables # {}
    /\ Nested \subseteq Tables
    /\ BatchRows \in Nat \ {0}
    /\ None \notin Nat
    /\ \A districts \in SUBSET Labels : None # districts

VARIABLES
    phase, result, offers, wSamples, wAccepted, wDistricts, failed, buffer, expected,
    temp, dest, renamed     \* the state of RunWriter, for the one writer "run"

Writer == INSTANCE RunWriter WITH
    Writers <- {"run"},
    samples <- wSamples,
    accepted <- wAccepted,
    districts <- wDistricts,
    DistrictSets <- SUBSET Labels,
    Repetitions <- Nat,
    UniqueCounts <- {},
    MaxOffers <- MaxFrames,
    parent <- "durable"

writerState == <<phase, result, offers, wSamples, wAccepted, wDistricts, failed, buffer,
                 expected, temp, dest, renamed>>

runVars == <<vars, writerState>>

-----------------------------------------------------------------------------

RunInit == Init /\ Writer!Init

\* The row of the frame that is to be emitted next.
NextMetrics ==
    IF pc = "emit" THEN StateResult(current) ELSE ScoreAssignment(Head(batch).plan)

NextRow ==
    [sample_offset |-> samples,
     repetitions |-> IF pc = "emit" THEN pending.repetitions ELSE Head(batch).repetitions,
     accepted_index |-> accepted,
     districts |-> DOMAIN NextMetrics.tally]

\* all_district_ids_match: each metric takes the ids from its own occupancy.
MetricsAgree ==
    LET m == NextMetrics
    IN {m.cuts.districts, DOMAIN m.perimeter, DOMAIN m.hulls, DOMAIN m.population}
           = {DOMAIN m.tally}

OpenRun ==
    /\ Writer!Open("run") \/ Writer!OpenFails("run")
    /\ UNCHANGED vars

ReadFrame ==
    /\ phase["run"] = "open"
    /\ \/ \E plan \in Plans, delta \in Deltas \cup {NoDelta}, count \in Counts :
             ReadSnapshot(plan, delta, count)
       \/ \E delta \in Deltas, count \in Counts : ReadDelta(delta, count)
       \/ \E plan \in Plans, count \in Counts : ReadPlan(plan, count)
       \/ \E plan \in Plans, count \in Counts : ReadIndependent(plan, count)
       \/ ReadFails
       \/ StopReading
    /\ UNCHANGED writerState

\* The callback pushes the row and returns.
PushRow ==
    /\ EmitIncremental \/ EmitFromBatch
    /\ MetricsAgree
    /\ Writer!Push("run", NextRow)

\* The callback fails: the row is refused, cannot be written, or is followed
\* by a progress callback that raises.
CallbackFails ==
    /\ EmitFails
    /\ \/ MetricsAgree /\ Writer!PushRejected("run", NextRow)
       \/ \E reached \in SUBSET Tables : Writer!PushFailsMidway("run", NextRow, reached)
       \/ MetricsAgree /\ Writer!Push("run", NextRow)

\* The stream has failed, or has completed and its last progress report raises:
\* the writer is dropped.
RunAbandoned ==
    /\ pc \in {"failed", "done"}
    /\ Writer!Drop("run")
    /\ UNCHANGED vars

\* track_uniqueness decides whether the summary carries the unique counts.
Summarised(tracked) ==
    IF tracked THEN summary
    ELSE [summary EXCEPT !.unique_plans = None, !.unique_districts = None]

FinishRun ==
    /\ pc = "done"
    /\ \E tracked \in BOOLEAN : Writer!Finish("run", Summarised(tracked))
    /\ UNCHANGED vars

CloseRun ==
    /\ \/ Writer!FinishTables("run")
       \/ Writer!SyncDirectories("run")
       \/ Writer!WriteManifest("run")
       \/ Writer!SyncTemp("run")
       \/ Writer!Publish("run")
       \/ Writer!SyncParent("run")
       \/ Writer!FinishFails("run")
    /\ UNCHANGED vars

RunNext ==
    \/ OpenRun
    \/ ReadFrame
    \/ PushRow
    \/ CallbackFails
    \/ RunAbandoned
    \/ FinishRun
    \/ CloseRun

RunSpec == RunInit /\ [][RunNext]_runVars

-----------------------------------------------------------------------------
(* Properties *)

\* A run is refused a row only when its plan uses other districts than the
\* plans before it: the offsets, indices and truncated repetition counts of the
\* stream are those the writer expects.
RowsAreAcceptable ==
    /\ phase["run"] = "open"
    /\ pc \in {"emit", "batch", "lastbatch"}
    /\ wDistricts["run"] \in {None, ObservedDistricts(frames[accepted + 1].plan)}
    => MetricsAgree /\ Writer!Acceptable("run", NextRow)

\* finish never refuses the summary of a stream whose rows have all been
\* pushed: the unique counts stay within the bounds it checks.
SummaryIsAccepted ==
    phase["run"] = "open" /\ pc = "done" =>
        \A tracked \in BOOLEAN : Writer!Finishable("run", Summarised(tracked))

\* The writer refuses nothing of a well-formed stream, neither its rows nor its summary.
WriterRefusesNothing == RowsAreAcceptable /\ SummaryIsAccepted

\* A published run holds the plans of the file up to the limit, one row each,
\* and its manifest counts the samples, plans and districts they have,
\* whichever way the file encodes them.
PublishedMatchesFile ==
    dest # Writer!NoDirectory =>
        LET manifest == dest.manifest
            Expected(i) ==
                [sample_offset |-> Reference!Row(limit, frames, i).sample_offset,
                 repetitions |-> Reference!Row(limit, frames, i).repetitions,
                 accepted_index |-> i - 1,
                 districts |-> ObservedDistricts(frames[i].plan)]
        IN /\ \A t \in Tables :
                 dest.tables[t].rows = [i \in 1 .. Len(frames) |-> Expected(i)]
           /\ \E tracked \in BOOLEAN : manifest.summary =
                 IF tracked THEN Reference!Summary(limit, frames)
                 ELSE [Reference!Summary(limit, frames)
                          EXCEPT !.unique_plans = None, !.unique_districts = None]

=============================================================================

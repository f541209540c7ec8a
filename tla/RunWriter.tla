----------------------------- MODULE RunWriter -----------------------------
(***************************************************************************)
(* RunWriter (rust/src/scoring/output.rs): rows are buffered per physical  *)
(* table in a temporary sibling of the output path; finish closes and      *)
(* syncs every table, writes the manifest and renames the sibling.         *)
(*                                                                         *)
(* Several processes may write runs for the same output path.  Any call    *)
(* into the file system may fail, any process may be killed, and the       *)
(* machine may lose its power: a file survives that only when its data and *)
(* the directory entry that names it have been synced, a rename only when  *)
(* the parent directory has.  A parent that the writers created themselves *)
(* has an entry in a directory that nobody syncs.                          *)
(*                                                                         *)
(* A row stands for its prefix columns and the district ids of its         *)
(* metrics.  A SHA-256 checksum of a table is the sequence of its rows.    *)
(***************************************************************************)
EXTENDS Integers, FiniteSets, Sequences

CONSTANTS
    Writers,        \* processes that write a run for the output path
    Tables,         \* physical tables of a run
    Nested,         \* those in the directory of their metric instance
    BatchRows,      \* RunWriterOptions::batch_rows
    DistrictSets,   \* district ids a scored plan may have
    Repetitions,    \* repetition counts of a pushed row
    UniqueCounts,   \* unique_plans and unique_districts of a summary
    None,           \* an absent option
    MaxOffers       \* bound: push calls of one writer

ASSUME WriterAssumption ==
    /\ Tables # {}
    /\ Nested \subseteq Tables
    /\ BatchRows \in Nat \ {0}
    /\ Repetitions \subseteq Nat
    /\ UniqueCounts \subseteq [plans : Nat \cup {None}, districts : Nat \cup {None}]
    /\ None \notin Nat \cup DistrictSets
    /\ MaxOffers \in Nat

VARIABLES
    phase,      \* where each writer is between its creation and its end
    result,     \* what the caller of a writer has been told
    offers,     \* history: how often push has been called
    samples, accepted,  \* the counts a writer has observed
    districts,  \* its district_ids, or None
    failed,     \* a push has failed
    buffer,     \* rows of each table that are not written yet
    expected,   \* the summary that finish was called with
    temp,       \* the temporary directory, or NoDirectory
    dest,       \* what the output path names, or NoDirectory
    renamed,    \* has the parent directory been synced since the rename?
    parent      \* the parent directory: not there, newly created, or on the disk

writerVars == <<phase, result, offers, samples, accepted, districts, failed, buffer,
                expected>>
vars == <<writerVars, temp, dest, renamed, parent>>

NoDirectory == << >>
NoManifest == << >>
NoSummary == << >>

Finishing == {"tables", "directories", "manifest", "temp", "publish", "parent"}
Live == {"open"} \cup Finishing
Phases == {"absent", "closed", "killed"} \cup Live

UnwrittenFile == [rows |-> << >>, closed |-> FALSE, synced |-> FALSE, linked |-> FALSE]

EmptyDirectory == [tables |-> [t \in Tables |-> UnwrittenFile], manifest |-> NoManifest]

-----------------------------------------------------------------------------

Init ==
    /\ phase = [w \in Writers |-> "absent"]
    /\ result = [w \in Writers |-> "none"]
    /\ offers = [w \in Writers |-> 0]
    /\ samples = [w \in Writers |-> 0]
    /\ accepted = [w \in Writers |-> 0]
    /\ districts = [w \in Writers |-> None]
    /\ failed = [w \in Writers |-> FALSE]
    /\ buffer = [w \in Writers |-> [t \in Tables |-> << >>]]
    /\ expected = [w \in Writers |-> NoSummary]
    /\ temp = [w \in Writers |-> NoDirectory]
    /\ dest = NoDirectory
    /\ renamed = FALSE
    /\ parent \in {"missing", "durable"}

\* A call returns an error, or the writer is dropped: what is left of the
\* temporary directory is removed.
Close(w, outcome) ==
    /\ phase' = [phase EXCEPT ![w] = "closed"]
    /\ result' = [result EXCEPT ![w] = outcome]
    /\ temp' = [temp EXCEPT ![w] = NoDirectory]
    /\ UNCHANGED <<offers, samples, accepted, districts, failed, buffer, expected,
                   dest, renamed>>

\* create_dir_all: nobody syncs the directory that names the new one.
CreatedParent == IF parent = "missing" THEN "created" ELSE parent

\* RunWriter::with_options
Open(w) ==
    /\ phase[w] = "absent"
    /\ IF dest # NoDirectory
       THEN Close(w, "error") /\ UNCHANGED parent
       ELSE /\ phase' = [phase EXCEPT ![w] = "open"]
            /\ parent' = CreatedParent
            /\ temp' = [temp EXCEPT ![w] = EmptyDirectory]
            /\ UNCHANGED <<result, offers, samples, accepted, districts, failed, buffer,
                           expected, dest, renamed>>

\* The error may come before the parent is created, or after.
OpenFails(w) ==
    /\ phase[w] = "absent"
    /\ Close(w, "error")
    /\ parent' \in {parent, CreatedParent}

-----------------------------------------------------------------------------
(* push *)

Acceptable(w, row) ==
    /\ ~failed[w]
    /\ row.accepted_index = accepted[w]
    /\ row.sample_offset = samples[w]
    /\ row.repetitions # 0
    /\ districts[w] \in {None, row.districts}

\* TableWriter::flush
Extended(file, rows) == [file EXCEPT !.rows = file.rows \o rows]

\* TableWriter::push: a full buffer becomes a batch of the file.
PushTo(w, reached, row) ==
    LET filled(t) == Append(buffer[w][t], row)
        full(t) == t \in reached /\ Len(filled(t)) = BatchRows
    IN /\ buffer' = [buffer EXCEPT ![w] =
                        [t \in Tables |-> IF full(t) THEN << >>
                                          ELSE IF t \in reached THEN filled(t)
                                          ELSE buffer[w][t]]]
       /\ temp' = [temp EXCEPT ![w].tables =
                      [t \in Tables |-> IF full(t) THEN Extended(@[t], filled(t))
                                        ELSE @[t]]]

Offer(w) ==
    /\ phase[w] = "open"
    /\ offers[w] < MaxOffers
    /\ offers' = [offers EXCEPT ![w] = @ + 1]
    /\ UNCHANGED <<phase, result, expected, dest, renamed, parent>>

Push(w, row) ==
    /\ Offer(w)
    /\ Acceptable(w, row)
    /\ districts' = [districts EXCEPT ![w] = row.districts]
    /\ PushTo(w, Tables, row)
    /\ samples' = [samples EXCEPT ![w] = @ + row.repetitions]
    /\ accepted' = [accepted EXCEPT ![w] = @ + 1]
    /\ UNCHANGED failed

\* The row is refused, and so is every row after it.
PushRejected(w, row) ==
    /\ Offer(w)
    /\ ~Acceptable(w, row)
    /\ failed' = [failed EXCEPT ![w] = TRUE]
    /\ UNCHANGED <<samples, accepted, districts, buffer, temp>>

\* A table cannot be written after some of the others have taken the row.
PushFailsMidway(w, row, reached) ==
    /\ Offer(w)
    /\ Acceptable(w, row)
    /\ districts' = [districts EXCEPT ![w] = row.districts]
    /\ PushTo(w, reached, row)
    /\ failed' = [failed EXCEPT ![w] = TRUE]
    /\ UNCHANGED <<samples, accepted>>

-----------------------------------------------------------------------------
(* finish *)

\* validate_uniqueness_summary
PlausibleUniqueness(w, summary) ==
    LET plans == summary.unique_plans
        units == summary.unique_districts
    IN \/ plans = None /\ units = None
       \/ /\ plans # None /\ units # None
          /\ IF summary.accepted = 0 THEN plans = 0 /\ units = 0
             ELSE /\ plans \in 1 .. summary.accepted
                  /\ units \in Cardinality(districts[w])
                               .. summary.accepted * Cardinality(districts[w])

\* Mistake: finish does not ask whether a push has failed.
FinishableUnpoisoned(w, summary) ==
    /\ summary.samples = samples[w]
    /\ summary.accepted = accepted[w]
    /\ PlausibleUniqueness(w, summary)

Finishable(w, summary) ==
    /\ ~failed[w]
    /\ summary.samples = samples[w]
    /\ summary.accepted = accepted[w]
    /\ PlausibleUniqueness(w, summary)

Finish(w, summary) ==
    /\ phase[w] = "open"
    /\ IF Finishable(w, summary)
       THEN /\ phase' = [phase EXCEPT ![w] = "tables"]
            /\ expected' = [expected EXCEPT ![w] = summary]
            /\ UNCHANGED <<result, offers, samples, accepted, districts, failed, buffer,
                           temp, dest, renamed, parent>>
       ELSE Close(w, "error") /\ UNCHANGED parent

Advance(w, from, to) ==
    /\ phase[w] = from
    /\ phase' = [phase EXCEPT ![w] = to]
    /\ UNCHANGED <<offers, samples, accepted, districts, failed, expected>>

\* TableWriter::finish for every table: the rest of its buffer, the footer and
\* sync_all.
FinishTables(w) ==
    /\ Advance(w, "tables", "directories")
    /\ buffer' = [buffer EXCEPT ![w] = [t \in Tables |-> << >>]]
    /\ temp' = [temp EXCEPT ![w].tables =
                   [t \in Tables |-> [Extended(@[t], buffer[w][t]) EXCEPT
                                        !.closed = TRUE, !.synced = TRUE]]]
    /\ UNCHANGED <<result, dest, renamed, parent>>

\* sync_directory makes the entries of files durable.
Linked(files, some) ==
    [t \in Tables |-> IF t \in some THEN [files[t] EXCEPT !.linked = TRUE] ELSE files[t]]

\* sync_directory for the directory of every metric instance
SyncDirectories(w) ==
    /\ Advance(w, "directories", "manifest")
    /\ temp' = [temp EXCEPT ![w].tables = Linked(@, Nested)]
    /\ UNCHANGED <<result, buffer, dest, renamed, parent>>

\* write_manifest: the checksums are those of the files just written.
WriteManifest(w) ==
    /\ Advance(w, "manifest", "temp")
    /\ temp' = [temp EXCEPT ![w].manifest =
                   [summary |-> expected[w],
                    districts |-> districts[w],
                    checksums |-> [t \in Tables |-> temp[w].tables[t].rows],
                    synced |-> TRUE,
                    linked |-> FALSE]]
    /\ UNCHANGED <<result, buffer, dest, renamed, parent>>

\* sync_directory for the temporary directory itself
SyncTemp(w) ==
    /\ Advance(w, "temp", "publish")
    /\ temp' = [temp EXCEPT ![w].manifest.linked = TRUE,
                            ![w].tables = Linked(@, Tables \ Nested)]
    /\ UNCHANGED <<result, buffer, dest, renamed, parent>>

\* publish_directory: RENAME_NOREPLACE
Publish(w) ==
    IF dest = NoDirectory
    THEN /\ Advance(w, "publish", "parent")
         /\ dest' = [owner |-> w, tables |-> temp[w].tables, manifest |-> temp[w].manifest]
         /\ temp' = [temp EXCEPT ![w] = NoDirectory]
         /\ renamed' = FALSE
         /\ UNCHANGED <<result, buffer, parent>>
    ELSE phase[w] = "publish" /\ Close(w, "error") /\ UNCHANGED parent

\* Mistake: success is reported without a sync of the parent.
SyncNothing(w) ==
    /\ Advance(w, "parent", "closed")
    /\ result' = [result EXCEPT ![w] = "ok"]
    /\ UNCHANGED <<buffer, temp, dest, renamed, parent>>

\* sync_directory for the parent, and the end of a successful finish
SyncParent(w) ==
    /\ Advance(w, "parent", "closed")
    /\ result' = [result EXCEPT ![w] = "ok"]
    /\ renamed' = TRUE
    /\ UNCHANGED <<buffer, temp, dest, parent>>

\* One of the steps of finish fails; the sync of the parent after the rename
\* is one of them.
FinishFails(w) ==
    /\ phase[w] \in Finishing
    /\ Close(w, "error")
    /\ UNCHANGED parent

-----------------------------------------------------------------------------
(* Drop, kill and power loss *)

Drop(w) ==
    /\ phase[w] = "open"
    /\ Close(w, "dropped")
    /\ UNCHANGED parent

Kill(w) ==
    /\ phase[w] \in Live
    /\ phase' = [phase EXCEPT ![w] = "killed"]
    /\ UNCHANGED <<result, offers, samples, accepted, districts, failed, buffer, expected,
                   temp, dest, renamed, parent>>

\* What a power loss leaves of a directory when `lost` says which of the
\* tables that are not durable it takes.
Surviving(directory, lost) ==
    [directory EXCEPT
        !.tables = [t \in Tables |->
            IF t \in lost /\ ~(@[t].synced /\ @[t].linked) THEN UnwrittenFile ELSE @[t]],
        !.manifest = IF @ # NoManifest /\ ~(@.synced /\ @.linked) THEN NoManifest ELSE @]

\* Every process dies.  The temporary directories are never looked at again.
\* A parent whose own entry was not synced may go, with all there is in it; one
\* that is still there is on the disk.
PowerLoss(lost, undone, swept) ==
    LET goes == swept /\ parent = "created"
    IN
    /\ phase' = [w \in Writers |-> IF phase[w] \in Live THEN "killed" ELSE phase[w]]
    /\ parent' = IF parent = "missing" \/ goes THEN "missing" ELSE "durable"
    /\ dest' = IF dest = NoDirectory \/ goes \/ (undone /\ ~renamed) THEN NoDirectory
               ELSE Surviving(dest, lost)
    /\ renamed' = (dest' # NoDirectory)
    /\ UNCHANGED <<result, offers, samples, accepted, districts, failed, buffer, expected,
                   temp>>

-----------------------------------------------------------------------------

\* Rows a caller may push: the next one, and one that is not.
Rows(w) ==
    {[sample_offset |-> samples[w] + gap, repetitions |-> r,
      accepted_index |-> accepted[w] + skip, districts |-> d] :
        gap, skip \in {0, 1}, r \in Repetitions, d \in DistrictSets}

Summaries(w) ==
    {[samples |-> s, accepted |-> a, unique_plans |-> u.plans,
      unique_districts |-> u.districts] :
        s \in {samples[w], samples[w] + 1}, a \in {accepted[w], accepted[w] + 1},
        u \in UniqueCounts}

Next ==
    \/ \E w \in Writers :
          \/ Open(w)
          \/ OpenFails(w)
          \/ \E row \in Rows(w) : Push(w, row)
          \/ \E row \in Rows(w) : PushRejected(w, row)
          \/ \E row \in Rows(w), reached \in SUBSET Tables : PushFailsMidway(w, row, reached)
          \/ \E summary \in Summaries(w) : Finish(w, summary)
          \/ FinishTables(w)
          \/ SyncDirectories(w)
          \/ WriteManifest(w)
          \/ SyncTemp(w)
          \/ Publish(w)
          \/ SyncParent(w)
          \/ FinishFails(w)
          \/ Drop(w)
          \/ Kill(w)
    \/ \E lost \in SUBSET Tables, undone, swept \in BOOLEAN : PowerLoss(lost, undone, swept)

Spec == Init /\ [][Next]_vars

-----------------------------------------------------------------------------
(* Properties *)

Row == [sample_offset : Nat, repetitions : Nat, accepted_index : Nat,
        districts : DistrictSets]

\* Every variable has its type; a buffer is never left full, and a temporary
\* directory belongs to a writer that is at work or was killed.
TypeOK ==
    /\ phase \in [Writers -> Phases]
    /\ result \in [Writers -> {"none", "ok", "error", "dropped"}]
    /\ samples \in [Writers -> Nat]
    /\ accepted \in [Writers -> Nat]
    /\ districts \in [Writers -> DistrictSets \cup {None}]
    /\ failed \in [Writers -> BOOLEAN]
    /\ renamed \in BOOLEAN
    /\ parent \in {"missing", "created", "durable"}
    /\ \A w \in Writers :
          /\ offers[w] \in Nat
          /\ \A t \in Tables : buffer[w][t] \in Seq(Row) /\ Len(buffer[w][t]) < BatchRows
          /\ temp[w] # NoDirectory => phase[w] \in Live \cup {"killed"}

\* What a reader accepts: a manifest and tables with the rows it has checksums of.
Intact(directory) ==
    /\ directory.manifest # NoManifest
    /\ \A t \in Tables :
          /\ directory.tables[t].closed
          /\ directory.tables[t].rows = directory.manifest.checksums[t]

\* The caller of the writer of this run has been told that it is there, and the
\* parent was on the disk before: the writer syncs the entry of the run in the
\* parent, but never the entry of a parent that it created.
Promised ==
    /\ dest # NoDirectory
    /\ result[dest.owner] = "ok"
    /\ parent = "durable"

\* The output path as a reader sees it.
Destination == INSTANCE PublishedRun WITH
    run <- IF dest = NoDirectory THEN << >>
           ELSE [rows |-> dest.tables[CHOOSE t \in Tables : TRUE].rows,
                 districts |-> dest.manifest.districts,
                 summary |-> dest.manifest.summary],
    acknowledged <- Promised

\* Whatever failed, was killed or lost its power, a directory under the output
\* path is intact and every table of it holds one row for each push call of its
\* writer, in order and with the districts of the manifest.
PublishedIsWhole ==
    dest # NoDirectory =>
        /\ Intact(dest)
        /\ \A t \in Tables :
              LET rows == dest.tables[t].rows
              IN /\ Destination!Contiguous(rows)
                 /\ Len(rows) = offers[dest.owner]
                 /\ \A i \in DOMAIN rows : rows[i].districts = dest.manifest.districts

\* A run appears under the output path at once and complete, is never replaced
\* by another, and outlives a power loss once its finish has returned, if the
\* parent directory was on the disk before.  (Under a parent that the writers
\* created, an acknowledged run can be lost with it: not promised here.)
PublishesAtomically == Destination!Spec

=============================================================================

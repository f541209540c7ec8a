--------------------------- MODULE EnsembleReader ---------------------------
(***************************************************************************)
(* Reading a stored ensemble result (gerrytools/scoring/result.py).  A     *)
(* reader keeps the manifest it has opened; every read opens the tables of *)
(* a metric, checks them against that manifest and checks the frame        *)
(* columns they share.  Results are read whole or in batches, with a row   *)
(* for each frame or for each sample.                                      *)
(*                                                                         *)
(* Meanwhile other programs replace or damage tables.  A table is the      *)
(* sequence of its rows and a checksum names that sequence; what pandas    *)
(* makes of the values is left out.                                        *)
(***************************************************************************)
EXTENDS Integers, SequencesExt

CONSTANTS
  TablesOf,           \* the tables of each metric, in order
  FirstMetric,        \* the metric that comes first in the manifest
  ValueColumns,       \* the number of value columns of each metric, all of eight bytes
  RowValues,          \* what the value columns of a row may hold
  StoredRows,         \* what the tables hold at first: a sequence of rows
  OtherRows,          \* what other programs write into tables
  Summary,            \* the samples and accepted frames the manifest states
  BatchSizes,         \* the batch sizes callers ask for
  ErrorBytes,         \* _ERROR_BYTES
  FooterBytes,        \* the memory a table's footer is charged with
  GroupRows,          \* the rows of a row group
  MaxReads,           \* bound on the calls of one reader
  MaxWrites           \* bound on what other programs write

StoredMetrics == DOMAIN TablesOf
StoredTables == UNION {ToSet(TablesOf[m]) : m \in StoredMetrics}
Rows == [sample_offset : Int, repetitions : Int, accepted_index : Int, value : RowValues]

ASSUME ReaderAssumption ==
  /\ FirstMetric \in StoredMetrics
  /\ \A m \in StoredMetrics : TablesOf[m] \in Seq(StoredTables) \ {<<>>} /\ ValueColumns[m] \in Nat \ {0}
  /\ {StoredRows} \cup OtherRows \subseteq Seq(Rows)
  /\ BatchSizes \subseteq Nat \ {0} /\ GroupRows \in Nat \ {0}
  /\ Summary.accepted \in Nat \ {0} /\ Summary.samples \in Nat
  /\ {ErrorBytes, FooterBytes, MaxReads, MaxWrites} \subseteq Nat

VARIABLES
  stored,             \* the directory: its manifest, its tables and what others wrote
  opened,             \* the manifest a reader has opened, or NoManifest
  known,              \* _frames: the frame columns it has read, or NoFrames
  read                \* its latest call: what it asked for, holds, and has been given

vars == <<stored, opened, known, read>>

NoManifest == [summary |-> "none"]
NoFrames == <<>>
NoRead == [status |-> "none", number |-> 0]

\* The manifest a metric's tables were published with states their rows.
Init ==
  /\ stored = [manifest |-> [summary |-> Summary, sums |-> [t \in StoredTables |-> StoredRows]],
               tables |-> [t \in StoredTables |-> StoredRows], writes |-> 0]
  /\ opened = NoManifest
  /\ known = NoFrames
  /\ read = NoRead

-----------------------------------------------------------------------------
(* Memory *)

Least(a, b) == IF a <= b THEN a ELSE b
Greatest(a, b) == IF a <= b THEN b ELSE a

\* _estimate_memory: batch is the batch size, or 0 when everything is read at
\* once, and physical the rows that are decoded together.
Estimate(m, how, batch, physical) ==
  LET accepted == IF batch = 0 THEN opened.summary.accepted
                  ELSE Least(opened.summary.accepted, batch)
      logical == IF how # "samples" THEN accepted
                 ELSE IF batch = 0 THEN opened.summary.samples
                 ELSE Least(opened.summary.samples, batch)
      count == IF how = "frames" THEN 1 ELSE Len(TablesOf[m])
      columns == ValueColumns[m]
      decoded == physical * (18 * count + 8 * columns)
      index == 16 * columns
      whole == IF batch = 0 THEN 16 * accepted ELSE 0
      total ==
        CASE how \in {"read", "samples"} ->
               2 * decoded + 8 * columns * (accepted + 2 * logical) + 9 * accepted + index + whole
                 + (IF batch = 0 THEN 0 ELSE 8 * columns * logical + index)
          [] how = "raw" ->
               2 * decoded + 9 * accepted + 16 * (3 + columns) + whole
                 + (IF batch = 0 THEN 0 ELSE accepted * (18 + 8 * columns) + 16 * (3 + columns))
          [] how = "frames" ->
               36 * physical + 9 * accepted + 32 * accepted + (IF batch = 0 THEN 32 ELSE 64)
  IN (5 * (total + FooterBytes * count) + 3) \div 4

\* The rows that are decoded together: a batch, or the row group it comes from.
PhysicalRows(batch) ==
  IF batch = 0 THEN opened.summary.accepted
  ELSE Least(opened.summary.accepted, Greatest(batch, GroupRows))

\* _enforce_memory
Affordable(m, how, batch, large) ==
  large \/ Estimate(m, how, batch, PhysicalRows(batch)) < ErrorBytes

-----------------------------------------------------------------------------
(* Checks *)

Selected(m, how) == IF how = "frames" THEN {Head(TablesOf[m])} ELSE ToSet(TablesOf[m])

\* _verified_metric_file
Verified(t) == stored.tables[t] = opened.sums[t]

\* _validated_parquet_file
RowCountAgrees(t) == Len(stored.tables[t]) = opened.summary.accepted

\* Frames that others of the result may have been read with.
\* Mistake: they are remembered, and not compared.
AnyFrames(frames) == TRUE

SameFrames(frames) == known \in {NoFrames, frames}

FrameOf(row) == [sample_offset |-> row.sample_offset, repetitions |-> row.repetitions,
                 accepted_index |-> row.accepted_index]

\* _combine_physical_tables
PrefixesAgree(rows, m, how) ==
  \A s, t \in Selected(m, how) : \A i \in DOMAIN rows[s] : FrameOf(rows[s][i]) = FrameOf(rows[t][i])

\* _validated_frame_batch: the frames continue at an offset and an index.
ValidFrames(frames, offset, accepted) ==
  frames # <<>> =>
    /\ frames[1].sample_offset = offset /\ frames[1].accepted_index = accepted
    /\ \A i \in DOMAIN frames : frames[i].repetitions > 0
    /\ \A i \in 2..Len(frames) :
         /\ frames[i].sample_offset = frames[i - 1].sample_offset + frames[i - 1].repetitions
         /\ frames[i].accepted_index = frames[i - 1].accepted_index + 1

\* Mistake: the offset counts the frames and not their repetitions.
OffsetByRows(frames, offset) == offset + Len(frames)

OffsetAfter(frames, offset) ==
  IF frames = <<>> THEN offset ELSE Last(frames).sample_offset + Last(frames).repetitions

\* _validate_iterator_totals
TotalsAgree(offset, accepted) ==
  accepted = opened.summary.accepted /\ offset = opened.summary.samples

\* _validated_frames
ValidTable(frames) ==
  /\ Len(frames) = opened.summary.accepted
  /\ ValidFrames(frames, 0, 0)
  /\ TotalsAgree(OffsetAfter(frames, 0), Len(frames))

\* A row of each selected table, as the caller gets it.
Value(rows, m, how, i) ==
  LET frame == FrameOf(rows[Head(TablesOf[m])][i])
      values == [k \in DOMAIN TablesOf[m] |-> rows[TablesOf[m][k]][i].value]
  IN CASE how = "frames" -> frame
       [] how = "raw" -> <<frame, values>>
       [] OTHER -> values

-----------------------------------------------------------------------------
(* EnsembleEvalResult *)

\* open: another reader of the result, as it is now.
OpenResult ==
  /\ opened' = stored.manifest
  /\ known' = NoFrames
  /\ read' = NoRead
  /\ UNCHANGED stored

Called(m, how, batch, status, outputs) ==
  [status |-> status, number |-> read.number + 1, metric |-> m, how |-> how, batch |-> batch,
   given |-> outputs]

\* A caller may leave an iterator behind at any time.
CanCall == opened # NoManifest /\ read.number < MaxReads

\* frames, raw and read.  The frames are read from a table once.
ReadAll(m, how, large) ==
  /\ CanCall
  /\ how = "frames" => m = FirstMetric
  /\ LET rows == [t \in Selected(m, how) |-> stored.tables[t]]
         frames == [i \in DOMAIN stored.tables[Head(TablesOf[m])] |->
                      FrameOf(stored.tables[Head(TablesOf[m])][i])]
         cached == how = "frames" /\ known # NoFrames
         sound == /\ \A t \in Selected(m, how) : Verified(t) /\ RowCountAgrees(t)
                  /\ Affordable(m, how, 0, large)
                  /\ PrefixesAgree(rows, m, how)
                  /\ ValidTable(frames)
                  /\ SameFrames(frames)
         Repeated(i) == [k \in 1..(IF how = "samples" THEN frames[i].repetitions ELSE 1) |->
                           Value(rows, m, how, i)]
     IN IF cached THEN read' = Called(m, how, 0, "returned", <<known>>) /\ UNCHANGED known
        ELSE IF sound
        THEN /\ known' = frames
             /\ read' = Called(m, how, 0, "returned",
                             <<FlattenSeq([i \in DOMAIN frames |-> Repeated(i)])>>)
        ELSE read' = Called(m, how, 0, "raised", <<>>) /\ UNCHANGED known
  /\ UNCHANGED <<stored, opened>>

\* iter_frame_batches, iter_raw_batches and iter_batches, up to the first row:
\* the files stay open, whatever happens to their names.
StartBatches(m, how, batch, large) ==
  /\ CanCall
  /\ how = "frames" => m = FirstMetric
  /\ read' = IF /\ \A t \in Selected(m, how) : Verified(t) /\ RowCountAgrees(t)
                /\ Affordable(m, how, batch, large)
             THEN [status |-> "running", number |-> read.number + 1, metric |-> m, how |-> how,
                   batch |-> batch, given |-> <<>>,
                   rows |-> [t \in Selected(m, how) |-> stored.tables[t]],
                   part |-> <<>>, offset |-> 0, accepted |-> 0, sampleStart |-> 0,
                   row |-> 1, remaining |-> 0]
             ELSE Called(m, how, batch, "raised", <<>>)
  /\ UNCHANGED <<stored, opened, known>>

Raise == read' = [read EXCEPT !.status = "raised"]

\* _iter_physical_batches: the next rows of all tables, as many as pyarrow gives.
NextPart(n) ==
  /\ read.status = "running" /\ read.row > Len(read.part)
  /\ n \in 1..read.batch /\ read.accepted + n <= opened.summary.accepted
  /\ LET next == [t \in DOMAIN read.rows |->
                    SubSeq(read.rows[t], read.accepted + 1, read.accepted + n)]
         frames == [i \in 1..n |-> FrameOf(next[Head(TablesOf[read.metric])][i])]
         values == [i \in 1..n |-> Value(next, read.metric, read.how, i)]
         moved == [read EXCEPT !.offset = OffsetAfter(frames, @), !.accepted = @ + n]
     IN IF ~(PrefixesAgree(next, read.metric, read.how)
             /\ ValidFrames(frames, read.offset, read.accepted))
        THEN Raise
        ELSE IF read.how = "samples"
        THEN read' = [moved EXCEPT !.part = [i \in 1..n |-> [value |-> values[i],
                                                             repetitions |-> frames[i].repetitions]],
                                   !.row = 1, !.remaining = frames[1].repetitions]
        ELSE read' = [moved EXCEPT !.given = Append(@, values), !.row = 1]
  /\ UNCHANGED <<stored, opened, known>>

\* Mistake: what is left of a row's repetitions is forgotten between batches.
FilledAfresh(part, row, remaining, room) ==
  LET Left(i) == part[i].repetitions
      all == FlattenSeq([i \in 1..(Len(part) + 1 - row) |->
                           [k \in 1..Left(row - 1 + i) |-> row - 1 + i]])
      filled == SubSeq(all, 1, room)
      rest == SubSeq(all, room + 1, Len(all))
  IN [rows |-> filled,
      row |-> IF rest = <<>> THEN Len(part) + 1 ELSE Head(rest),
      remaining |-> IF rest = <<>> THEN 0 ELSE Cardinality({k \in DOMAIN rest : rest[k] = Head(rest)})]

\* The rows that fill a buffer, and the row and repetitions to go on with.
Filled(part, row, remaining, room) ==
  LET Left(i) == IF i = row THEN remaining ELSE part[i].repetitions
      all == FlattenSeq([i \in 1..(Len(part) + 1 - row) |->
                           [k \in 1..Left(row - 1 + i) |-> row - 1 + i]])
      filled == SubSeq(all, 1, room)
      rest == SubSeq(all, room + 1, Len(all))
  IN [rows |-> filled,
      row |-> IF rest = <<>> THEN Len(part) + 1 ELSE Head(rest),
      remaining |-> IF rest = <<>> THEN 0 ELSE Cardinality({k \in DOMAIN rest : rest[k] = Head(rest)})]

Room(batch, offset, sampleStart) == Least(batch, offset - sampleStart)

\* The repetitions of a part are split into batches of samples.
NextSamples ==
  /\ read.status = "running" /\ read.row <= Len(read.part)
  /\ LET room == Room(read.batch, read.offset, read.sampleStart)
         f == Filled(read.part, read.row, read.remaining, room)
     IN read' = [read EXCEPT !.given = Append(@, [k \in DOMAIN f.rows |->
                                                    read.part[f.rows[k]].value]),
                             !.sampleStart = @ + room, !.row = f.row, !.remaining = f.remaining]
  /\ UNCHANGED <<stored, opened, known>>

EndBatches ==
  /\ read.status = "running" /\ read.row > Len(read.part)
  /\ read.accepted = opened.summary.accepted
  /\ IF TotalsAgree(read.offset, read.accepted)
     THEN read' = [read EXCEPT !.status = "returned"]
     ELSE Raise
  /\ UNCHANGED <<stored, opened, known>>

\* Another program writes tables, of a whole metric or one of them, and its
\* manifest states what they hold, or it does not.
OtherWrites(tables, rows, recorded) ==
  LET After(held) == [t \in StoredTables |-> IF t \in tables THEN rows ELSE held[t]]
  IN /\ stored.writes < MaxWrites
     /\ stored' = [manifest |-> IF recorded THEN [stored.manifest EXCEPT !.sums = After(@)]
                                ELSE stored.manifest,
                   tables |-> After(stored.tables),
                   writes |-> stored.writes + 1]
     /\ UNCHANGED <<opened, known, read>>

Next ==
  \/ OpenResult
  \/ \E m \in StoredMetrics, how \in {"frames", "raw", "read", "samples"}, large \in BOOLEAN :
       \/ ReadAll(m, how, large)
       \/ \E batch \in BatchSizes : StartBatches(m, how, batch, large)
  \/ \E n \in 1..Summary.accepted : NextPart(n)
  \/ NextSamples
  \/ EndBatches
  \/ \E m \in StoredMetrics, rows \in OtherRows, recorded \in BOOLEAN :
       \/ OtherWrites(ToSet(TablesOf[m]), rows, recorded)
       \/ \E t \in ToSet(TablesOf[m]) : OtherWrites({t}, rows, recorded)

Spec == Init /\ [][Next]_vars

-----------------------------------------------------------------------------
Samples(s, rows) ==
  {i \in DOMAIN rows : rows[i].sample_offset < s /\ s <= rows[i].sample_offset + rows[i].repetitions}

\* The samples before each row, and before the end.
SamplesBefore(rows) ==
  LET before[i \in 1..(Len(rows) + 1)] ==
        IF i = 1 THEN 0 ELSE before[i - 1] + rows[i - 1].repetitions
  IN before

\* Rows that follow each other without a gap and are as many as the manifest says.
IsStream(rows) ==
  /\ Len(rows) = opened.summary.accepted
  /\ SamplesBefore(rows)[Len(rows) + 1] = opened.summary.samples
  /\ \A i \in DOMAIN rows : /\ rows[i].accepted_index = i - 1
                           /\ rows[i].sample_offset = SamplesBefore(rows)[i]
                           /\ rows[i].repetitions > 0

\* Whatever has been handed out is a gapless beginning, and what has been
\* returned the whole, of what the tables hold that the opened manifest names,
\* however batches, row groups and repetitions fall, and whatever other programs
\* have written since; no batch is empty or larger than asked for; and nothing
\* is returned of tables that do not hold the stream the manifest states.
ReadsAreWhole ==
  read.status \in {"running", "returned"} =>
    LET given == FlattenSeq(read.given)
        first == opened.sums[Head(TablesOf[read.metric])]
        rows == [t \in Selected(read.metric, read.how) |-> opened.sums[t]]
        \* The frames that were read with an earlier table.
        remembered == read.how = "frames" /\ read.batch = 0
    IN /\ remembered => given = known
       /\ ~remembered => \A s \in DOMAIN given :
            /\ read.how = "samples" =>
                 \E i \in Samples(s, first) : given[s] = Value(rows, read.metric, read.how, i)
            /\ read.how # "samples" => given[s] = Value(rows, read.metric, read.how, s)
       /\ read.status = "returned" =>
            /\ Len(given) = IF read.how = "samples" THEN opened.summary.samples
                            ELSE opened.summary.accepted
            /\ IF remembered THEN IsStream(known) ELSE \A t \in DOMAIN rows : IsStream(rows[t])
       /\ read.batch > 0 => \A k \in DOMAIN read.given : Len(read.given[k]) \in 1..read.batch

FramesOf(rows) == [i \in DOMAIN rows |-> FrameOf(rows[i])]

\* A call that starts is too large, or one of its tables is not what the opened manifest
\* names, or has not the frames the reader keeps.
MayNotStart(call) ==
  \/ ~Affordable(call.metric, call.how, call.batch, FALSE)
  \/ \E t \in Selected(call.metric, call.how) :
       \/ stored.tables[t] # opened.sums[t]
       \/ call.batch = 0 /\ known \notin {NoFrames, FramesOf(opened.sums[t])}

\* One of its tables does not hold a whole stream, or has frames other than another has.
IsUnsound(call) ==
  \E t, u \in Selected(call.metric, call.how) :
    ~IsStream(opened.sums[t]) \/ FramesOf(opened.sums[t]) # FramesOf(opened.sums[u])

\* Action property.  A read raises only for these reasons, and in its course for the latter
\* alone: a sound result can be read in every way, by batches of every size.
RefusalsAreJustified ==
  [][read' # read /\ read'.status = "raised" =>
       (read'.number # read.number /\ MayNotStart(read')) \/ IsUnsound(read')]_vars

\* Action property.  All the tables a reader returns as a whole are of the same frames, those it
\* keeps, and the frames it keeps are never replaced.
OneSetOfFrames ==
  [][/\ known # NoFrames /\ read' # NoRead => known' = known
     /\ read' # read /\ read'.status = "returned" /\ read'.batch = 0 /\ read'.how # "frames" =>
          known' = FramesOf(opened.sums[Head(TablesOf[read'.metric])])]_vars
============================================================================

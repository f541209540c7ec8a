---------------------------- MODULE StreamedRun ----------------------------
(***************************************************************************)
(* evaluate_stream: the evaluator describes its metrics, the engine checks *)
(* the description against the metrics it has, scores a stream of plans    *)
(* and writes the scores into the tables of a directory                    *)
(* (rust/src/scoring/output.rs); the reader parses what it finds there     *)
(* (scoring/_manifest.py) and gives the scores their meaning again         *)
(* (scoring/result.py).  Three programs share one layout and none of them  *)
(* its code.  RunWriter models how a run is published, StreamScorer how    *)
(* plans are scored one after the other; directories are new here.         *)
(***************************************************************************)
EXTENDS PlanEvaluator

CONSTANTS
  Streams,            \* the streams a caller may evaluate
  Runs,               \* the names of the directories they may be written to
  PathComponent(_),   \* encode_path_component: a name as part of a path
  Unstreamable        \* region labels that are neither strings nor integers

\* A stream has frames of district identifiers by node, and the node order of the
\* graph it is bundled with, if any.
NoOrder == <<>>

ASSUME StreamAssumption ==
  \A s \in Streams : \A i \in DOMAIN s.frames : ToSet(s.frames[i]) \subseteq Nat

-----------------------------------------------------------------------------
(* What the evaluator says of its metrics *)

\* _ResultShape
Shape(kind) ==
  CASE kind = "tally_by_region" -> "region"
    [] kind \in DistrictKinds \cup AreaKinds \cup {"tally", "district_wins", "area_perimeter_metrics"}
         -> "district"
    [] OTHER -> "plan"

\* The columns that the preparation of an engine metric reports.
ColumnNames(m) ==
  CASE m.kind \in RegionKinds \cup {"tally"} -> m.roles.columns
    [] m.kind = "tally_by_region" ->
         (IF m.option THEN <<"count">> ELSE <<>>)
           \o [k \in DOMAIN m.roles.columns |-> m.roles.columns[k][1]]
    [] m.kind = "cut_edges" -> <<IF m.roles.weight = None THEN "count" ELSE m.roles.weight>>
    [] m.kind = "area_perimeter_metrics" -> <<"polsby_popper", "schwartzberg">>
    [] OTHER -> <<"score">>

\* _result_columns
ResultColumns(m, available, indices) ==
  IF m.kind \in AreaKinds THEN <<"score">>
  ELSE [j \in DOMAIN indices |-> available[indices[j]]]

\* _stream_region_labels: in the order of the prepared regions.
StreamedLabels(m, units, values) ==
  IF m.kind = "tally_by_region" THEN RegionOrder(RegionOf(m, units, values), NoLabel) ELSE <<>>

\* _stream_subkeys
RegionSubkeys(columns, labels) ==
  [i \in 1..(Len(columns) * Len(labels)) |->
     columns[(i - 1) \div Len(labels) + 1] \o "__region_" \o ToString((i - 1) % Len(labels))]

\* One metric of the run's metadata, and the engine columns it projects.
Description(m, engineMetric, output, units, values) ==
  LET shape == Shape(engineMetric.kind)
      labels == StreamedLabels(m, units, values)
      columns == IF shape = "region" THEN ColumnNames(engineMetric)
                 ELSE ResultColumns(m, ColumnNames(engineMetric), output.columns)
      subkeys == IF shape = "region" THEN RegionSubkeys(columns, labels) ELSE columns
  IN [kind |-> m.kind, instance |-> m.name, shape |-> shape, subkeys |-> subkeys,
      columns |-> columns, labels |-> labels, source |-> output.source,
      projected |-> IF shape = "region" THEN [j \in DOMAIN subkeys |-> j] ELSE output.columns]

CanDescribe(d) ==
  /\ ToSet(d.labels) \cap Unstreamable = {}
  /\ d.shape # "region" => IsDistinct(d.subkeys)

Metadata(ms, e, units, values) ==
  LET Described(merged) ==
        [k \in DOMAIN ms |->
           Description(ms[k], merged[e.outputs[k].source], e.outputs[k], units, values)]
  IN Described(Merging(ms).engine)

-----------------------------------------------------------------------------
(* What the engine makes of it *)

\* BackendMetric::accepts_kind
AcceptsKind(kernel, kind, columns) ==
  IF kernel.kind = "area_perimeter_metrics"
  THEN <<kind, columns>> \in {<<"polsby_popper", <<1>>>>, <<"schwartzberg", <<2>>>>}
  ELSE kind = kernel.kind

ColumnCount(kernel) ==
  CASE kernel.kind = "tally" -> Len(kernel.columns)
    [] kernel.kind \in RegionKinds -> Len(kernel.columns.regions)
    [] kernel.kind = "tally_by_region" ->
         Len(kernel.columns.labels)
           * (Len(kernel.columns.values) + (IF kernel.option THEN 1 ELSE 0))
    [] kernel.kind = "area_perimeter_metrics" -> 2
    [] OTHER -> 1

\* validate_projections
ValidProjection(d, kernel) ==
  /\ AcceptsKind(kernel, d.kind, d.projected)
  /\ d.shape = Shape(kernel.kind)
  /\ Len(d.subkeys) = Len(d.projected)
  /\ \A j \in DOMAIN d.projected : d.projected[j] <= ColumnCount(kernel)

PrefixColumns == <<"sample_offset", "repetitions", "accepted_index">>

\* validate_axes
ValidAxes(d) ==
  /\ d.columns # <<>> /\ IsDistinct(d.columns)
  /\ IF d.shape = "region"
     THEN IsDistinct(d.labels) /\ d.subkeys = RegionSubkeys(d.columns, d.labels)
     ELSE d.columns = d.subkeys

\* validate_metadata
ValidMetadata(ds) ==
  /\ ds # <<>> /\ IsDistinct([k \in DOMAIN ds |-> ds[k].instance])
  /\ \A k \in DOMAIN ds :
       /\ ds[k].subkeys = <<>> => ds[k].shape = "region"
       /\ ValidAxes(ds[k]) /\ IsDistinct(ds[k].subkeys)
       /\ ds[k].shape = "plan" => ToSet(ds[k].subkeys) \cap ToSet(PrefixColumns) = {}

-----------------------------------------------------------------------------
(* The directory: a path is the sequence of its components *)

TablePath(run, d, column, suffix) ==
  <<d.instance, PathComponent(column) \o suffix \o "__" \o PathComponent(run) \o ".parquet">>

\* physical_tables: a table's path and the subkeys it holds, by position.
PhysicalTables(run, d) ==
  LET width == Len(d.labels)
  IN CASE d.kind = "tally" ->
            [j \in DOMAIN d.subkeys |->
               [path |-> TablePath(run, d, d.subkeys[j], "_tallies"), columns |-> <<j>>]]
       [] d.kind = "tally_by_region" ->
            [j \in DOMAIN d.columns |->
               [path |-> TablePath(run, d, d.columns[j], "_tallies_by_region"),
                columns |-> [r \in 1..width |-> (j - 1) * width + r]]]
       [] OTHER ->
            <<[path |-> <<d.instance \o "__" \o PathComponent(run) \o ".parquet">>,
               columns |-> [j \in DOMAIN d.subkeys |-> j]]>>

\* preferred_manifest_path
ManifestPath(run) == <<"manifest__" \o PathComponent(run) \o ".json">>

OutputPaths(run, ds) ==
  LET tables == FlattenSeq([k \in DOMAIN ds |-> PhysicalTables(run, ds[k])])
  IN Append([i \in DOMAIN tables |-> tables[i].path], ManifestPath(run))

\* Mistake: a directory may have the name of a file.
PathsDiffer(run, ds) == IsDistinct(OutputPaths(run, ds))

\* validate_output_paths: no path is another or leads to it.
PathsAgree(run, ds) ==
  LET Agree(paths) ==
        /\ IsDistinct(paths)
        /\ \A path \in ToSet(paths) :
             \A n \in 1..(Len(path) - 1) : SubSeq(path, 1, n) \notin ToSet(paths)
  IN Agree(OutputPaths(run, ds))

\* schema
ValueColumns(shape, subkeys, ids) ==
  IF shape = "plan" THEN subkeys
  ELSE FlattenSeq([j \in DOMAIN subkeys |->
         [i \in DOMAIN ids |-> subkeys[j] \o "__district_" \o ToString(ids[i])]])

\* MetricScore: a sequence of columns, each by district or of a plan's value.
ScoreColumns(kernel, score, ids) ==
  CASE kernel.kind \in RegionKinds \cup AreaKinds
                         \cup {"tally", "tally_by_region", "area_perimeter_metrics"} -> score
    [] kernel.kind = "district_wins" -> <<[d \in ToSet(ids) |-> d \in score]>>
    [] OTHER -> <<score>>

\* project_score
Projected(columns, indices) == [j \in DOMAIN indices |-> columns[indices[j]]]

\* flatten_score
Flattened(shape, columns, ids) ==
  IF shape = "plan" THEN columns
  ELSE FlattenSeq([j \in DOMAIN columns |-> [i \in DOMAIN ids |-> columns[j][ids[i]]]])

DistrictIds(frames) ==
  IF frames = <<>> THEN <<>> ELSE SetToSortSeq(ToSet(frames[1]), <)

\* create_metric_writers, encode: the tables of a metric whose columns of scores,
\* frame by frame, are given.
Table(d, table, ids, columns) ==
  LET subkeys == Projected(d.subkeys, table.columns)
  IN [path |-> table.path, subkeys |-> subkeys,
      file |-> [columns |-> ValueColumns(d.shape, subkeys, ids),
                rows |-> [f \in DOMAIN columns |->
                            Flattened(d.shape, Projected(columns[f], table.columns), ids)]]]

Tables(d, ids, tables, columns) ==
  [t \in DOMAIN tables |-> Table(d, tables[t], ids, columns)]

FrameColumns(e, d, ids, frame) ==
  LET kernel == e.kernels[d.source]
  IN Projected(ScoreColumns(kernel, KernelScore(kernel, TallyTable(e, frame), frame), ids),
               d.projected)

\* A finished run: its manifest, and the columns and rows of its files.
WrittenRun(run, ds, e, frames, ids) ==
  [districts |-> ids, accepted |-> Len(frames),
   metrics |->
     [k \in DOMAIN ds |->
        [description |-> ds[k],
         tables |-> Tables(ds[k], ids, PhysicalTables(run, ds[k]),
                           [f \in DOMAIN frames |-> FrameColumns(e, ds[k], ids, frames[f])])]]]

-----------------------------------------------------------------------------
(* What the reader makes of the directory *)

\* _grouped_table_run_name: tables of one metric are in its directory and name
\* the columns they are of.
Grouped(d, tables, columns, suffix) ==
  /\ Len(tables) = Len(columns)
  /\ \E run \in Runs :
       \A t \in DOMAIN tables : tables[t].path = TablePath(run, d, columns[t], suffix)

\* _parse_v2_tables
ParsedTables(d, tables) ==
  LET width == Len(d.subkeys) \div Len(d.columns)
      Part(j) == SubSeq(d.subkeys, (j - 1) * width + 1, j * width)
  IN /\ tables # <<>>
     /\ FlattenSeq([t \in DOMAIN tables |-> tables[t].subkeys]) = d.subkeys
     /\ IsDistinct([t \in DOMAIN tables |-> tables[t].path])
     /\ CASE d.kind = "tally" ->
               /\ Grouped(d, tables, d.subkeys, "_tallies")
               /\ \A t \in DOMAIN tables : tables[t].subkeys = <<d.subkeys[t]>>
          [] d.kind = "tally_by_region" ->
               /\ Grouped(d, tables, d.columns, "_tallies_by_region")
               /\ \A t \in DOMAIN tables : tables[t].subkeys = Part(t)
          [] OTHER ->
               \E run \in Runs :
                 [t \in DOMAIN tables |-> tables[t].path]
                   = << <<d.instance \o "__" \o PathComponent(run) \o ".parquet">> >>

\* _parse_run_metric
ParsedMetric(d, tables) ==
  /\ d.columns # <<>> /\ IsDistinct(d.columns) /\ IsDistinct(d.subkeys)
  /\ IF d.shape = "region"
     THEN IsDistinct(d.labels) /\ d.subkeys = RegionSubkeys(d.columns, d.labels)
     ELSE d.columns = d.subkeys
  /\ ParsedTables(d, tables)

\* parse_manifest
CanParse(written) ==
  /\ IsDistinct(written.districts)
  /\ written.metrics # <<>>
  /\ IsDistinct([k \in DOMAIN written.metrics |-> written.metrics[k].description.instance])
  /\ \A k \in DOMAIN written.metrics :
       ParsedMetric(written.metrics[k].description, written.metrics[k].tables)

\* _validated_parquet_file: the columns a table's file must have.
FilesAgree(written) ==
  \A k \in DOMAIN written.metrics :
    LET d == written.metrics[k].description
        tables == written.metrics[k].tables
    IN \A t \in DOMAIN tables :
         /\ tables[t].file.columns = ValueColumns(d.shape, tables[t].subkeys, written.districts)
         /\ Len(tables[t].file.rows) = written.accepted

\* _semantic_value: the values of a row by column, region and district, with the
\* sole column of a metric that has one taken for the metric.
Meaning(d, row, ids) ==
  LET width == Len(d.labels)
      by == Len(ids)
      At(position) == row[position + 1]
      ByDistrict(start) == [x \in ToSet(ids) |-> At(start + SelectInSeq(ids, LAMBDA y : y = x) - 1)]
      columns ==
        [j \in DOMAIN d.columns |->
           CASE d.shape = "region" ->
                  [l \in ToSet(d.labels) |->
                     ByDistrict(((j - 1) * width + SelectInSeq(d.labels, LAMBDA x : x = l) - 1) * by)]
             [] d.shape = "district" -> ByDistrict((j - 1) * by)
             [] d.shape = "plan" -> At(j - 1)]
  IN CASE d.kind \in RegionKinds \cup {"tally", "tally_by_region"} -> columns
       [] d.kind = "district_wins" -> {x \in ToSet(ids) : columns[1][x]}
       [] OTHER -> columns[1]

\* _combine_physical_tables: the tables of a metric side by side.
ReadRow(written, k, f) ==
  LET metric == written.metrics[k]
      row == FlattenSeq([t \in DOMAIN metric.tables |-> metric.tables[t].file.rows[f]])
  IN Meaning(metric.description, row, written.districts)

-----------------------------------------------------------------------------
\* The engine scores the frames one after the other; the writer takes no other
\* set of districts than that of the first.
CanStream(e, stream) ==
  LET frames == stream.frames
  IN /\ stream.order \in {NoOrder, [n \in Nodes |-> n]}    \* validate_bundle_graph_node_order
     /\ \A i \in DOMAIN frames :
          /\ Len(frames[i]) = NodeCount
          /\ ToSet(frames[i]) = ToSet(frames[1])
          /\ \A k \in DOMAIN e.kernels : ShapeScores(e.kernels[k], frames[i])

CanWrite(run, ds, e) ==
  /\ \A k \in DOMAIN ds : CanDescribe(ds[k]) /\ ValidProjection(ds[k], e.kernels[ds[k].source])
  /\ ValidMetadata(ds) /\ PathsAgree(run, ds)

\* What the caller has of a run that was written.
Read(written) ==
  IF CanParse(written) /\ FilesAgree(written)
  THEN [call |-> "stream",
        scores |-> [f \in 1..written.accepted |->
                      [k \in DOMAIN written.metrics |-> ReadRow(written, k, f)]]]
  ELSE [call |-> "unreadable"]

Streamed(run, ds, e, accepts, stream) ==
  IF accepts /\ CanStream(e, stream)
  THEN Read(WrittenRun(run, ds, e, stream.frames, DistrictIds(stream.frames)))
  ELSE [call |-> "refused"]

\* The engine is prepared before anything is looked at, and stays prepared when
\* the run is refused.
WriteRun ==
  \E ds \in {Metadata(metrics, engine', Units, resources'.values)}, run \in Runs :
    \E accepts \in {CanWrite(run, ds, engine')}, stream \in Streams :
      result' = Streamed(run, ds, engine', accepts, stream)
                  @@ [rows |-> stream.frames, order |-> stream.order, run |-> run,
                      metrics |-> metrics]

EvaluateStream ==
  /\ result = NoResult
  /\ UNCHANGED <<edition, framed, metrics>>
  /\ IF IsReady THEN Prepare /\ WriteRun ELSE RefuseToPrepare
============================================================================

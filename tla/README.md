# A verification development for gerrytools

TLA+ modules that model the stateful parts of gerrytools, TLC configurations that
check them on small instances, and proofs that TLAPS checks for every instance.
Paths are relative to the root of the repository (`src/` in `PROJECT.json`). `tlc`
runs a configuration (`tlc -config MCRunWriter.cfg MCRunWriter`), `tlapm` checks
the proofs (`tlapm StreamScorerProofs.tla`). `PROJECT.json` lists the runs,
the mistakes each property has been shown to catch, the source lines of every
definition, and the hazards of the code.

## 1. Inventory

gerrytools scores ensembles of districting plans. A Rust engine reads an encoded
assignment file, scores every plan and writes a run (a directory of Parquet tables
with a manifest). Around it, Python code runs external samplers in Docker, records
chains into bundles, merges score tables into results, compares, downloads, plots.

| Component | State it keeps | Operations | Interacts with | What is hard | What makes it correct |
|---|---|---|---|---|---|
| Stream scorer (`rust/src/scoring/stream.rs`, `mod.rs`, `delta.rs`, `district.rs`, and the metrics that keep a state in `rust/src/metrics/`) | canonical assignment, one incremental state per metric, sample counters | `score_stream` over TwoDelta, MkvChain and Standard files; `update`, `reset` | decoder, emit callback, uniqueness | state carried over thousands of deltas; drained districts; new labels; resyncs; truncation at the sample limit; batches | incremental state = fresh state; all encodings score alike |
| Uniqueness counts (`scoring/uniqueness.rs`) | seen hashes, current memberships | `reset`, `observe_changes`, `apply_to` | stream scorer | hashes cached between frames | counts are those of the plans, whatever their labels and encoding |
| Region and region-parts metrics (`rust/src/metrics/region.rs`, `region_parts.rs`) | occupancies, component slots and members | `reset`, `update` | stream scorer | incremental repair of components, reuse of slots | equals components from scratch |
| Formula metrics (`metrics/formulas.rs`, `scoring/formulas.py`, `_partisan_math.py`) | none | one operator per formula | evaluator | two implementations of each; ties, empty districts, NaN | the engine's formulas are the published ones |
| Run writer (`scoring/output.rs`) | buffers, counters, temporary directory | `new`, `push`, `finish`, `drop` | file system, other processes | partial failures, crashes, races for the output path | whole runs or none, as durable as their directory once acknowledged |
| Engine bindings (`rust/src/python.rs`) | engine and writer of one call | `score_run` | scorer, writer, Python progress callback | callbacks that raise | the published run is the scored file |
| Metric descriptions, plan evaluation, streamed runs (`gerrytools/scoring/`) | registered metrics, snapshotted columns, prepared engine | `add`, `evaluate`, `evaluate_many`, `evaluate_stream` | graph or frame the caller edits, engine, reader | columns that change after they were read; merged and projected tables | scores follow the formulas over the snapshot; what is written can be read |
| Ensemble evaluation and merge (`gerrytools/scoring/evaluator.py`, `_manifest.py`) | result directory | `evaluate_stream`, install, rollback | engine, file system, other evaluators | a crash between two tables; failing rollback | manifest and tables agree |
| Result readers (`gerrytools/scoring/result.py`) | opened manifest, shared frames | whole and batched reads | result directory | tables rewritten under a reader; batch, row-group and repetition boundaries | only verified, whole tables are returned |
| Plan comparison (`gerrytools/plan_comparison/`) | none | relabelings, overlap | | ties, rectangular overlaps, the parity rule | optimal relabeling |
| Runner sessions (`gerrytools/mgrp/run_container.py`) | client, container, streams | `__enter__`, `run`, `run_iter`, `mcmc_run_with_updaters`, `__exit__` | Docker | suspended generators, failing calls, interrupts, reuse | no container or engine is left behind |
| Output recovery (same file) | backups, partial files, log | `_preserve_outputs_on_failure`, `_preserve_log_on_failure` | `run`, file system | failures in every step of recovery | nothing of an earlier run is lost |
| Runner configurations (`gerrytools/mgrp/run_config.py`, `constraints.py`, `objectives.py`, `runners/`, `docker/cli`) | run specs the caller edits | builders, `validate`, documents, file names | sessions, engines in two languages | fields that do not reach the hash; names derived twice | a run waits for the files its engine writes, and names tell runs apart |
| Recorded chains (`gerrytools/ben/recorded_chain.py`) | active flag, read handle, transaction | run iterators, publication, read handles | encoder, reader threads | handles used while a rerun replaces their file | a handle reads its own recording or raises |
| Census client and tables (`gerrytools/data/uscensus/`) | retry budget | `_census_get`, `acs`, `census`, `block_cvap` | network | late answers, `Retry-After`, advisory probes | bounded tries, complete results, calls that end if their answers do |
| Managed axes (`gerrytools/plotting/_axes_state.py`, `_axes_backed.py` and what builds on them) | owner and recorded value per unit, artists, figure | setters, rebuild, `bind`, `close` | Matplotlib, the caller's own changes | restore after callers' changes, several axes | explicit settings hold, the caller's changes that were noticed stay |
| LaTeX tables and plots (`gerrytools/latex/`) | options, a document with packages, colors and commands, files on disk | setters, `add_rule`, header groups, formatters, `save` | TeX engines, PDF renderers, the caller's own document | a setter refused midway; preambles through splits, groups and reordering; passes of an engine that fail or hang | a table can always be typeset, both dialects show the same, a saved file is that of its call |
| Assignment source (`scoring/input.rs`) | guard of the active pass | `open`, `reader` | decoder crate | overlapping passes | one pass at a time |
| Run metadata validation (`scoring/output.rs`) | none | checks of names, axes, paths | writer | | what is accepted can be read |
| Graph preparation, downloads, other plots, colors | none to speak of | pure conversions, drawing | | | not a matter for a state machine |

`PROJECT.json` lists them all under "components", with what is modelled, and lists
under "hazards" what in this code is hard to test, line by line.

## 2. Modules

Engine:

| Module | Models | State and actions in the code |
|---|---|---|
| `IncrementalMetrics` | occupancy, tally, cut-edge and region-count states, slices of changes | pure operators named after `IncrementalTally::update`, `IncrementalCutEdges::update_trusted`, `DistrictOccupancy::apply`, `validate_changes`, `use_full_rescan` |
| `DistrictMetrics` | region tallies, perimeters, hulls, population polygons | the states and updates of the metrics that hold more than one tally per district |
| `RegionParts` | splits, pieces and parts | one action per repaired component and per node put back; the parts of a plan from scratch |
| `Uniqueness` | distinct plans and districts | `UniquenessCounts`, `DistrictMembership` |
| `StreamScorer` | one call of `score_stream` | one action per kind of frame (`ReadSnapshot`, `ReadDelta`, `ReadPlan`, `ReadIndependent`), emission, batches, failures, completion; `current` is the `ScorerState`, `remaining` the sample budget |
| `PlanByPlan` | abstract specification | score each plan from scratch, in order, up to the limit |
| `RunWriter` | run writers of several processes and the disk | `Push` = `push_inner` with the flush of full batches; `Finish` to `SyncParent` = the stages of `finish`; `parent` = the directory the run is in, which `Open` may create (`create_dir_all`) and nobody makes durable; `Kill`, `PowerLoss` |
| `PublishedRun` | abstract specification | a run appears whole, never changes, is durable once promised: acknowledged, in a directory that is durable itself |
| `ScoreRun` | `score_run`: scorer and writer composed | the callback that pushes a row is one step with the emission of the row |
| `Fractions` | the arithmetic of scores | exact fractions with NaN in place of floats |

Scoring in Python:

| Module | Models | State and actions in the code |
|---|---|---|
| `Formulas` | `gerrytools.scoring.formulas` | the array formulas, for one plan |
| `Metrics` | metric descriptions | what each needs, refuses and shares with others; scores of edges, regions and shapes |
| `PlanEvaluator` | the evaluator and the engine's formulas | registration, snapshots of columns, preparation of the engine, its kernels, reading scores back |
| `SinglePlan` | one-call functions | an evaluator of their own over a graph, a graph with a frame, or a frame |
| `StreamedRun` | `evaluate_stream` and its reader | what Python describes, the engine checks and writes, and the reader makes of it |
| `PlanAnalysis` | overlaps and relabelings, and a session that uses all of these | pure operators; one action per call, with the caller's edits in between |
| `EnsembleMerge` | `evaluate_stream` on a result that exists | opening, scoring, the checks, one action per table moved away, installed, removed or restored, the manifest, the removal of stale tables |
| `EnsembleReader` | reads of a stored result | opening, eager and batched reads, tables rewritten in between |

Sampling, data, plots:

| Module | Models | State and actions in the code |
|---|---|---|
| `RunnerSession` | container, commands, engines | `Enter`, `Exit`, `Start`, `Abort`, `Abandon`, `StreamEnds`, with their failures |
| `OutputRecovery` | files around `run()` | one action per move, restore or removal of one file, each with its failure |
| `RunSpecs` | fields, constraints, objectives and run specs | every check, the documents, what the command lines take of them, the file names each side derives |
| `RunOutputs` | a spec edited and run | `OutputRecovery` over the files of `RunSpecs` |
| `RecordedChain` | run iterators, publication, handles | the steps of `_record` and `_publish_run` (`Link`, or `Look` and `Swap`, are those of `publish`), interrupts inside the publication, reader threads that check a handle and open its file, and another program that changes what is at the output path between any two steps (`OutsiderChanges`) |
| `CensusClient` | the calls of `acs.py`, `census.py`, `block_cvap.py` | their successions of requests, the retry loop under each, and answers that come in pieces (`Piece`) |
| `ManagedAxes` | a plot on axes shared with its caller | per-unit ownership; setters, refused calls (`Refuse`), rebuild, binding, closing, the caller's changes |
| `TexLayout` | preambles, cells and the rows of both dialects | pure operators named after the methods of `TablePreamble` and the layout |
| `TexDocument` | the document, its compilation and what is saved | one action per call on the document; `Passes` and `Save` with passes that fail or hang |
| `TexTable` | a table builder in either dialect | one action per setter, refusals midway included |
| `TikzPlots` | seats-votes curves and paintballs | one action per setter; the picture as a sequence of shapes |

Proofs: `StreamScorerProofs` (of `StreamScorer` and `ScoreRun`), `RunWriterProofs`,
`OutputRecoveryProofs` (of `RunnerSession`, `OutputRecovery` and `RunOutputs`), `RecordedChainProofs`,
`EnsembleMergeProofs`, `EnsembleReaderProofs`, `CensusClientProofs` and `FigureProofs` (section 4).

Interactions. `ScoreRun` EXTENDS `StreamScorer` and INSTANCEs `RunWriter`: its actions
are conjunctions of theirs, and it checks the assumptions each makes of the
other. `PlanAnalysis` puts the evaluator, the one-call functions, the streamed runs and the comparisons
side by side over one graph. `RunOutputs` EXTENDS `OutputRecovery` with the files `RunSpecs`
derives. `OutputRecovery` and `RunnerSession` split one Python file: the session says when an
engine can still write, the recovery what becomes of the files. The remaining components
meet through files only, but for the LaTeX builders: `TexTable` and `TikzPlots` EXTEND the document
they write themselves into, and `MCTexFigures` puts them side by side.

`MC*.tla` and `MC*.cfg` hold the instances; `RunnerSession`, `RecordedChain` and
`ManagedAxes` need no MC module, as their constants are plain sets. Definitions introduced by "Mistake:" are
plausible bugs; no specification uses them, each is there so that the property it
should break can be shown to break. A `TypeOK` that no configuration names is part of an
inductive invariant or documents the variables.

## 3. Runs

All but one are safety runs, and their specifications state no fairness, since nothing in
these components has to happen for their callers: a stream may end, a process may
stop, a generator may be left suspended. The exception is `census_client`: `CallsEnd`
holds under weak fairness of the steps of a client at work (`RefuseRequest \/ Piece \/ Receive \/ Wake \/
Return`, as one action). The code justifies it: `REQUEST_TIMEOUT` bounds each wait for the server, which so ends with a
piece of the answer, the answer or an error, and every delay is a bounded sleep. It bounds no request, so there is no fairness
of `Receive` by itself, and `CallsEnd` says that a call ends unless, from some time on, the server sends pieces of one
answer without end. Where a run does not check for deadlock the program may stop anywhere.

| Run | Shows | Instance |
|---|---|---|
| `region_parts` | `RegionPartsAreExact`: components repaired after changes are those of the plan | 6 nodes, a region whose hub leaves, every sequence of plans |
| `run_writer` | `PublishedIsWhole`, `PublishesAtomically` (refinement of `PublishedRun`), with failing calls, kills and power losses anywhere, the parent directory there, missing or newly created | 2 processes, 2 tables (one nested), batches of 2, up to 3 pushes |
| `score_run` | `MetricsAreExact`: every metric state equals a reset of the current plan, and what is refused of a slice a reset refuses; `ScoresPlanByPlan`: all three encodings implement `PlanByPlan`, rows, counts, truncation, uniqueness and all; `WriterRefusesNothing`: the writer accepts every row and summary of a well-formed stream; `PublishedMatchesFile` | 4 nodes, 4 edges, labels 0 to 2, two regions, files of up to 3 frames, limits 0, 2, none |
| `plan_analysis` | `ScoresFollowTheFormulas`, `ColumnsAreSnapshotted`, `BothSidesAreTreatedAlike`, `RelabelingsAreBest`, `StreamedRunsAreReadable` | 4 units, 2 counties, 2 elections; registrations that together hold every kind of metric |
| `ensemble_merge` | `TablesAreReadable`, `NamedTablesAreKept`, `FailedMergeChangesNothing` | 2 calls one after the other, 2 metrics, layouts that meet in one path |
| `ensemble_reader` | `ReadsAreWhole`, `RefusalsAreJustified`, `OneSetOfFrames` | 5 samples in 3 frames, batches of 1, 2, 4, row groups of 2 |
| `output_recovery` | `OutcomeTellsOutputs`, `NothingLostToFailure`, and of the specs `NamesTellTheRun`, `WaitsForWhatIsWritten` (the command line of the engine takes the document, and writes what is waited for), `CanonicalStdoutIsQuiet` | one spec of each of the five types, edited up to twice; 2 runs |
| `runner_session` | `LeavesNothingBehind`, `EnginesAreAttended` | 2 with blocks, 3 commands |
| `recorded_chain` | `HandlesFollowTheirFile`, `FailureIsHarmless`, `DestinationIsProtected` | 3 run iterators, 1 reader thread, nothing, a file, a directory or a symlink of others at the path |
| `census_client` | `RetriesAreJustified`, `ResultsAreSound` (complete, and the estimates shares), `CallsEnd` (or an answer has no end) | 4 attempts, 2 counties, 8 calls |
| `tex_figures` | `TableStaysRenderable`, `DialectsAgree`, `DocumentIsLoadable`, `SavedFilesAreCurrent`, `PicturesAreAccurate`, `RulesLandWhereAsked` | 2 columns, 2 rows, 3 kinds of plots, 3 calls on pairs of topics |
| `managed_axes` | `ExplicitSettingsHold`, `NoticedChangesSurvive`, `NothingIsLeftBehind` | 3 kinds of plots, own and caller's axes, 2 settings, 1 direct change, 2 bindings |

Some properties join what were once several: `WriterRefusesNothing` the acceptance of rows and of
the summary; `TablesAreReadable` what holds of metrics no call scores and of the
whole result; `RegionPartsAreExact` the components being right, being listed once and being
counted; `MetricsAreExact` the states of all metrics; `FailureIsHarmless` what a
failed run leaves of the path, the handle and the bundle; `NothingIsLeftBehind` figures and
renderings.

Why the bounds are enough to be interesting:

* `score_run`: three frames allow a snapshot, a delta on it and a delta on the
  result, a resync (the interval is 2) that is not the first frame, a full batch and a partial
  one, a limit that cuts the second frame. Four nodes and a multiplier of 1 make both
  branches of `use_full_rescan` happen; label 2 outgrows the dense storage of a tally
  built from labels 0 and 1; the plans drain and refill districts and relabel each other.
* `region_parts`: a component loses its hub and falls into a single node and a pair; a
  second region and a node without one offer paths that must not connect it.
* `run_writer`: two processes are enough for the race, since only one can win; three
  rows with batches of two leave a partial batch; a power loss can hit every stage.
* `plan_analysis`: a vote is two parts, so that odd tallies and halves occur; `MaxEdits = 2` lets a column
  change after its snapshot and another before its own; one-call functions are tried
  before anything is registered (`OneCallsAreTried`), and a result is read before the next
  call, as nothing connects it to later ones. Plane measures are opaque and 4π is 12.56.
* `ensemble_merge`: the second call meets what the first has left, stale tables that could
  not be removed and half-installed results included; a metric that changes from one
  table to two needs both installation over an old table and next to it.
* `ensemble_reader`: `RefusalsAreJustified` and `OneSetOfFrames` are action properties. Batches smaller than, equal to and larger than row groups, a frame of several
  samples across both; `MaxReads` 3 with one rewrite (`MaxWrites`) allows a read before, during and after it.
* `output_recovery`: the second run meets everything the first can leave behind,
  including backups that were never restored and partial files. Edits (`MaxEdits = 2`) come before the first
  run only, and runs are followed for four specs (`Followed`): a chain, the same with `sum_cols`,
  and two SMC runs whose names the caller chose so that they share a metadata file, with
  outputs of an earlier session (`Earlier`) at two names. Two edits reach every pair of fields.
* `runner_session`: a second with block is needed for stale references, a third
  command for two generators and a `run` in turns.
* `recorded_chain`: with three iterators, one handle is invalidated, one replaced and
  one fails; the iterators share everything else. What others put at the path changes any number of times, also between the look and the
  replacement.
* `census_client`: four attempts are the code's own; two counties show a missing one and an
  extra one; tracts lie below, at and above the threshold.
* `tex_figures`: a cell of every kind but booleans; of three calls one can set, one be refused midway, and one save or read.
  The calls of a behaviour are about one pair of topics (`Topics`), for rows, columns, headers, cells, drawings and
  files meet in pairs: the index moves columns under header groups, formatters add commands to a
  document the caller edits. The elections have a tie, a district nobody votes in and a curve without color; lines rise, fall and are vertical.
* `managed_axes`: settings of each group (`Groups`) interact within the group only, so each behaviour
  draws its settings from one group; two bindings are there and back.
  A larger instance is too slow to be kept among the runs, and was checked once: 3 settings, 2 direct changes, 1
  binding, one more tick count, limits and ticks together and every other unit by itself (13 million states, 19 minutes).
  `NoticedChangesSurvive` was also checked with 3 direct changes, 3 bindings and 2 settings: geometry plots with all groups, the others
  with all but limits and ticks, for which categorical plots had 1 setting and histograms 2 of everything.

Excused cases. `EnginesAreAttended` and `LeavesNothingBehind` name containers and commands
that Docker refused to remove, or whose creation, start or exit status was lost
(`excused`): the code cannot know of them. `HandlesFollowTheirFile`
and `FailureIsHarmless` leave out runs interrupted between the steps of the publication
(`torn`), a real exception listed below. In
`EnsembleMerge` calls whose rollback failed, or that were interrupted between a move and the
list that records it or after the manifest was replaced, are `excused`: there the temporary
directory takes the backups with it, or old tables are put back under the new manifest. Kills
are not excused from `NamedTablesAreKept` and from what `TablesAreReadable` says of other metrics. After a rebuild that raised
over its ticks the limits are excused from `ExplicitSettingsHold` and `NoticedChangesSurvive`, until the plot is
collected. `NoticedChangesSurvive` is about the changes of the caller that the state of plot and axes still tells (`IsCallers`):
the plot has yielded the unit, or the axes shows another value than the one recorded, or shows one set where nothing was claimed. It
promises nothing of changes made while a claim of the plot waits to be applied (below). `PicturesAreAccurate` says of
markers that they lie on the curve of their election, of curves that they count the seats after each swing, and of lines that they cross
the picture where their equation does; it says nothing of the legend.

### Findings

What the modelling met, where the code does other than a reader of it or its docs would
expect. Each can be seen in the model by dropping the exclusion named.

* `RunnerSession`: a generator kept from an earlier with block and closed in a later one removes the
  later block's container, as `_abort_streamed_exec` uses `self.container` (`AbortsOwnContainer`, which
  no run checks).
* `RecordedChain`: `_publish_run` revalidates the previous handle on every exception out of `publish`, also when
  `os.replace` has already happened (`ReplacementInvalidates`, which no run checks; `torn`).
* `EnsembleMerge`: two concurrent merges lose scores, since the manifest is read, merged and replaced with nothing that
  excludes another call. With `Overlapping = TRUE` the properties fail, and the theorems of
  section 4 assume `~Overlapping`.
* `RecordedChain`: a symlink or a device that is put at the output path after an authorized run has looked at it (`lstat`, `recorded_chain.py:204`)
  and before `os.replace` (`:215`) is replaced, although "overwrite destination must be a regular file" (`:211`): the check and
  the replacement are two calls. `meddled` names the runs it can happen to. A directory is safe, as the system refuses to rename over it.
* `RunWriter`: `with_options` makes missing parents of the output path (`create_dir_all`, `output.rs:229`), and `finish` syncs
  the parent only (`:370`), not the directories that name the new ones. A run in a directory created for it can be lost with it
  when the power fails after `finish` has returned. `Promised` leaves this out; with `parent = "durable"` dropped from it, `PublishesAtomically` fails.
* `CensusClient`: `REQUEST_TIMEOUT`, the "Shared request timeout for every Census API call" (`_api.py:30`), bounds each connect, read and write
  and no request as a whole: a server that sends its answer in small pieces keeps `client.get` (`:169`) waiting as long as it
  likes. With `CallsEnd` reduced to `stage # "idle" ~> stage = "idle"` TLC finds this.
* `TikzPlots`: a curve or a marker whose color is `None` is not drawn ("None removes the line", `seatsvotes.py:184-188`), but its name keeps a
  row in the legend (`:454`, `:464`, `:534-540`). The model does the same (`Legend`).
* `RunSpecs`: R's `file_path_sans_ext` strips alphanumeric extensions only, Python's `Path.stem` any. An SMC run
  with an output name such as `plans.v1-b` and tally columns or the csv writer writes files its session
  does not wait for, and always fails (`HasPlainName` excludes it). Two chosen names that
  differ in their extension alone share one metadata file.
* `StreamedRun`: some descriptions are refused only after the engine was prepared: a plan column named as a
  prefix column, a tally directory named as another metric's table or as the manifest, region labels that
  cannot be streamed. If a caller sorts the evaluator's frame in place between two preparations, columns
  read later are aligned by the positions of the first (the row order of the frame is a constant here; see
  `docs/population-polygon-definition.md:190-193`).
* `ManagedAxes`:
  - a frame or ticks the caller changes between the binding and the first build are overwritten by defaults
    (`_axes_state.py:13-14` promises otherwise);
  - limits set through the plot move default ticks, which then pass for the caller's
    (comment at `gerryplot.py:384-386`);
  - binding a plot to an axes of a subfigure of the figure it owns closes that figure (`_axes_backed.py:73-74`, `:102`;
    the panel "nested" of the model, left out of the configuration);
  - `set_xticks([])` followed by new locations leaves blank labels;
  - the flag for hidden labels is the plot's while hiding is the axes' (comment at `_axis_api.py:213-216`);
  - a rebuild that raises after it set ticks leaves the limits widened, the caller's or the plot's own, and these pass
    for the caller's from then on;
  - a claim made while the unit had no value (the style of a title that is not set) and left with its axes is never
    found changed when the plot comes back;
  - a change the caller makes after a setter of the plot and before the rebuild that applies it is overwritten by that rebuild, although the
    caller came last ("most-recent-wins per unit", `_axes_state.py:12-14`): a claim without a recorded value is never compared with
    the axes (`:628-629`, `:640-642`);
  - a change back to the recorded value goes unnoticed, since detection compares values. So limits the caller sets anew, after a
    change of the projection and on an axes the plot has left, to exactly those `_set_target_crs` recorded when it
    released the plot's (`geoplotbase.py:207-208`) are replaced by the plot's when it returns.

## 4. Proofs

Every theorem holds for all values of the constants under the assumptions the modules name
(TLC evaluates them in every run). Each is proved from an inductive invariant, which was
model-checked on the run's instance before it was proved inductive.

### Stream scorer (`StreamScorerProofs`)

For every graph, region map, label range, file, sample limit, batch size and resync interval:
`IncrementalStateIsExact`, `ScorerHoldsLastPlan`, `DistrictStatesAreExact`,
`RefusalsAreThoseOfScratch`, `StreamTypesHold`, and `StreamsScorePlanByPlan`, the refinement of `PlanByPlan`.
They are theorems of a stream by itself; `MetricsStayExact` and `RunsScorePlanByPlan` carry them to whole runs
(`RunStreams`: what a run does to its stream is what a stream does), whose instance TLC checks.

`IncrementalExact` alone is not inductive: nothing in it says that the assignment of the
state is an assignment of the graph, that a chain has a state from its first accepted
plan on (so that the comparison with it is a slice), or that a Standard file never
meets the incremental actions. `ScorerInv` adds these. It is proved inductive with one lemma per
action that changes the state (`ReadSnapshotInv`, `ReadDeltaInv`, `ReadPlanInv`), and each of
those rests on one lemma per metric: an exact state, updated with a slice that is valid for
its assignment, is exact for the assignment the slice leads to (`OccupancyAfter`,
`UpdateTallyExact`, `UpdateCutEdgesExact`). `UpdateCutEdgesExact` needs that an edge whose
ends both change is counted once, `OccupancyAfter` that counting the leavers and arrivals of a
district is counting its members, by cardinalities of the sets of entries. `DiffLeads` says
that the comparison of two plans is a valid slice between them. `DistrictInv` does the same for
the states of `DistrictMetrics`, where the point is which districts a slice touches: a
neighbour's perimeter changes with a district's, an empty district has no hull.

`HoldsLastPlan` is inductive relative to `ScorerInv` once `frames` is known to be a sequence of
decoded frames (`HistoryInv`); `AcceptAppends` and one lemma per reading action carry it.

The refinement (`StreamsScorePlanByPlan`) rests on one more invariant, `StreamInv`, which says how far each counter has
come: `remaining` has lost the samples of all frames that were read, `samples` and `rows` have those of
the frames that were emitted, and the frames between the two are the pending one or the
batch, each with the samples it adds. `uniqueness` holds the plans of the frames read
(TwoDelta, which counts as it reads) or emitted (the other two), and its membership is that of the
last of these, so that a slice moves it to the next plan's (`MembershipAfter`). The samples through a frame
are sums, which `PlanByPlan` defines by a recursive function. No induction theorem can be used
here, so `TotalsExist` shows that a solution of its recurrence exists by taking a shortest
sequence without one, by the well-foundedness of `<` on the naturals, and the later lemmas use the recurrence alone.
With these, a reading action is `Read`, an emission is `Emit`, the end is `Finish`,
and the start of the last batch is a stutter (`StepRefines`).

### Run writer (`RunWriterProofs`)

For any number of writers, any tables and bounds: `TypesHold`, `PublishedRunsAreWhole` and
`PublicationIsAtomic`, the refinement of `PublishedRun`. The invariant follows a row: while no push of a
writer has failed, each table's file and buffer together hold the rows pushed so far. Every step
of `finish` moves all of them one stage on (stored, linked, described), none of these stages
is lost while the writer is at work, and the rename is the last of them. After it nobody touches the
directory but a power loss, which finds nothing in it that is not durable, and takes the run only together with
a parent directory that was created for it and whose own entry nobody synced. The refinement
is shown step by step: each action is a step of `PublishedRun` or a stutter under the mapping
that takes the output path for the published run. The run is promised to stay when its `finish` has returned and the
parent directory is durable (`Promised`); a power loss that leaves a new parent in place makes it so.

### Scorer and writer together (`StreamScorerProofs`)

`TheWriterRefusesNothing`, `PublishedRunsMatchTheirFile`, for every graph, file, limit and tables. Nothing of
the two components is proved again: a step of the run is a step of the stream or leaves
it alone, and one of the writer or leaves it alone, so that `StreamInv` and the writer's invariant hold of a run
(the module INSTANCEs `RunWriterProofs` for its one writer). `RunInv` adds how they keep in step:
the writer has the stream's counts, each table one row for each emitted, and the districts of the first
plan. A row is acceptable since the samples before it are those of the rows before it and `Wanted`
says that no frame is read past the limit. The summary is acceptable since a plan has
one hash for each district (`HashPerDistrict`), so that k plans with the same n districts have between n and
kn unique ones (`CountsFit`). `RunAssumption` asks for a table, a positive size of batches and a `None`
that is neither a count nor a set of districts.

### Runner sessions (`OutputRecoveryProofs`)

`SessionsLeaveNothing`, `NoEngineIsForgotten`, for any number of containers and commands. The
invariant says who answers for what: for a container that exists, the session that holds it or a
failure of Docker; for an engine that runs, a caller at work in the session or a failure.

### Output recovery (`OutputRecoveryProofs`)

Of the files of runs: `FilesAreAccountedFor`, `OutcomesAreTrue`, `EarlierRunsAreKept`, for any files,
earlier outputs and runs, and whatever specs are followed. The invariant is where the earlier contents of
each file are in each phase: untouched, in this run's backup directory, or back. What lies at an
output's own name is never an earlier version once the engine may write, until it is put back.

Of the specs: `RunsWaitForWhatIsWritten`, `UpdatersRunIsQuiet`, `BuildersAreTrusted`, `NamesAreOfOneRun`, for any
specs a caller starts from, any values assigned, constraints added and objectives built, and
any number of runs. The invariant `CallerInv` says that a spec keeps its required fields and a file name with
tokens (`SpecInv`), that its constraints and objective are what a builder returns while the
caller writes none by hand (`BuiltInv`), and that each run wrote the files of its document.

* `EngineTakesIt`: the checks of validation imply those of the command lines. The lists of constraints are where this
  could fail, for Python checks them by type and engine and the command lines by name.
* `WritesWhatItExpects`: the two derivations of the files agree for every spec. They differ in how they take off
  an extension, hence `HasPlainName` for names that the caller gives; a derived name
  always ends in an extension that both know (`Outputs`).
* `StdoutIsAccepted`, `StdoutHasNoFiles`: validation looks at the replaced fields one at a time.
* `BuilderAdds`, `BuildersReturnObjectives`: the checks of a builder imply those of validation.
* `NamesTellDocuments`: the hash is the first token of its kind in a name (`StemsHaveNoDigest`, since an accepted
  stem has only texts and numbers), so a file that two runs write has one stem
  and one hash (`StemsAreTold`); the stem stands in the document only in the names of files, so equal documents
  under the plain stem are equal under the full one (`SameDocuments`).

`FollowedAssumption` asks of the specs whose runs are followed that they are accepted, have plain
names and files among `Files`, and that `Documents` lists their documents, among which
the hash is injective; `SpecAssumption`, that a caller starts with specs as constructors make them and
calls the builders with the arguments they have.

### Recorded chains (`RecordedChainProofs`)

`TypesHold`, `HandlesReadTheirRecording`, `FailuresAreHarmless`, `DestinationsAreProtected`, for any number of runs and readers. The argument
rests on the exclusion of runs: at most one is between its start and its end, so the destination,
the chain's handle and the handle a publication invalidates are that run's to change. From the
invalidation to the commit no valid handle is left; before and after it the one valid handle is the
chain's, whose run owns the file. For `DestinationsAreProtected` it says what a run between its look at the path and
the replacement can find there: what was there at the look, or what others have put there since, which makes the run `meddled`;
others never take away or change what the chain itself has published (section 5).

### Merges (`EnsembleMergeProofs`)

`ResultsAreAccountedFor`, `ResultsStayReadable`, `NamedTablesAreNotGivenUp`, `FailedMergesAreUndone`, for any metrics, layouts and number of calls
that do not overlap (`~Overlapping`; with overlapping calls the properties are false, section 3). The argument is about
the one call at work: the manifest is the one it has opened until it replaces it, and each path of
its tables is as it was, or holds the call's own table with what was there among the backups. The
invariant has to follow each path through the phases (moved, installed, recorded, rolled
back), as the code's lists do, and separately through a kill, which stops a call in any phase and
leaves what it had to the next one.

### Ensemble reader (`EnsembleReaderProofs`)

`ReadsGiveTheStream`, `RefusalsHaveReasons`, `FramesAreKept` and `BatchesAreOfTheirTables`, for any metrics, tables,
rows, sizes of batches and row groups, memory limits and writes of others. `BatchesHold` says that a read by batches
holds the tables its manifest names and has found their first rows to be the same frames without a gap; with the
types it suffices for refusals and frames. That what is given is whole needs more, in `IInv`: the frames a reader
keeps are those of a stream (`FramesHold`), with a row for each frame what is given is what has been read
(`RowsHold`), and with a row for each sample (`SamplesHold`) each sample is in its place, the part a read still holds
are the last rows it has read, and what remains of the current one ends where that row does. A batch of samples is a slice of rows, each
repeated, put one after the other. So the lemmas say where the blocks of a flattened sequence end (`FlattenedBlocks`, `FlattenedAppend`),
that sums of repetitions are the offsets rows state (`RepetitionsAddUp`, `ContinuingRowsAreAStream`), and what
`Filled` takes and leaves (`FilledGoesOn`). Flattening and the sums are recursive functions; that they are defined for
every length is taken from a least counterexample. TLC checks `IInv` on the instance of `ensemble_reader` too.

### Census client (`CensusClientProofs`)

`RetriesJustified`, `ResultsAreComplete`, `EstimatesAreSharesOfBlocks` and `ResultsStaySound`, which joins
the last two, for any calls, counties, limits, tables
and answers. `RetryInv` bounds the waits by the number of answers waited for times the longest delay,
`Backoff[MaxAttempts - 1]`. The difficulty of the second is that the requests of
`block_cvap_estimates` are not fixed from the start: its fifth answer names the counties. `RequestsAreSettled` says
that an answer may add requests but changes none that was made; with it each frame is the
answer to the request of its place, and the probe, last of its call, is the only one a
result may lack. The third follows: an estimate exists only for a block of a county that was
asked for, hence after the check of every rate. As in the stream scorer the two recursive facts (the
delays double, a finite set of numbers has an ascending sequence) are taken from a least counterexample.

### Managed axes (`FigureProofs`)

`PlotsLeaveNothingBehind`, for any kinds of plots, axes, tick counts and numbers of settings, direct changes and
rebinds. It assumes `NoSubfigures`: bound to a subfigure of its own figure, a plot closes the
figure it is on (section 3). `NothingIsLeftBehind` is not inductive: that an axes the plot returns to
holds at most what the registry tracks there is a fact about axes it has left. `DrawingsTold` says so of every
axes: what is drawn is tracked, by the registry for the bound axes or by its history for another, or it is on a
figure that has been closed. `FiguresTold` says what the finalizer and the open figures are. A rebuild is a
composition of a dozen steps; each of them keeps what is drawn and tracked (`Keeps`) until the one that draws, and
so does the rebuild, once the rendering before it was removed (`Redone`, `ShowsData`).

`SettingsHoldOnAnyAxes`, for the same constants and with subfigures too: when no update is needed, what was asked of the
plot and not taken over by the caller since is what its axes shows. Needed for it is what is known of claims
while an update is pending, or while the plot is elsewhere. `ClaimsInv` says that of every claim
on the bound axes (`ClaimsTold`) either nothing is recorded yet, or the caller has taken it over, or what is recorded
is what the axes shows, so that detection finds nothing to give up; default ticks are recorded with
the limits of the last rebuild. A claim that waits to be applied on an axes that was left has nothing recorded in
its history (`LeftTold`), so it is applied, and not taken for a change, when the plot comes back.
`UpToDate` is what a rebuild adds: claims hold, and only those may still wait that nothing can apply (the style of a
title that is not set). `RebuildTells` follows a rebuild unit by unit from the claims that survive detection
(`DetectionKeepsClaims`); the other actions claim, release or change some units and leave the rest
(`SettersKeepClaims`, `ChangeDirectlyTells`), or carry claims to another axes (`BindToAxTells`, `UnbindTells`).

### Tables and plots in LaTeX (`FigureProofs`)

`TablesStayRenderable`, `SavedTablesAreCurrent`, `SavedPlotsAreCurrent`, `PlotsStayLoadable`, `RulesLand`, `TableTypesHold`, for any data frame,
formatters, formats, header groups and number of calls.

`TableStaysRenderable` speaks of the preambles after the index was split off and groups have moved the columns, and of
the commands of the cells displayed. Neither is inductive: a setter that hides the index, or a later group, changes
which preamble is used. `TableInv` says that the preamble of the columns and the one of the groups fit by themselves
(`PreamblesFit`), that every command is in the document as often as the caller and the table have added it
(`DocumentCounts`), and that the document provides the commands of every formatter in use, displayed or not. That what fits still fits after
the split and the reordering rests on counting columns in sequences of groups, by a least
counterexample. `FilesInv` needs `Repeats`: a body that draws at positions belongs to a document that is compiled
twice, so that all passes together settle it (`PassesSettle`). For `RulesLand` boundaries have to count their rules
(`RulesInv`), through parsing of a format (`ParsedBoundaries`), splitting and reordering;
then a call changes the displayed boundary it names, whichever preamble that one comes from.

`PlotsStayLoadable` is `DocumentIsLoadable` for plots. A document is loadable when its macros are those the scan looks for
or TikZ's, and tikz is listed (`ScannedIsLoadable`): a package that options move or that latexcolors
replaces is still loaded, once. `CommandAssumption` says that the macros of added commands are of these.

### Assumptions

Named in their modules and evaluated by TLC in every run: nodes
are finitely many naturals, edges join distinct nodes and are listed in one
direction (what `validate_edge_nodes` accepts), plans are assignments, counts are
positive, the batch size and the resync interval are positive; sets of writers, tables, runs, paths
are finite or arbitrary as the modules say.

### Model-checked only

* `RegionPartsAreExact`: the repair folds over sets and sequences of nodes, again induction over data.
* `CallsEnd`, the one liveness property: fairness and ENABLED are out of the prover's reach.
* The five properties of `PlanAnalysis`: what they compare are sums, paths and components over a graph, computed by recursion.
* `DialectsAgree` compares two sequences of lines that are built by folds over rows and groups, and `PicturesAreAccurate` the points of a
  curve, sorted and folded over districts: induction over data once more.
* `DocumentIsLoadable` of tables: the tokens of a tabular format are selected from sequences, and the prover knows nothing of `SelectSeq`;
  that the columns of header groups, strung together, are all the columns is induction over data as well.
* `NoticedChangesSurvive` of `ManagedAxes`, on its run and on the larger instances named in section 3.

The other way round, `HoldsLastPlan` and `BuiltSpecsAreAccepted` are properties that theorems state and no run names, as are
the type facts (`TypeOK`, `TableTypeOK`).

## 5. What the models leave out

* Floating point. A tally total is a formal sum (how often each node is in it), so that
  two totals are equal exactly when they agree for all weights; scores are exact fractions. Rounding, which
  accumulates in TwoDelta streams, is not modelled.
* Geometry of the plane: areas, hulls and circles are opaque values of the units measured.
* SHA-256 is taken to be injective (plans, districts, tables, documents).
* Decoding of files, and the content of rows beyond their prefix and district ids.
* `RunWriter` assumes a rename that refuses an existing target, which the code has on Linux and
  Apple; elsewhere it checks and renames. Removing a temporary directory on
  drop is assumed to succeed.
* `OutputRecovery` has one session at a time on its files, and the engine has stopped
  when files are recovered. Two sessions on the same output are listed as a hazard.
* `EnsembleMerge` takes the replacement of the manifest as one step, also for results in the
  older format, whose first manifest is removed afterwards. Nothing in the merge is
  synced, so power losses are not modelled.
* `RunnerSession` does not enter a session that is already entered.
* `RecordedChain` assumes that only the chain writes its output path once it has
  published (before that others change it at will), that the path does not come to name another file, and that interrupts
  do not hit the few instructions that set and clear the active flag outside the
  `try` statement. A cached decoder and `partition_at` read under the lock of the handle
  like the iterators, and are not modelled apart from them.
* `ManagedAxes` takes the x and y axes for one and what is drawn for a version of the data; legend options,
  aspect settings, grids and `focus_axes` are left out.
* `StreamedRun` leaves out dtypes, limits of sizes and manifests of version 1; `PlanEvaluator` leaves out `to_updaters`
  and the checks of Python types.
* `TexDocument` takes the exit code 0 of an engine, with a PDF in the workspace, for a fresh PDF of the document it was given, as `_render.py:103`
  does: that an engine reports its failures is an assumption on TeX, under which `SavedFilesAreCurrent` holds.
* The LaTeX modules leave out text, sizes and the order of packages but for `xcolor`; `TikzPlots` follows one of the two
  documents of a paintball.
* Components with status "not_modelled" in `PROJECT.json`, each with its reason.

## 6. What could follow

The hazards without a property in `PROJECT.json` mark where the code gives no guarantee: two sessions with one output, a generator
closed in a later with block, an interrupt inside a publication, and two evaluations of one result at the same
time. All but the first are in the models and break properties when the exclusions named in section 3
are dropped. Without a model are two passes over one assignment source (`input.rs`) and the staging file of
the geometry download.

------------------------------ MODULE RunSpecs ------------------------------
(***************************************************************************)
(* The run specs of the three engines (gerrytools/mgrp/runners): the       *)
(* fields they have, with their defaults, and what validate() accepts; the *)
(* document a runner gives its engine, and the files of a run: those that  *)
(* RunnerConfig.expected_files derives from the run spec, and those that   *)
(* the engines, their command lines (docker/cli) and their parsers write   *)
(* when given the document.                                                *)
(*                                                                         *)
(* A spec is its type and the fields given to it, by its constructor or    *)
(* assigned later; every other field has its default.  Fields without a    *)
(* default are always given.  Seeds and balance_ub are bounded by          *)
(* constants, in place of the widths of the engines' integers.  The        *)
(* document and the files derive from specs with all their fields,         *)
(* [type, fields].                                                         *)
(*                                                                         *)
(* A file name is a sequence of tokens, which the code joins; an extension *)
(* is a token of its own, <<"ext", "jsonl">>, or <<"odd", "v1-b">> when it *)
(* has characters that are neither letters nor digits.                     *)
(***************************************************************************)
EXTENDS Integers, Sequences, TLC

-----------------------------------------------------------------------------
(* Values given to run specs and the checks made of them: of single fields *)
(* (run_config.py), of constraints of runs (constraints.py) and of         *)
(* objectives of optimizer runs (objectives.py), all in gerrytools/mgrp.   *)
(*                                                                         *)
(* A value is a tuple of its type and its contents: <<"int", 3>>,          *)
(* <<"float", 1>> (in halves), <<"nan">> for what is not finite,           *)
(* <<"bool", TRUE>>, <<"text", "a">>, <<"none">>, <<"list", s>> and        *)
(* <<"dict", f>>, f being a function of the keys.  A bare file name is     *)
(* <<"name", tokens>>: see RunSpecs.                                       *)

None == <<"none">>
Number(n) == <<"int", n>>
Halves(n) == <<"float", n>>
NaN == <<"nan">>
Flag(b) == <<"bool", b>>
Text(t) == <<"text", t>>
List(s) == <<"list", s>>
Dict(f) == <<"dict", f>>

\* Texts that are no bare file names.
Paths == {"", ".", "..", "plans/run", "c:plans"}

IsFinite(v) == v[1] \in {"int", "float"}
Twice(v) == IF v[1] = "int" THEN 2 * v[2] ELSE v[2]
IsNonNegative(v) == IsFinite(v) /\ Twice(v) >= 0
IsShare(v) == IsFinite(v) /\ 0 <= Twice(v) /\ Twice(v) <= 2
IsInteger(v) == v[1] = "int"
IsSeed(v, least, largest) == IsInteger(v) /\ least <= v[2] /\ v[2] <= largest
IsPositiveInteger(v) == IsInteger(v) /\ v[2] >= 1
IsFlag(v) == v[1] = "bool"
IsText(v) == v[1] = "name" \/ (v[1] = "text" /\ v[2] # "")
IsListOf(v, Accepts(_)) == v[1] = "list" /\ \A i \in DOMAIN v[2] : Accepts(v[2][i])
IsTextList(v) == IsListOf(v, IsText)
IsFilled(v) == v[2] # << >>

IsBareName(v) == v[1] = "name" \/ (v[1] = "text" /\ v[2] \notin Paths)

-----------------------------------------------------------------------------
(* Constraints: the builder, whose methods append a dictionary each, and   *)
(* the validation that builders and run specs share.                       *)

ConstraintKeys ==
    [district_share_floor |-> {"numerator_col", "denominator_cols", "threshold"},
     group_hinge |-> {"strength", "group_pop_col", "total_pop_col", "targets"},
     group_power |-> {"strength", "group_pop_col", "total_pop_col", "target_group",
                      "target_other", "pow"},
     status_quo |-> {"strength", "plan_col"},
     splits |-> {"strength", "admin_col"},
     pack_nodes |-> {"unpack"},
     max_coarse_node_splits |-> {"max_splits"},
     allowed_excess_dists_in_coarse_nodes |-> {"allowable_excess"},
     max_discontinuous_traversal_segments |-> {"max_line_segments"}]

\* ENGINE_SUPPORT, read the other way.
Supported ==
    [recom |-> {"district_share_floor"},
     smc |-> {"group_hinge", "group_power", "status_quo", "splits"},
     forest |-> {"pack_nodes", "max_coarse_node_splits",
                 "allowed_excess_dists_in_coarse_nodes",
                 "max_discontinuous_traversal_segments"}]

\* One branch of validate_constraint_spec asks this of a field.
FieldIsAccepted(kind, key, v) ==
    \/ key = "constraint"
    \/ key \in {"numerator_col", "group_pop_col", "plan_col", "admin_col"} /\ IsText(v)
    \/ key = "total_pop_col" /\ (IsText(v) \/ (kind = "group_hinge" /\ v = None))
    \/ key = "denominator_cols" /\ IsTextList(v) /\ IsFilled(v)
    \/ key \in {"threshold", "target_group", "target_other"} /\ IsShare(v)
    \/ key = "targets" /\ IsListOf(v, IsShare) /\ IsFilled(v)
    \/ key = "strength" /\ IsFinite(v)
    \/ key = "pow" /\ IsFinite(v) /\ Twice(v) > 0
    \/ key = "unpack" /\ IsInteger(v)
    \/ key \in {"max_splits", "allowable_excess"} /\ IsInteger(v) /\ v[2] >= 0
    \/ key = "max_line_segments" /\ IsInteger(v) /\ v[2] = 1

\* validate_constraint_spec returns a copy, or refuses.
IsConstraint(value) ==
    /\ value[1] = "dict"
    /\ LET given == value[2] IN
       /\ "constraint" \in DOMAIN given
       /\ given["constraint"][1] = "text"
       /\ LET kind == given["constraint"][2] IN
          /\ kind \in DOMAIN ConstraintKeys
          /\ DOMAIN given = ConstraintKeys[kind] \cup {"constraint"}
          /\ \A key \in DOMAIN given : FieldIsAccepted(kind, key, given[key])

-----------------------------------------------------------------------------
(* The builder *)

Constraint(kind, fields) ==
    Dict([key \in DOMAIN fields \cup {"constraint"} |->
            IF key = "constraint" THEN Text(kind) ELSE fields[key]])

DistrictShareFloor(numerator, denominators, threshold) ==
    Constraint("district_share_floor",
        [numerator_col |-> numerator, denominator_cols |-> denominators,
         threshold |-> threshold])

GroupHinge(strength, group, total, targets) ==
    Constraint("group_hinge",
        [strength |-> strength, group_pop_col |-> group, total_pop_col |-> total,
         targets |-> targets])

GroupPower(strength, group, total, target, pow) ==
    Constraint("group_power",
        [strength |-> strength, group_pop_col |-> group, total_pop_col |-> total,
         target_group |-> target, target_other |-> Halves(1), pow |-> pow])

StatusQuo(strength, plan) ==
    Constraint("status_quo", [strength |-> strength, plan_col |-> plan])

Splits(strength, admin) == Constraint("splits", [strength |-> strength, admin_col |-> admin])

PackNodes(unpack) == Constraint("pack_nodes", [unpack |-> unpack])

MaxCoarseNodeSplits(n) == Constraint("max_coarse_node_splits", [max_splits |-> n])

AllowedExcessDists(n) ==
    Constraint("allowed_excess_dists_in_coarse_nodes", [allowable_excess |-> n])

MaxDiscontinuousTraversalSegments(n) ==
    Constraint("max_discontinuous_traversal_segments", [max_line_segments |-> n])

\* _add: a refused constraint leaves the builder as it was.
Add(builder, constraint) ==
    IF IsConstraint(constraint) THEN <<"builder", Append(builder[2], constraint)>> ELSE builder

-----------------------------------------------------------------------------
(* What a run makes of its constraints: nothing, one dictionary, a list of *)
(* them or a builder.                                                      *)

Items(value) ==
    IF value[1] \in {"builder", "list"} THEN value[2]
    ELSE IF value[1] = "dict" /\ DOMAIN value[2] # {} THEN <<value>> ELSE << >>

\* constraint_specs returns these items, or refuses the run.
AreConstraintsOf(value, engine) ==
    /\ value[1] \in {"none", "builder", "list", "dict"}
    /\ \A i \in DOMAIN Items(value) :
          /\ IsConstraint(Items(value)[i])
          /\ Items(value)[i][2]["constraint"][2] \in Supported[engine]

-----------------------------------------------------------------------------
(* Objectives.  A builder takes its arguments, None for those left out,    *)
(* and returns a dictionary without these; validate_objective_spec checks  *)
(* the keys and types of a dictionary and calls the builder of its kind.   *)

RequiredKeys ==
    [by_district_abs_deviation |-> {"target_values", "pov_counts_col"},
     abs_deviation |-> {"target", "n_target_districts", "pov_counts_col"},
     gingles_partial |-> {"threshold", "min_pop", "total_pop"},
     banded_gingles_partial |-> {"lower_threshold", "upper_threshold", "min_pop", "total_pop"},
     election_wins |-> {"elections", "target", "aggregation"},
     polsby_popper |-> {"area_col", "shared_perim_col", "aggregation"}]

OptionalKeys(kind) ==
    IF kind \in {"by_district_abs_deviation", "abs_deviation"}
    THEN {"total_counts_col", "total_count"}
    ELSE IF kind = "polsby_popper" THEN {"perim_col", "boundary_perim_col"} ELSE {}

-----------------------------------------------------------------------------
(* What the builders ask of the arguments they are given *)

IsBetween(v) == IsFinite(v) /\ 0 < Twice(v) /\ Twice(v) < 2
IsPositive(v) == IsFinite(v) /\ Twice(v) > 0
IsAggregation(v) == v \in {Text("mean"), Text("min"), Text("sum")}

AreTexts(args, keys) == \A key \in keys \cap DOMAIN args : IsText(args[key])

\* Exactly one share denominator.
HasOneTotal(args) ==
    /\ ("total_counts_col" \in DOMAIN args) # ("total_count" \in DOMAIN args)
    /\ "total_count" \in DOMAIN args => IsPositive(args.total_count)
    /\ AreTexts(args, {"pov_counts_col", "total_counts_col"})

ByDistrictAbsDeviation(args) ==
    /\ IsListOf(args.target_values, IsShare) /\ IsFilled(args.target_values)
    /\ HasOneTotal(args)

AbsDeviation(args) ==
    /\ IsShare(args.target)
    /\ IsPositiveInteger(args.n_target_districts)
    /\ HasOneTotal(args)

GinglesPartial(args) == IsBetween(args.threshold) /\ AreTexts(args, {"min_pop", "total_pop"})

BandedGinglesPartial(args) ==
    /\ IsBetween(args.lower_threshold) /\ IsBetween(args.upper_threshold)
    /\ Twice(args.lower_threshold) <= Twice(args.upper_threshold)
    /\ AreTexts(args, {"min_pop", "total_pop"})

IsElection(v) ==
    /\ v[1] = "dict"
    /\ DOMAIN v[2] = {"votes_a", "votes_b"}
    /\ AreTexts(v[2], DOMAIN v[2])

ElectionWins(args) ==
    /\ IsListOf(args.elections, IsElection) /\ IsFilled(args.elections)
    /\ args.target \in {Text("a"), Text("b")}
    /\ IsAggregation(args.aggregation)

PolsbyPopper(args) ==
    /\ {"perim_col", "boundary_perim_col"} \cap DOMAIN args # {}
    /\ AreTexts(args, DOMAIN args \ {"aggregation"})
    /\ IsAggregation(args.aggregation)

Builds(kind, args) ==
    \/ kind = "by_district_abs_deviation" /\ ByDistrictAbsDeviation(args)
    \/ kind = "abs_deviation" /\ AbsDeviation(args)
    \/ kind = "gingles_partial" /\ GinglesPartial(args)
    \/ kind = "banded_gingles_partial" /\ BandedGinglesPartial(args)
    \/ kind = "election_wins" /\ ElectionWins(args)
    \/ kind = "polsby_popper" /\ PolsbyPopper(args)

-----------------------------------------------------------------------------

Provided(args) ==
    LET there == {key \in DOMAIN args : args[key] # None}
    IN  [key \in there |-> args[key]]

\* Mistake: an argument left out is written as null.
WrittenWithNulls(kind, args) ==
    [key \in DOMAIN args \cup {"objective"} |->
        IF key = "objective" THEN Text(kind) ELSE args[key]]

\* The dictionary a builder returns.
Written(kind, args) ==
    [key \in DOMAIN Provided(args) \cup {"objective"} |->
        IF key = "objective" THEN Text(kind) ELSE args[key]]

IsBuilt(kind, args) == Builds(kind, Provided(args))

IsObjective(value) ==
    /\ value[1] = "dict"
    /\ LET given == value[2] IN
       /\ "objective" \in DOMAIN given
       /\ given["objective"][1] = "text"
       /\ LET kind == given["objective"][2] IN
          /\ kind \in DOMAIN RequiredKeys
          /\ RequiredKeys[kind] \subseteq DOMAIN given
          /\ DOMAIN given \subseteq RequiredKeys[kind] \cup OptionalKeys(kind) \cup {"objective"}
          /\ Builds(kind, [key \in DOMAIN given \ {"objective"} |-> given[key]])

-----------------------------------------------------------------------------

CONSTANTS
    LargestSeed,        \* of an engine: 2^64 - 1, 2^63 - 1 and 2^31 - 1
    LargestBalance,     \* 2^32 - 1
    Documents           \* the documents of the runs that are followed

ASSUME SeedAssumption ==
    /\ LargestBalance \in Nat
    /\ DOMAIN LargestSeed = {"recom", "forest", "smc"}
    /\ \A engine \in DOMAIN LargestSeed : LargestSeed[engine] \in Nat

\* The fields of f, and those of g that f leaves out.
Over(f, g) == [x \in DOMAIN f \cup DOMAIN g |-> IF x \in DOMAIN f THEN f[x] ELSE g[x]]

Empty == List(<< >>)
NoDict == Dict(<< >>)

RecomDefaults ==
    [n_steps |-> Number(10), pop_tol |-> Halves(0), n_threads |-> Number(1),
     writer |-> Text("canonical"), sum_cols |-> Empty, region_weights |-> NoDict,
     edge_weight_keys |-> Empty, show_progress |-> Flag(FALSE), rng_seed |-> Number(1)]

ChainDefaults ==
    Over([balance_ub |-> Number(0), target_pop |-> None, batch_size |-> Number(1),
          constraint |-> None, cut_edges_count |-> Flag(FALSE), bendl_graph_order |-> Text("none"),
          force_print |-> Flag(FALSE), updaters |-> NoDict], RecomDefaults)

OptimizerDefaults ==
    Over([maximize |-> Flag(TRUE), variant |-> Text("B"), partial_sum_cols |-> Empty,
          write_improved_scores_only |-> Flag(FALSE), output_file_name |-> None], RecomDefaults)

TiltedDefaults ==
    Over([accept_rule |-> Text("linear"), accept_worse_prob |-> None, acceptance_beta |-> None],
         OptimizerDefaults)

ForestDefaults ==
    [num_dists |-> Number(2), pop_dev |-> Halves(0), constraints |-> None, gamma |-> Halves(0),
     n_steps |-> Number(10), rng_seed |-> Number(1), output_file_name |-> None,
     writer |-> Text("jsonl"), force_print |-> Flag(FALSE), updaters |-> NoDict]

SMCDefaults ==
    [pop_tol |-> Halves(0), pop_bounds |-> Empty, rng_seed |-> Number(1),
     compactness |-> Halves(2), constraints |-> None, resample |-> Flag(FALSE),
     adapt_k_thresh |-> Halves(1), seq_alpha |-> Halves(1), pop_temper |-> Halves(0),
     final_infl |-> Halves(2), verbose |-> Flag(FALSE), silent |-> Flag(FALSE),
     tally_columns |-> Empty, output_file_name |-> None, writer |-> Text("jsonl")]

Defaults ==
    [chain |-> ChainDefaults, bursts |-> OptimizerDefaults, tilted |-> TiltedDefaults,
     forest |-> ForestDefaults, smc |-> SMCDefaults]

\* The fields without a default.
RequiredFields ==
    [chain |-> {"pop_col", "assignment_col", "variant"},
     bursts |-> {"pop_col", "assignment_col", "objective", "burst_length"},
     tilted |-> {"pop_col", "assignment_col", "objective"},
     forest |-> {"levels", "pop_col"},
     smc |-> {"pop_col", "n_dists", "n_sims"}]

\* A file name has tokens, unless it is no bare one.
IsFileName(v) ==
    /\ v[1] = "name" => v[2] # << >>
    /\ v[1] = "text" => v[2] \in Paths

\* What a constructor returns.
IsSpec(spec) ==
    /\ spec.type \in DOMAIN Defaults
    /\ spec = [type |-> spec.type, given |-> spec.given]
    /\ RequiredFields[spec.type] \subseteq DOMAIN spec.given
    /\ "output_file_name" \in DOMAIN spec.given => IsFileName(spec.given["output_file_name"])

Optimizers == {"bursts", "tilted"}

Engine(spec) == IF spec.type \in {"forest", "smc"} THEN spec.type ELSE "recom"

\* The fields of a spec object.
Values(spec) == Over(spec.given, Defaults[spec.type])

-----------------------------------------------------------------------------
(* validate() *)

Letter ==
    ("cut-edges-mst" :> "A") @@ ("district-pairs-mst" :> "B") @@ ("cut-edges-ust" :> "C")
        @@ ("district-pairs-ust" :> "D") @@ ("reversible" :> "R")
        @@ ("cut-edges-region-aware" :> "AW") @@ ("district-pairs-region-aware" :> "BW")

OptimizerVariants == {"A", "B", "C", "D"}

ChainVariants == OptimizerVariants \cup {"R", "AW", "BW"}

Writers == {"tsv", "jsonl", "pcompress", "jsonl-full", "assignments",
            "canonicalized-assignments", "canonical", "ben", "bendl"}

BinaryWriters == {"pcompress", "ben", "bendl"}

IsOneOf(v, texts) == v[1] = "text" /\ v[2] \in texts

Normalized(variant) ==
    IF IsOneOf(variant, DOMAIN Letter) THEN Text(Letter[variant[2]]) ELSE variant

\* A binary stream cannot be printed.
ForcesNoBinary(v) == ~(v.force_print = Flag(TRUE) /\ IsOneOf(v.writer, BinaryWriters))

AreRegionWeights(weights) ==
    /\ weights[1] = "dict"
    /\ \A region \in DOMAIN weights[2] : region # "" /\ IsFinite(weights[2][region])

\* The fields that chains and optimizers share.
RecomAccepts(v, variants, weighted) ==
    /\ IsOneOf(Normalized(v.variant), variants)
    /\ IsOneOf(v.writer, Writers)
    /\ IsText(v.pop_col) /\ IsText(v.assignment_col) /\ IsBareName(v.assignment_col)
    /\ IsTextList(v.sum_cols) /\ IsTextList(v.edge_weight_keys)
    /\ IsFilled(v.edge_weight_keys) => IsOneOf(Normalized(v.variant), weighted)
    /\ AreRegionWeights(v.region_weights)
    /\ IsPositiveInteger(v.n_steps) /\ IsPositiveInteger(v.n_threads)
    /\ IsNonNegative(v.pop_tol)
    /\ IsSeed(v.rng_seed, 0, LargestSeed["recom"])
    /\ IsFlag(v.show_progress)

IsOrder(v) == IsOneOf(v, {"none", "rcm", "mlc"}) \/ (v[1] = "key" /\ v[2] # "")

ChainAccepts(v) ==
    /\ RecomAccepts(v, ChainVariants, {"A", "B", "AW", "BW"})
    /\ IsInteger(v.balance_ub) /\ v.balance_ub[2] \in 0 .. LargestBalance
    /\ Normalized(v.variant) = Text("R") => v.balance_ub[2] > 0
    /\ IsOneOf(Normalized(v.variant), {"AW", "BW"}) => v.region_weights # NoDict
    /\ IsPositiveInteger(v.batch_size)
    /\ IsFlag(v.cut_edges_count) /\ IsFlag(v.force_print)
    /\ v.target_pop = None \/ IsPositiveInteger(v.target_pop)
    /\ IsOrder(v.bendl_graph_order)
    /\ v.bendl_graph_order = Text("none") \/ v.writer = Text("bendl")
    /\ ForcesNoBinary(v)
    /\ AreConstraintsOf(v.constraint, "recom") /\ Len(Items(v.constraint)) <= 1

OptimizerAccepts(v) ==
    /\ RecomAccepts(v, OptimizerVariants, {"A", "B"})
    /\ IsTextList(v.partial_sum_cols)
    /\ v.output_file_name = None \/ IsBareName(v.output_file_name)
    /\ IsFlag(v.maximize) /\ IsFlag(v.write_improved_scores_only)
    /\ IsObjective(v.objective)

IsBurst(v) == IsPositiveInteger(v.burst_length)

IsTilt(v) ==
    /\ IsOneOf(v.accept_rule, {"fixed", "linear", "exponential"})
    /\ IF v.accept_rule = Text("fixed")
       THEN IsShare(v.accept_worse_prob) /\ v.acceptance_beta = None
       ELSE /\ v.accept_worse_prob = None
            /\ v.acceptance_beta = None \/ IsNonNegative(v.acceptance_beta)

ForestAccepts(v) ==
    /\ IsTextList(v.levels) /\ IsFilled(v.levels)
    /\ IsText(v.pop_col)
    /\ IsOneOf(v.writer, {"jsonl", "ben", "raw"})
    /\ IsPositiveInteger(v.num_dists) /\ IsPositiveInteger(v.n_steps)
    /\ IsNonNegative(v.pop_dev) /\ IsFinite(v.gamma)
    /\ IsSeed(v.rng_seed, 0, LargestSeed["forest"])
    /\ IsFlag(v.force_print) /\ ForcesNoBinary(v)
    /\ AreConstraintsOf(v.constraints, "forest")

IsBound(v) == IsInteger(v) /\ v[2] >= 0

SMCAccepts(v) ==
    /\ IsText(v.pop_col)
    /\ IsListOf(v.pop_bounds, IsBound) /\ Len(v.pop_bounds[2]) \in {0, 3}
    /\ \A i \in 1 .. Len(v.pop_bounds[2]) - 1 : v.pop_bounds[2][i][2] <= v.pop_bounds[2][i + 1][2]
    /\ IsPositiveInteger(v.n_dists) /\ IsPositiveInteger(v.n_sims)
    /\ IsNonNegative(v.pop_tol)
    /\ IsShare(v.adapt_k_thresh) /\ IsShare(v.seq_alpha)
    /\ IsFinite(v.compactness) /\ IsFinite(v.pop_temper) /\ IsFinite(v.final_infl)
    /\ IsSeed(v.rng_seed, -LargestSeed["smc"], LargestSeed["smc"])
    /\ IsFlag(v.resample) /\ IsFlag(v.verbose) /\ IsFlag(v.silent)
    /\ IsTextList(v.tally_columns)
    /\ IsOneOf(v.writer, {"jsonl", "ben", "csv"})
    /\ AreConstraintsOf(v.constraints, "smc")

IsAccepted(spec) ==
    LET v == Values(spec) IN
    \/ spec.type = "chain" /\ ChainAccepts(v)
    \/ spec.type = "bursts" /\ IsBurst(v) /\ OptimizerAccepts(v)
    \/ spec.type = "tilted" /\ IsTilt(v) /\ OptimizerAccepts(v)
    \/ spec.type = "forest" /\ ForestAccepts(v)
    \/ spec.type = "smc" /\ SMCAccepts(v)

\* The letter of the variant is written back, even when a later check refuses; what
\* bursts and tilted runs have of their own is checked before.
Validated(spec) ==
    LET v == Values(spec) IN
    IF /\ "variant" \in DOMAIN spec.given
       /\ spec.type = "bursts" => IsBurst(v)
       /\ spec.type = "tilted" => IsTilt(v)
    THEN [spec EXCEPT !.given["variant"] = Normalized(@)]
    ELSE spec

-----------------------------------------------------------------------------
(* Names of files *)

Ext(e) == <<"ext", e>>

WriterSuffix(writer) ==
    LET listed == [pcompress |-> <<Text("_pcompress"), Ext("chain")>>,
                   ben |-> <<Ext("jsonl"), Ext("ben")>>, assignments |-> <<Ext("assignments")>>,
                   tsv |-> <<Ext("tsv")>>, bendl |-> <<Ext("bendl")>>, csv |-> <<Ext("csv")>>,
                   raw |-> <<Ext("atlas")>>]
    IN  IF writer[2] \in DOMAIN listed THEN listed[writer[2]] ELSE <<Ext("jsonl")>>

\* Path(name).stem: the name without its last extension.
PathStem(name) ==
    IF name[Len(name)][1] \in {"ext", "odd"} THEN SubSeq(name, 1, Len(name) - 1) ELSE name

Sidecar(name, part, extension) == PathStem(name) \o <<Text(part), Ext(extension)>>

-----------------------------------------------------------------------------
(* Names that derive from the spec *)

Full(spec) == [type |-> spec.type, fields |-> Values(spec)]

Stem(spec) ==
    LET v == spec.fields IN
    IF spec.type = "chain" THEN <<Text("Recom"), v.variant, v.assignment_col, v.rng_seed, v.n_steps>>
    ELSE IF spec.type = "bursts"
    THEN <<Text("SB"), v.variant, v.assignment_col, v.rng_seed, v.n_steps, v.burst_length>>
    ELSE IF spec.type = "tilted"
    THEN <<Text("Tilted"), v.variant, v.accept_rule, v.assignment_col, v.rng_seed, v.n_steps>>
    ELSE IF spec.type = "forest" THEN <<Text("Forest"), v.rng_seed, v.gamma, v.n_steps>>
    ELSE <<Text("SMC"), v.rng_seed, v.n_sims>>

Prints(spec) ==
    spec.type \in {"chain", "forest"} /\ spec.fields.force_print = Flag(TRUE)

GivenName(spec) ==
    IF spec.type = "chain" THEN None ELSE spec.fields.output_file_name

\* A name that is not bare is refused when it is resolved, which a printing run never does.
IsResolved(spec) == Prints(spec) \/ GivenName(spec) = None \/ IsBareName(GivenName(spec))

\* << >> stands for None.
OutputName(spec, stem) ==
    IF Prints(spec) THEN << >>
    ELSE IF GivenName(spec) # None THEN GivenName(spec)[2]
    ELSE stem \o WriterSuffix(spec.fields.writer)

ScoresName(spec, stem) == Sidecar(OutputName(spec, stem), "_scores", "csv")

-----------------------------------------------------------------------------
(* The documents.  Fields that reach them under another name, or in another *)
(* section, are listed by the name they have in the spec.                  *)

Without(v, fields) == [f \in DOMAIN v \ fields |-> v[f]]

ChainDocument(spec, stem) ==
    LET v == spec.fields IN
    [engine |-> "recom", command |-> "chain",
     constraint |-> Items(v.constraint),
     output |-> OutputName(spec, stem),
     run |-> Without(v, {"constraint", "force_print", "updaters"})]

OptimizerDocument(spec, stem) ==
    LET v == spec.fields IN
    [engine |-> "recom", command |-> spec.type,
     output |-> OutputName(spec, stem),
     scores |-> ScoresName(spec, stem),
     run |-> Without(v, {"output_file_name"})]

ForestDocument(spec, stem) ==
    LET v == spec.fields IN
    [engine |-> "forest",
     output |-> OutputName(spec, stem),
     constraints |-> Items(v.constraints),
     run |-> Without(v, {"constraints", "output_file_name", "force_print", "updaters"})]

SMCDocument(spec, stem) ==
    LET v == spec.fields IN
    [engine |-> "smc",
     output |-> OutputName(spec, stem),
     constraints |-> Items(v.constraints),
     run |-> Without(v, {"constraints", "output_file_name"})]

Document(spec, stem) ==
    CASE spec.type = "chain" -> ChainDocument(spec, stem)
      [] spec.type \in Optimizers -> OptimizerDocument(spec, stem)
      [] spec.type = "forest" -> ForestDocument(spec, stem)
      [] spec.type = "smc" -> SMCDocument(spec, stem)

\* Mistake: only what the stem does not tell is hashed, and the columns are forgotten.
HashedWithoutColumns(spec) ==
    LET document == Document(spec, Stem(spec))
    IN  [document EXCEPT !.run = Without(@, {"sum_cols", "tally_columns"})]

\* The document of config_hash names its output after the stem alone.
Hashed(spec) == Document(spec, Stem(spec))

\* The hash is injective: the place of a document among those it has to tell apart.
Digest(document) ==
    LET documents == Documents
        places == {i \in DOMAIN documents : documents[i] = document}
    IN  IF places = {} THEN 0 ELSE CHOOSE i \in places : TRUE

FileStem(spec) == Append(Stem(spec), <<"digest", Digest(Hashed(spec))>>)

RunConfig(spec) == Document(spec, FileStem(spec))

-----------------------------------------------------------------------------
(* The files *)

HasInlineProvenance(spec) ==
    spec.type = "chain" /\ IsOneOf(spec.fields.writer, {"jsonl", "jsonl-full"})

\* Mistake: tallies are expected whatever the writer.
SMCExpectedTallying(spec, output) ==
    {output, Sidecar(output, "_metadata", "jsonl")}
        \cup (IF spec.fields.writer = Text("csv")
              THEN {Sidecar(output, "_assignments", "csv")} ELSE {})
        \cup (IF IsFilled(spec.fields.tally_columns)
              THEN {Sidecar(output, "_tallies", "csv")} ELSE {})

SMCExpected(spec, output) ==
    {output, Sidecar(output, "_metadata", "jsonl")}
        \cup (IF spec.fields.writer = Text("csv") THEN {Sidecar(output, "_assignments", "csv")}
              ELSE IF IsFilled(spec.fields.tally_columns)
              THEN {Sidecar(output, "_tallies", "csv")} ELSE {})

ForestExpected(spec, output) ==
    IF output = << >> THEN {} ELSE {output, Sidecar(output, "_metadata", "jsonl")}

RecomExpected(spec, output) ==
    IF output = << >> THEN {}
    ELSE {output}
         \cup (IF spec.fields.writer = Text("bendl") \/ HasInlineProvenance(spec)
               THEN {} ELSE {Sidecar(output, "_metadata", "jsonl")})
         \cup (IF spec.type \in Optimizers THEN {ScoresName(spec, FileStem(spec))} ELSE {})

ExpectedFiles(spec) ==
    LET output == OutputName(spec, FileStem(spec)) IN
    CASE spec.type = "smc" -> SMCExpected(spec, output)
      [] spec.type = "forest" -> ForestExpected(spec, output)
      [] OTHER -> RecomExpected(spec, output)

-----------------------------------------------------------------------------
(* What the command lines of forest and SMC ask of a document, beyond what  *)
(* it always has: its version, its engine and its sections.                 *)

IsString(v) == v[1] \in {"name", "text"}

\* The constraints run_multiscale2 can add.
ForestKinds == {"pack_nodes", "max_coarse_node_splits", "allowed_excess_dists_in_coarse_nodes",
                "max_discontinuous_traversal_segments"}

SMCKinds == {"group_hinge", "group_power", "status_quo", "splits", "incumbency"}

HasKinds(constraints, kinds) ==
    \A i \in DOMAIN constraints : constraints[i][2]["constraint"][2] \in kinds

\* FOREST_RUN_FIELDS; edge_weights and output_freq are the same in every document.
ForestTakes(document) ==
    /\ {"levels", "pop_col", "num_dists", "pop_dev", "gamma", "n_steps", "rng_seed"}
          \subseteq DOMAIN document.run
    /\ IsListOf(document.run.levels, IsString) /\ IsFilled(document.run.levels)
    /\ IsOneOf(document.run.writer, {"raw", "jsonl", "ben"})
    /\ HasKinds(document.constraints, ForestKinds)

\* SMC_MAP_FIELDS and SMC_RUN_FIELDS.
SMCTakes(document) ==
    /\ {"pop_col", "n_dists", "pop_tol", "pop_bounds"} \subseteq DOMAIN document.run
    /\ {"n_sims", "rng_seed", "compactness", "resample", "adapt_k_thresh", "seq_alpha",
        "pop_temper", "final_infl", "verbose", "silent", "tally_columns"} \subseteq DOMAIN document.run
    /\ IsOneOf(document.run.writer, {"csv", "jsonl", "ben"})
    /\ HasKinds(document.constraints, SMCKinds)

EngineTakes(document) ==
    /\ document.engine = "forest" => ForestTakes(document)
    /\ document.engine = "smc" => SMCTakes(document)

-----------------------------------------------------------------------------
(* What is written for a document.  rustrecom and the parsers are external: *)
(* they take the sidecar names from the output as Python does.             *)

\* tools::file_path_sans_ext of R knows extensions of letters and digits only.
SansExt(name) == IF name[Len(name)][1] = "ext" THEN SubSeq(name, 1, Len(name) - 1) ELSE name

RecomWritten(document) ==
    IF document.output = << >> THEN {}
    ELSE {document.output}
         \cup (IF \/ document.run.writer = Text("bendl")
                  \/ document.command = "chain"
                         /\ IsOneOf(document.run.writer, {"jsonl", "jsonl-full"})
               THEN {} ELSE {Sidecar(document.output, "_metadata", "jsonl")})
         \cup (IF document.command \in Optimizers THEN {document.scores} ELSE {})

\* The parsers write the output and its metadata.
Parsed(document) ==
    IF document.output = << >> THEN {}
    ELSE {document.output, Sidecar(document.output, "_metadata", "jsonl")}

\* multi_cli.jl writes raw output itself; splitext takes off any extension.
ForestWritten(document) ==
    IF document.run.writer # Text("raw") THEN Parsed(document)
    ELSE IF document.output = << >> THEN {}
    ELSE {document.output, Sidecar(document.output, "_metadata", "jsonl")}

\* smc_cli.R writes the tallies beside a printed run, or the plans, assignments and
\* metadata of a CSV run.
SMCWritten(document) ==
    LET beside(part, extension) == SansExt(document.output) \o <<Text(part), Ext(extension)>>
        printed == document.run.writer # Text("csv")
    IN  IF printed
        THEN Parsed(document) \cup
             (IF IsFilled(document.run.tally_columns) THEN {beside("_tallies", "csv")} ELSE {})
        ELSE {document.output, beside("_assignments", "csv"), beside("_metadata", "jsonl")}

WrittenFiles(document) ==
    CASE document.engine = "recom" -> RecomWritten(document)
      [] document.engine = "forest" -> ForestWritten(document)
      [] document.engine = "smc" -> SMCWritten(document)

-----------------------------------------------------------------------------

\* Mistake: the order of the graph stays as the spec has it.
CanonicalStdoutKeepingOrder(spec) ==
    [spec EXCEPT !.given = Over([writer |-> IF spec.type = "chain" THEN Text("canonical")
                                            ELSE Text("jsonl"),
                                 force_print |-> Flag(TRUE)], @)]

\* The spec whose command mcmc_run_with_updaters runs.
CanonicalStdout(spec) ==
    [spec EXCEPT !.given =
        Over(IF spec.type = "chain"
             THEN [writer |-> Text("canonical"), force_print |-> Flag(TRUE),
                   bendl_graph_order |-> Text("none")]
             ELSE [writer |-> Text("jsonl"), force_print |-> Flag(TRUE)], @)]

=============================================================================

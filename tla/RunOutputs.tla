----------------------------- MODULE RunOutputs -----------------------------
(***************************************************************************)
(* Runs of one session: the caller keeps a run spec and changes its fields, *)
(* its constraints and its objective between calls of run(), which         *)
(* validates the spec again, derives the files of the run from it and      *)
(* gives the engine a document; OutputRecovery is what happens to these    *)
(* files.                                                                  *)
(*                                                                         *)
(* Bounds: at most MaxEdits changes come before the first of MaxRuns runs; *)
(* run() is followed for the specs of Followed, and later changes lead to  *)
(* another of these.                                                       *)
(***************************************************************************)
EXTENDS OutputRecovery, RunSpecs

CONSTANTS
    Fresh,          \* the specs the caller may start from
    Followed,       \* the specs whose runs are followed
    Assignments,    \* the <<field, value>> pairs the caller may assign
    Additions,      \* the constraints the caller may ask a builder for
    Targets,        \* the <<kind, arguments>> the caller may build an objective from
    MaxEdits

ASSUME EditAssumption == MaxEdits \in Nat

HasPlainName(s) ==
    \A name \in {OutputName(s, Stem(s))} \ {<< >>} : name[Len(name)][1] # "odd"

ConstraintFieldOf(s) == IF Engine(s) = "recom" THEN "constraint" ELSE "constraints"

\* The constraints and the objective of a spec are what a builder returns.
HasBuiltFields(s) ==
    /\ s.type \notin Optimizers =>
          LET items == Items(Values(s)[ConstraintFieldOf(s)]) IN
          \A i \in DOMAIN items : IsConstraint(items[i])
    /\ s.type \in Optimizers => IsObjective(Values(s).objective)

\* The caller starts with specs made by constructors, whose builders are still empty.
ASSUME SpecAssumption ==
    /\ \A s \in Fresh :
          /\ IsSpec(s) /\ HasBuiltFields(s)
          /\ LET kept == Values(s)[ConstraintFieldOf(s)] IN
             s.type \notin Optimizers /\ kept[1] = "builder" => kept[2] = << >>
    /\ \A assignment \in Assignments :
          assignment[1] = "output_file_name" => IsFileName(assignment[2])
    /\ \A target \in Targets :
          LET given == DOMAIN Provided(target[2]) IN
          /\ target[1] \in DOMAIN RequiredKeys
          /\ RequiredKeys[target[1]] \subseteq given
          /\ given \subseteq RequiredKeys[target[1]] \cup OptionalKeys(target[1])

\* The specs whose runs are followed have plain names, and the hash tells them apart.
ASSUME FollowedAssumption ==
    \A s \in Followed :
        /\ IsSpec(s) /\ IsAccepted(s) /\ IsResolved(Full(s)) /\ HasPlainName(Full(s))
        /\ ExpectedFiles(Full(s)) \subseteq Files
        /\ \E i \in DOMAIN Documents : Documents[i] = Hashed(Full(s))

VARIABLES
    spec,           \* the caller's run spec
    edits,          \* changes made to it
    handmade,       \* history: its constraints or objective did not come from a builder
    told            \* history: of every run, its spec and the files the engine writes

callerVars == <<spec, edits, handmade, told>>
vars == <<recoveryVars, callerVars>>

ConstraintField == ConstraintFieldOf(spec)

TakesConstraints == spec.type \notin Optimizers

IsRunnable == IsAccepted(spec) /\ IsResolved(Full(spec))

Init ==
    /\ RecoveryInit
    /\ spec \in Fresh
    /\ edits = 0
    /\ handmade = FALSE
    /\ told = << >>

-----------------------------------------------------------------------------
(* The caller *)

Edit(given, byHand) ==
    /\ edits' = edits + 1
    /\ spec' = [spec EXCEPT !.given = Over(given, @)]
    /\ handmade' = (handmade \/ byHand)
    /\ UNCHANGED <<recoveryVars, told>>

AssignField(field, value) ==
    /\ field \in DOMAIN Values(spec)
    /\ Edit([f \in {field} |-> value], field \in {ConstraintField, "objective"})

\* A builder the spec keeps is a live one: what is added later counts for later runs.
AddConstraint(constraint) ==
    /\ TakesConstraints
    /\ LET kept == Values(spec)[ConstraintField]
           builder == IF kept[1] = "builder" THEN kept ELSE <<"builder", << >>>>
       IN  Edit([f \in {ConstraintField} |-> Add(builder, constraint)], FALSE)

BuildObjective(kind, arguments) ==
    /\ spec.type \in Optimizers
    /\ IsBuilt(kind, arguments)
    /\ Edit([objective |-> Dict(Written(kind, arguments))], FALSE)

\* What the caller changes before the first run.
Change ==
    /\ run = 0
    /\ edits < MaxEdits
    /\ \/ \E assignment \in Assignments : AssignField(assignment[1], assignment[2])
       \/ \E constraint \in Additions : AddConstraint(constraint)
       \/ \E target \in Targets : BuildObjective(target[1], target[2])

\* Between runs the caller goes on with another spec for the same engine.
TakeAnother ==
    /\ pc = "idle"
    /\ run \in 1 .. MaxRuns - 1
    /\ spec' \in {s \in Followed : Engine(s) = Engine(spec)}
    /\ UNCHANGED <<recoveryVars, edits, handmade, told>>

\* run() refuses the spec; the variant may have become a letter.
Refuse ==
    /\ run = 0
    /\ ~IsRunnable
    /\ spec' = Validated(spec)
    /\ UNCHANGED <<recoveryVars, edits, handmade, told>>

\* Another file stem is another log file, which may be there from before.
HasLog(called) ==
    IF run > 0 /\ FileStem(Full(told[run].spec)) = FileStem(Full(called)) THEN {log # "none"}
    ELSE IF run > 0 THEN BOOLEAN ELSE {log # "none"}

Run ==
    LET called == Validated(spec) IN
    /\ pc = "idle"
    /\ IsRunnable
    /\ called \in Followed
    /\ \E logged \in HasLog(called) : Call(ExpectedFiles(Full(called)), logged)
    /\ spec' = called
    /\ told' = Append(told, [spec |-> called, writes |-> WrittenFiles(RunConfig(Full(called)))])
    /\ edits' = 0
    /\ handmade' = FALSE

-----------------------------------------------------------------------------

Recovery == RecoveryStep /\ UNCHANGED callerVars

\* The engine writes a file of its document, whole or in part.
Write ==
    /\ pc = "engine"
    /\ \E f \in told[run].writes, full \in BOOLEAN : EngineWrites(f, full)
    /\ UNCHANGED callerVars

Next ==
    \/ Change
    \/ TakeAnother
    \/ Refuse
    \/ Run
    \/ Write
    \/ Recovery

Spec == Init /\ [][Next]_vars

-----------------------------------------------------------------------------
(* Properties *)

\* Two runs that have a file in common, whose name the caller has not chosen, ran the same
\* document: no field that reaches the engine is missing from the hash in file names.
NamesTellTheRun ==
    pc = "hide" => \A r, s \in DOMAIN told :
        /\ GivenName(Full(told[r].spec)) = None
        /\ GivenName(Full(told[s].spec)) = None
        /\ told[r].writes \cap told[s].writes # {}
        => RunConfig(Full(told[r].spec)) = RunConfig(Full(told[s].spec))

\* Every spec can be reached before the first run, where the properties of specs are checked.
IsFirst == run = 0

\* What validate() accepts the command line of the engine takes: its fields, its writer and its
\* constraints.  Every file that run() waits for is one the engine, its command line or its
\* parser writes, and they write no file that run() would not protect, as long as the caller's
\* name ends in letters and digits.
WaitsForWhatIsWritten ==
    IsFirst /\ IsRunnable =>
        \A s \in {Full(spec)} :
            /\ EngineTakes(RunConfig(s))
            /\ HasPlainName(s) => ExpectedFiles(s) = WrittenFiles(RunConfig(s))

\* mcmc_run_with_updaters derives a printing run from the spec: whatever spec is accepted, the
\* derived one is, and it writes no file.
CanonicalStdoutIsQuiet ==
    IsFirst /\ spec.type \in {"chain", "forest"} /\ IsRunnable =>
        /\ IsAccepted(CanonicalStdout(spec))
        /\ \A s \in {Full(CanonicalStdout(spec))} :
               ExpectedFiles(s) \cup WrittenFiles(RunConfig(s)) = {}

\* What a builder has returned is never refused for its fields: constraints may only be too many
\* or of another engine.
BuiltSpecsAreAccepted ==
    IsFirst /\ ~handmade => HasBuiltFields(spec)

=============================================================================

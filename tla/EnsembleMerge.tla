--------------------------- MODULE EnsembleMerge ---------------------------
(***************************************************************************)
(* PlanEvaluator.evaluate_stream on a result that exists already           *)
(* (gerrytools/scoring/evaluator.py): the metrics are scored into a        *)
(* temporary sibling, and _merge_ensemble_result moves their tables into   *)
(* the result, replaces the manifest, and rolls everything back when       *)
(* anything fails.                                                         *)
(*                                                                         *)
(* Calls may come from several processes.  Every call into the file system *)
(* can fail, an interrupt can arrive just after it has had its effect, and *)
(* a process can be killed, which leaves its temporary directory behind.   *)
(*                                                                         *)
(* A table is the call that wrote it, and a checksum names that call.      *)
(* Manifests are replaced atomically; RunWriter models the run that is     *)
(* scored, and the sources of all calls have the dimensions of the result. *)
(***************************************************************************)
EXTENDS Integers, FiniteSets

CONSTANTS
    Calls,      \* calls of evaluate_stream, as numbers
    Metrics,    \* metric names
    Layouts,    \* for each metric, the sets of table paths it may be stored in
    Overlapping \* may calls work on the result at the same time?

\* The file names of a metric depend on its columns and on the name the
\* directory had when it was scored.  Two metrics may claim one path.
ASSUME MergeAssumption ==
    /\ Calls \subseteq Nat \ {0}
    /\ DOMAIN Layouts = Metrics
    /\ \A m \in Metrics : {} \notin Layouts[m]
    /\ Overlapping \in BOOLEAN

Paths == UNION UNION {Layouts[m] : m \in Metrics}

VARIABLES
    files,      \* the table at every path of the result
    manifest,   \* for each metric of the result, its tables and their checksum
    call,       \* what every call is doing
    excused     \* history: calls whose rollback failed or was cut short

vars == <<files, manifest, call, excused>>

Existing == 0           \* the writer of the result's first tables
NoFile == -1
Untracked == -2         \* a file no manifest has ever named

TablesOf(entries, names) == UNION {entries[m].tables : m \in names \cap DOMAIN entries}

Entries(names) == UNION {[S -> [tables : UNION {Layouts[m] : m \in Metrics},
                               by : Calls \cup {Existing}]] : S \in SUBSET names}

NoEntries == [m \in {} |-> {}]

NoTables == [p \in Paths |-> NoFile]

Idle ==
    [pc |-> "new", job |-> NoEntries, existing |-> NoEntries, merged |-> NoEntries,
     before |-> NoTables, kept |-> NoTables, at |-> {}, todo |-> {}, installed |-> {},
     backups |-> {}, outcome |-> "none"]

Working(e) == call[e].pc \notin {"new", "over", "killed"}

Destinations(e) == TablesOf(call[e].job, Metrics)

\* The tables of the metrics that the call replaces, and of the others, as they
\* were when it opened the result.
Stale(e) == TablesOf(call[e].existing, DOMAIN call[e].job)
Unrelated(e) == TablesOf(call[e].existing, Metrics \ DOMAIN call[e].job)

-----------------------------------------------------------------------------

\* A result holds some metrics, each in one layout, and no path twice.
Init ==
    /\ \E names \in SUBSET Metrics \ {{}} :
          manifest \in {r \in [names -> [tables : UNION {Layouts[m] : m \in Metrics},
                                         by : {Existing}]] :
                           /\ \A m \in names : r[m].tables \in Layouts[m]
                           /\ \A m, n \in names : m # n => r[m].tables \cap r[n].tables = {}}
    /\ \E strays \in SUBSET (Paths \ TablesOf(manifest, Metrics)) :
          files = [p \in Paths |-> IF p \in TablesOf(manifest, Metrics) THEN Existing
                                   ELSE IF p \in strays THEN Untracked ELSE NoFile]
    /\ call = [e \in Calls |-> Idle]
    /\ excused = {}

\* EnsembleEvalResult.open wants every table that the manifest names.
Openable == \A p \in TablesOf(manifest, Metrics) : files[p] # NoFile

\* The result is opened and the names are checked.
Open(e, job, update) ==
    /\ call[e].pc = "new"
    /\ Overlapping \/ ~\E other \in Calls : Working(other)
    /\ LET accepted == Openable /\ (update \/ DOMAIN job \cap DOMAIN manifest = {})
       IN call' = [call EXCEPT ![e] =
             IF accepted
             THEN [@ EXCEPT !.pc = "score", !.job = job, !.existing = manifest,
                            !.before = files]
             ELSE [@ EXCEPT !.pc = "over", !.outcome = "failed"]]
    /\ UNCHANGED <<files, manifest, excused>>

Go(e, changes) == call' = [call EXCEPT ![e] = changes]

\* The engine has published the staged run.
Score(e) ==
    /\ call[e].pc = "score"
    /\ Go(e, [call[e] EXCEPT !.pc = "check"])
    /\ UNCHANGED <<files, manifest, excused>>

\* Scoring fails, or the dimensions do not match.
ScoreFails(e) ==
    /\ call[e].pc \in {"score", "check"}
    /\ Go(e, [call[e] EXCEPT !.pc = "leave", !.outcome = "failed"])
    /\ UNCHANGED <<files, manifest, excused>>

\* Mistake: tables of other metrics are not looked at.
UnobstructedByFiles(e) ==
    \A p \in Destinations(e) : files[p] # NoFile => p \in Stale(e) \cup Unrelated(e)

\* No destination belongs to a metric that stays or is an untracked file.
Unobstructed(e) ==
    /\ Destinations(e) \cap Unrelated(e) = {}
    /\ \A p \in Destinations(e) : files[p] # NoFile => p \in Stale(e)

\* The entries of the job take the place of those with their names.
Merged(job) ==
    [m \in DOMAIN manifest \cup DOMAIN job |->
        IF m \in DOMAIN job THEN job[m] ELSE manifest[m]]

\* The manifest is read again and the destinations are checked.
Check(e) ==
    /\ call[e].pc = "check"
    /\ Go(e, IF Unobstructed(e)
           THEN [call[e] EXCEPT !.pc = "install", !.merged = Merged(call[e].job),
                                !.todo = Destinations(e)]
           ELSE [call[e] EXCEPT !.pc = "leave", !.outcome = "failed"])
    /\ UNCHANGED <<files, manifest, excused>>

-----------------------------------------------------------------------------
(* Installation *)

\* A table in the way is moved to the rollback directory.
MoveAway(e, p) ==
    /\ call[e].pc = "install"
    /\ p \in call[e].todo
    /\ files[p] # NoFile
    /\ files' = [files EXCEPT ![p] = NoFile]
    /\ UNCHANGED manifest

\* Mistake: the backup is not entered in the list.
BackUpUnlisted(e, p) ==
    /\ MoveAway(e, p)
    /\ Go(e, [call[e] EXCEPT !.pc = "move", !.at = {p}, !.kept[p] = files[p]])
    /\ UNCHANGED excused

BackUp(e, p) ==
    /\ MoveAway(e, p)
    /\ Go(e, [call[e] EXCEPT !.pc = "move", !.at = {p}, !.kept[p] = files[p],
                             !.backups = @ \cup {p}])
    /\ UNCHANGED excused

\* Interrupted before the backup is in the list of backups.
BackUpInterrupted(e, p) ==
    /\ MoveAway(e, p)
    /\ Go(e, [call[e] EXCEPT !.pc = "rollback", !.kept[p] = files[p]])
    /\ excused' = excused \cup {e}

MoveIn(e, p) ==
    /\ \/ call[e].pc = "install" /\ p \in call[e].todo /\ files[p] = NoFile
       \/ call[e].pc = "move" /\ p \in call[e].at
    /\ files' = [files EXCEPT ![p] = e]
    /\ UNCHANGED manifest

\* Mistake: a table that has replaced nothing is not listed.
InstallUnlisted(e, p) ==
    /\ MoveIn(e, p)
    /\ Go(e, [call[e] EXCEPT !.pc = "install", !.at = {}, !.todo = @ \ {p},
                             !.installed = IF p \in call[e].at THEN @ \cup {p} ELSE @])
    /\ UNCHANGED excused

Install(e, p) ==
    /\ MoveIn(e, p)
    /\ Go(e, [call[e] EXCEPT !.pc = "install", !.at = {}, !.installed = @ \cup {p},
                             !.todo = @ \ {p}])
    /\ UNCHANGED excused

\* Interrupted before the table is in the list of installed ones; a backup is
\* restored over it all the same.
InstallInterrupted(e, p) ==
    /\ MoveIn(e, p)
    /\ Go(e, [call[e] EXCEPT !.pc = "rollback", !.at = {}])
    /\ excused' = IF p \in call[e].backups THEN excused ELSE excused \cup {e}

\* A directory cannot be made, a table cannot be moved, or the new manifest
\* cannot be written.
InstallFails(e) ==
    /\ call[e].pc \in {"install", "move"}
    /\ Go(e, [call[e] EXCEPT !.pc = "rollback", !.at = {}])
    /\ UNCHANGED <<files, manifest, excused>>

\* _write_run_manifest
WriteManifest(e) ==
    /\ call[e].pc = "install"
    /\ call[e].todo = {}
    /\ manifest' = call[e].merged
    /\ Go(e, [call[e] EXCEPT !.pc = "stale"])
    /\ UNCHANGED <<files, excused>>

\* Interrupted after the manifest has been replaced: the tables are rolled back.
WriteManifestInterrupted(e) ==
    /\ call[e].pc = "install"
    /\ call[e].todo = {}
    /\ manifest' = call[e].merged
    /\ Go(e, [call[e] EXCEPT !.pc = "rollback"])
    /\ excused' = excused \cup {e}
    /\ UNCHANGED <<files>>

\* Tables that only the old manifest names are removed if they can be.
RemoveStale(e, removed) ==
    /\ call[e].pc = "stale"
    /\ removed \subseteq Stale(e) \ Destinations(e)
    /\ files' = [p \in Paths |-> IF p \in removed THEN NoFile ELSE files[p]]
    /\ \/ /\ Go(e, [call[e] EXCEPT !.pc = "leave", !.outcome = "ok"])
          /\ UNCHANGED excused
       \/ /\ Go(e, [call[e] EXCEPT !.pc = "leave", !.outcome = "failed"])
          /\ excused' = excused \cup {e}
    /\ UNCHANGED manifest

-----------------------------------------------------------------------------
(* Rollback *)

Remove(e, p) ==
    /\ call[e].pc = "rollback"
    /\ p \in call[e].installed
    /\ files' = [files EXCEPT ![p] = NoFile]
    /\ Go(e, [call[e] EXCEPT !.installed = @ \ {p}])
    /\ UNCHANGED <<manifest, excused>>

Restore(e, p) ==
    /\ call[e].pc = "rollback"
    /\ call[e].installed = {}
    /\ p \in call[e].backups
    /\ files' = [files EXCEPT ![p] = call[e].kept[p]]
    /\ Go(e, [call[e] EXCEPT !.backups = @ \ {p}, !.kept[p] = NoFile])
    /\ UNCHANGED <<manifest, excused>>

\* The rest of the rollback is skipped.
RollbackFails(e) ==
    /\ call[e].pc = "rollback"
    /\ call[e].installed \cup call[e].backups # {}
    /\ Go(e, [call[e] EXCEPT !.pc = "leave", !.outcome = "failed"])
    /\ excused' = excused \cup {e}
    /\ UNCHANGED <<files, manifest>>

RolledBack(e) ==
    /\ call[e].pc = "rollback"
    /\ call[e].installed \cup call[e].backups = {}
    /\ Go(e, [call[e] EXCEPT !.pc = "leave", !.outcome = "failed"])
    /\ UNCHANGED <<files, manifest, excused>>

\* The temporary directory goes, with the staged tables and the backups.
Leave(e) ==
    /\ call[e].pc = "leave"
    /\ Go(e, [Idle EXCEPT !.pc = "over", !.job = call[e].job, !.outcome = call[e].outcome])
    /\ UNCHANGED <<files, manifest, excused>>

\* The process is killed; its temporary directory stays.
Kill(e) ==
    /\ Working(e)
    /\ Go(e, [Idle EXCEPT !.pc = "killed", !.job = call[e].job, !.kept = call[e].kept])
    /\ UNCHANGED <<files, manifest, excused>>

\* What a call may be asked to score.
Jobs(e) ==
    UNION {{job \in [names -> [tables : UNION {Layouts[m] : m \in Metrics}, by : {e}]] :
               /\ \A m \in names : job[m].tables \in Layouts[m]
               /\ \A m, n \in names : m # n => job[m].tables \cap job[n].tables = {}}
           : names \in SUBSET Metrics \ {{}}}

Next ==
    \E e \in Calls :
        \/ \E job \in Jobs(e), update \in BOOLEAN : Open(e, job, update)
        \/ Score(e)
        \/ ScoreFails(e)
        \/ Check(e)
        \/ \E p \in Paths :
              \/ BackUp(e, p)
              \/ BackUpInterrupted(e, p)
              \/ Install(e, p)
              \/ InstallInterrupted(e, p)
              \/ Remove(e, p)
              \/ Restore(e, p)
        \/ InstallFails(e)
        \/ WriteManifest(e)
        \/ WriteManifestInterrupted(e)
        \/ \E removed \in SUBSET Paths : RemoveStale(e, removed)
        \/ RollbackFails(e)
        \/ RolledBack(e)
        \/ Leave(e)
        \/ Kill(e)

Spec == Init /\ [][Next]_vars

-----------------------------------------------------------------------------
(* Properties *)

Phases == {"new", "score", "check", "install", "move", "stale", "rollback", "leave", "over",
           "killed"}

\* Every variable has its type; a destination is on its way, installed or
\* still to be installed, and a backup is listed only while it is kept.
TypeOK ==
    /\ files \in [Paths -> Calls \cup {Existing, NoFile, Untracked}]
    /\ manifest \in Entries(Metrics)
    /\ excused \subseteq Calls
    /\ \A e \in Calls :
          /\ call[e].pc \in Phases
          /\ call[e].outcome \in {"none", "failed", "ok"}
          /\ call[e].installed \cup call[e].todo \subseteq Destinations(e)
          /\ call[e].installed \cap call[e].todo = {}
          /\ call[e].pc \in {"install", "move"} => call[e].at \subseteq call[e].todo
          /\ \A p \in call[e].backups : call[e].kept[p] # NoFile

Readable(m) == \A p \in manifest[m].tables : files[p] = manifest[m].by

\* Whatever calls do, fail at or are killed in, the tables of a metric that
\* none of them scores stay the ones the manifest names.
OthersStayReadable ==
    \A m \in DOMAIN manifest :
        (\A e \in Calls : m \notin DOMAIN call[e].job) => Readable(m)

\* When no call is at work and none has been killed or had its rollback cut
\* short, the whole result is readable, however many merges have failed.
ResultIsReadable ==
    /\ excused = {}
    /\ \A e \in Calls : call[e].pc \in {"new", "score", "check", "leave", "over"}
    => \A m \in DOMAIN manifest : Readable(m)

\* The tables of a result that the manifest names can be read.
TablesAreReadable == OthersStayReadable /\ ResultIsReadable

Stored(p, writer) == files[p] = writer \/ \E e \in Calls : call[e].kept[p] = writer

\* A table that the manifest names is given up only once the manifest no longer
\* names it; a killed merge has left it in the result or among its backups.
NamedTablesAreKept ==
    [][ excused' # {} \/
        \A m \in DOMAIN manifest \cap DOMAIN manifest' : \A p \in manifest[m].tables :
            manifest'[m] = manifest[m] /\ Stored(p, manifest[m].by)
                => Stored(p, manifest[m].by)' ]_vars

\* A merge that fails leaves every path of the result as it found it, those
\* without a table included, and the manifest too.
FailedMergeChangesNothing ==
    [][ \A e \in Calls :
          /\ call[e].pc # "over" /\ call'[e].pc = "over"
          /\ call'[e].outcome = "failed"
          /\ call[e].pc # "new"
          /\ e \notin excused
          => files = call[e].before /\ manifest = call[e].existing ]_vars

=============================================================================

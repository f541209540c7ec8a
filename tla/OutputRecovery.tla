--------------------------- MODULE OutputRecovery ---------------------------
(***************************************************************************)
(* The files of RunnerSession.run (gerrytools/mgrp/run_container.py): the  *)
(* outputs and the log of an earlier run are hidden in backup directories  *)
(* while the engine runs, dropped when every expected file has been        *)
(* written, and put back when anything fails; what a failed run has        *)
(* written is kept under partial names.                                    *)
(*                                                                         *)
(* Runs follow each other, of one run spec or of several: RunOutputs says  *)
(* which files each expects and writes.                                    *)
(* Every call into the file system can fail, an interrupt can come between *)
(* any two of them, and the process can be killed, which ends the run and  *)
(* leaves the files as they are.  The engine has stopped before the files  *)
(* are recovered; RunnerSession models how it is stopped.                  *)
(***************************************************************************)
EXTENDS Integers, Sequences

CONSTANTS
    Files,      \* the files of the output folder
    Earlier,    \* of these, the files that may be there before the first run
    MaxRuns     \* bound: runs

ASSUME RecoveryAssumption == Earlier \subseteq Files /\ MaxRuns \in Nat

Runs == 1 .. MaxRuns

\* What a run left in a file, and whether it is nonempty; run 0 came before.
Versions == [run : 0 .. MaxRuns, full : BOOLEAN]
Absent == [run |-> -1, full |-> FALSE]

VARIABLES
    run,        \* number of the current or last run
    expected,   \* the files it is expected to write
    pc,         \* "idle" between runs, else the step of run()
    at,         \* contents of every expected file
    held,       \* contents of the backup directory of every run
    partials,   \* contents of name.partial, name.partial.1, ...
    log,        \* whose log is at log_file: "none", "old" or "new"
    logHeld,    \* is the old log in a backup directory?
    recorded,   \* the files in the list `backups`
    todo,       \* files the current loop has not reached
    started,    \* run_started
    troubled,   \* recovery_errors is not empty
    outcome,    \* how the last run ended
    before,     \* history: the files when the run was called
    wrote       \* history: the files the engine has written in this run

recoveryVars ==
    <<run, expected, pc, at, held, partials, log, logHeld, recorded, todo, started,
      troubled, outcome, before, wrote>>

Steps == {"idle", "hide", "log", "engine", "droplog", "drop", "setaside", "restore",
          "rmdir"}

Outcomes == {"none", "ok", "failed", "unrecovered", "undropped", "killed"}

-----------------------------------------------------------------------------

RecoveryInit ==
    /\ run = 0
    /\ expected = {}
    /\ pc = "idle"
    /\ \E there \in SUBSET Earlier :
          at = [f \in Files |-> IF f \in there THEN [run |-> 0, full |-> TRUE] ELSE Absent]
    /\ held = [r \in Runs |-> [f \in Files |-> Absent]]
    /\ partials = [f \in Files |-> << >>]
    /\ log \in {"none", "old"}
    /\ logHeld = FALSE
    /\ recorded = {}
    /\ todo = {}
    /\ started = FALSE
    /\ troubled = FALSE
    /\ outcome = "none"
    /\ before = at
    /\ wrote = {}

\* A run that expects these files is called.  A log at its log file may be that of an
\* earlier run.
Call(files, logged) ==
    /\ pc = "idle"
    /\ run < MaxRuns
    /\ run' = run + 1
    /\ expected' = files
    /\ pc' = "hide"
    /\ log' = IF logged THEN "old" ELSE "none"
    /\ logHeld' = FALSE
    /\ recorded' = {}
    /\ todo' = files
    /\ started' = FALSE
    /\ troubled' = FALSE
    /\ outcome' = "none"
    /\ before' = at
    /\ wrote' = {}
    /\ UNCHANGED <<at, held, partials>>

\* The except clause: with run_started, every output is looked at.
Recover(hasStarted) ==
    /\ pc' = "setaside"
    /\ started' = hasStarted
    /\ todo' = IF hasStarted THEN expected ELSE {}

MoveToBackup(f) ==
    /\ at[f] # Absent
    /\ held' = [held EXCEPT ![run][f] = at[f]]
    /\ at' = [at EXCEPT ![f] = Absent]

\* An existing output is moved to the backup directory and listed.
Hide(f) ==
    /\ pc = "hide"
    /\ f \in todo
    /\ todo' = todo \ {f}
    /\ \/ at[f] = Absent /\ UNCHANGED <<at, held, recorded>>
       \/ MoveToBackup(f) /\ recorded' = recorded \cup {f}
    /\ UNCHANGED <<run, expected, pc, partials, log, logHeld, started, troubled, outcome, before,
                   wrote>>

\* An interrupt after the move and before the listing.
HideInterrupted(f) ==
    /\ pc = "hide"
    /\ f \in todo
    /\ MoveToBackup(f)
    /\ Recover(FALSE)
    /\ UNCHANGED <<run, expected, partials, log, logHeld, recorded, troubled, outcome, before, wrote>>

\* mkdtemp or replace fails, or the output is a directory.
HideFails ==
    /\ pc = "hide"
    /\ todo # {}
    /\ Recover(FALSE)
    /\ UNCHANGED <<run, expected, at, held, partials, log, logHeld, recorded, troubled, outcome,
                   before, wrote>>

Hidden ==
    /\ pc = "hide"
    /\ todo = {}
    /\ started' = TRUE
    /\ pc' = "log"
    /\ UNCHANGED <<run, expected, at, held, partials, log, logHeld, recorded, todo, troubled, outcome,
                   before, wrote>>

\* _preserve_log_on_failure is entered.
HideLog ==
    /\ pc = "log"
    /\ logHeld' = (log = "old")
    /\ log' = "none"
    /\ pc' = "engine"
    /\ UNCHANGED <<run, expected, at, held, partials, recorded, todo, started, troubled, outcome,
                   before, wrote>>

\* It fails before its try statement, perhaps with the log already moved.
HideLogFails ==
    /\ pc = "log"
    /\ log = "old"
    /\ \/ UNCHANGED <<log, logHeld>>
       \/ log' = "none" /\ logHeld' = TRUE
    /\ Recover(TRUE)
    /\ UNCHANGED <<run, expected, at, held, partials, recorded, troubled, outcome, before, wrote>>

-----------------------------------------------------------------------------
(* The engine *)

OpenLog ==
    /\ pc = "engine"
    /\ log # "new"
    /\ log' = "new"
    /\ UNCHANGED <<run, expected, pc, at, held, partials, logHeld, recorded, todo, started, troubled,
                   outcome, before, wrote>>

EngineWrites(f, full) ==
    /\ pc = "engine"
    /\ at' = [at EXCEPT ![f] = [run |-> run, full |-> full]]
    /\ wrote' = wrote \cup {f}
    /\ UNCHANGED <<run, expected, pc, held, partials, log, logHeld, recorded, todo, started, troubled,
                   outcome, before>>

\* The previous log replaces the new one; a failure to do so is only logged.
RestoreLog ==
    \/ ~logHeld /\ UNCHANGED <<log, logHeld>>
    \/ logHeld /\ log' = "old" /\ logHeld' = FALSE
    \/ logHeld /\ UNCHANGED <<log, logHeld>>

\* The engine cannot be started, its stream breaks, it exits with an error or
\* it is interrupted.
EngineFails ==
    /\ pc = "engine"
    /\ RestoreLog
    /\ Recover(TRUE)
    /\ UNCHANGED <<run, expected, at, held, partials, recorded, troubled, outcome, before, wrote>>

\* Mistake: a file that exists is taken for an output.
EngineExitsUnchecked ==
    /\ pc = "engine"
    /\ log = "new"
    /\ IF \A f \in expected : at[f] # Absent
       THEN pc' = "droplog" /\ UNCHANGED <<log, logHeld, todo, started>>
       ELSE RestoreLog /\ Recover(TRUE)
    /\ UNCHANGED <<run, expected, at, held, partials, recorded, troubled, outcome, before, wrote>>

\* It exits cleanly: every expected file must be there and nonempty.
EngineExits ==
    /\ pc = "engine"
    /\ log = "new"
    /\ IF \A f \in expected : at[f].full
       THEN pc' = "droplog" /\ UNCHANGED <<log, logHeld, todo, started>>
       ELSE RestoreLog /\ Recover(TRUE)
    /\ UNCHANGED <<run, expected, at, held, partials, recorded, troubled, outcome, before, wrote>>

-----------------------------------------------------------------------------
(* Success *)

DropLog ==
    /\ pc = "droplog"
    /\ logHeld' = FALSE
    /\ pc' = "drop"
    /\ todo' = recorded
    /\ UNCHANGED <<run, expected, at, held, partials, log, recorded, started, troubled, outcome,
                   before, wrote>>

\* An error of the log's else clause is one of the outer with block: the run
\* is recovered as a failed one.
DropLogFails ==
    /\ pc = "droplog"
    /\ logHeld
    /\ logHeld' \in BOOLEAN
    /\ Recover(TRUE)
    /\ UNCHANGED <<run, expected, at, held, partials, log, recorded, troubled, outcome, before, wrote>>

End(how) ==
    /\ pc' = "idle"
    /\ outcome' = how
    /\ UNCHANGED <<run, expected, at, held, partials, log, logHeld, recorded, todo, started, troubled,
                   before, wrote>>

Drop(f) ==
    /\ pc = "drop"
    /\ f \in todo
    /\ held' = [held EXCEPT ![run][f] = Absent]
    /\ todo' = todo \ {f}
    /\ UNCHANGED <<run, expected, pc, at, partials, log, logHeld, recorded, started, troubled, outcome,
                   before, wrote>>

\* An error of the outer else clause is raised as it is.
DropFails ==
    /\ pc = "drop"
    /\ recorded # {}
    /\ End("undropped")

Succeed ==
    /\ pc = "drop"
    /\ todo = {}
    /\ End("ok")

-----------------------------------------------------------------------------
(* Failure: three loops whose steps can each fail and go on *)

NextLoop(from, to, files) ==
    /\ pc = from
    /\ todo = {}
    /\ pc' = to
    /\ todo' = files
    /\ UNCHANGED <<run, expected, at, held, partials, log, logHeld, recorded, started, troubled,
                   outcome, before, wrote>>

Reach(step, f) ==
    /\ pc = step
    /\ f \in todo
    /\ todo' = todo \ {f}
    /\ UNCHANGED <<run, expected, pc, log, logHeld, recorded, started, outcome, before, wrote>>

\* Mistake: the partial name is always the same.
SetAsideOverOlder(f) ==
    /\ Reach("setaside", f)
    /\ IF at[f] = Absent THEN UNCHANGED <<at, partials>>
       ELSE /\ partials' = [partials EXCEPT ![f] = <<at[f]>>]
            /\ at' = [at EXCEPT ![f] = Absent]
    /\ UNCHANGED <<held, troubled>>

\* _partial_output_path names a file that is not there yet.
SetAside(f) ==
    /\ Reach("setaside", f)
    /\ IF at[f] = Absent THEN UNCHANGED <<at, partials>>
       ELSE /\ partials' = [partials EXCEPT ![f] = Append(@, at[f])]
            /\ at' = [at EXCEPT ![f] = Absent]
    /\ UNCHANGED <<held, troubled>>

SetAsideFails(f) ==
    /\ Reach("setaside", f)
    /\ at[f] # Absent
    /\ troubled' = TRUE
    /\ UNCHANGED <<at, held, partials>>

\* backup.replace(output)
Restore(f) ==
    /\ Reach("restore", f)
    /\ at' = [at EXCEPT ![f] = held[run][f]]
    /\ held' = [held EXCEPT ![run][f] = Absent]
    /\ UNCHANGED <<partials, troubled>>

RestoreFails(f) ==
    /\ Reach("restore", f)
    /\ troubled' = TRUE
    /\ UNCHANGED <<at, held, partials>>

\* rmdir refuses a directory that still holds a backup, and may fail otherwise.
Raise(removed) ==
    /\ pc = "rmdir"
    /\ removed => \A f \in DOMAIN at : held[run][f] = Absent
    /\ End(IF troubled \/ ~removed THEN "unrecovered" ELSE "failed")

Kill ==
    /\ pc # "idle"
    /\ End("killed")

RecoveryStep ==
    \/ \E f \in expected : Hide(f) \/ HideInterrupted(f)
    \/ HideFails
    \/ Hidden
    \/ HideLog
    \/ HideLogFails
    \/ OpenLog
    \/ EngineFails
    \/ EngineExits
    \/ DropLog
    \/ DropLogFails
    \/ \E f \in expected : Drop(f)
    \/ DropFails
    \/ Succeed
    \/ \E f \in expected : SetAside(f) \/ SetAsideFails(f)
    \/ NextLoop("setaside", "restore", recorded)
    \/ \E f \in expected : Restore(f) \/ RestoreFails(f)
    \/ NextLoop("restore", "rmdir", {})
    \/ \E removed \in BOOLEAN : Raise(removed)
    \/ Kill

-----------------------------------------------------------------------------
(* Properties *)

\* Every variable has its type, and only listed files wait in a loop that
\* drops or restores.
TypeOK ==
    /\ run \in 0 .. MaxRuns
    /\ expected \subseteq Files
    /\ pc \in Steps
    /\ at \in [Files -> Versions \cup {Absent}]
    /\ held \in [Runs -> [Files -> Versions \cup {Absent}]]
    /\ \A f \in Files : partials[f] \in Seq(Versions)
    /\ log \in {"none", "old", "new"}
    /\ logHeld \in BOOLEAN
    /\ recorded \subseteq Files
    /\ todo \subseteq Files
    /\ pc \in {"drop", "restore"} => todo \subseteq recorded
    /\ started \in BOOLEAN
    /\ troubled \in BOOLEAN
    /\ outcome \in Outcomes

\* A run that returns has written every file itself.  A run that raises its
\* own error has put every earlier output back and kept what it wrote as the
\* newest partial file.
OutcomeTellsOutputs ==
    pc = "idle" =>
        /\ outcome \in {"ok", "undropped"} =>
              \A f \in expected : at[f] = [run |-> run, full |-> TRUE]
        /\ outcome = "failed" =>
              /\ at = before
              /\ \A f \in wrote : partials[f] # << >> /\ partials[f][Len(partials[f])].run = run

Stored(f) ==
    ({at[f]} \cup {held[r][f] : r \in Runs} \cup {partials[f][i] : i \in DOMAIN partials[f]})
        \ {Absent}

LogStored == logHeld \/ log = "old"

\* Whatever fails and whenever the process dies, an output or the log of an
\* earlier run is given up only by a run that has all its own outputs in
\* place, nonempty.
NothingLostToFailure ==
    [][ \/ pc = "idle"
        \/ \A f \in expected : at[f] = [run |-> run, full |-> TRUE]
        \/ /\ \A f \in DOMAIN at : {v \in Stored(f) : v.run # run} \subseteq Stored(f)'
           /\ LogStored => LogStored' ]_recoveryVars

=============================================================================

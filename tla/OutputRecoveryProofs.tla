------------------------ MODULE OutputRecoveryProofs ------------------------
(***************************************************************************)
(* For any number of files, earlier outputs, specs and runs: what a run    *)
(* reports is true of the files it leaves, and nothing of an earlier run   *)
(* is given up by a run that has not all its own outputs; the files it     *)
(* waits for are those its document has written, under names that tell the *)
(* document.                                                               *)
(*                                                                         *)
(* The first argument is where the earlier contents of each file are in    *)
(* each phase: untouched, in the backup directory of this run, or back.    *)
(* What lies at an output's own name is never an earlier version once the  *)
(* engine may write, until it is put back from the backup directory.       *)
(*                                                                         *)
(* The second is about specs: the files of a run, each derived twice, are  *)
(* the same; the token of the hash is the first of its kind in a file      *)
(* name; and what validate() asks of the fields that only a builder or a   *)
(* printing run writes is what these write.                                *)
(*                                                                         *)
(* The third is about the session in which commands run, the other half of *)
(* run_container.py, and who answers for what: for a container that exists *)
(* the session that holds it or a failure of Docker; for an engine that    *)
(* runs, a caller at work in the session or a failure of Docker.  A        *)
(* session that lets go of its container removes it, and its engines with  *)
(* it, or records the failure.                                             *)
(***************************************************************************)
EXTENDS RunOutputs, RunnerSession, TLAPS

Contents == Versions \cup {Absent}

Typed ==
    /\ TypeOK
    /\ partials \in [Files -> Seq(Versions)]
    /\ before \in [Files -> Contents]

\* The files of a run are those of its spec.
FilesAreOfTheRun ==
    /\ told \in Seq([spec : Followed, writes : SUBSET Files])
    /\ Len(told) = run
    /\ run > 0 => told[run].writes \subseteq expected
    /\ recorded \subseteq expected
    /\ todo \subseteq expected
    /\ wrote \subseteq expected
    /\ pc # "idle" => run > 0

BackupsToCome == \A r \in Runs : r > run => \A f \in Files : held[r][f] = Absent

Untouched(f) == at[f] = before[f] /\ held[run][f] = Absent
InBackup(f) == held[run][f] = before[f] /\ before[f] # Absent
IsNew(f) == before[f] = Absent /\ held[run][f] = Absent

\* Nothing but the engine's own output lies at the name.
OwnAt(f) == IF f \in wrote THEN at[f].run = run ELSE at[f] = Absent

OwnOrGone(f) == at[f] = Absent \/ at[f].run = run

\* What the engine wrote is the newest partial file.
Kept(f) == partials[f] # << >> /\ partials[f][Len(partials[f])].run = run

Complete == \A f \in expected : at[f] = [run |-> run, full |-> TRUE]

OthersUntouched == \A f \in Files \ expected : Untouched(f)

WhileHiding ==
    /\ OthersUntouched
    /\ wrote = {}
    /\ ~logHeld
    /\ todo \cap recorded = {}
    /\ \A f \in todo : Untouched(f)
    /\ \A f \in expected \ todo : at[f] = Absent
    /\ \A f \in recorded : InBackup(f)
    /\ \A f \in expected \ (todo \cup recorded) : IsNew(f)

AllHidden ==
    /\ OthersUntouched
    /\ \A f \in recorded : InBackup(f)
    /\ \A f \in expected \ recorded : IsNew(f)
    /\ \A f \in expected : OwnAt(f)

\* A file that is not listed was left alone, or moved just before an interrupt, or is new.
WhileSettingAside ==
    /\ \A f \in recorded : InBackup(f) /\ OwnOrGone(f)
    /\ \A f \in Files \ recorded :
          IF f \in wrote THEN IsNew(f) ELSE Untouched(f) \/ held[run][f] # Absent
    /\ \A f \in todo : OwnAt(f)
    /\ \A f \in wrote \ todo : troubled \/ (at[f] = Absent /\ Kept(f))

IsBack(f) == at[f] = before[f] \/ held[run][f] # Absent \/ troubled

WhileRestoring ==
    /\ todo \subseteq recorded
    /\ \A f \in todo : InBackup(f) /\ OwnOrGone(f)
    /\ \A f \in Files \ todo : IsBack(f)
    /\ \A f \in wrote : troubled \/ Kept(f)

WhenRestored ==
    /\ \A f \in Files : IsBack(f)
    /\ \A f \in wrote : troubled \/ Kept(f)

PhaseHolds ==
    /\ pc = "hide" => WhileHiding
    /\ pc = "log" => AllHidden /\ wrote = {} /\ ~logHeld
    /\ pc = "engine" => AllHidden /\ log # "old"
    /\ pc = "droplog" => AllHidden /\ Complete
    /\ pc = "drop" => Complete
    /\ pc = "setaside" => WhileSettingAside
    /\ pc = "restore" => WhileRestoring
    /\ pc = "rmdir" => WhenRestored

IInv ==
    /\ Typed
    /\ FilesAreOfTheRun
    /\ BackupsToCome
    /\ PhaseHolds
    /\ OutcomeTellsOutputs

\* Versions of earlier runs that are somewhere stay somewhere.
OlderStay == \A f \in Files : {v \in Stored(f) : v.run # run} \subseteq Stored(f)'

GivesNothingUp == OlderStay /\ (LogStored => LogStored')

LEMMA InitHolds ==
    ASSUME Init
    PROVE  IInv
<1> USE RecoveryAssumption DEF Init, RecoveryInit
<1>1. [f \in Files |-> Absent] \in [Files -> Contents]
    BY DEF Contents
<1>2. at \in [Files -> Contents]
    BY DEF Contents, Versions
<1>3. Typed
    <2>1. held \in [Runs -> [Files -> Contents]]
        BY <1>1
    <2>2. partials \in [Files -> Seq(Versions)]
        <3>1. << >> \in Seq(Versions)
            OBVIOUS
        <3>2. QED
            BY <3>1
    <2>3. \A f \in Files : partials[f] \in Seq(Versions)
        BY <2>2
    <2>4. QED
        <3>1. run \in 0 .. MaxRuns /\ expected \subseteq Files /\ recorded \subseteq Files
            OBVIOUS
        <3>2. /\ todo \subseteq Files /\ pc \in Steps /\ pc \notin {"drop", "restore"}
              /\ outcome \in Outcomes /\ log \in {"none", "old", "new"}
            BY DEF Steps, Outcomes
        <3>3. logHeld \in BOOLEAN /\ started \in BOOLEAN /\ troubled \in BOOLEAN
            OBVIOUS
        <3>4. before \in [Files -> Contents]
            BY <1>2
        <3>5. QED
            BY <1>2, <2>1, <2>2, <2>3, <3>1, <3>2, <3>3, <3>4, Zenon DEF Typed, TypeOK, Contents
<1>4. FilesAreOfTheRun
    BY DEF FilesAreOfTheRun
<1>5. BackupsToCome
    BY DEF BackupsToCome
<1>6. PhaseHolds /\ OutcomeTellsOutputs
    BY DEF PhaseHolds, OutcomeTellsOutputs
<1>7. QED
    BY <1>3, <1>4, <1>5, <1>6 DEF IInv

-----------------------------------------------------------------------------
(* Steps that move no file *)

LEMMA QuietKeeps ==
    ASSUME IInv,
           UNCHANGED <<run, expected, at, held, partials, recorded, before, wrote, told>>,
           pc' \in Steps, pc' # "idle" => pc # "idle", log' \in {"none", "old", "new"},
           logHeld' \in BOOLEAN, todo' \subseteq expected,
           pc' \in {"drop", "restore"} => todo' \subseteq recorded,
           started' \in BOOLEAN, troubled' \in BOOLEAN, outcome' \in Outcomes,
           PhaseHolds', OutcomeTellsOutputs'
    PROVE  IInv' /\ OlderStay
<1>1. Typed'
    BY DEF IInv, Typed, TypeOK, FilesAreOfTheRun
<1>2. FilesAreOfTheRun' /\ BackupsToCome'
    BY DEF IInv, FilesAreOfTheRun, BackupsToCome
<1>3. OlderStay
    BY DEF OlderStay, Stored
<1>4. QED
    BY <1>1, <1>2, <1>3 DEF IInv

LEMMA HideFailsKeeps ==
    ASSUME IInv, UNCHANGED callerVars, HideFails
    PROVE  IInv' /\ GivesNothingUp
<1> USE DEF HideFails, Recover
<1>1. WhileSettingAside'
    BY DEF IInv, PhaseHolds, WhileHiding, WhileSettingAside, FilesAreOfTheRun, OthersUntouched,
           Untouched, InBackup, IsNew, OwnAt, OwnOrGone
<1>2. PhaseHolds' /\ OutcomeTellsOutputs'
    BY <1>1 DEF PhaseHolds, OutcomeTellsOutputs
<1>3. QED
    BY <1>2, QuietKeeps DEF IInv, Typed, TypeOK, Steps, callerVars, GivesNothingUp, LogStored

LEMMA HiddenKeeps ==
    ASSUME IInv, UNCHANGED callerVars, Hidden
    PROVE  IInv' /\ GivesNothingUp
<1> USE DEF Hidden
<1>1. AllHidden' /\ wrote' = {} /\ ~logHeld'
    BY DEF IInv, PhaseHolds, WhileHiding, AllHidden, FilesAreOfTheRun, OthersUntouched,
           Untouched, InBackup, IsNew, OwnAt
<1>2. PhaseHolds' /\ OutcomeTellsOutputs'
    BY <1>1 DEF PhaseHolds, OutcomeTellsOutputs
<1>3. QED
    BY <1>2, QuietKeeps
       DEF IInv, Typed, TypeOK, Steps, callerVars, GivesNothingUp, LogStored, FilesAreOfTheRun

LEMMA HideLogKeeps ==
    ASSUME IInv, UNCHANGED callerVars, HideLog
    PROVE  IInv' /\ GivesNothingUp
<1> USE DEF HideLog
<1>1. AllHidden' /\ log' # "old"
    BY DEF IInv, PhaseHolds, AllHidden, OthersUntouched, Untouched, InBackup, IsNew, OwnAt
<1>2. PhaseHolds' /\ OutcomeTellsOutputs'
    BY <1>1 DEF PhaseHolds, OutcomeTellsOutputs
<1>3. LogStored => LogStored'
    BY DEF IInv, PhaseHolds, LogStored
<1>4. QED
    BY <1>2, <1>3, QuietKeeps
       DEF IInv, Typed, TypeOK, Steps, callerVars, GivesNothingUp, FilesAreOfTheRun

\* A run that has hidden every output starts to recover.
LEMMA RecoveryStarts ==
    ASSUME IInv, AllHidden, pc' = "setaside", Recover(TRUE),
           UNCHANGED <<run, expected, at, held, partials, recorded, troubled, before, wrote>>
    PROVE  PhaseHolds' /\ OutcomeTellsOutputs'
<1>1. \A f \in recorded : OwnOrGone(f)
    BY DEF IInv, AllHidden, FilesAreOfTheRun, OwnAt, OwnOrGone
<1>2. todo' = expected /\ pc' = "setaside"
    BY DEF Recover
<1>3. \A f \in Files \ recorded : IF f \in wrote THEN IsNew(f) ELSE Untouched(f)
    BY DEF IInv, FilesAreOfTheRun, AllHidden, OthersUntouched, Untouched, IsNew, OwnAt
<1>4. WhileSettingAside'
    BY <1>1, <1>2, <1>3
       DEF IInv, FilesAreOfTheRun, AllHidden, WhileSettingAside, Untouched, InBackup, IsNew,
           OwnAt, OwnOrGone
<1>5. QED
    BY <1>2, <1>4 DEF PhaseHolds, OutcomeTellsOutputs

LEMMA HideLogFailsKeeps ==
    ASSUME IInv, UNCHANGED callerVars, HideLogFails
    PROVE  IInv' /\ GivesNothingUp
<1> USE DEF HideLogFails
<1>1. PhaseHolds' /\ OutcomeTellsOutputs'
    BY RecoveryStarts DEF IInv, PhaseHolds, Recover
<1>2. LogStored => LogStored'
    BY DEF LogStored
<1>3. QED
    BY <1>1, <1>2, QuietKeeps
       DEF IInv, Typed, TypeOK, Steps, callerVars, GivesNothingUp, Recover, FilesAreOfTheRun

LEMMA OpenLogKeeps ==
    ASSUME IInv, UNCHANGED callerVars, OpenLog
    PROVE  IInv' /\ GivesNothingUp
<1> USE DEF OpenLog
<1>1. AllHidden' /\ log' # "old"
    BY DEF IInv, PhaseHolds, AllHidden, OthersUntouched, Untouched, InBackup, IsNew, OwnAt
<1>2. PhaseHolds' /\ OutcomeTellsOutputs'
    BY <1>1 DEF PhaseHolds, OutcomeTellsOutputs
<1>3. LogStored => LogStored'
    BY DEF IInv, PhaseHolds, LogStored
<1>4. QED
    BY <1>2, <1>3, QuietKeeps
       DEF IInv, Typed, TypeOK, Steps, callerVars, GivesNothingUp, FilesAreOfTheRun

LEMMA EngineFailsKeeps ==
    ASSUME IInv, UNCHANGED callerVars, EngineFails
    PROVE  IInv' /\ GivesNothingUp
<1> USE DEF EngineFails, RestoreLog
<1>1. PhaseHolds' /\ OutcomeTellsOutputs'
    BY RecoveryStarts DEF IInv, PhaseHolds, Recover
<1>2. LogStored => LogStored'
    BY DEF IInv, PhaseHolds, LogStored
<1>3. QED
    BY <1>1, <1>2, QuietKeeps
       DEF IInv, Typed, TypeOK, Steps, callerVars, GivesNothingUp, Recover, FilesAreOfTheRun

LEMMA EngineExitsKeeps ==
    ASSUME IInv, UNCHANGED callerVars, EngineExits
    PROVE  IInv' /\ GivesNothingUp
<1> USE DEF EngineExits
<1>1. CASE \A f \in expected : at[f].full
    <2>1. \A f \in expected : at[f] = [run |-> run, full |-> TRUE]
        <3> SUFFICES ASSUME NEW f \in expected
                     PROVE  at[f] = [run |-> run, full |-> TRUE]
            OBVIOUS
        <3>1. at[f] # Absent
            BY <1>1 DEF Absent
        <3>2. at[f] \in Versions /\ at[f].run = run /\ at[f].full
            BY <1>1, <3>1 DEF IInv, Typed, TypeOK, PhaseHolds, AllHidden, OwnAt
        <3>3. QED
            BY <3>2 DEF Versions
    <2>2. AllHidden' /\ Complete'
        BY <1>1, <2>1
           DEF IInv, PhaseHolds, AllHidden, Complete, OthersUntouched, Untouched, InBackup,
               IsNew, OwnAt
    <2>3. PhaseHolds' /\ OutcomeTellsOutputs'
        BY <1>1, <2>2 DEF PhaseHolds, OutcomeTellsOutputs
    <2>4. QED
        BY <1>1, <2>3, QuietKeeps
           DEF IInv, Typed, TypeOK, Steps, callerVars, GivesNothingUp, LogStored,
               FilesAreOfTheRun
<1>2. CASE ~ \A f \in expected : at[f].full
    <2>1. PhaseHolds' /\ OutcomeTellsOutputs'
        BY <1>2, RecoveryStarts DEF IInv, PhaseHolds, Recover
    <2>2. LogStored => LogStored'
        BY <1>2 DEF IInv, PhaseHolds, LogStored, RestoreLog
    <2>3. QED
        BY <1>2, <2>1, <2>2, QuietKeeps
           DEF IInv, Typed, TypeOK, Steps, callerVars, GivesNothingUp, Recover, RestoreLog,
               FilesAreOfTheRun
<1>3. QED
    BY <1>1, <1>2

LEMMA DropLogKeeps ==
    ASSUME IInv, UNCHANGED callerVars, DropLog
    PROVE  IInv' /\ Complete
<1> USE DEF DropLog
<1>1. Complete /\ Complete'
    BY DEF IInv, PhaseHolds, Complete
<1>2. PhaseHolds' /\ OutcomeTellsOutputs'
    BY <1>1 DEF PhaseHolds, OutcomeTellsOutputs
<1>3. QED
    BY <1>1, <1>2, QuietKeeps DEF IInv, Typed, TypeOK, Steps, callerVars, FilesAreOfTheRun

LEMMA DropLogFailsKeeps ==
    ASSUME IInv, UNCHANGED callerVars, DropLogFails
    PROVE  IInv' /\ Complete
<1> USE DEF DropLogFails
<1>1. PhaseHolds' /\ OutcomeTellsOutputs'
    BY RecoveryStarts DEF IInv, PhaseHolds, Recover
<1>2. QED
    BY <1>1, QuietKeeps
       DEF IInv, Typed, TypeOK, Steps, callerVars, Recover, FilesAreOfTheRun, PhaseHolds

LEMMA EndKeeps ==
    ASSUME IInv, UNCHANGED callerVars, NEW how \in Outcomes, End(how),
           how \in {"ok", "undropped"} => Complete,
           how = "failed" => at = before /\ \A f \in wrote : Kept(f)
    PROVE  IInv' /\ GivesNothingUp
<1> USE DEF End
<1>1. PhaseHolds' /\ OutcomeTellsOutputs'
    BY DEF PhaseHolds, OutcomeTellsOutputs, Complete, Kept
<1>2. QED
    BY <1>1, QuietKeeps
       DEF IInv, Typed, TypeOK, Steps, callerVars, GivesNothingUp, LogStored, FilesAreOfTheRun

LEMMA EndsKeep ==
    ASSUME IInv, UNCHANGED callerVars, DropFails \/ Succeed \/ Kill
    PROVE  IInv' /\ GivesNothingUp
BY EndKeeps DEF DropFails, Succeed, Kill, Outcomes, IInv, PhaseHolds

LEMMA RaiseKeeps ==
    ASSUME IInv, UNCHANGED callerVars, NEW removed \in BOOLEAN, Raise(removed)
    PROVE  IInv' /\ GivesNothingUp
<1>1. CASE troubled \/ ~removed
    BY <1>1, EndKeeps DEF Raise, Outcomes
<1>2. CASE ~troubled /\ removed
    <2>1. at \in [Files -> Contents] /\ before \in [Files -> Contents]
        BY DEF IInv, Typed, TypeOK, Contents
    <2>2. \A f \in Files : at[f] = before[f]
        BY <1>2, <2>1 DEF Raise, IInv, PhaseHolds, WhenRestored, IsBack
    <2>3. at = before
        BY <2>1, <2>2
    <2>4. \A f \in wrote : Kept(f)
        BY <1>2 DEF Raise, IInv, PhaseHolds, WhenRestored
    <2>5. QED
        BY <1>2, <2>3, <2>4, EndKeeps DEF Raise, Outcomes
<1>3. QED
    BY <1>1, <1>2

LEMMA LoopsKeep ==
    ASSUME IInv, UNCHANGED callerVars,
           NextLoop("setaside", "restore", recorded) \/ NextLoop("restore", "rmdir", {})
    PROVE  IInv' /\ GivesNothingUp
<1> USE DEF NextLoop
<1>1. CASE NextLoop("setaside", "restore", recorded)
    <2>1. \A f \in Files \ recorded : IsBack(f)
        BY <1>1 DEF IInv, PhaseHolds, WhileSettingAside, Untouched, IsNew, IsBack
    <2>2. WhileRestoring'
        BY <1>1, <2>1
           DEF IInv, PhaseHolds, WhileSettingAside, WhileRestoring, InBackup, OwnOrGone, IsBack,
               Kept
    <2>3. PhaseHolds' /\ OutcomeTellsOutputs'
        BY <1>1, <2>2 DEF PhaseHolds, OutcomeTellsOutputs
    <2>4. QED
        BY <1>1, <2>3, QuietKeeps
           DEF IInv, Typed, TypeOK, Steps, callerVars, GivesNothingUp, LogStored,
               FilesAreOfTheRun
<1>2. CASE NextLoop("restore", "rmdir", {})
    <2>1. WhenRestored'
        BY <1>2 DEF IInv, PhaseHolds, WhileRestoring, WhenRestored, IsBack, Kept
    <2>2. PhaseHolds' /\ OutcomeTellsOutputs'
        BY <1>2, <2>1 DEF PhaseHolds, OutcomeTellsOutputs
    <2>3. QED
        BY <1>2, <2>2, QuietKeeps
           DEF IInv, Typed, TypeOK, Steps, callerVars, GivesNothingUp, LogStored,
               FilesAreOfTheRun
<1>3. QED
    BY <1>1, <1>2

LEMMA FailedMovesKeep ==
    ASSUME IInv, UNCHANGED callerVars, NEW f \in expected,
           SetAsideFails(f) \/ RestoreFails(f)
    PROVE  IInv' /\ GivesNothingUp
<1> USE DEF SetAsideFails, RestoreFails, Reach
<1>1. CASE SetAsideFails(f)
    <2>1. WhileSettingAside'
        BY <1>1
           DEF IInv, PhaseHolds, WhileSettingAside, InBackup, OwnOrGone, OwnAt, Untouched,
               IsNew, Kept
    <2>2. PhaseHolds' /\ OutcomeTellsOutputs'
        BY <1>1, <2>1 DEF PhaseHolds, OutcomeTellsOutputs
    <2>3. QED
        BY <1>1, <2>2, QuietKeeps
           DEF IInv, Typed, TypeOK, Steps, callerVars, GivesNothingUp, LogStored,
               FilesAreOfTheRun
<1>2. CASE RestoreFails(f)
    <2>1. WhileRestoring'
        BY <1>2 DEF IInv, PhaseHolds, WhileRestoring, InBackup, OwnOrGone, IsBack, Kept
    <2>2. PhaseHolds' /\ OutcomeTellsOutputs'
        BY <1>2, <2>1 DEF PhaseHolds, OutcomeTellsOutputs
    <2>3. QED
        BY <1>2, <2>2, QuietKeeps
           DEF IInv, Typed, TypeOK, Steps, callerVars, GivesNothingUp, LogStored,
               FilesAreOfTheRun
<1>3. QED
    BY <1>1, <1>2

-----------------------------------------------------------------------------
(* Steps that move a file *)

LEMMA BackupChanges ==
    ASSUME IInv, pc # "idle", NEW f \in Files, NEW v \in Contents,
           held' = [held EXCEPT ![run][f] = v]
    PROVE  /\ run \in Runs
           /\ held' \in [Runs -> [Files -> Contents]]
           /\ held'[run][f] = v
           /\ \A r \in Runs, g \in Files : r # run \/ g # f => held'[r][g] = held[r][g]
<1>1. run \in Runs
    BY DEF IInv, FilesAreOfTheRun, Typed, TypeOK, Runs
<1>2. held \in [Runs -> [Files -> Contents]]
    BY DEF IInv, Typed, TypeOK, Contents
<1>3. QED
    BY <1>1, <1>2

\* A step that touches one file of the run.
LEMMA MoveKeeps ==
    ASSUME IInv, pc \in {"hide", "engine", "drop", "setaside", "restore"}, NEW f \in expected,
           NEW a \in Contents, NEW h \in Contents, NEW kept \in Seq(Versions),
           at' = [at EXCEPT ![f] = a],
           held' = [held EXCEPT ![run][f] = h],
           partials' = [partials EXCEPT ![f] = kept],
           UNCHANGED <<run, expected, log, logHeld, outcome, before, troubled, told>>,
           pc' \in Steps \ {"idle"}, todo' \subseteq expected, recorded' \subseteq expected,
           pc' \in {"drop", "restore"} => todo' \subseteq recorded',
           started' \in BOOLEAN, wrote' \subseteq expected, PhaseHolds'
    PROVE  IInv'
<1>1. /\ run \in Runs
      /\ held' \in [Runs -> [Files -> Contents]]
      /\ \A r \in Runs, g \in Files : r # run => held'[r][g] = held[r][g]
    BY BackupChanges DEF IInv, Typed, TypeOK
<1>2. at' \in [Files -> Contents] /\ partials' \in [Files -> Seq(Versions)]
    BY DEF IInv, Typed, TypeOK, Contents
<1>3. Typed'
    BY <1>1, <1>2 DEF IInv, Typed, TypeOK, Contents
<1>4. FilesAreOfTheRun'
    BY DEF IInv, FilesAreOfTheRun
<1>5. BackupsToCome'
    BY <1>1 DEF IInv, BackupsToCome, Typed, TypeOK, Runs
<1>6. OutcomeTellsOutputs'
    BY DEF OutcomeTellsOutputs
<1>7. QED
    BY <1>3, <1>4, <1>5, <1>6 DEF IInv

\* A file whose earlier version goes from one place to another.
LEMMA MoveStays ==
    ASSUME IInv, pc # "idle", NEW f \in Files, NEW a \in Contents, NEW h \in Contents,
           at' = [at EXCEPT ![f] = a],
           held' = [held EXCEPT ![run][f] = h],
           partials' \in [Files -> Seq(Versions)],
           \A g \in Files \ {f} : partials'[g] = partials[g],
           \A i \in DOMAIN partials[f] : partials[f][i] \in Stored(f)',
           at[f] = Absent \/ at[f].run = run \/ at[f] \in Stored(f)',
           held[run][f] = Absent \/ held[run][f].run = run \/ held[run][f] \in Stored(f)'
    PROVE  OlderStay
<1>1. \A r \in Runs, g \in Files : r # run \/ g # f => held'[r][g] = held[r][g]
    BY BackupChanges
<1>2. SUFFICES ASSUME NEW g \in Files, NEW v \in Stored(g), v.run # run
               PROVE  v \in Stored(g)'
    BY DEF OlderStay
<1>3. CASE g # f
    <2>1. at'[g] = at[g] /\ partials'[g] = partials[g]
        BY <1>3 DEF IInv, Typed, TypeOK
    <2>2. \A r \in Runs : held'[r][g] = held[r][g]
        BY <1>1, <1>3
    <2>3. QED
        BY <1>2, <2>1, <2>2 DEF Stored
<1>4. CASE g = f
    <2>1. CASE v = at[f]
        BY <1>2, <1>4, <2>1 DEF Stored
    <2>2. CASE \E r \in Runs : v = held[r][f]
        <3>1. PICK r \in Runs : v = held[r][f]
            BY <2>2
        <3>2. CASE r = run
            BY <1>2, <1>4, <3>1, <3>2 DEF Stored
        <3>3. CASE r # run
            BY <1>1, <1>2, <1>4, <3>1, <3>3 DEF Stored
        <3>4. QED
            BY <3>2, <3>3
    <2>3. CASE \E i \in DOMAIN partials[f] : v = partials[f][i]
        BY <1>4, <2>3
    <2>4. QED
        BY <1>2, <1>4, <2>1, <2>2, <2>3 DEF Stored
<1>5. QED
    BY <1>3, <1>4

\* What lies at a name, and in the backup of this run, is stored.
LEMMA WhatIsStored ==
    ASSUME NEW f \in Files, NEW v, v # Absent, run \in Runs,
           v = at[f] \/ v = held[run][f] \/ \E i \in DOMAIN partials[f] : v = partials[f][i]
    PROVE  v \in Stored(f)
BY DEF Stored

LEMMA SameFile ==
    ASSUME IInv, NEW f \in Files, pc # "idle"
    PROVE  /\ at = [at EXCEPT ![f] = at[f]] /\ at[f] \in Contents
           /\ held = [held EXCEPT ![run][f] = held[run][f]] /\ held[run][f] \in Contents
           /\ partials = [partials EXCEPT ![f] = partials[f]] /\ partials[f] \in Seq(Versions)
           /\ run \in Runs
<1>1. run \in Runs
    BY DEF IInv, FilesAreOfTheRun, Typed, TypeOK, Runs
<1>2. QED
    BY <1>1 DEF IInv, Typed, TypeOK, Contents

LEMMA HideKeeps ==
    ASSUME IInv, UNCHANGED callerVars, NEW f \in expected, Hide(f)
    PROVE  IInv' /\ GivesNothingUp
<1> USE DEF Hide, callerVars
<1>1. f \in Files /\ pc = "hide" /\ WhileHiding /\ f \in todo
    BY DEF IInv, Typed, TypeOK, PhaseHolds
<1>2. run \in Runs
    BY <1>1, SameFile
<1>3. LogStored => LogStored'
    BY DEF LogStored
<1>4. Untouched(f) /\ f \notin recorded
    BY <1>1 DEF WhileHiding
<1>5. CASE at[f] = Absent
    <2>1. UNCHANGED <<at, held, recorded, partials>>
        BY <1>5 DEF MoveToBackup
    <2>2. IsNew(f)
        BY <1>4, <1>5 DEF Untouched, IsNew
    <2>3. WhileHiding'
        BY <1>1, <1>5, <2>1, <2>2
           DEF IInv, FilesAreOfTheRun, WhileHiding, OthersUntouched, Untouched, InBackup, IsNew
    <2>4. PhaseHolds' /\ OutcomeTellsOutputs'
        BY <2>3 DEF PhaseHolds, OutcomeTellsOutputs
    <2>5. QED
        BY <1>1, <1>3, <2>1, <2>4, QuietKeeps
           DEF IInv, Typed, TypeOK, Steps, GivesNothingUp, FilesAreOfTheRun
<1>6. CASE at[f] # Absent
    <2> USE DEF MoveToBackup
    <2>1. /\ held' = [held EXCEPT ![run][f] = at[f]]
          /\ at' = [at EXCEPT ![f] = Absent]
          /\ recorded' = recorded \cup {f}
          /\ partials' = partials
        BY <1>6
    <2>2. at[f] \in Contents /\ Absent \in Contents /\ partials[f] \in Seq(Versions)
        BY <1>1 DEF IInv, Typed, TypeOK, Contents
    <2>3. /\ held'[run][f] = at[f]
          /\ \A g \in Files : g # f => held'[run][g] = held[run][g]
        BY <1>1, <1>2, <2>1, <2>2, BackupChanges
    <2>4. /\ at'[f] = Absent
          /\ \A g \in Files : g # f => at'[g] = at[g]
        BY <1>1, <2>1 DEF IInv, Typed, TypeOK
    <2>5. expected \subseteq Files /\ todo \subseteq expected /\ recorded \subseteq expected
        BY DEF IInv, Typed, TypeOK, FilesAreOfTheRun
    <2>6. WhileHiding'
        BY <1>1, <1>4, <1>6, <2>1, <2>3, <2>4, <2>5
           DEF WhileHiding, OthersUntouched, Untouched, InBackup, IsNew
    <2>7. PhaseHolds'
        BY <2>6 DEF PhaseHolds
    <2>8. IInv'
        <3>1. partials' = [partials EXCEPT ![f] = partials[f]]
            BY <1>1, <2>1, SameFile
        <3>2. /\ pc' \in Steps \ {"idle"} /\ pc' \notin {"drop", "restore"}
              /\ todo' \subseteq expected /\ recorded' \subseteq expected
              /\ wrote' \subseteq expected /\ started' \in BOOLEAN
            BY <1>1, <2>1, <2>5 DEF IInv, Typed, TypeOK, Steps, FilesAreOfTheRun
        <3>3. QED
            BY <1>1, <2>1, <2>2, <2>7, <3>1, <3>2, MoveKeeps
    <2>9. OlderStay
        <3>1. at[f] \in Stored(f)'
            BY <1>2, <1>6, <2>3 DEF Stored
        <3>2. \A i \in DOMAIN partials[f] : partials[f][i] \in Stored(f)'
            <4>1. \A i \in DOMAIN partials[f] : partials[f][i] # Absent
                BY <2>2 DEF Versions, Absent
            <4>2. QED
                BY <2>1, <4>1 DEF Stored
        <3>3. held[run][f] = Absent
            BY <1>4 DEF Untouched
        <3>4. partials' \in [Files -> Seq(Versions)]
            BY <2>1 DEF IInv, Typed
        <3>5. QED
            BY <1>1, <2>1, <2>2, <3>1, <3>2, <3>3, <3>4, MoveStays
    <2>10. QED
        BY <1>3, <2>8, <2>9 DEF GivesNothingUp
<1>7. QED
    BY <1>5, <1>6

LEMMA HideInterruptedKeeps ==
    ASSUME IInv, UNCHANGED callerVars, NEW f \in expected, HideInterrupted(f)
    PROVE  IInv' /\ GivesNothingUp
<1> USE DEF HideInterrupted, callerVars, MoveToBackup, Recover
<1>1. f \in Files /\ pc = "hide" /\ WhileHiding /\ f \in todo
    BY DEF IInv, Typed, TypeOK, PhaseHolds
<1>2. run \in Runs
    BY <1>1, SameFile
<1>3. /\ at[f] \in Contents /\ Absent \in Contents /\ partials[f] \in Seq(Versions)
      /\ partials' = [partials EXCEPT ![f] = partials[f]]
    BY <1>1, SameFile DEF Contents
<1>4. Untouched(f) /\ f \notin recorded
    BY <1>1 DEF WhileHiding
<1>5. /\ held'[run][f] = at[f]
      /\ \A g \in Files : g # f => held'[run][g] = held[run][g]
    BY <1>1, <1>2, <1>3, BackupChanges
<1>6. /\ at'[f] = Absent
      /\ \A g \in Files : g # f => at'[g] = at[g]
    BY <1>1 DEF IInv, Typed, TypeOK
<1>7. expected \subseteq Files /\ todo \subseteq expected /\ recorded \subseteq expected
    BY DEF IInv, Typed, TypeOK, FilesAreOfTheRun
<1>8. WhileSettingAside'
    <2>1. \A g \in recorded : InBackup(g)' /\ OwnOrGone(g)'
        BY <1>1, <1>4, <1>5, <1>6, <1>7 DEF WhileHiding, InBackup, OwnOrGone
    <2>2. \A g \in Files \ recorded : Untouched(g)' \/ held'[run][g] # Absent
        BY <1>1, <1>4, <1>5, <1>6, <1>7
           DEF WhileHiding, OthersUntouched, Untouched, IsNew
    <2>3. QED
        BY <1>1, <2>1, <2>2 DEF WhileHiding, WhileSettingAside, Untouched
<1>9. PhaseHolds'
    BY <1>8 DEF PhaseHolds
<1>10. IInv'
    <2>1. /\ pc' \in Steps \ {"idle"} /\ pc' \notin {"drop", "restore"}
          /\ todo' \subseteq expected /\ recorded' \subseteq expected
          /\ wrote' \subseteq expected /\ started' \in BOOLEAN
        BY <1>7 DEF IInv, Typed, TypeOK, Steps, FilesAreOfTheRun
    <2>2. QED
        BY <1>1, <1>3, <1>9, <2>1, MoveKeeps
<1>11. OlderStay
    <2>1. at[f] \in Stored(f)'
        BY <1>2, <1>5 DEF Stored
    <2>2. \A i \in DOMAIN partials[f] : partials[f][i] \in Stored(f)'
        <3>1. \A i \in DOMAIN partials[f] : partials[f][i] # Absent
            BY <1>3 DEF Versions, Absent
        <3>2. QED
            BY <3>1 DEF Stored
    <2>3. held[run][f] = Absent
        BY <1>4 DEF Untouched
    <2>4. partials' \in [Files -> Seq(Versions)]
        BY DEF IInv, Typed
    <2>5. QED
        BY <1>1, <1>3, <2>1, <2>2, <2>3, <2>4, MoveStays
<1>12. QED
    BY <1>10, <1>11 DEF GivesNothingUp, LogStored

\* The engine writes where nothing but its own output is.
LEMMA WriteKeeps ==
    ASSUME IInv, UNCHANGED callerVars, NEW f \in told[run].writes, NEW full \in BOOLEAN,
           EngineWrites(f, full)
    PROVE  IInv' /\ GivesNothingUp
<1> USE DEF EngineWrites, callerVars
<1>1. pc = "engine" /\ AllHidden /\ log # "old" /\ f \in expected /\ f \in Files
    BY DEF IInv, Typed, TypeOK, FilesAreOfTheRun, PhaseHolds
<1>2. /\ run \in Runs /\ held[run][f] \in Contents /\ partials[f] \in Seq(Versions)
      /\ held' = [held EXCEPT ![run][f] = held[run][f]]
      /\ partials' = [partials EXCEPT ![f] = partials[f]]
    BY <1>1, SameFile
<1>3. DEFINE new == [run |-> run, full |-> full]
<1>4. new \in Contents /\ new.run = run
    BY <1>2 DEF Contents, Versions, Runs
<1>5. /\ at' = [at EXCEPT ![f] = new]
      /\ at'[f] = new
      /\ \A g \in Files : g # f => at'[g] = at[g]
    BY <1>1 DEF IInv, Typed, TypeOK
<1> HIDE DEF new
<1>6. expected \subseteq Files /\ recorded \subseteq expected /\ wrote' = wrote \cup {f}
    BY DEF IInv, Typed, TypeOK, FilesAreOfTheRun
<1>7. AllHidden'
    BY <1>1, <1>4, <1>5, <1>6
       DEF AllHidden, OthersUntouched, Untouched, InBackup, IsNew, OwnAt
<1>8. PhaseHolds'
    BY <1>1, <1>7 DEF PhaseHolds
<1>9. IInv'
    <2>1. /\ pc' \in Steps \ {"idle"} /\ pc' \notin {"drop", "restore"}
          /\ todo' \subseteq expected /\ recorded' \subseteq expected
          /\ wrote' \subseteq expected /\ started' \in BOOLEAN
        BY <1>1 DEF IInv, Typed, TypeOK, Steps, FilesAreOfTheRun
    <2>2. QED
        <3>1. UNCHANGED <<run, expected, log, logHeld, outcome, before, troubled, told>>
            OBVIOUS
        <3>2. new \in Contents /\ pc \in {"hide", "engine", "drop", "setaside", "restore"}
            BY <1>1, <1>4
        <3>3. QED
            BY <1>1, <1>2, <1>5, <1>8, <2>1, <3>1, <3>2, MoveKeeps, ZenonT(30)
<1>10. OlderStay
    <2>1. \A i \in DOMAIN partials[f] : partials[f][i] \in Stored(f)'
        <3>1. \A i \in DOMAIN partials[f] : partials[f][i] # Absent
            BY <1>2 DEF Versions, Absent
        <3>2. QED
            BY <3>1 DEF Stored
    <2>2. at[f] = Absent \/ at[f].run = run
        BY <1>1 DEF AllHidden, OwnAt
    <2>3. held[run][f] = Absent \/ held[run][f] \in Stored(f)'
        BY <1>2 DEF Stored
    <2>4. partials' \in [Files -> Seq(Versions)]
        BY DEF IInv, Typed
    <2>5. QED
        BY <1>1, <1>2, <1>4, <1>5, <2>1, <2>2, <2>3, <2>4, MoveStays
<1>11. QED
    BY <1>9, <1>10 DEF GivesNothingUp, LogStored

LEMMA DropKeeps ==
    ASSUME IInv, UNCHANGED callerVars, NEW f \in expected, Drop(f)
    PROVE  IInv' /\ Complete
<1> USE DEF Drop, callerVars
<1>1. pc = "drop" /\ f \in Files /\ Complete
    BY DEF IInv, Typed, TypeOK, PhaseHolds
<1>2. /\ at[f] \in Contents /\ partials[f] \in Seq(Versions) /\ Absent \in Contents
      /\ at' = [at EXCEPT ![f] = at[f]]
      /\ partials' = [partials EXCEPT ![f] = partials[f]]
    BY <1>1, SameFile DEF Contents
<1>3. PhaseHolds'
    BY <1>1 DEF PhaseHolds, Complete
<1>4. /\ pc' \in Steps \ {"idle"} /\ todo' \subseteq expected /\ recorded' \subseteq expected
      /\ todo' \subseteq recorded' /\ wrote' \subseteq expected /\ started' \in BOOLEAN
    BY <1>1 DEF IInv, Typed, TypeOK, Steps, FilesAreOfTheRun
<1>5. QED
    BY <1>1, <1>2, <1>3, <1>4, MoveKeeps

LEMMA SetAsideKeeps ==
    ASSUME IInv, UNCHANGED callerVars, NEW f \in expected, SetAside(f)
    PROVE  IInv' /\ GivesNothingUp
<1> USE DEF SetAside, Reach, callerVars
<1>1. pc = "setaside" /\ f \in Files /\ WhileSettingAside /\ f \in todo
    BY DEF IInv, Typed, TypeOK, PhaseHolds
<1>2. /\ run \in Runs /\ run # -1 /\ held[run][f] \in Contents
      /\ held' = [held EXCEPT ![run][f] = held[run][f]]
      /\ at[f] \in Contents /\ Absent \in Contents
      /\ partials[f] \in Seq(Versions)
    BY <1>1, SameFile DEF Contents, Runs
<1>3. OwnAt(f)
    BY <1>1 DEF WhileSettingAside
<1>4. expected \subseteq Files /\ recorded \subseteq expected /\ todo \subseteq expected
      /\ wrote \subseteq expected
    BY DEF IInv, Typed, TypeOK, FilesAreOfTheRun
<1>5. LogStored => LogStored'
    BY DEF LogStored
<1>6. CASE at[f] = Absent
    <2>1. f \notin wrote
        BY <1>2, <1>3, <1>6 DEF OwnAt, Absent
    <2>2. UNCHANGED <<at, partials, held, troubled>>
        BY <1>6
    <2>3. WhileSettingAside'
        BY <1>1, <2>1, <2>2
           DEF WhileSettingAside, InBackup, OwnOrGone, Untouched, IsNew, OwnAt, Kept
    <2>4. PhaseHolds' /\ OutcomeTellsOutputs'
        BY <1>1, <2>3 DEF PhaseHolds, OutcomeTellsOutputs
    <2>5. QED
        BY <1>1, <1>5, <2>2, <2>4, QuietKeeps
           DEF IInv, Typed, TypeOK, Steps, GivesNothingUp, FilesAreOfTheRun
<1>7. CASE at[f] # Absent
    <2>1. at[f] \in Versions /\ at[f].run = run /\ f \in wrote
        BY <1>2, <1>3, <1>7 DEF OwnAt, Contents
    <2>2. DEFINE kept == Append(partials[f], at[f])
    <2>3. /\ kept \in Seq(Versions) /\ kept # << >> /\ kept[Len(kept)].run = run
          /\ \A i \in DOMAIN partials[f] : i \in DOMAIN kept /\ kept[i] = partials[f][i]
        BY <1>2, <2>1
    <2>4. /\ partials' = [partials EXCEPT ![f] = kept]
          /\ partials'[f] = kept
          /\ \A g \in Files : g # f => partials'[g] = partials[g]
        BY <1>1, <1>7 DEF IInv, Typed
    <2> HIDE DEF kept
    <2>5. /\ at' = [at EXCEPT ![f] = Absent]
          /\ at'[f] = Absent
          /\ \A g \in Files : g # f => at'[g] = at[g]
        BY <1>1, <1>7 DEF IInv, Typed, TypeOK
    <2>6. WhileSettingAside'
        <3>1. \A g \in recorded : InBackup(g)' /\ OwnOrGone(g)'
            BY <1>1, <1>4, <2>5 DEF WhileSettingAside, InBackup, OwnOrGone
        <3>2. \A g \in Files \ recorded :
                  IF g \in wrote THEN IsNew(g)' ELSE Untouched(g)' \/ held'[run][g] # Absent
            BY <1>1, <2>1, <2>5 DEF WhileSettingAside, Untouched, IsNew
        <3>3. \A g \in todo' : OwnAt(g)'
            BY <1>1, <1>4, <2>5 DEF WhileSettingAside, OwnAt
        <3>4. \A g \in wrote' \ todo' : troubled' \/ (at'[g] = Absent /\ Kept(g)')
            BY <1>1, <1>4, <2>3, <2>4, <2>5 DEF WhileSettingAside, Kept
        <3>5. QED
            BY <3>1, <3>2, <3>3, <3>4 DEF WhileSettingAside
    <2>7. PhaseHolds'
        BY <1>1, <2>6 DEF PhaseHolds
    <2>8. IInv'
        <3>1. /\ pc' \in Steps \ {"idle"} /\ pc' \notin {"drop", "restore"}
              /\ todo' \subseteq expected /\ recorded' \subseteq expected
              /\ wrote' \subseteq expected /\ started' \in BOOLEAN
            BY <1>1, <1>4 DEF IInv, Typed, TypeOK, Steps
        <3>2. QED
            BY <1>1, <1>2, <2>3, <2>4, <2>5, <2>7, <3>1, MoveKeeps
    <2>9. OlderStay
        <3>1. \A i \in DOMAIN partials[f] : partials[f][i] \in Stored(f)'
            <4>1. \A i \in DOMAIN partials[f] : partials[f][i] # Absent
                BY <1>2 DEF Versions, Absent
            <4>2. QED
                BY <2>3, <2>4, <4>1 DEF Stored
        <3>2. held[run][f] = Absent \/ held[run][f] \in Stored(f)'
            BY <1>2 DEF Stored
        <3>3. partials' \in [Files -> Seq(Versions)]
            BY <1>1, <2>3, <2>4 DEF IInv, Typed
        <3>4. QED
            BY <1>1, <1>2, <2>1, <2>4, <2>5, <3>1, <3>2, <3>3, MoveStays
    <2>10. QED
        BY <1>5, <2>8, <2>9 DEF GivesNothingUp
<1>8. QED
    BY <1>6, <1>7

\* The earlier version replaces nothing but what this run has left behind.
LEMMA RestoreKeeps ==
    ASSUME IInv, UNCHANGED callerVars, NEW f \in expected, Restore(f)
    PROVE  IInv' /\ GivesNothingUp
<1> USE DEF Restore, Reach, callerVars
<1>1. pc = "restore" /\ f \in Files /\ WhileRestoring /\ f \in todo
    BY DEF IInv, Typed, TypeOK, PhaseHolds
<1>2. /\ run \in Runs /\ held[run][f] \in Contents /\ Absent \in Contents
      /\ partials' = [partials EXCEPT ![f] = partials[f]]
      /\ partials[f] \in Seq(Versions)
    BY <1>1, SameFile DEF Contents
<1>3. InBackup(f) /\ OwnOrGone(f)
    BY <1>1 DEF WhileRestoring
<1>4. expected \subseteq Files /\ recorded \subseteq expected /\ todo \subseteq recorded
    BY <1>1 DEF IInv, Typed, TypeOK, FilesAreOfTheRun
<1>5. /\ held' = [held EXCEPT ![run][f] = Absent]
      /\ held'[run][f] = Absent
      /\ \A g \in Files : g # f => held'[run][g] = held[run][g]
    BY <1>1, <1>2, BackupChanges
<1>6. /\ at' = [at EXCEPT ![f] = held[run][f]]
      /\ at'[f] = held[run][f]
      /\ \A g \in Files : g # f => at'[g] = at[g]
    BY <1>1 DEF IInv, Typed, TypeOK
<1>7. WhileRestoring'
    <2>1. \A g \in todo' : InBackup(g)' /\ OwnOrGone(g)'
        BY <1>1, <1>4, <1>5, <1>6 DEF WhileRestoring, InBackup, OwnOrGone
    <2>2. \A g \in Files \ todo' : IsBack(g)'
        BY <1>1, <1>3, <1>4, <1>5, <1>6 DEF WhileRestoring, IsBack, InBackup
    <2>3. QED
        BY <1>1, <1>4, <2>1, <2>2 DEF WhileRestoring, Kept
<1>8. PhaseHolds'
    BY <1>1, <1>7 DEF PhaseHolds
<1>9. IInv'
    <2>1. /\ pc' \in Steps \ {"idle"} /\ todo' \subseteq expected
          /\ recorded' \subseteq expected /\ todo' \subseteq recorded'
          /\ wrote' \subseteq expected /\ started' \in BOOLEAN
        BY <1>1, <1>4 DEF IInv, Typed, TypeOK, Steps, FilesAreOfTheRun
    <2>2. QED
        <3>1. UNCHANGED <<run, expected, log, logHeld, outcome, before, troubled, told>>
            OBVIOUS
        <3>2. pc \in {"hide", "engine", "drop", "setaside", "restore"}
            BY <1>1
        <3>3. held[run][f] \in Contents /\ Absent \in Contents /\ partials[f] \in Seq(Versions)
            BY <1>2
        <3>4. /\ at' = [at EXCEPT ![f] = held[run][f]]
              /\ held' = [held EXCEPT ![run][f] = Absent]
              /\ partials' = [partials EXCEPT ![f] = partials[f]]
            BY <1>2, <1>5, <1>6
        <3> HIDE DEF Restore, Reach
        <3>5. QED
            BY <1>8, <2>1, <3>1, <3>2, <3>3, <3>4, MoveKeeps, ZenonT(30)
<1>10. OlderStay
    <2>1. \A i \in DOMAIN partials[f] : partials[f][i] \in Stored(f)'
        <3>1. \A i \in DOMAIN partials[f] : partials[f][i] # Absent
            BY <1>2 DEF Versions, Absent
        <3>2. QED
            BY <3>1 DEF Stored
    <2>2. held[run][f] \in Stored(f)'
        BY <1>3, <1>6 DEF Stored, InBackup
    <2>3. partials' \in [Files -> Seq(Versions)]
        BY DEF IInv, Typed
    <2>4. QED
        BY <1>1, <1>2, <1>3, <1>5, <1>6, <2>1, <2>2, <2>3, MoveStays DEF OwnOrGone
<1>11. QED
    BY <1>9, <1>10 DEF GivesNothingUp, LogStored

-----------------------------------------------------------------------------
(* Sequences of anything *)

IsSequence(s) == Len(s) \in Nat /\ s = [i \in 1 .. Len(s) |-> s[i]]

LEMMA Sequences ==
    ASSUME NEW S, NEW s \in Seq(S)
    PROVE  IsSequence(s)
<1>1. Len(s) \in Nat /\ s \in [1 .. Len(s) -> S]
    OBVIOUS
<1>2. s = [i \in 1 .. Len(s) |-> s[i]]
    BY <1>1
<1>3. QED
    BY <1>1, <1>2 DEF IsSequence

LEMMA Extended ==
    ASSUME NEW s, IsSequence(s), NEW x
    PROVE  /\ IsSequence(Append(s, x))
           /\ Len(Append(s, x)) = Len(s) + 1
           /\ Append(s, x)[Len(s) + 1] = x
           /\ \A i \in 1 .. Len(s) : Append(s, x)[i] = s[i]
<1> DEFINE S == {s[i] : i \in 1 .. Len(s)} \cup {x}
<1>1. s \in Seq(S) /\ x \in S
    BY DEF IsSequence
<1> HIDE DEF S
<1>2. IsSequence(Append(s, x))
    <2>1. Append(s, x) \in Seq(S)
        BY <1>1
    <2>2. QED
        BY <2>1, Sequences
<1>3. /\ Len(Append(s, x)) = Len(s) + 1
      /\ Append(s, x)[Len(s) + 1] = x
      /\ \A i \in 1 .. Len(s) : Append(s, x)[i] = s[i]
    BY <1>1
<1>4. QED
    BY <1>2, <1>3

LEMMA Joined ==
    ASSUME NEW s, IsSequence(s), NEW t, IsSequence(t)
    PROVE  /\ IsSequence(s \o t)
           /\ Len(s \o t) = Len(s) + Len(t)
           /\ \A i \in 1 .. Len(s) : (s \o t)[i] = s[i]
           /\ \A i \in Len(s) + 1 .. Len(s) + Len(t) : (s \o t)[i] = t[i - Len(s)]
<1> DEFINE S == {s[i] : i \in 1 .. Len(s)} \cup {t[i] : i \in 1 .. Len(t)}
<1>1. s \in Seq(S) /\ t \in Seq(S)
    BY DEF IsSequence
<1> HIDE DEF S
<1>2. s \o t \in Seq(S)
    BY <1>1
<1>3. IsSequence(s \o t)
    BY <1>2, Sequences
<1>4. /\ Len(s \o t) = Len(s) + Len(t)
      /\ \A i \in 1 .. Len(s) : (s \o t)[i] = s[i]
      /\ \A i \in Len(s) + 1 .. Len(s) + Len(t) : (s \o t)[i] = t[i - Len(s)]
    BY <1>1
<1>5. QED
    BY <1>3, <1>4

-----------------------------------------------------------------------------
(* Specs and their fields *)

Types == {"chain", "bursts", "tilted", "forest", "smc"}

LEMMA DefaultsAre ==
    /\ DOMAIN Defaults = Types
    /\ \A t \in Types : "writer" \in DOMAIN Defaults[t]
    /\ \A t \in {"chain", "forest"} : "force_print" \in DOMAIN Defaults[t]
    /\ \A t \in Types : t # "chain" => "output_file_name" \in DOMAIN Defaults[t]
    /\ \A t \in Types : t # "chain" => Defaults[t]["output_file_name"] = None
    /\ "constraint" \in DOMAIN Defaults["chain"]
    /\ \A t \in {"forest", "smc"} : "constraints" \in DOMAIN Defaults[t]
    /\ "tally_columns" \in DOMAIN Defaults["smc"]
<1>1. DOMAIN Defaults = Types
    BY DEF Defaults, Types
<1>2. /\ Defaults["chain"] = ChainDefaults /\ Defaults["bursts"] = OptimizerDefaults
      /\ Defaults["tilted"] = TiltedDefaults /\ Defaults["forest"] = ForestDefaults
      /\ Defaults["smc"] = SMCDefaults
    BY DEF Defaults
<1>3. "writer" \in DOMAIN RecomDefaults
    BY DEF RecomDefaults
<1>4. /\ "writer" \in DOMAIN ChainDefaults
      /\ "force_print" \in DOMAIN ChainDefaults /\ "constraint" \in DOMAIN ChainDefaults
    BY <1>3 DEF ChainDefaults, Over
<1>5. /\ "writer" \in DOMAIN OptimizerDefaults
      /\ "output_file_name" \in DOMAIN OptimizerDefaults
      /\ OptimizerDefaults["output_file_name"] = None
    BY <1>3 DEF OptimizerDefaults, Over
<1>6. /\ "writer" \in DOMAIN TiltedDefaults
      /\ "output_file_name" \in DOMAIN TiltedDefaults
      /\ TiltedDefaults["output_file_name"] = None
    BY <1>5 DEF TiltedDefaults, Over
<1>7. /\ {"writer", "force_print", "output_file_name", "constraints"} \subseteq DOMAIN ForestDefaults
      /\ ForestDefaults["output_file_name"] = None
    BY DEF ForestDefaults
<1>8. /\ {"writer", "output_file_name", "constraints", "tally_columns"} \subseteq DOMAIN SMCDefaults
      /\ SMCDefaults["output_file_name"] = None
    BY DEF SMCDefaults
<1>9. QED
    BY <1>1, <1>2, <1>4, <1>5, <1>6, <1>7, <1>8 DEF Types

\* A spec has its required fields and those with a default.
LEMMA FieldsAre ==
    ASSUME NEW s, IsSpec(s)
    PROVE  /\ s.type \in Types
           /\ DOMAIN Values(s) = DOMAIN s.given \cup DOMAIN Defaults[s.type]
           /\ RequiredFields[s.type] \subseteq DOMAIN Values(s)
           /\ \A f \in DOMAIN s.given : Values(s)[f] = s.given[f]
           /\ \A f \in DOMAIN Defaults[s.type] :
                 f \notin DOMAIN s.given => Values(s)[f] = Defaults[s.type][f]
<1>1. s.type \in Types
    BY DefaultsAre DEF IsSpec
<1>2. /\ DOMAIN Values(s) = DOMAIN s.given \cup DOMAIN Defaults[s.type]
      /\ \A f \in DOMAIN s.given : Values(s)[f] = s.given[f]
    BY DEF Values, Over
<1>3. \A f \in DOMAIN Defaults[s.type] :
            f \notin DOMAIN s.given => Values(s)[f] = Defaults[s.type][f]
    BY DEF Values, Over
<1>4. RequiredFields[s.type] \subseteq DOMAIN Values(s)
    BY <1>2 DEF IsSpec
<1>5. QED
    BY <1>1, <1>2, <1>3, <1>4

-----------------------------------------------------------------------------
(* Names of files *)

LEMMA One ==
    ASSUME NEW x
    PROVE  IsSequence(<<x>>) /\ Len(<<x>>) = 1 /\ <<x>>[1] = x
BY DEF IsSequence

LEMMA Two ==
    ASSUME NEW x, NEW y
    PROVE  IsSequence(<<x, y>>) /\ Len(<<x, y>>) = 2 /\ <<x, y>>[1] = x /\ <<x, y>>[2] = y
BY DEF IsSequence

\* The suffix of a writer ends in an extension.
LEMMA Suffixes ==
    ASSUME NEW w
    PROVE  /\ IsSequence(WriterSuffix(w))
           /\ Len(WriterSuffix(w)) >= 1
           /\ WriterSuffix(w)[Len(WriterSuffix(w))][1] = "ext"
<1>1. \/ \E x : WriterSuffix(w) = <<Ext(x)>>
      \/ \E x, y : WriterSuffix(w) = <<x, Ext(y)>>
    BY DEF WriterSuffix
<1>2. CASE \E x : WriterSuffix(w) = <<Ext(x)>>
    BY <1>2, One DEF Ext
<1>3. CASE \E x, y : WriterSuffix(w) = <<x, Ext(y)>>
    BY <1>3, Two DEF Ext
<1>4. QED
    BY <1>1, <1>2, <1>3

LEMMA StemsAre ==
    ASSUME NEW s
    PROVE  IsSequence(Stem(s)) /\ IsSequence(FileStem(s)) /\ Len(FileStem(s)) = Len(Stem(s)) + 1
<1>1. IsSequence(Stem(s))
    <2>1. \/ \E a, b, c, d, e : Stem(s) = <<a, b, c, d, e>>
          \/ \E a, b, c, d, e, f : Stem(s) = <<a, b, c, d, e, f>>
          \/ \E a, b, c, d : Stem(s) = <<a, b, c, d>>
          \/ \E a, b, c : Stem(s) = <<a, b, c>>
        BY Zenon DEF Stem
    <2>2. /\ \A a, b, c : IsSequence(<<a, b, c>>)
          /\ \A a, b, c, d : IsSequence(<<a, b, c, d>>)
          /\ \A a, b, c, d, e : IsSequence(<<a, b, c, d, e>>)
          /\ \A a, b, c, d, e, f : IsSequence(<<a, b, c, d, e, f>>)
        BY DEF IsSequence
    <2>3. QED
        BY <2>1, <2>2
<1>2. QED
    BY <1>1, Extended DEF FileStem

\* The output of a run that does not print has a name, the one given or one that starts with
\* the stem and ends in an extension.
LEMMA Outputs ==
    ASSUME NEW s, IsSpec(s), IsResolved(Full(s)), ~Prints(Full(s)),
           NEW stem, IsSequence(stem)
    PROVE  /\ OutputName(Full(s), stem) # << >>
           /\ GivenName(Full(s)) # None => OutputName(Full(s), stem) = GivenName(Full(s))[2]
           /\ GivenName(Full(s)) = None =>
                 LET output == OutputName(Full(s), stem) IN
                 /\ IsSequence(output)
                 /\ Len(output) > Len(stem)
                 /\ \A i \in 1 .. Len(stem) : output[i] = stem[i]
                 /\ output[Len(output)][1] = "ext"
<1> DEFINE name == GivenName(Full(s))
           suffix == WriterSuffix(Full(s).fields.writer)
           output == OutputName(Full(s), stem)
<1>1. CASE name # None
    <2>1. output = name[2]
        BY <1>1 DEF OutputName
    <2>2. IsBareName(name)
        BY <1>1 DEF IsResolved
    <2>3. s.type # "chain" /\ name = Values(s)["output_file_name"]
        BY <1>1 DEF GivenName, Full
    <2>4. name = s.given["output_file_name"] /\ "output_file_name" \in DOMAIN s.given
        <3>1. s.type \in Types
            BY FieldsAre
        <3>2. /\ "output_file_name" \in DOMAIN Defaults[s.type]
              /\ Defaults[s.type]["output_file_name"] = None
            BY <2>3, <3>1, DefaultsAre
        <3>3. "output_file_name" \in DOMAIN s.given
            BY <1>1, <2>3, <3>2, FieldsAre
        <3>4. QED
            BY <2>3, <3>3, FieldsAre
    <2>5. IsFileName(name)
        BY <2>4 DEF IsSpec
    <2>6. name[2] # << >>
        BY <2>2, <2>5 DEF IsFileName, IsBareName
    <2>7. QED
        BY <1>1, <2>1, <2>6
<1>2. CASE name = None
    <2>1. output = stem \o suffix
        BY <1>2 DEF OutputName
    <2> HIDE DEF output, suffix
    <2>2. /\ IsSequence(suffix) /\ Len(suffix) >= 1 /\ suffix[Len(suffix)][1] = "ext"
        BY Suffixes DEF suffix
    <2>3. /\ IsSequence(output) /\ Len(output) = Len(stem) + Len(suffix)
          /\ \A i \in 1 .. Len(stem) : output[i] = stem[i]
          /\ \A i \in Len(stem) + 1 .. Len(stem) + Len(suffix) : output[i] = suffix[i - Len(stem)]
        BY <2>1, <2>2, Joined
    <2>4. Len(stem) \in Nat /\ Len(suffix) \in Nat
        BY <2>2 DEF IsSequence
    <2>5. output[Len(output)] = suffix[Len(suffix)]
        BY <2>2, <2>3, <2>4
    <2>6. Len(output) > Len(stem)
        BY <2>2, <2>3, <2>4
    <2>7. output # << >>
        BY <2>4, <2>6
    <2>8. QED
        BY <1>2, <2>2, <2>3, <2>5, <2>6, <2>7 DEF output
<1>3. QED
    BY <1>1, <1>2

-----------------------------------------------------------------------------
(* The files of a document are those its run waits for *)

\* What the files of a document derive from is in it as it is in the spec.
LEMMA DocumentsAre ==
    ASSUME NEW s, IsSpec(s), NEW stem
    PROVE  LET d == Document(Full(s), stem) IN
           /\ d.output = OutputName(Full(s), stem)
           /\ d.run.writer = Full(s).fields.writer
           /\ d.engine = Engine(s)
           /\ Engine(s) = "recom" => d.command = s.type
           /\ s.type \in Optimizers => d.scores = ScoresName(Full(s), stem)
           /\ s.type = "smc" => d.run.tally_columns = Full(s).fields.tally_columns
<1> DEFINE full == Full(s)
           d == Document(full, stem)
<1>1. /\ full.type = s.type /\ full.fields = Values(s)
      /\ s.type \in Types
      /\ "writer" \in DOMAIN Values(s)
      /\ s.type = "smc" => "tally_columns" \in DOMAIN Values(s)
    BY FieldsAre, DefaultsAre DEF Full
<1> HIDE DEF full
<1>2. CASE s.type = "chain"
    <2>1. full.type \notin Optimizers /\ full.type # "forest" /\ full.type # "smc"
        BY <1>1, <1>2 DEF Optimizers
    <2>2. d = ChainDocument(full, stem)
        BY <1>1, <1>2, <2>1, Zenon DEF Document
    <2> HIDE DEF d
    <2>3. /\ d.output = OutputName(full, stem) /\ d.engine = "recom" /\ d.command = "chain"
          /\ d.run.writer = full.fields.writer
        BY <1>1, <2>2 DEF ChainDocument, Without
    <2>4. QED
        BY <1>1, <1>2, <2>3 DEF d, full, Engine, Optimizers
<1>3. CASE s.type \in Optimizers
    <2>1. full.type # "chain" /\ full.type # "forest" /\ full.type # "smc" /\ full.type \in Optimizers
        BY <1>1, <1>3 DEF Optimizers
    <2>2. d = OptimizerDocument(full, stem)
        BY <1>1, <2>1, Zenon DEF Document
    <2> HIDE DEF d
    <2>3. /\ d.output = OutputName(full, stem) /\ d.engine = "recom" /\ d.command = s.type
          /\ d.scores = ScoresName(full, stem)
          /\ d.run.writer = full.fields.writer
        BY <1>1, <2>2 DEF OptimizerDocument, Without
    <2>4. QED
        BY <1>1, <1>3, <2>1, <2>3 DEF d, full, Engine
<1>4. CASE s.type = "forest"
    <2>1. full.type \notin Optimizers /\ full.type # "chain" /\ full.type # "smc"
        BY <1>1, <1>4 DEF Optimizers
    <2>2. d = ForestDocument(full, stem)
        BY <1>1, <1>4, <2>1, Zenon DEF Document
    <2> HIDE DEF d
    <2>3. /\ d.output = OutputName(full, stem) /\ d.engine = "forest"
          /\ d.run.writer = full.fields.writer
        BY <1>1, <2>2 DEF ForestDocument, Without
    <2>4. QED
        BY <1>1, <1>4, <2>1, <2>3 DEF d, full, Engine
<1>5. CASE s.type = "smc"
    <2>1. full.type \notin Optimizers /\ full.type # "chain" /\ full.type # "forest"
        BY <1>1, <1>5 DEF Optimizers
    <2>2. d = SMCDocument(full, stem)
        BY <1>1, <1>5, <2>1, Zenon DEF Document
    <2> HIDE DEF d
    <2>3. /\ d.output = OutputName(full, stem) /\ d.engine = "smc"
          /\ d.run.writer = full.fields.writer
          /\ d.run.tally_columns = full.fields.tally_columns
        BY <1>1, <1>5, <2>2 DEF SMCDocument, Without
    <2>4. QED
        BY <1>1, <1>5, <2>1, <2>3 DEF d, full, Engine
<1>6. QED
    BY <1>1, <1>2, <1>3, <1>4, <1>5 DEF Types, Optimizers

\* Unless the name given ends in an extension that R does not know.
LEMMA WritesWhatItExpects ==
    ASSUME NEW s, IsSpec(s), IsResolved(Full(s)), HasPlainName(Full(s))
    PROVE  ExpectedFiles(Full(s)) = WrittenFiles(RunConfig(Full(s)))
<1> DEFINE full == Full(s)
           stem == FileStem(full)
           output == OutputName(full, stem)
           d == Document(full, stem)
<1>1. /\ d.output = output /\ d.run.writer = full.fields.writer
      /\ d.engine = Engine(s)
      /\ Engine(s) = "recom" => d.command = s.type
      /\ s.type \in Optimizers => d.scores = ScoresName(full, stem)
      /\ s.type = "smc" => d.run.tally_columns = full.fields.tally_columns
    BY DocumentsAre, Zenon
<1>2. full.type = s.type /\ s.type \in Types
    BY FieldsAre DEF Full
<1>3. RunConfig(full) = d
    BY DEF RunConfig
<1>4. ExpectedFiles(full) =
        CASE full.type = "smc" -> SMCExpected(full, output)
          [] full.type = "forest" -> ForestExpected(full, output)
          [] OTHER -> RecomExpected(full, output)
    BY DEF ExpectedFiles
<1>5. CASE s.type = "smc"
    <2>1. d.engine = "smc" /\ d.engine # "recom" /\ d.engine # "forest"
        BY <1>1, <1>5 DEF Engine
    <2>2. WrittenFiles(d) = SMCWritten(d)
        <3> HIDE DEF d
        <3>1. QED
            BY <2>1, Zenon DEF WrittenFiles
    <2>3. ExpectedFiles(full) = SMCExpected(full, output)
        <3> HIDE DEF full, output
        <3>1. full.type # "forest" /\ full.type = "smc"
            BY <1>2, <1>5
        <3>2. QED
            BY <1>4, <3>1, Zenon
    <2>4. output # << >> /\ output[Len(output)][1] # "odd"
        <3>1. ~Prints(full)
            BY <1>2, <1>5 DEF Prints
        <3>2. IsSequence(stem) /\ IsSequence(Stem(full))
            BY StemsAre
        <3>3. output # << >> /\ OutputName(full, Stem(full)) # << >>
            BY <3>1, <3>2, Outputs
        <3>4. CASE GivenName(full) = None
            BY <3>1, <3>2, <3>3, <3>4, Outputs
        <3>5. CASE GivenName(full) # None
            BY <3>1, <3>2, <3>3, <3>5, Outputs DEF HasPlainName
        <3>6. QED
            BY <3>3, <3>4, <3>5
    <2>5. SansExt(output) = PathStem(output)
        BY <2>4 DEF SansExt, PathStem
    <2> HIDE DEF d, output, full
    <2>6. SMCWritten(d) = SMCExpected(full, output)
        <3>1. CASE full.fields.writer = Text("csv")
            BY <1>1, <1>5, <2>4, <2>5, <3>1 DEF SMCWritten, SMCExpected, Sidecar
        <3>2. CASE full.fields.writer # Text("csv")
            BY <1>1, <1>5, <2>4, <2>5, <3>2 DEF SMCWritten, SMCExpected, Sidecar, Parsed
        <3>3. QED
            BY <3>1, <3>2
    <2>7. QED
        BY <1>3, <2>2, <2>3, <2>6 DEF full
<1>6. CASE s.type = "forest"
    <2>1. d.engine = "forest" /\ d.engine # "recom" /\ d.engine # "smc"
        BY <1>1, <1>6 DEF Engine
    <2>2. WrittenFiles(d) = ForestWritten(d)
        <3> HIDE DEF d
        <3>1. QED
            BY <2>1, Zenon DEF WrittenFiles
    <2>3. ExpectedFiles(full) = ForestExpected(full, output)
        <3> HIDE DEF full, output
        <3>1. full.type = "forest" /\ full.type # "smc"
            BY <1>2, <1>6
        <3>2. QED
            BY <1>4, <3>1, Zenon
    <2> HIDE DEF d, output, full
    <2>4. ForestWritten(d) = ForestExpected(full, output)
        BY <1>1 DEF ForestWritten, ForestExpected, Parsed
    <2>5. QED
        BY <1>3, <2>2, <2>3, <2>4 DEF full
<1>7. CASE s.type \in {"chain", "bursts", "tilted"}
    <2>1. d.engine = "recom" /\ d.engine # "forest" /\ d.engine # "smc"
        BY <1>1, <1>7 DEF Engine
    <2>2. WrittenFiles(d) = RecomWritten(d)
        <3> HIDE DEF d
        <3>1. QED
            BY <2>1, Zenon DEF WrittenFiles
    <2>3. ExpectedFiles(full) = RecomExpected(full, output)
        <3> HIDE DEF full, output
        <3>1. full.type # "forest" /\ full.type # "smc"
            BY <1>2, <1>7
        <3>2. QED
            BY <1>4, <3>1, Zenon
    <2>4. d.command = full.type
        BY <1>1, <1>2, <1>7 DEF Engine
    <2>5. full.type \in Optimizers => d.scores = ScoresName(full, FileStem(full))
        BY <1>1, <1>2
    <2> HIDE DEF d, output, full
    <2>6. RecomWritten(d) = RecomExpected(full, output)
        BY <1>1, <2>4, <2>5 DEF RecomWritten, RecomExpected, HasInlineProvenance
    <2>7. QED
        BY <1>3, <2>2, <2>3, <2>6 DEF full
<1>8. QED
    BY <1>2, <1>5, <1>6, <1>7 DEF Types

\* A spec that validate() accepts leads to a document with all the fields, a writer and
\* constraints that the command line knows.
LEMMA EngineTakesIt ==
    ASSUME NEW s, IsSpec(s), IsAccepted(s)
    PROVE  EngineTakes(RunConfig(Full(s)))
<1> DEFINE v == Values(s)
           full == Full(s)
           d == RunConfig(full)
<1>1. /\ full.type = s.type /\ full.fields = v
      /\ s.type \in Types
      /\ DOMAIN v = DOMAIN s.given \cup DOMAIN Defaults[s.type]
      /\ RequiredFields[s.type] \subseteq DOMAIN v
    BY FieldsAre DEF Full
<1>2. d = Document(full, FileStem(full))
    BY DEF RunConfig
<1>3. d.engine = Engine(s) /\ d.run.writer = v.writer
    BY <1>1, <1>2, DocumentsAre, Zenon
<1> HIDE DEF full, d, v
<1>4. CASE s.type = "forest"
    <2>1. full.type \notin Optimizers /\ full.type # "chain" /\ full.type # "smc"
        BY <1>1, <1>4 DEF Optimizers
    <2>2. d = ForestDocument(full, FileStem(full))
        BY <1>1, <1>2, <1>4, <2>1, Zenon DEF Document
    <2>3. /\ d.constraints = Items(v.constraints)
          /\ d.run = Without(v, {"constraints", "output_file_name", "force_print", "updaters"})
        BY <1>1, <2>2 DEF ForestDocument
    <2>4. ForestAccepts(v)
        BY <1>4 DEF IsAccepted, v
    <2>5. {"levels", "pop_col", "num_dists", "pop_dev", "gamma", "n_steps", "rng_seed"}
              \subseteq DOMAIN v
        BY <1>1, <1>4 DEF RequiredFields, Defaults, ForestDefaults
    <2>6. /\ {"levels", "pop_col", "num_dists", "pop_dev", "gamma", "n_steps", "rng_seed"}
                \subseteq DOMAIN d.run
          /\ d.run.levels = v.levels
        BY <2>3, <2>5 DEF Without
    <2>7. IsListOf(v.levels, IsString) /\ IsFilled(v.levels)
        BY <2>4 DEF ForestAccepts, IsTextList, IsListOf, IsText, IsString
    <2>8. IsOneOf(v.writer, {"raw", "jsonl", "ben"})
        BY <2>4 DEF ForestAccepts, IsOneOf
    <2>9. HasKinds(d.constraints, ForestKinds)
        BY <2>3, <2>4 DEF ForestAccepts, AreConstraintsOf, HasKinds, Supported, ForestKinds
    <2>10. ForestTakes(d)
        BY <1>3, <2>6, <2>7, <2>8, <2>9 DEF ForestTakes
    <2>11. QED
        BY <1>3, <1>4, <2>10 DEF EngineTakes, Engine, d, full
<1>5. CASE s.type = "smc"
    <2> DEFINE asked == {"pop_col", "n_dists", "pop_tol", "pop_bounds", "n_sims", "rng_seed",
                         "compactness", "resample", "adapt_k_thresh", "seq_alpha", "pop_temper",
                         "final_infl", "verbose", "silent", "tally_columns"}
    <2>1. full.type \notin Optimizers /\ full.type # "chain" /\ full.type # "forest"
        BY <1>1, <1>5 DEF Optimizers
    <2>2. d = SMCDocument(full, FileStem(full))
        BY <1>1, <1>2, <1>5, <2>1, Zenon DEF Document
    <2>3. /\ d.constraints = Items(v.constraints)
          /\ d.run = Without(v, {"constraints", "output_file_name"})
        BY <1>1, <2>2 DEF SMCDocument
    <2>4. SMCAccepts(v)
        BY <1>5 DEF IsAccepted, v
    <2>5. asked \subseteq DOMAIN v
        BY <1>1, <1>5 DEF RequiredFields, Defaults, SMCDefaults
    <2>6. asked \subseteq DOMAIN d.run
        BY <2>3, <2>5 DEF Without
    <2>7. IsOneOf(v.writer, {"csv", "jsonl", "ben"})
        BY <2>4 DEF SMCAccepts, IsOneOf
    <2>8. HasKinds(d.constraints, SMCKinds)
        BY <2>3, <2>4 DEF SMCAccepts, AreConstraintsOf, HasKinds, Supported, SMCKinds
    <2>9. SMCTakes(d)
        BY <1>3, <2>6, <2>7, <2>8 DEF SMCTakes
    <2>10. QED
        BY <1>3, <1>5, <2>9 DEF EngineTakes, Engine, d, full
<1>6. CASE s.type \notin {"forest", "smc"}
    BY <1>3, <1>6 DEF EngineTakes, Engine, d, full
<1>7. QED
    BY <1>4, <1>5, <1>6

-----------------------------------------------------------------------------
(* The printing run of mcmc_run_with_updaters *)

\* A printing run derived from a chain or forest spec has the fields of the spec but for the
\* writer, the printing and the order of the graph.
LEMMA StdoutValues ==
    ASSUME NEW s, IsSpec(s), s.type \in {"chain", "forest"}
    PROVE  LET c == CanonicalStdout(s) IN
           /\ c.type = s.type
           /\ Values(c)["force_print"] = Flag(TRUE)
           /\ s.type = "chain" => /\ Values(c)["writer"] = Text("canonical")
                                  /\ Values(c)["bendl_graph_order"] = Text("none")
           /\ s.type = "forest" => Values(c)["writer"] = Text("jsonl")
           /\ \A f \in DOMAIN Values(s) :
                 f \notin {"writer", "force_print", "bendl_graph_order"} =>
                    Values(c)[f] = Values(s)[f]
<1> DEFINE own == IF s.type = "chain"
                  THEN [writer |-> Text("canonical"), force_print |-> Flag(TRUE),
                        bendl_graph_order |-> Text("none")]
                  ELSE [writer |-> Text("jsonl"), force_print |-> Flag(TRUE)]
           c == CanonicalStdout(s)
<1>1. s = [type |-> s.type, given |-> s.given]
    BY DEF IsSpec
<1>2. c = [s EXCEPT !.given = Over(own, s.given)]
    BY DEF CanonicalStdout
<1>3. c.type = s.type /\ c.given = Over(own, s.given)
    <2> HIDE DEF own, c
    <2>1. QED
        BY <1>1, <1>2
<1>4. /\ DOMAIN own = IF s.type = "chain" THEN {"writer", "force_print", "bendl_graph_order"}
                      ELSE {"writer", "force_print"}
      /\ own["force_print"] = Flag(TRUE)
      /\ own["writer"] = IF s.type = "chain" THEN Text("canonical") ELSE Text("jsonl")
      /\ s.type = "chain" => own["bendl_graph_order"] = Text("none")
    OBVIOUS
<1> HIDE DEF own, c
<1>5. /\ \A f \in DOMAIN own : Values(c)[f] = own[f]
      /\ \A f \in DOMAIN Values(s) \ DOMAIN own : Values(c)[f] = Values(s)[f]
    BY <1>3 DEF Values, Over
<1>6. QED
    BY <1>3, <1>4, <1>5 DEF c

\* The fields that validate() looks at.
LEMMA FieldsOfChains ==
    {"pop_col", "assignment_col", "variant", "writer", "sum_cols", "edge_weight_keys",
     "region_weights", "n_steps", "n_threads", "pop_tol", "rng_seed", "show_progress",
     "balance_ub", "batch_size", "cut_edges_count", "force_print", "target_pop",
     "bendl_graph_order", "constraint"}
        \subseteq RequiredFields["chain"] \cup DOMAIN Defaults["chain"]
<1>1. Defaults["chain"] = ChainDefaults
    BY DEF Defaults
<1>2. QED
    BY <1>1 DEF RequiredFields, ChainDefaults, RecomDefaults, Over

LEMMA FieldsOfForests ==
    {"levels", "pop_col", "writer", "num_dists", "n_steps", "pop_dev", "gamma", "rng_seed",
     "force_print", "constraints"}
        \subseteq RequiredFields["forest"] \cup DOMAIN Defaults["forest"]
<1>1. Defaults["forest"] = ForestDefaults
    BY DEF Defaults
<1>2. QED
    BY <1>1 DEF RequiredFields, ForestDefaults

LEMMA StdoutIsAccepted ==
    ASSUME NEW s, IsSpec(s), s.type \in {"chain", "forest"}, IsAccepted(s)
    PROVE  IsAccepted(CanonicalStdout(s))
<1> DEFINE c == CanonicalStdout(s)
           v == Values(s)
           w == Values(c)
<1>1. /\ DOMAIN v = DOMAIN s.given \cup DOMAIN Defaults[s.type]
      /\ RequiredFields[s.type] \subseteq DOMAIN v
    BY FieldsAre
<1>2. /\ c.type = s.type
      /\ w["force_print"] = Flag(TRUE)
      /\ s.type = "chain" => /\ w["writer"] = Text("canonical")
                             /\ w["bendl_graph_order"] = Text("none")
      /\ s.type = "forest" => w["writer"] = Text("jsonl")
      /\ \A f \in DOMAIN v :
            f \notin {"writer", "force_print", "bendl_graph_order"} => w[f] = v[f]
    BY StdoutValues, Zenon
<1>3. CASE s.type = "chain"
    <2>1. ChainAccepts(v)
        BY <1>3 DEF IsAccepted
    <2> HIDE DEF v, w, c
    <2>2. {"pop_col", "assignment_col", "variant", "writer", "sum_cols", "edge_weight_keys",
     "region_weights", "n_steps", "n_threads", "pop_tol", "rng_seed", "show_progress",
     "balance_ub", "batch_size", "cut_edges_count", "force_print", "target_pop",
     "bendl_graph_order", "constraint"} \subseteq DOMAIN v
        BY <1>1, <1>3, FieldsOfChains
    <2>3. /\ w["pop_col"] = v["pop_col"] /\ w["assignment_col"] = v["assignment_col"]
          /\ w["variant"] = v["variant"] /\ w["sum_cols"] = v["sum_cols"]
          /\ w["edge_weight_keys"] = v["edge_weight_keys"]
          /\ w["region_weights"] = v["region_weights"]
          /\ w["n_steps"] = v["n_steps"] /\ w["n_threads"] = v["n_threads"]
          /\ w["pop_tol"] = v["pop_tol"] /\ w["rng_seed"] = v["rng_seed"]
          /\ w["show_progress"] = v["show_progress"]
          /\ w["balance_ub"] = v["balance_ub"] /\ w["batch_size"] = v["batch_size"]
          /\ w["cut_edges_count"] = v["cut_edges_count"] /\ w["target_pop"] = v["target_pop"]
          /\ w["constraint"] = v["constraint"]
        BY <1>2, <2>2
    <2>4. RecomAccepts(w, ChainVariants, {"A", "B", "AW", "BW"})
        <3>1. IsOneOf(w["writer"], Writers)
            BY <1>2, <1>3 DEF IsOneOf, Text, Writers
        <3>2. QED
            BY <2>1, <2>3, <3>1 DEF ChainAccepts, RecomAccepts
    <2>5. /\ IsFlag(w["force_print"]) /\ IsOrder(w["bendl_graph_order"])
          /\ w["bendl_graph_order"] = Text("none")
          /\ ForcesNoBinary(w)
        <3>1. IsFlag(w["force_print"])
            BY <1>2 DEF IsFlag, Flag
        <3>2. w["bendl_graph_order"] = Text("none") /\ IsOrder(w["bendl_graph_order"])
            <4>1. w["bendl_graph_order"] = Text("none")
                BY <1>2, <1>3
            <4>2. IsOneOf(Text("none"), {"none", "rcm", "mlc"})
                BY DEF IsOneOf, Text
            <4>3. QED
                BY <4>1, <4>2 DEF IsOrder
        <3>3. ~IsOneOf(w["writer"], BinaryWriters)
            BY <1>2, <1>3 DEF IsOneOf, Text, BinaryWriters
        <3>4. QED
            BY <3>1, <3>2, <3>3 DEF ForcesNoBinary
    <2>6. ChainAccepts(w)
        BY <2>1, <2>3, <2>4, <2>5 DEF ChainAccepts
    <2>7. QED
        BY <1>2, <1>3, <2>6 DEF IsAccepted, w, c
<1>4. CASE s.type = "forest"
    <2>1. ForestAccepts(v)
        BY <1>4 DEF IsAccepted
    <2> HIDE DEF v, w, c
    <2>2. {"levels", "pop_col", "writer", "num_dists", "n_steps", "pop_dev", "gamma", "rng_seed",
           "force_print", "constraints"} \subseteq DOMAIN v
        BY <1>1, <1>4, FieldsOfForests
    <2>3. /\ w["levels"] = v["levels"] /\ w["pop_col"] = v["pop_col"]
          /\ w["num_dists"] = v["num_dists"] /\ w["n_steps"] = v["n_steps"]
          /\ w["pop_dev"] = v["pop_dev"] /\ w["gamma"] = v["gamma"]
          /\ w["rng_seed"] = v["rng_seed"] /\ w["constraints"] = v["constraints"]
        BY <1>2, <2>2
    <2>4. /\ IsFlag(w["force_print"]) /\ IsOneOf(w["writer"], {"jsonl", "ben", "raw"})
          /\ ForcesNoBinary(w)
        <3>1. IsFlag(w["force_print"])
            BY <1>2 DEF IsFlag, Flag
        <3>2. IsOneOf(w["writer"], {"jsonl", "ben", "raw"})
            BY <1>2, <1>4 DEF IsOneOf, Text
        <3>3. ~IsOneOf(w["writer"], BinaryWriters)
            BY <1>2, <1>4 DEF IsOneOf, Text, BinaryWriters
        <3>4. QED
            BY <3>1, <3>2, <3>3 DEF ForcesNoBinary
    <2>5. ForestAccepts(w)
        BY <2>1, <2>3, <2>4 DEF ForestAccepts
    <2>6. QED
        BY <1>2, <1>4, <2>5 DEF IsAccepted, w, c
<1>5. QED
    BY <1>3, <1>4

\* It has no files.
LEMMA StdoutHasNoFiles ==
    ASSUME NEW s, IsSpec(s), s.type \in {"chain", "forest"}
    PROVE  LET full == Full(CanonicalStdout(s)) IN
           /\ ExpectedFiles(full) = {}
           /\ WrittenFiles(RunConfig(full)) = {}
<1> DEFINE c == CanonicalStdout(s)
           full == Full(c)
           d == Document(full, FileStem(full))
<1>1. /\ c.type = s.type
      /\ Values(c)["force_print"] = Flag(TRUE)
    BY StdoutValues, Zenon
<1>2. full.type = s.type /\ Prints(full)
    BY <1>1 DEF Full, Prints
<1> HIDE DEF c, full
<1>3. OutputName(full, FileStem(full)) = << >>
    BY <1>2 DEF OutputName
<1>4. CASE s.type = "chain"
    <2>1. /\ full.type = "chain" /\ full.type \notin Optimizers /\ full.type # "forest"
          /\ full.type # "smc"
        BY <1>2, <1>4 DEF Optimizers
    <2>2. d = ChainDocument(full, FileStem(full))
        BY <2>1, Zenon DEF Document
    <2>3. ExpectedFiles(full) = RecomExpected(full, << >>)
        BY <1>3, <2>1, Zenon DEF ExpectedFiles
    <2> HIDE DEF d
    <2>4. d.engine = "recom" /\ d.engine # "forest" /\ d.engine # "smc" /\ d.output = << >>
        BY <1>3, <2>2 DEF ChainDocument
    <2>5. WrittenFiles(d) = RecomWritten(d)
        BY <2>4, Zenon DEF WrittenFiles
    <2>6. RecomExpected(full, << >>) = {} /\ RecomWritten(d) = {}
        BY <2>4 DEF RecomExpected, RecomWritten
    <2>7. QED
        BY <2>3, <2>5, <2>6 DEF RunConfig, d, full, c
<1>5. CASE s.type = "forest"
    <2>1. /\ full.type = "forest" /\ full.type \notin Optimizers /\ full.type # "chain"
          /\ full.type # "smc"
        BY <1>2, <1>5 DEF Optimizers
    <2>2. d = ForestDocument(full, FileStem(full))
        BY <2>1, Zenon DEF Document
    <2>3. ExpectedFiles(full) = ForestExpected(full, << >>)
        BY <1>3, <2>1, Zenon DEF ExpectedFiles
    <2> HIDE DEF d
    <2>4. d.engine = "forest" /\ d.engine # "recom" /\ d.engine # "smc" /\ d.output = << >>
        BY <1>3, <2>2 DEF ForestDocument
    <2>5. WrittenFiles(d) = ForestWritten(d)
        BY <2>4, Zenon DEF WrittenFiles
    <2>6. ForestExpected(full, << >>) = {} /\ ForestWritten(d) = {}
        BY <2>4 DEF ForestExpected, ForestWritten, Parsed
    <2>7. QED
        BY <2>3, <2>5, <2>6 DEF RunConfig, d, full, c
<1>6. QED
    BY <1>4, <1>5

-----------------------------------------------------------------------------
(* What the caller does to a spec *)

LEMMA Edited ==
    ASSUME NEW s, IsSpec(s), NEW given,
           "output_file_name" \in DOMAIN given => IsFileName(given["output_file_name"]),
           NEW t, t = [s EXCEPT !.given = Over(given, @)]
    PROVE  /\ IsSpec(t) /\ t.type = s.type
           /\ \A f \in DOMAIN given : Values(t)[f] = given[f]
           /\ \A f \in DOMAIN Values(s) \ DOMAIN given : Values(t)[f] = Values(s)[f]
<1>1. s = [type |-> s.type, given |-> s.given]
    BY DEF IsSpec
<1>2. t = [type |-> s.type, given |-> Over(given, s.given)]
    BY <1>1
<1>3. t.type = s.type /\ t.given = Over(given, s.given)
    BY <1>2
<1>4. /\ \A f \in DOMAIN given : Values(t)[f] = given[f]
      /\ \A f \in DOMAIN Values(s) \ DOMAIN given : Values(t)[f] = Values(s)[f]
    BY <1>3 DEF Values, Over
<1>5. DOMAIN t.given = DOMAIN given \cup DOMAIN s.given
    BY <1>3 DEF Over
<1>6. "output_file_name" \in DOMAIN t.given => IsFileName(t.given["output_file_name"])
    BY <1>3, <1>5 DEF IsSpec, Over
<1>7. IsSpec(t)
    BY <1>2, <1>3, <1>5, <1>6 DEF IsSpec
<1>8. QED
    BY <1>3, <1>4, <1>7

LEMMA Revalidated ==
    ASSUME NEW s, IsSpec(s)
    PROVE  /\ IsSpec(Validated(s)) /\ Validated(s).type = s.type
           /\ \A f \in DOMAIN Values(s) \ {"variant"} : Values(Validated(s))[f] = Values(s)[f]
<1> DEFINE t == Validated(s)
           written == [s EXCEPT !.given["variant"] = Normalized(@)]
<1>1. t = s \/ ("variant" \in DOMAIN s.given /\ t = written)
    BY DEF Validated
<1>2. ASSUME "variant" \in DOMAIN s.given, t = written
      PROVE  /\ IsSpec(t) /\ t.type = s.type
             /\ \A f \in DOMAIN Values(s) \ {"variant"} : Values(t)[f] = Values(s)[f]
    <2> DEFINE given == [s.given EXCEPT !["variant"] = Normalized(@)]
    <2>1. s = [type |-> s.type, given |-> s.given]
        BY DEF IsSpec
    <2>2. t = [type |-> s.type, given |-> given]
        BY <1>2, <2>1
    <2> HIDE DEF t, written
    <2>3. t.type = s.type /\ t.given = given
        BY <2>2
    <2>4. /\ DOMAIN given = DOMAIN s.given
          /\ \A f \in DOMAIN s.given \ {"variant"} : given[f] = s.given[f]
        OBVIOUS
    <2> HIDE DEF given
    <2>5. \A f \in DOMAIN Values(s) \ {"variant"} : Values(t)[f] = Values(s)[f]
        BY <2>3, <2>4 DEF Values, Over
    <2>6. IsSpec(t)
        BY <2>2, <2>3, <2>4 DEF IsSpec
    <2>7. QED
        BY <2>3, <2>5, <2>6
<1>3. QED
    BY <1>1, <1>2

SpecInv == IsSpec(spec)

KeepsBuilder(s) ==
    LET kept == Values(s)[ConstraintFieldOf(s)] IN
    s.type \notin Optimizers /\ kept[1] = "builder" => IsSequence(kept[2])

BuiltInv == run = 0 /\ ~handmade => HasBuiltFields(spec) /\ KeepsBuilder(spec)

\* The field of the constraints, and that of the objective.
LEMMA BuiltFields ==
    ASSUME NEW s, IsSpec(s)
    PROVE  /\ s.type \notin Optimizers => ConstraintFieldOf(s) \in DOMAIN Values(s)
           /\ s.type \in Optimizers => "objective" \in DOMAIN Values(s)
           /\ ConstraintFieldOf(s) \in {"constraint", "constraints"}
<1>1. /\ s.type \in Types
      /\ DOMAIN Values(s) = DOMAIN s.given \cup DOMAIN Defaults[s.type]
      /\ RequiredFields[s.type] \subseteq DOMAIN Values(s)
    BY FieldsAre
<1>2. ConstraintFieldOf(s) \in {"constraint", "constraints"}
    BY DEF ConstraintFieldOf
<1>3. s.type \notin Optimizers => ConstraintFieldOf(s) \in DOMAIN Values(s)
    BY <1>1, DefaultsAre DEF ConstraintFieldOf, Engine, Types, Optimizers
<1>4. s.type \in Optimizers => "objective" \in DOMAIN Values(s)
    BY <1>1 DEF RequiredFields, Optimizers
<1>5. QED
    BY <1>2, <1>3, <1>4

LEMMA SameBuiltFields ==
    ASSUME NEW s, IsSpec(s), HasBuiltFields(s), KeepsBuilder(s), NEW t, t.type = s.type,
           s.type \notin Optimizers =>
              Values(t)[ConstraintFieldOf(s)] = Values(s)[ConstraintFieldOf(s)],
           s.type \in Optimizers => Values(t)["objective"] = Values(s)["objective"]
    PROVE  HasBuiltFields(t) /\ KeepsBuilder(t)
<1>1. ConstraintFieldOf(t) = ConstraintFieldOf(s)
    BY DEF ConstraintFieldOf, Engine
<1>2. HasBuiltFields(t)
    BY <1>1 DEF HasBuiltFields
<1>3. KeepsBuilder(t)
    BY <1>1 DEF KeepsBuilder
<1>4. QED
    BY <1>2, <1>3

LEMMA AssignKeeps ==
    ASSUME SpecInv, BuiltInv, run = 0, run' = run,
           NEW field, NEW value, AssignField(field, value),
           field = "output_file_name" => IsFileName(value)
    PROVE  SpecInv' /\ BuiltInv'
<1> DEFINE given == [f \in {field} |-> value]
<1>1. /\ spec' = [spec EXCEPT !.given = Over(given, @)]
      /\ handmade' = (handmade \/ field \in {ConstraintField, "objective"})
    BY DEF AssignField, Edit
<1>2. DOMAIN given = {field} /\ given[field] = value
    OBVIOUS
<1>3. IsSpec(spec)
    BY DEF SpecInv
<1> HIDE DEF given
<1>4. /\ IsSpec(spec') /\ spec'.type = spec.type
      /\ \A f \in DOMAIN Values(spec) \ DOMAIN given : Values(spec')[f] = Values(spec)[f]
    BY <1>1, <1>2, <1>3, Edited
<1>5. ASSUME ~handmade'
      PROVE  HasBuiltFields(spec') /\ KeepsBuilder(spec')
    <2>1. ~handmade /\ field # ConstraintFieldOf(spec) /\ field # "objective"
        BY <1>1, <1>5 DEF ConstraintField
    <2>2. HasBuiltFields(spec) /\ KeepsBuilder(spec)
        BY <2>1 DEF BuiltInv
    <2>3. QED
        BY <1>2, <1>3, <1>4, <2>1, <2>2, BuiltFields, SameBuiltFields
<1>6. QED
    BY <1>4, <1>5 DEF SpecInv, BuiltInv

\* A builder refuses what is no constraint, and keeps what it had.
LEMMA BuilderAdds ==
    ASSUME NEW builder, builder[1] = "builder", IsSequence(builder[2]), NEW constraint,
           \A i \in DOMAIN builder[2] : IsConstraint(builder[2][i])
    PROVE  LET added == Add(builder, constraint) IN
           /\ added[1] = "builder" /\ IsSequence(added[2])
           /\ \A i \in DOMAIN added[2] : IsConstraint(added[2][i])
<1>1. CASE ~IsConstraint(constraint)
    BY <1>1 DEF Add
<1>2. CASE IsConstraint(constraint)
    <2> DEFINE more == Append(builder[2], constraint)
    <2>1. Add(builder, constraint) = <<"builder", more>>
        BY <1>2 DEF Add
    <2>2. /\ IsSequence(more) /\ Len(more) = Len(builder[2]) + 1
          /\ more[Len(builder[2]) + 1] = constraint
          /\ \A i \in 1 .. Len(builder[2]) : more[i] = builder[2][i]
        BY Extended
    <2> HIDE DEF more
    <2>3. DOMAIN builder[2] = 1 .. Len(builder[2]) /\ Len(builder[2]) \in Nat
          /\ DOMAIN more = 1 .. Len(more)
        BY <2>2 DEF IsSequence
    <2>4. \A i \in DOMAIN more : IsConstraint(more[i])
        BY <1>2, <2>2, <2>3
    <2>5. QED
        BY <2>1, <2>2, <2>4
<1>3. QED
    BY <1>1, <1>2

LEMMA AddKeeps ==
    ASSUME SpecInv, BuiltInv, run = 0, run' = run, NEW constraint, AddConstraint(constraint)
    PROVE  SpecInv' /\ BuiltInv'
<1> DEFINE kept == Values(spec)[ConstraintField]
           builder == IF kept[1] = "builder" THEN kept ELSE <<"builder", << >>>>
           added == Add(builder, constraint)
           given == [f \in {ConstraintField} |-> added]
<1>1. /\ spec' = [spec EXCEPT !.given = Over(given, @)]
      /\ handmade' = (handmade \/ FALSE)
      /\ spec.type \notin Optimizers
    BY DEF AddConstraint, TakesConstraints, Edit
<1>2. IsSpec(spec) /\ ConstraintField = ConstraintFieldOf(spec)
    BY DEF SpecInv, ConstraintField
<1>3. ConstraintField \in {"constraint", "constraints"}
    BY <1>2, BuiltFields
<1>4. DOMAIN given = {ConstraintField} /\ given[ConstraintField] = added
    OBVIOUS
<1> HIDE DEF given, added
<1>5. /\ IsSpec(spec') /\ spec'.type = spec.type
      /\ Values(spec')[ConstraintField] = added
    BY <1>1, <1>2, <1>3, <1>4, Edited
<1>6. ASSUME ~handmade'
      PROVE  HasBuiltFields(spec') /\ KeepsBuilder(spec')
    <2>1. HasBuiltFields(spec) /\ KeepsBuilder(spec)
        BY <1>1, <1>6 DEF BuiltInv
    <2>2. /\ builder[1] = "builder" /\ IsSequence(builder[2])
          /\ \A i \in DOMAIN builder[2] : IsConstraint(builder[2][i])
        <3>1. CASE kept[1] = "builder"
            <4>1. builder = kept /\ Items(kept) = kept[2]
                BY <3>1 DEF Items
            <4>2. QED
                BY <1>1, <1>2, <2>1, <3>1, <4>1 DEF HasBuiltFields, KeepsBuilder
        <3>2. CASE kept[1] # "builder"
            BY <3>2 DEF IsSequence
        <3>3. QED
            BY <3>1, <3>2
    <2> HIDE DEF builder
    <2>3. /\ added[1] = "builder" /\ IsSequence(added[2])
          /\ \A i \in DOMAIN added[2] : IsConstraint(added[2][i])
        BY <2>2, BuilderAdds DEF added
    <2>4. ConstraintFieldOf(spec') = ConstraintField
        BY <1>2, <1>5 DEF ConstraintFieldOf, Engine
    <2>5. QED
        BY <1>1, <1>5, <2>3, <2>4 DEF HasBuiltFields, KeepsBuilder, Items
<1>7. QED
    BY <1>5, <1>6 DEF SpecInv, BuiltInv

\* A builder of objectives returns what validation accepts.
LEMMA BuildersReturnObjectives ==
    ASSUME NEW goal, goal \in DOMAIN RequiredKeys, NEW arguments,
           RequiredKeys[goal] \subseteq DOMAIN Provided(arguments),
           DOMAIN Provided(arguments) \subseteq RequiredKeys[goal] \cup OptionalKeys(goal),
           IsBuilt(goal, arguments)
    PROVE  IsObjective(Dict(Written(goal, arguments)))
<1> DEFINE provided == Provided(arguments)
           given == Written(goal, arguments)
<1>1. "objective" \notin DOMAIN provided
    BY DEF RequiredKeys, OptionalKeys
<1>2. /\ DOMAIN given = DOMAIN provided \cup {"objective"}
      /\ given["objective"] = Text(goal)
      /\ \A key \in DOMAIN provided : given[key] = arguments[key]
    BY <1>1 DEF Written
<1>3. provided = [key \in DOMAIN provided |-> arguments[key]]
    BY DEF Provided
<1> HIDE DEF provided, given
<1>4. [key \in DOMAIN given \ {"objective"} |-> given[key]] = provided
    BY <1>1, <1>2, <1>3
<1>5. Builds(goal, provided)
    BY DEF IsBuilt, provided
<1>6. Dict(given)[1] = "dict" /\ Dict(given)[2] = given
    BY DEF Dict
<1>7. Text(goal)[1] = "text" /\ Text(goal)[2] = goal
    BY DEF Text
<1>8. IsObjective(Dict(given))
    <2>1. /\ RequiredKeys[goal] \subseteq DOMAIN given
          /\ DOMAIN given \subseteq RequiredKeys[goal] \cup OptionalKeys(goal) \cup {"objective"}
        BY <1>2 DEF provided
    <2>2. Builds(goal, [key \in DOMAIN given \ {"objective"} |-> given[key]])
        BY <1>4, <1>5
    <2>3. QED
        BY <1>2, <1>6, <1>7, <2>1, <2>2, Zenon DEF IsObjective
<1>9. QED
    BY <1>8 DEF given

LEMMA BuildKeeps ==
    ASSUME SpecInv, BuiltInv, run = 0, run' = run,
           NEW target \in Targets, BuildObjective(target[1], target[2])
    PROVE  SpecInv' /\ BuiltInv'
<1> DEFINE objective == Dict(Written(target[1], target[2]))
           given == [objective |-> objective]
<1>1. /\ spec' = [spec EXCEPT !.given = Over(given, @)]
      /\ handmade' = (handmade \/ FALSE)
      /\ spec.type \in Optimizers /\ IsBuilt(target[1], target[2])
    BY DEF BuildObjective, Edit
<1>2. IsSpec(spec)
    BY DEF SpecInv
<1>3. IsObjective(objective)
    BY <1>1, SpecAssumption, BuildersReturnObjectives
<1>4. DOMAIN given = {"objective"} /\ given["objective"] = objective
    OBVIOUS
<1> HIDE DEF given, objective
<1>5. /\ IsSpec(spec') /\ spec'.type = spec.type
      /\ Values(spec')["objective"] = objective
    BY <1>1, <1>2, <1>4, Edited
<1>6. HasBuiltFields(spec') /\ KeepsBuilder(spec')
    BY <1>1, <1>3, <1>5 DEF HasBuiltFields, KeepsBuilder
<1>7. QED
    BY <1>5, <1>6 DEF SpecInv, BuiltInv

LEMMA RefuseKeeps ==
    ASSUME SpecInv, BuiltInv, Refuse
    PROVE  SpecInv' /\ BuiltInv'
<1>1. spec' = Validated(spec) /\ handmade' = handmade /\ run' = run
    BY DEF Refuse, recoveryVars
<1>2. IsSpec(spec)
    BY DEF SpecInv
<1>3. /\ IsSpec(spec') /\ spec'.type = spec.type
      /\ \A f \in DOMAIN Values(spec) \ {"variant"} : Values(spec')[f] = Values(spec)[f]
    BY <1>1, <1>2, Revalidated
<1>4. ASSUME HasBuiltFields(spec), KeepsBuilder(spec)
      PROVE  HasBuiltFields(spec') /\ KeepsBuilder(spec')
    BY <1>2, <1>3, <1>4, BuiltFields, SameBuiltFields
<1>5. QED
    BY <1>1, <1>3, <1>4 DEF SpecInv, BuiltInv

-----------------------------------------------------------------------------
(* What a file name tells *)

Begins(f, p) == Len(f) >= Len(p) /\ \A i \in 1 .. Len(p) : f[i] = p[i]

LEMMA SidecarsBegin ==
    ASSUME NEW output, IsSequence(output), output[Len(output)][1] = "ext",
           NEW p, IsSequence(p), Len(output) > Len(p), Begins(output, p),
           NEW part, NEW extension
    PROVE  Begins(Sidecar(output, part, extension), p)
<1> DEFINE front == SubSeq(output, 1, Len(output) - 1)
           S == {output[i] : i \in 1 .. Len(output)}
           end == <<Text(part), Ext(extension)>>
<1>1. Len(output) \in Nat /\ Len(p) \in Nat /\ output \in Seq(S)
    BY DEF IsSequence
<1>2. front \in Seq(S) /\ Len(front) = Len(output) - 1
      /\ \A i \in 1 .. Len(output) - 1 : front[i] = output[i]
    <2> DEFINE n == Len(output) - 1
    <2> HIDE DEF S
    <2>1. n \in Nat /\ n < Len(output)
        BY <1>1
    <2> HIDE DEF n
    <2>2. SubSeq(output, 1, n) \in Seq(S) /\ Len(SubSeq(output, 1, n)) = n
        BY <1>1, <2>1
    <2>3. \A i \in 1 .. n : SubSeq(output, 1, n)[i] = output[i]
        BY <1>1, <2>1
    <2>4. QED
        BY <2>2, <2>3 DEF n
<1>3. Sidecar(output, part, extension) = front \o end
    BY DEF Sidecar, PathStem
<1>4. IsSequence(front)
    <2> HIDE DEF S, front
    <2>1. QED
        BY <1>2, Sequences
<1> HIDE DEF front
<1>5. IsSequence(end) /\ Len(end) = 2
    BY Two
<1> HIDE DEF end
<1>6. /\ Len(front \o end) = Len(front) + 2
      /\ \A i \in 1 .. Len(front) : (front \o end)[i] = front[i]
    <2>1. /\ Len(front \o end) = Len(front) + Len(end)
          /\ \A i \in 1 .. Len(front) : (front \o end)[i] = front[i]
        BY <1>4, <1>5, Joined
    <2>2. QED
        BY <1>5, <2>1
<1>7. Len(front) >= Len(p) /\ Len(front) \in Nat
    BY <1>1, <1>2
<1>8. \A i \in 1 .. Len(p) : (front \o end)[i] = p[i]
    BY <1>1, <1>2, <1>6, <1>7 DEF Begins
<1>9. Len(front \o end) >= Len(p)
    BY <1>1, <1>6, <1>7
<1>10. QED
    BY <1>3, <1>8, <1>9 DEF Begins

\* A file of a run whose name the caller has not chosen begins with the file stem.
LEMMA FilesBegin ==
    ASSUME NEW s, IsSpec(s), IsResolved(Full(s)), GivenName(Full(s)) = None,
           NEW f, f \in ExpectedFiles(Full(s))
    PROVE  ~Prints(Full(s)) /\ Begins(f, FileStem(Full(s)))
<1> DEFINE full == Full(s)
           stem == FileStem(full)
           output == OutputName(full, stem)
<1>1. full.type = s.type /\ s.type \in Types
    BY FieldsAre DEF Full
<1>2. \/ f \in SMCExpected(full, output) /\ full.type = "smc"
      \/ f \in ForestExpected(full, output)
      \/ f \in RecomExpected(full, output)
    <2>1. ExpectedFiles(full) =
            CASE full.type = "smc" -> SMCExpected(full, output)
              [] full.type = "forest" -> ForestExpected(full, output)
              [] OTHER -> RecomExpected(full, output)
        BY DEF ExpectedFiles
    <2>2. \/ full.type = "smc" /\ full.type # "forest"
          \/ full.type # "smc" /\ full.type = "forest"
          \/ full.type # "smc" /\ full.type # "forest"
        OBVIOUS
    <2>3. f \in ExpectedFiles(full)
        OBVIOUS
    <2> HIDE DEF full, output
    <2>4. CASE full.type = "smc" /\ full.type # "forest"
        BY <2>1, <2>3, <2>4, Zenon
    <2>5. CASE full.type # "smc" /\ full.type = "forest"
        BY <2>1, <2>3, <2>5, Zenon
    <2>6. CASE full.type # "smc" /\ full.type # "forest"
        BY <2>1, <2>3, <2>6, Zenon
    <2>7. QED
        BY <2>2, <2>4, <2>5, <2>6
<1>3. ~Prints(full)
    <2>1. CASE full.type = "smc"
        BY <2>1 DEF Prints
    <2>2. CASE f \in ForestExpected(full, output)
        BY <2>2 DEF ForestExpected, OutputName
    <2>3. CASE f \in RecomExpected(full, output)
        BY <2>3 DEF RecomExpected, OutputName
    <2>4. QED
        BY <1>2, <2>1, <2>2, <2>3
<1>4. IsSequence(stem)
    BY StemsAre
<1>5. /\ IsSequence(output) /\ Len(output) > Len(stem)
      /\ \A i \in 1 .. Len(stem) : output[i] = stem[i]
      /\ output[Len(output)][1] = "ext"
    BY <1>3, <1>4, Outputs
<1> HIDE DEF full, stem, output
<1>6. Begins(output, stem)
    BY <1>4, <1>5 DEF Begins, IsSequence
<1>7. \A part, extension : Begins(Sidecar(output, part, extension), stem)
    BY <1>4, <1>5, <1>6, SidecarsBegin
<1>8. f = output \/ \E part, extension : f = Sidecar(output, part, extension)
    <2>1. CASE f \in SMCExpected(full, output)
        BY <2>1 DEF SMCExpected
    <2>2. CASE f \in ForestExpected(full, output)
        BY <2>2 DEF ForestExpected
    <2>3. CASE f \in RecomExpected(full, output)
        BY <2>3 DEF RecomExpected, ScoresName, output, stem
    <2>4. QED
        BY <1>2, <2>1, <2>2, <2>3
<1>9. QED
    BY <1>3, <1>6, <1>7, <1>8 DEF full, stem

\* No field in a stem is a digest.
LEMMA StemsHaveNoDigest ==
    ASSUME NEW s, IsSpec(s), IsAccepted(s)
    PROVE  \A i \in 1 .. Len(Stem(Full(s))) : Stem(Full(s))[i][1] # "digest"
<1> DEFINE v == Values(s)
           full == Full(s)
<1>1. full.type = s.type /\ full.fields = v /\ s.type \in Types
    BY FieldsAre DEF Full
<1>2. Text("Recom")[1] # "digest" /\ Text("SB")[1] # "digest" /\ Text("Tilted")[1] # "digest"
      /\ Text("Forest")[1] # "digest" /\ Text("SMC")[1] # "digest"
    BY DEF Text
<1> HIDE DEF v, full
<1>3. ASSUME NEW variants, NEW weighted, RecomAccepts(v, variants, weighted)
      PROVE  /\ v.variant[1] # "digest" /\ v.assignment_col[1] # "digest"
             /\ v.rng_seed[1] # "digest" /\ v.n_steps[1] # "digest"
    <2>1. v.variant[1] # "digest"
        <3>1. Normalized(v.variant)[1] = "text"
            BY <1>3 DEF RecomAccepts, IsOneOf
        <3>2. QED
            BY <3>1 DEF Normalized, IsOneOf
    <2>2. v.assignment_col[1] # "digest"
        BY <1>3 DEF RecomAccepts, IsText
    <2>3. v.rng_seed[1] # "digest" /\ v.n_steps[1] # "digest"
        BY <1>3 DEF RecomAccepts, IsSeed, IsInteger, IsPositiveInteger
    <2>4. QED
        BY <2>1, <2>2, <2>3
<1>4. CASE s.type = "chain"
    <2>1. RecomAccepts(v, ChainVariants, {"A", "B", "AW", "BW"})
        BY <1>4 DEF IsAccepted, ChainAccepts, v
    <2>2. Stem(full) = <<Text("Recom"), v.variant, v.assignment_col, v.rng_seed, v.n_steps>>
        BY <1>1, <1>4 DEF Stem
    <2>3. QED
        BY <1>2, <1>3, <2>1, <2>2 DEF full
<1>5. CASE s.type = "bursts"
    <2>1. RecomAccepts(v, OptimizerVariants, {"A", "B"}) /\ IsBurst(v)
        BY <1>5 DEF IsAccepted, OptimizerAccepts, v
    <2>2. Stem(full) = <<Text("SB"), v.variant, v.assignment_col, v.rng_seed, v.n_steps,
                         v.burst_length>>
        BY <1>1, <1>5 DEF Stem
    <2>3. v.burst_length[1] # "digest"
        BY <2>1 DEF IsBurst, IsPositiveInteger, IsInteger
    <2>4. QED
        BY <1>2, <1>3, <2>1, <2>2, <2>3 DEF full
<1>6. CASE s.type = "tilted"
    <2>1. RecomAccepts(v, OptimizerVariants, {"A", "B"}) /\ IsTilt(v)
        BY <1>6 DEF IsAccepted, OptimizerAccepts, v
    <2>2. Stem(full) = <<Text("Tilted"), v.variant, v.accept_rule, v.assignment_col, v.rng_seed,
                         v.n_steps>>
        BY <1>1, <1>6 DEF Stem
    <2>3. v.accept_rule[1] # "digest"
        BY <2>1 DEF IsTilt, IsOneOf
    <2>4. QED
        BY <1>2, <1>3, <2>1, <2>2, <2>3 DEF full
<1>7. CASE s.type = "forest"
    <2>1. ForestAccepts(v)
        BY <1>7 DEF IsAccepted, v
    <2>2. Stem(full) = <<Text("Forest"), v.rng_seed, v.gamma, v.n_steps>>
        BY <1>1, <1>7 DEF Stem
    <2>3. v.rng_seed[1] # "digest" /\ v.gamma[1] # "digest" /\ v.n_steps[1] # "digest"
        BY <2>1 DEF ForestAccepts, IsSeed, IsInteger, IsFinite, IsPositiveInteger
    <2>4. QED
        BY <1>2, <2>2, <2>3 DEF full
<1>8. CASE s.type = "smc"
    <2>1. SMCAccepts(v)
        BY <1>8 DEF IsAccepted, v
    <2>2. Stem(full) = <<Text("SMC"), v.rng_seed, v.n_sims>>
        BY <1>1, <1>8 DEF Stem
    <2>3. v.rng_seed[1] # "digest" /\ v.n_sims[1] # "digest"
        BY <2>1 DEF SMCAccepts, IsSeed, IsInteger, IsPositiveInteger
    <2>4. QED
        BY <1>2, <2>2, <2>3 DEF full
<1>9. QED
    BY <1>1, <1>4, <1>5, <1>6, <1>7, <1>8 DEF Types

\* A name that begins with two file stems begins with one.
LEMMA StemsAreTold ==
    ASSUME NEW p, IsSequence(p), NEW q, IsSequence(q),
           \A i \in 1 .. Len(p) : p[i][1] # "digest",
           \A i \in 1 .. Len(q) : q[i][1] # "digest",
           NEW x, x[1] = "digest", NEW y, y[1] = "digest",
           NEW f, Begins(f, Append(p, x)), Begins(f, Append(q, y))
    PROVE  p = q /\ x = y
<1>1. Len(p) \in Nat /\ Len(q) \in Nat
    BY DEF IsSequence
<1>2. /\ f[Len(p) + 1] = x /\ f[Len(q) + 1] = y
      /\ \A i \in 1 .. Len(p) : f[i] = p[i]
      /\ \A i \in 1 .. Len(q) : f[i] = q[i]
    BY <1>1, Extended DEF Begins
<1>3. Len(p) = Len(q)
    <2>1. CASE Len(p) < Len(q)
        <3>1. Len(p) + 1 \in 1 .. Len(q)
            BY <1>1, <2>1
        <3>2. QED
            BY <1>2, <3>1
    <2>2. CASE Len(q) < Len(p)
        <3>1. Len(q) + 1 \in 1 .. Len(p)
            BY <1>1, <2>2
        <3>2. QED
            BY <1>2, <3>1
    <2>3. QED
        BY <1>1, <2>1, <2>2
<1>4. p = q
    <2>1. \A i \in 1 .. Len(p) : p[i] = q[i]
        BY <1>2, <1>3
    <2>2. /\ p = [i \in 1 .. Len(p) |-> p[i]]
          /\ q = [i \in 1 .. Len(p) |-> q[i]]
        BY <1>3 DEF IsSequence
    <2>3. QED
        BY <2>1, <2>2
<1>5. QED
    BY <1>2, <1>4

\* The hash of a document that is told apart from the others.
LEMMA DigestsAreTold ==
    ASSUME NEW d, \E i \in DOMAIN Documents : Documents[i] = d,
           NEW e, \E i \in DOMAIN Documents : Documents[i] = e,
           Digest(d) = Digest(e)
    PROVE  d = e
<1> DEFINE PlacesOf(x) == {i \in DOMAIN Documents : Documents[i] = x}
<1>1. ASSUME NEW x, \E i \in DOMAIN Documents : Documents[i] = x
      PROVE  Documents[Digest(x)] = x
    <2>1. PlacesOf(x) # {}
        BY <1>1
    <2>2. Digest(x) = CHOOSE i \in PlacesOf(x) : TRUE
        BY <2>1 DEF Digest
    <2>3. Digest(x) \in PlacesOf(x)
        BY <2>1, <2>2
    <2>4. QED
        BY <2>3
<1>2. QED
    BY <1>1

\* Documents that are the same with one stem are the same with any other.
LEMMA SameDocuments ==
    ASSUME NEW s, IsSpec(s), ~Prints(Full(s)), GivenName(Full(s)) = None,
           NEW t, IsSpec(t), ~Prints(Full(t)), GivenName(Full(t)) = None,
           NEW stem, Document(Full(s), stem) = Document(Full(t), stem), NEW other
    PROVE  Document(Full(s), other) = Document(Full(t), other)
<1> DEFINE a == Full(s)
           b == Full(t)
           d == Document(a, stem)
           e == Document(b, stem)
<1>1. /\ a.type = s.type /\ b.type = t.type /\ s.type \in Types /\ t.type \in Types
    BY FieldsAre DEF Full
<1>2. /\ d.engine = Engine(s) /\ e.engine = Engine(t)
      /\ Engine(s) = "recom" => d.command = s.type
      /\ Engine(t) = "recom" => e.command = t.type
      /\ d.run.writer = a.fields.writer /\ e.run.writer = b.fields.writer
    BY DocumentsAre, Zenon
<1>3. d = e
    OBVIOUS
<1>4. Engine(s) = Engine(t) /\ a.fields.writer = b.fields.writer
    BY <1>2, <1>3
<1>5. s.type = t.type
    <2>1. CASE Engine(s) = "recom"
        BY <1>2, <1>3, <1>4, <2>1
    <2>2. CASE Engine(s) # "recom"
        BY <1>1, <1>4, <2>2 DEF Engine, Types
    <2>3. QED
        BY <2>1, <2>2
<1>6. OutputName(a, other) = OutputName(b, other)
    BY <1>4 DEF OutputName
<1>7. ScoresName(a, other) = ScoresName(b, other)
    BY <1>6 DEF ScoresName
<1> HIDE DEF a, b, d, e
<1>8. CASE s.type = "chain"
    <2>1. \A x \in {stem, other} : Document(a, x) = ChainDocument(a, x)
        <3>1. a.type = "chain" /\ a.type \notin Optimizers /\ a.type # "forest" /\ a.type # "smc"
            BY <1>1, <1>8 DEF Optimizers
        <3>2. QED
            BY <3>1, Zenon DEF Document
    <2>2. \A x \in {stem, other} : Document(b, x) = ChainDocument(b, x)
        <3>1. b.type = "chain" /\ b.type \notin Optimizers /\ b.type # "forest" /\ b.type # "smc"
            BY <1>1, <1>5, <1>8 DEF Optimizers
        <3>2. QED
            BY <3>1, Zenon DEF Document
    <2>3. d = ChainDocument(a, stem) /\ e = ChainDocument(b, stem)
        BY <2>1, <2>2 DEF d, e
    <2>4. d.run = e.run /\ d.constraint = e.constraint
        BY <1>3
    <2>5. /\ d.run = Without(a.fields, {"constraint", "force_print", "updaters"})
          /\ e.run = Without(b.fields, {"constraint", "force_print", "updaters"})
          /\ d.constraint = Items(a.fields.constraint)
          /\ e.constraint = Items(b.fields.constraint)
        BY <2>3 DEF ChainDocument
    <2>6. ChainDocument(a, other) = ChainDocument(b, other)
        BY <1>6, <2>4, <2>5, Zenon DEF ChainDocument
    <2>7. QED
        BY <2>1, <2>2, <2>6 DEF a, b
<1>9. CASE s.type \in Optimizers
    <2>1. \A x \in {stem, other} : Document(a, x) = OptimizerDocument(a, x)
        <3>1. a.type \in Optimizers /\ a.type # "chain" /\ a.type # "forest" /\ a.type # "smc"
            BY <1>1, <1>9 DEF Optimizers
        <3>2. QED
            BY <3>1, Zenon DEF Document
    <2>2. \A x \in {stem, other} : Document(b, x) = OptimizerDocument(b, x)
        <3>1. b.type \in Optimizers /\ b.type # "chain" /\ b.type # "forest" /\ b.type # "smc"
            BY <1>1, <1>5, <1>9 DEF Optimizers
        <3>2. QED
            BY <3>1, Zenon DEF Document
    <2>3. d = OptimizerDocument(a, stem) /\ e = OptimizerDocument(b, stem)
        BY <2>1, <2>2 DEF d, e
    <2>4. d.run = e.run
        BY <1>3
    <2>5. /\ d.run = Without(a.fields, {"output_file_name"})
          /\ e.run = Without(b.fields, {"output_file_name"})
        BY <2>3 DEF OptimizerDocument
    <2>6. a.type = b.type
        BY <1>1, <1>5
    <2>7. OptimizerDocument(a, other) = OptimizerDocument(b, other)
        BY <1>6, <1>7, <2>4, <2>5, <2>6, Zenon DEF OptimizerDocument
    <2>8. QED
        BY <2>1, <2>2, <2>7 DEF a, b
<1>10. CASE s.type = "forest"
    <2>1. \A x \in {stem, other} : Document(a, x) = ForestDocument(a, x)
        <3>1. a.type = "forest" /\ a.type \notin Optimizers /\ a.type # "chain" /\ a.type # "smc"
            BY <1>1, <1>10 DEF Optimizers
        <3>2. QED
            BY <3>1, Zenon DEF Document
    <2>2. \A x \in {stem, other} : Document(b, x) = ForestDocument(b, x)
        <3>1. b.type = "forest" /\ b.type \notin Optimizers /\ b.type # "chain" /\ b.type # "smc"
            BY <1>1, <1>5, <1>10 DEF Optimizers
        <3>2. QED
            BY <3>1, Zenon DEF Document
    <2>3. d = ForestDocument(a, stem) /\ e = ForestDocument(b, stem)
        BY <2>1, <2>2 DEF d, e
    <2>4. d.run = e.run /\ d.constraints = e.constraints
        BY <1>3
    <2>5. /\ d.run = Without(a.fields, {"constraints", "output_file_name", "force_print", "updaters"})
          /\ e.run = Without(b.fields, {"constraints", "output_file_name", "force_print", "updaters"})
          /\ d.constraints = Items(a.fields.constraints)
          /\ e.constraints = Items(b.fields.constraints)
        BY <2>3 DEF ForestDocument
    <2>6. ForestDocument(a, other) = ForestDocument(b, other)
        BY <1>6, <2>4, <2>5, Zenon DEF ForestDocument
    <2>7. QED
        BY <2>1, <2>2, <2>6 DEF a, b
<1>11. CASE s.type = "smc"
    <2>1. \A x \in {stem, other} : Document(a, x) = SMCDocument(a, x)
        <3>1. a.type = "smc" /\ a.type \notin Optimizers /\ a.type # "chain" /\ a.type # "forest"
            BY <1>1, <1>11 DEF Optimizers
        <3>2. QED
            BY <3>1, Zenon DEF Document
    <2>2. \A x \in {stem, other} : Document(b, x) = SMCDocument(b, x)
        <3>1. b.type = "smc" /\ b.type \notin Optimizers /\ b.type # "chain" /\ b.type # "forest"
            BY <1>1, <1>5, <1>11 DEF Optimizers
        <3>2. QED
            BY <3>1, Zenon DEF Document
    <2>3. d = SMCDocument(a, stem) /\ e = SMCDocument(b, stem)
        BY <2>1, <2>2 DEF d, e
    <2>4. d.run = e.run /\ d.constraints = e.constraints
        BY <1>3
    <2>5. /\ d.run = Without(a.fields, {"constraints", "output_file_name"})
          /\ e.run = Without(b.fields, {"constraints", "output_file_name"})
          /\ d.constraints = Items(a.fields.constraints)
          /\ e.constraints = Items(b.fields.constraints)
        BY <2>3 DEF SMCDocument
    <2>6. SMCDocument(a, other) = SMCDocument(b, other)
        BY <1>6, <2>4, <2>5, Zenon DEF SMCDocument
    <2>7. QED
        BY <2>1, <2>2, <2>6 DEF a, b
<1>12. QED
    BY <1>1, <1>8, <1>9, <1>10, <1>11 DEF Types, Optimizers

\* Two runs with names of their own that write the same file ran the same document.
LEMMA NamesTellDocuments ==
    ASSUME NEW s \in Followed, GivenName(Full(s)) = None,
           NEW t \in Followed, GivenName(Full(t)) = None,
           NEW f, f \in WrittenFiles(RunConfig(Full(s))), f \in WrittenFiles(RunConfig(Full(t)))
    PROVE  RunConfig(Full(s)) = RunConfig(Full(t))
<1> DEFINE a == Full(s)
           b == Full(t)
<1>1. /\ IsSpec(s) /\ IsAccepted(s) /\ IsResolved(a) /\ HasPlainName(a)
      /\ IsSpec(t) /\ IsAccepted(t) /\ IsResolved(b) /\ HasPlainName(b)
      /\ \E i \in DOMAIN Documents : Documents[i] = Hashed(a)
      /\ \E i \in DOMAIN Documents : Documents[i] = Hashed(b)
    BY FollowedAssumption
<1>2. f \in ExpectedFiles(a) /\ f \in ExpectedFiles(b)
    BY <1>1, WritesWhatItExpects
<1>3. /\ ~Prints(a) /\ Begins(f, FileStem(a))
      /\ ~Prints(b) /\ Begins(f, FileStem(b))
    BY <1>1, <1>2, FilesBegin
<1>4. /\ \A i \in 1 .. Len(Stem(a)) : Stem(a)[i][1] # "digest"
      /\ \A i \in 1 .. Len(Stem(b)) : Stem(b)[i][1] # "digest"
    BY <1>1, StemsHaveNoDigest
<1>5. IsSequence(Stem(a)) /\ IsSequence(Stem(b))
    BY StemsAre
<1>6. GivenName(a) = None /\ GivenName(b) = None
    OBVIOUS
<1> DEFINE x == <<"digest", Digest(Hashed(a))>>
           y == <<"digest", Digest(Hashed(b))>>
<1>7. FileStem(a) = Append(Stem(a), x) /\ FileStem(b) = Append(Stem(b), y)
    BY DEF FileStem
<1>8. /\ x[1] = "digest" /\ x[2] = Digest(Hashed(a))
      /\ y[1] = "digest" /\ y[2] = Digest(Hashed(b))
    OBVIOUS
<1> HIDE DEF x, y
<1>9. Stem(a) = Stem(b) /\ x = y
    BY <1>3, <1>4, <1>5, <1>7, <1>8, StemsAreTold
<1>10. Hashed(a) = Hashed(b)
    BY <1>1, <1>8, <1>9, DigestsAreTold
<1>11. Document(a, Stem(a)) = Document(b, Stem(a))
    BY <1>9, <1>10 DEF Hashed
<1>12. Document(a, FileStem(a)) = Document(b, FileStem(a))
    BY <1>1, <1>3, <1>6, <1>11, SameDocuments
<1>13. FileStem(a) = FileStem(b)
    BY <1>7, <1>9
<1>14. QED
    BY <1>12, <1>13 DEF RunConfig

-----------------------------------------------------------------------------
(* The caller and the files *)

LEMMA RunKeeps ==
    ASSUME IInv, Run
    PROVE  IInv'
<1> DEFINE called == Validated(spec)
           files == ExpectedFiles(Full(called))
           writes == WrittenFiles(RunConfig(Full(called)))
<1>1. /\ called \in Followed
      /\ pc = "idle"
      /\ told' = Append(told, [spec |-> called, writes |-> writes])
    BY DEF Run
<1>2. PICK logged \in HasLog(called) : Call(files, logged)
    BY DEF Run
<1>3. files \subseteq Files /\ writes = files
    BY <1>1, FollowedAssumption, WritesWhatItExpects
<1> HIDE DEF called, files, writes
<1>4. /\ run \in Nat /\ run' = run + 1 /\ run' \in 0 .. MaxRuns
      /\ expected' = files /\ todo' = files /\ pc' = "hide"
    BY <1>2, RecoveryAssumption DEF Call, IInv, Typed, TypeOK
<1>5. at \in [Files -> Contents] /\ at' = at /\ before' = at
    BY <1>2 DEF Call, IInv, Typed, TypeOK, Contents
<1>6. Typed'
    BY <1>2, <1>3, <1>4, <1>5 DEF Call, IInv, Typed, TypeOK, Steps, Outcomes
<1>7. FilesAreOfTheRun'
    <2>1. [spec |-> called, writes |-> writes] \in [spec : Followed, writes : SUBSET Files]
        BY <1>1, <1>3
    <2>2. told' \in Seq([spec : Followed, writes : SUBSET Files]) /\ Len(told') = run'
          /\ told'[run'] = [spec |-> called, writes |-> writes]
        BY <1>1, <1>4, <2>1 DEF IInv, FilesAreOfTheRun
    <2>3. QED
        BY <1>2, <1>3, <1>4, <2>2 DEF Call, FilesAreOfTheRun
<1>8. \A f \in Files : held'[run'][f] = Absent
    BY <1>2, <1>4 DEF Call, IInv, BackupsToCome, Runs
<1>9. BackupsToCome'
    BY <1>2, <1>4 DEF Call, IInv, BackupsToCome, Runs
<1>10. PhaseHolds'
    <2>1. WhileHiding'
        BY <1>2, <1>3, <1>4, <1>5, <1>8
           DEF Call, WhileHiding, OthersUntouched, Untouched
    <2>2. QED
        BY <1>4, <2>1 DEF PhaseHolds
<1>11. OutcomeTellsOutputs'
    BY <1>4 DEF OutcomeTellsOutputs
<1>12. QED
    BY <1>6, <1>7, <1>9, <1>10, <1>11 DEF IInv

\* Between the calls the caller touches no file.
LEMMA CallerKeeps ==
    ASSUME IInv, UNCHANGED <<recoveryVars, told>>
    PROVE  IInv'
<1> USE DEF recoveryVars
<1>1. Typed' /\ FilesAreOfTheRun' /\ BackupsToCome'
    BY DEF IInv, Typed, TypeOK, FilesAreOfTheRun, BackupsToCome
<1>2. PhaseHolds'
    BY DEF IInv, PhaseHolds, WhileHiding, AllHidden, Complete, WhileSettingAside,
           WhileRestoring, WhenRestored, OthersUntouched, Untouched, InBackup, IsNew, OwnAt,
           OwnOrGone, IsBack, Kept
<1>3. OutcomeTellsOutputs'
    BY DEF IInv, OutcomeTellsOutputs
<1>4. QED
    BY <1>1, <1>2, <1>3 DEF IInv

-----------------------------------------------------------------------------

LEMMA RecoveryKeeps ==
    ASSUME IInv, Recovery
    PROVE  IInv' /\ (Complete \/ GivesNothingUp)
<1>1. CASE \E f \in expected : Hide(f) \/ HideInterrupted(f)
    BY <1>1, HideKeeps, HideInterruptedKeeps DEF Recovery
<1>2. CASE HideFails \/ Hidden \/ HideLog \/ HideLogFails
    BY <1>2, HideFailsKeeps, HiddenKeeps, HideLogKeeps, HideLogFailsKeeps DEF Recovery
<1>3. CASE OpenLog \/ EngineFails \/ EngineExits
    BY <1>3, OpenLogKeeps, EngineFailsKeeps, EngineExitsKeeps DEF Recovery
<1>4. CASE DropLog \/ DropLogFails \/ \E f \in expected : Drop(f)
    BY <1>4, DropLogKeeps, DropLogFailsKeeps, DropKeeps DEF Recovery
<1>5. CASE DropFails \/ Succeed \/ Kill
    BY <1>5, EndsKeep DEF Recovery
<1>6. CASE \E f \in expected : SetAside(f) \/ SetAsideFails(f)
    BY <1>6, SetAsideKeeps, FailedMovesKeep DEF Recovery
<1>7. CASE \E f \in expected : Restore(f) \/ RestoreFails(f)
    BY <1>7, RestoreKeeps, FailedMovesKeep DEF Recovery
<1>8. CASE NextLoop("setaside", "restore", recorded) \/ NextLoop("restore", "rmdir", {})
    BY <1>8, LoopsKeep DEF Recovery
<1>9. CASE \E removed \in BOOLEAN : Raise(removed)
    BY <1>9, RaiseKeeps DEF Recovery
<1>10. QED
    BY <1>1, <1>2, <1>3, <1>4, <1>5, <1>6, <1>7, <1>8, <1>9 DEF Recovery, RecoveryStep

\* A step of the caller leaves the files alone, or begins a run between runs.
LEMMA StepKeeps ==
    ASSUME IInv, [Next]_vars
    PROVE  /\ IInv'
           /\ UNCHANGED recoveryVars \/ pc = "idle" \/ Complete \/ GivesNothingUp
<1>1. CASE Change
    BY <1>1, CallerKeeps DEF Change, AssignField, AddConstraint, BuildObjective, Edit
<1>2. CASE TakeAnother \/ Refuse
    BY <1>2, CallerKeeps DEF TakeAnother, Refuse
<1>3. CASE Run
    BY <1>3, RunKeeps DEF Run
<1>4. CASE Write
    BY <1>4, WriteKeeps DEF Write
<1>5. CASE Recovery
    BY <1>5, RecoveryKeeps
<1>6. CASE UNCHANGED vars
    BY <1>6, CallerKeeps DEF vars, callerVars
<1>7. QED
    BY <1>1, <1>2, <1>3, <1>4, <1>5, <1>6 DEF Next

-----------------------------------------------------------------------------
(* The spec of the caller, and the runs there have been *)

ToldInv ==
    \A r \in DOMAIN told : told[r].writes = WrittenFiles(RunConfig(Full(told[r].spec)))

CallerInv == SpecInv /\ BuiltInv /\ ToldInv

LEMMA CallerInit ==
    ASSUME Init
    PROVE  CallerInv
<1>1. spec \in Fresh /\ told = << >>
    BY DEF Init
<1>2. IsSpec(spec) /\ HasBuiltFields(spec)
    BY <1>1, SpecAssumption
<1>3. KeepsBuilder(spec)
    <2> DEFINE kept == Values(spec)[ConstraintFieldOf(spec)]
    <2>1. spec.type \notin Optimizers /\ kept[1] = "builder" => kept[2] = << >>
        BY <1>1, SpecAssumption
    <2>2. IsSequence(<< >>)
        BY DEF IsSequence
    <2>3. QED
        BY <2>1, <2>2 DEF KeepsBuilder
<1>4. ToldInv
    BY <1>1 DEF ToldInv
<1>5. QED
    BY <1>2, <1>3, <1>4 DEF CallerInv, SpecInv, BuiltInv

LEMMA ChangeKeeps ==
    ASSUME SpecInv, BuiltInv, Change
    PROVE  SpecInv' /\ BuiltInv'
<1>1. run = 0
    BY DEF Change
<1>2. ASSUME NEW assignment \in Assignments, AssignField(assignment[1], assignment[2])
      PROVE  SpecInv' /\ BuiltInv'
    <2>1. run' = run
        BY <1>2 DEF AssignField, Edit, recoveryVars
    <2>2. assignment[1] = "output_file_name" => IsFileName(assignment[2])
        BY SpecAssumption
    <2>3. QED
        BY <1>1, <1>2, <2>1, <2>2, AssignKeeps
<1>3. ASSUME NEW constraint \in Additions, AddConstraint(constraint)
      PROVE  SpecInv' /\ BuiltInv'
    <2>1. run' = run
        BY <1>3 DEF AddConstraint, Edit, recoveryVars
    <2>2. QED
        BY <1>1, <1>3, <2>1, AddKeeps
<1>4. ASSUME NEW target \in Targets, BuildObjective(target[1], target[2])
      PROVE  SpecInv' /\ BuiltInv'
    <2>1. run' = run
        BY <1>4 DEF BuildObjective, Edit, recoveryVars
    <2>2. QED
        BY <1>1, <1>4, <2>1, BuildKeeps
<1>5. QED
    BY <1>2, <1>3, <1>4 DEF Change

LEMMA RecoveryIsOfTheRun ==
    ASSUME RecoveryStep
    PROVE  run' = run
<1> USE DEF End, NextLoop, Reach
<1>1. CASE \E f \in expected : Hide(f) \/ HideInterrupted(f)
    BY <1>1 DEF Hide, HideInterrupted
<1>2. CASE HideFails \/ Hidden \/ HideLog \/ HideLogFails
    BY <1>2 DEF HideFails, Hidden, HideLog, HideLogFails
<1>3. CASE OpenLog \/ EngineFails \/ EngineExits
    BY <1>3 DEF OpenLog, EngineFails, EngineExits
<1>4. CASE DropLog \/ DropLogFails \/ \E f \in expected : Drop(f)
    BY <1>4 DEF DropLog, DropLogFails, Drop
<1>5. CASE DropFails \/ Succeed \/ Kill
    BY <1>5 DEF DropFails, Succeed, Kill
<1>6. CASE \E f \in expected : SetAside(f) \/ SetAsideFails(f)
    BY <1>6 DEF SetAside, SetAsideFails
<1>7. CASE \E f \in expected : Restore(f) \/ RestoreFails(f)
    BY <1>7 DEF Restore, RestoreFails
<1>8. CASE NextLoop("setaside", "restore", recorded) \/ NextLoop("restore", "rmdir", {})
    BY <1>8
<1>9. CASE \E removed \in BOOLEAN : Raise(removed)
    BY <1>9 DEF Raise
<1>10. QED
    BY <1>1, <1>2, <1>3, <1>4, <1>5, <1>6, <1>7, <1>8, <1>9 DEF RecoveryStep

LEMMA CallerInvKeeps ==
    ASSUME IInv, CallerInv, [Next]_vars
    PROVE  CallerInv'
<1>1. run \in Nat /\ IsSpec(spec) /\ SpecInv /\ BuiltInv /\ ToldInv
    BY RecoveryAssumption DEF IInv, Typed, TypeOK, CallerInv, SpecInv
<1>2. ASSUME UNCHANGED told
      PROVE  ToldInv'
    BY <1>1, <1>2 DEF ToldInv
<1>3. CASE Change
    <2>1. told' = told
        BY <1>3 DEF Change, AssignField, AddConstraint, BuildObjective, Edit
    <2>2. QED
        BY <1>1, <1>2, <1>3, <2>1, ChangeKeeps DEF CallerInv
<1>4. CASE TakeAnother
    <2>1. spec' \in Followed /\ run' # 0 /\ told' = told
        BY <1>4 DEF TakeAnother, recoveryVars
    <2>2. IsSpec(spec')
        BY <2>1, FollowedAssumption
    <2>3. QED
        BY <1>2, <2>1, <2>2 DEF CallerInv, SpecInv, BuiltInv
<1>5. CASE Refuse
    <2>1. told' = told
        BY <1>5 DEF Refuse
    <2>2. QED
        BY <1>1, <1>2, <1>5, <2>1, RefuseKeeps DEF CallerInv
<1>6. CASE Run
    <2> DEFINE called == Validated(spec)
               entry == [spec |-> called, writes |-> WrittenFiles(RunConfig(Full(called)))]
    <2>1. spec' = called /\ told' = Append(told, entry)
        BY <1>6 DEF Run
    <2>2. run' = run + 1
        <3>1. PICK logged \in HasLog(called) : Call(ExpectedFiles(Full(called)), logged)
            BY <1>6 DEF Run
        <3>2. QED
            BY <3>1 DEF Call
    <2>3. IsSpec(called)
        BY <1>1, Revalidated
    <2>4. entry.writes = WrittenFiles(RunConfig(Full(entry.spec)))
        OBVIOUS
    <2> HIDE DEF called, entry
    <2>5. IsSequence(told)
        BY Sequences DEF IInv, FilesAreOfTheRun
    <2>6. ToldInv'
        <3>1. /\ IsSequence(told') /\ Len(told') = Len(told) + 1
              /\ told'[Len(told) + 1] = entry
              /\ \A r \in 1 .. Len(told) : told'[r] = told[r]
            BY <2>1, <2>5, Extended
        <3>2. /\ DOMAIN told = 1 .. Len(told) /\ Len(told) \in Nat
              /\ DOMAIN told' = 1 .. Len(told) + 1
            BY <2>5, <3>1 DEF IsSequence
        <3>3. ASSUME NEW r \in DOMAIN told'
              PROVE  told'[r].writes = WrittenFiles(RunConfig(Full(told'[r].spec)))
            <4>1. CASE r = Len(told) + 1
                BY <2>4, <3>1, <4>1
            <4>2. CASE r \in DOMAIN told
                BY <1>1, <3>1, <3>2, <4>2 DEF ToldInv
            <4>3. QED
                BY <3>2, <4>1, <4>2
        <3>4. QED
            BY <3>3 DEF ToldInv
    <2>7. SpecInv'
        BY <2>1, <2>3 DEF SpecInv
    <2>8. BuiltInv'
        BY <1>1, <2>2 DEF BuiltInv
    <2>9. QED
        BY <2>6, <2>7, <2>8 DEF CallerInv
<1>7. CASE UNCHANGED <<spec, handmade, told>> /\ run' = run
    BY <1>1, <1>2, <1>7 DEF CallerInv, SpecInv, BuiltInv
<1>8. CASE Write
    <2>1. UNCHANGED <<spec, handmade, told>> /\ run' = run
        BY <1>8 DEF Write, EngineWrites, callerVars
    <2>2. QED
        BY <1>7, <2>1
<1>9. CASE Recovery
    <2>1. UNCHANGED <<spec, handmade, told>> /\ run' = run
        BY <1>9, RecoveryIsOfTheRun DEF Recovery, callerVars
    <2>2. QED
        BY <1>7, <2>1
<1>10. CASE UNCHANGED vars
    <2>1. UNCHANGED <<spec, handmade, told>> /\ run' = run
        BY <1>10 DEF vars, callerVars, recoveryVars
    <2>2. QED
        BY <1>7, <2>1
<1>11. QED
    BY <1>3, <1>4, <1>5, <1>6, <1>8, <1>9, <1>10 DEF Next

-----------------------------------------------------------------------------

\* The files of every run are in one of the places the invariant names.
THEOREM FilesAreAccountedFor == Spec => []IInv
<1>1. Init => IInv
    BY InitHolds
<1>2. IInv /\ [Next]_vars => IInv'
    BY StepKeeps
<1>3. QED
    BY <1>1, <1>2, PTL DEF Spec

\* RunnerSession.run (run_container.py): a run that returns has written every expected file
\* itself; a run that raises its own error has put every earlier output back and kept what
\* it wrote as the newest partial file.
THEOREM OutcomesAreTrue == Spec => []OutcomeTellsOutputs
<1>1. IInv => OutcomeTellsOutputs
    BY DEF IInv
<1>2. QED
    BY <1>1, FilesAreAccountedFor, PTL

\* Whatever fails and whenever the process dies, an output or the log of an earlier run is
\* given up only by a run that has all its own outputs in place, nonempty.
THEOREM EarlierRunsAreKept == Spec => NothingLostToFailure
<1> DEFINE Kind ==
        \/ pc = "idle"
        \/ \A f \in expected : at[f] = [run |-> run, full |-> TRUE]
        \/ /\ \A f \in DOMAIN at : {v \in Stored(f) : v.run # run} \subseteq Stored(f)'
           /\ LogStored => LogStored'
<1>1. IInv /\ [Next]_vars => [Kind]_recoveryVars
    <2> SUFFICES ASSUME IInv, [Next]_vars
                 PROVE  [Kind]_recoveryVars
        OBVIOUS
    <2>1. DOMAIN at = Files
        BY DEF IInv, Typed, TypeOK
    <2>2. UNCHANGED recoveryVars \/ pc = "idle" \/ Complete \/ GivesNothingUp
        BY StepKeeps
    <2>3. QED
        BY <2>1, <2>2 DEF Complete, GivesNothingUp, OlderStay
<1>2. QED
    BY <1>1, FilesAreAccountedFor, PTL DEF Spec, NothingLostToFailure

\* What the caller has done to a spec between its constructor and its run.
THEOREM SpecsAreKept == Spec => []CallerInv
<1>1. Init => CallerInv
    BY CallerInit
<1>2. IInv /\ CallerInv /\ [Next]_vars => CallerInv'
    BY CallerInvKeeps
<1>3. QED
    BY <1>1, <1>2, FilesAreAccountedFor, PTL DEF Spec

\* expected_files (run_config.py and the runners) against the files that the engines, their
\* command lines and parsers write for the document of the run: whatever the caller assigns,
\* adds and builds, run() waits for all of these files and for no other, as long as the name
\* the caller gives ends in letters and digits.
THEOREM RunsWaitForWhatIsWritten == Spec => []WaitsForWhatIsWritten
<1>1. CallerInv => WaitsForWhatIsWritten
    BY WritesWhatItExpects, EngineTakesIt DEF CallerInv, SpecInv, WaitsForWhatIsWritten, IsRunnable
<1>2. QED
    BY <1>1, SpecsAreKept, PTL

\* mcmc_run_with_updaters (run_container.py): the printing spec it derives from an accepted
\* one is accepted, and its run has no files.
THEOREM UpdatersRunIsQuiet == Spec => []CanonicalStdoutIsQuiet
<1>1. CallerInv => CanonicalStdoutIsQuiet
    <2> SUFFICES ASSUME CallerInv, spec.type \in {"chain", "forest"}, IsAccepted(spec)
                 PROVE  /\ IsAccepted(CanonicalStdout(spec))
                        /\ \A s \in {Full(CanonicalStdout(spec))} :
                               ExpectedFiles(s) \cup WrittenFiles(RunConfig(s)) = {}
        BY DEF CanonicalStdoutIsQuiet, IsRunnable
    <2>1. IsSpec(spec)
        BY DEF CallerInv, SpecInv
    <2>2. IsAccepted(CanonicalStdout(spec))
        BY <2>1, StdoutIsAccepted
    <2>3. /\ ExpectedFiles(Full(CanonicalStdout(spec))) = {}
          /\ WrittenFiles(RunConfig(Full(CanonicalStdout(spec)))) = {}
        BY <2>1, StdoutHasNoFiles
    <2>4. QED
        BY <2>2, <2>3
<1>2. QED
    BY <1>1, SpecsAreKept, PTL

\* ConstraintBuilder (constraints.py) and the objective builders (objectives.py) against the
\* validation of run specs: what a builder returns has only fields that validate() accepts,
\* however often the caller adds to it, as long as the caller writes none by hand.
THEOREM BuildersAreTrusted == Spec => []BuiltSpecsAreAccepted
<1>1. CallerInv => BuiltSpecsAreAccepted
    BY DEF CallerInv, BuiltInv, BuiltSpecsAreAccepted, IsFirst
<1>2. QED
    BY <1>1, SpecsAreKept, PTL

\* config_hash and file_stem (run_config.py): runs that write a file in common, under names
\* they derive themselves, ran the same document; no field that reaches the engine is missing
\* from the names.
THEOREM NamesAreOfOneRun == Spec => []NamesTellTheRun
<1>1. IInv /\ CallerInv => NamesTellTheRun
    <2> SUFFICES ASSUME IInv, CallerInv, NEW r \in DOMAIN told, NEW s \in DOMAIN told,
                        GivenName(Full(told[r].spec)) = None,
                        GivenName(Full(told[s].spec)) = None,
                        told[r].writes \cap told[s].writes # {}
                 PROVE  RunConfig(Full(told[r].spec)) = RunConfig(Full(told[s].spec))
        BY DEF NamesTellTheRun
    <2>1. told[r].spec \in Followed /\ told[s].spec \in Followed
        <3>1. told \in Seq([spec : Followed, writes : SUBSET Files])
            BY DEF IInv, FilesAreOfTheRun
        <3> DEFINE Entries == [spec : Followed, writes : SUBSET Files]
        <3> HIDE DEF Entries
        <3>2. DOMAIN told = 1 .. Len(told) /\ \A i \in 1 .. Len(told) : told[i] \in Entries
            <4>1. told \in Seq(Entries)
                BY <3>1 DEF Entries
            <4>2. QED
                BY <4>1
        <3>3. told[r] \in Entries /\ told[s] \in Entries
            BY <3>2
        <3>4. QED
            BY <3>3 DEF Entries
    <2>2. PICK f : f \in told[r].writes /\ f \in told[s].writes
        OBVIOUS
    <2>3. /\ f \in WrittenFiles(RunConfig(Full(told[r].spec)))
          /\ f \in WrittenFiles(RunConfig(Full(told[s].spec)))
        BY <2>2 DEF CallerInv, ToldInv
    <2>4. QED
        BY <2>1, <2>3, NamesTellDocuments
<1>2. QED
    BY <1>1, FilesAreAccountedFor, SpecsAreKept, PTL

(***************************************************************************)
(* Sessions                                                                *)
(***************************************************************************)

HeldInside == container # 0 => inside

ContainersAreHeld ==
    \A c \in Containers :
        docker[c] \in {"created", "running"} => c = container \/ c \in excused

EnginesHaveHomes == \A e \in Commands : engine[e] => home[e] # 0

SessionInv ==
    /\ SessionTypeOK
    /\ HeldInside
    /\ ContainersAreHeld
    /\ EnginesHaveHomes
    /\ EnginesAreAttended

LEMMA SessionInitHolds ==
    ASSUME SessionInit
    PROVE  SessionInv
BY SessionAssumption
   DEF SessionInit, SessionInv, SessionTypeOK, HeldInside, ContainersAreHeld, EnginesHaveHomes,
       EnginesAreAttended

\* Outside the with block an engine runs only where Docker has failed, so
\* nothing depends on the container of the next one.
LEMMA EnteringKeeps ==
    ASSUME SessionInv, NEW c \in Containers, ~inside, docker[c] = "unknown",
           NEW state \in {"created", "running", "removed"},
           docker' = [docker EXCEPT ![c] = state],
           excused' \in {excused, excused \cup {c}},
           state = "created" => c \in excused',
           container' = IF state = "running" THEN c ELSE 0,
           inside' \in BOOLEAN, inside' <=> state = "running", client' = inside',
           UNCHANGED <<commandVars, engine>>
    PROVE  SessionInv'
<1>1. container = 0 /\ c # 0
    BY SessionAssumption DEF SessionInv, HeldInside
<1>2. SessionTypeOK'
    BY DEF SessionInv, SessionTypeOK, commandVars
<1>3. HeldInside' /\ EnginesHaveHomes'
    BY <1>1 DEF SessionInv, HeldInside, EnginesHaveHomes, commandVars
<1>4. ContainersAreHeld'
    <2> SUFFICES ASSUME NEW d \in Containers, docker'[d] \in {"created", "running"}
                 PROVE  d = container' \/ d \in excused'
        BY DEF ContainersAreHeld
    <2>1. CASE d = c
        BY <2>1 DEF SessionInv, SessionTypeOK
    <2>2. CASE d # c
        <3>1. docker[d] \in {"created", "running"}
            BY <2>2 DEF SessionInv, SessionTypeOK
        <3>2. QED
            BY <1>1, <3>1, SessionAssumption DEF SessionInv, ContainersAreHeld
    <2>3. QED
        BY <2>1, <2>2
<1>5. EnginesAreAttended'
    BY DEF SessionInv, EnginesAreAttended, commandVars
<1>6. QED
    BY <1>2, <1>3, <1>4, <1>5 DEF SessionInv

\* The session lets go of its container: its engines end with it, or the
\* failure to remove it excuses them.
LEMMA RemovalAccounts ==
    ASSUME SessionInv, container # 0, NEW removed \in BOOLEAN,
           RemoveContainer(container, removed)
    PROVE  /\ docker' \in [Containers -> {"unknown", "created", "running", "removed"}]
           /\ engine' \in [Commands -> BOOLEAN]
           /\ excused' \subseteq Containers \cup Commands
           /\ excused \subseteq excused'
           /\ ~removed => docker' = docker
           /\ \A c \in Containers :
                 docker'[c] \in {"created", "running"} => c \in excused'
           /\ \A e \in Commands : engine'[e] =>
                 engine[e] /\ {e, home[e]} \cap excused' # {}
<1>1. container \in Containers
    BY DEF SessionInv, SessionTypeOK
<1>2. CASE removed
    <2>1. /\ docker' = [docker EXCEPT ![container] = "removed"]
          /\ engine' = [e \in Commands |-> engine[e] /\ home[e] # container]
          /\ excused' = excused
        BY <1>2 DEF RemoveContainer
    <2>2. engine' \in [Commands -> BOOLEAN]
        BY <2>1
    <2>3. QED
        BY <1>1, <1>2, <2>1, <2>2 DEF SessionInv, SessionTypeOK, ContainersAreHeld, EnginesAreAttended
<1>3. CASE ~removed
    BY <1>1, <1>3 DEF RemoveContainer, SessionInv, SessionTypeOK, ContainersAreHeld, EnginesAreAttended
<1>4. QED
    BY <1>2, <1>3

LEMMA ExitKeeps ==
    ASSUME SessionInv, NEW removed \in BOOLEAN, Exit(removed)
    PROVE  SessionInv'
<1>1. /\ inside' = FALSE /\ container' = 0 /\ client' = FALSE
      /\ UNCHANGED <<kind, phase, home>>
    BY DEF Exit, commandVars
<1>2. CASE container = 0
    <2>1. UNCHANGED <<docker, engine, excused>>
        BY <1>2 DEF Exit
    <2>2. \A e \in Commands : engine[e] => {e, home[e]} \cap excused # {}
        BY <1>2 DEF SessionInv, EnginesHaveHomes, EnginesAreAttended
    <2>3. QED
        BY <1>1, <1>2, <2>1, <2>2
           DEF SessionInv, SessionTypeOK, HeldInside, ContainersAreHeld, EnginesHaveHomes,
               EnginesAreAttended
<1>3. CASE container # 0
    <2>1. RemoveContainer(container, removed)
        BY <1>3 DEF Exit
    <2>2. /\ docker' \in [Containers -> {"unknown", "created", "running", "removed"}]
          /\ engine' \in [Commands -> BOOLEAN]
          /\ excused' \subseteq Containers \cup Commands
          /\ \A c \in Containers : docker'[c] \in {"created", "running"} => c \in excused'
          /\ \A e \in Commands : engine'[e] =>
                engine[e] /\ {e, home[e]} \cap excused' # {}
        BY <1>3, <2>1, RemovalAccounts
    <2>3. SessionTypeOK' /\ HeldInside' /\ ContainersAreHeld'
        BY <1>1, <2>2 DEF SessionInv, SessionTypeOK, HeldInside, ContainersAreHeld
    <2>4. EnginesHaveHomes' /\ EnginesAreAttended'
        BY <1>1, <2>2 DEF SessionInv, EnginesHaveHomes, EnginesAreAttended
    <2>5. QED
        BY <2>3, <2>4 DEF SessionInv
<1>4. QED
    BY <1>2, <1>3

\* Aborting a command accounts for every engine that ran, its own included.
LEMMA AbortKeeps ==
    ASSUME SessionInv, NEW e \in Commands, NEW removed \in BOOLEAN, Abort(removed),
           phase[e] = "streaming", phase' = [phase EXCEPT ![e] = "over"],
           UNCHANGED <<kind, home>>
    PROVE  SessionInv'
<1>1. phase' \in [Commands -> {"new", "streaming", "over"}]
    BY DEF SessionInv, SessionTypeOK
<1>2. CASE container = 0
    <2>1. UNCHANGED <<inside, client, container, docker, engine, excused>>
        BY <1>2 DEF Abort, withVars
    <2>2. \A d \in Commands : engine[d] => {d, home[d]} \cap excused # {}
        BY <1>2 DEF SessionInv, EnginesHaveHomes, EnginesAreAttended
    <2>3. QED
        BY <1>1, <2>1, <2>2
           DEF SessionInv, SessionTypeOK, HeldInside, ContainersAreHeld, EnginesHaveHomes,
               EnginesAreAttended
<1>3. CASE container # 0
    <2>1. /\ RemoveContainer(container, removed)
          /\ container' = IF removed THEN 0 ELSE container
          /\ UNCHANGED <<inside, client>>
        BY <1>3 DEF Abort
    <2>2. /\ docker' \in [Containers -> {"unknown", "created", "running", "removed"}]
          /\ engine' \in [Commands -> BOOLEAN]
          /\ excused' \subseteq Containers \cup Commands
          /\ ~removed => docker' = docker
          /\ \A c \in Containers : docker'[c] \in {"created", "running"} => c \in excused'
          /\ \A d \in Commands : engine'[d] =>
                engine[d] /\ {d, home[d]} \cap excused' # {}
        BY <1>3, <2>1, RemovalAccounts
    <2>3. SessionTypeOK' /\ HeldInside' /\ ContainersAreHeld'
        BY <1>1, <2>1, <2>2 DEF SessionInv, SessionTypeOK, HeldInside, ContainersAreHeld
    <2>4. EnginesHaveHomes' /\ EnginesAreAttended'
        BY <2>2 DEF SessionInv, EnginesHaveHomes, EnginesAreAttended
    <2>5. QED
        BY <2>3, <2>4 DEF SessionInv
<1>4. QED
    BY <1>2, <1>3

\* A step of one command that leaves every container alone.
LEMMA CommandKeeps ==
    ASSUME SessionInv, NEW e \in Commands,
           UNCHANGED <<withVars, docker, kind>>,
           phase' \in [Commands -> {"new", "streaming", "over"}],
           home' \in [Commands -> {0} \cup Containers],
           engine' \in [Commands -> BOOLEAN],
           excused' \in {excused, excused \cup {e}},
           \A d \in Commands \ {e} : /\ phase'[d] = phase[d] /\ home'[d] = home[d]
                                     /\ engine'[d] = engine[d],
           engine'[e] => /\ home'[e] # 0
                         /\ \/ phase'[e] = "streaming" /\ inside /\ home'[e] = container
                            \/ {e, home'[e]} \cap excused' # {}
    PROVE  SessionInv'
<1>1. SessionTypeOK' /\ HeldInside' /\ ContainersAreHeld'
    BY DEF SessionInv, SessionTypeOK, HeldInside, ContainersAreHeld, withVars
<1>2. EnginesHaveHomes'
    BY DEF SessionInv, EnginesHaveHomes
<1>3. EnginesAreAttended'
    BY DEF SessionInv, EnginesAreAttended, withVars
<1>4. QED
    BY <1>1, <1>2, <1>3 DEF SessionInv

LEMMA StartKeeps ==
    ASSUME SessionInv, NEW e \in Commands, Start(e) \/ StartFailsLate(e)
    PROVE  SessionInv'
<1>1. /\ SessionTypeOK
      /\ container # 0 => inside
      /\ UNCHANGED <<withVars, docker, kind>>
    BY DEF Start, StartFailsLate, SessionInv, HeldInside
<1>2. CASE Start(e) /\ container = 0
    <2>1. phase' = [phase EXCEPT ![e] = "over"] /\ UNCHANGED <<home, engine, excused>>
        BY <1>2 DEF Start
    <2>2. engine[e] => home[e] # 0 /\ {e, home[e]} \cap excused # {}
        BY <1>2 DEF SessionInv, EnginesHaveHomes, EnginesAreAttended
    <2>3. QED
        BY <1>1, <2>1, <2>2, CommandKeeps DEF SessionTypeOK
<1>3. CASE Start(e) /\ container # 0
    <2>1. /\ phase' = [phase EXCEPT ![e] = "streaming"]
          /\ home' = [home EXCEPT ![e] = container]
          /\ engine' = [engine EXCEPT ![e] = TRUE]
          /\ UNCHANGED excused
        BY <1>3 DEF Start
    <2>2. QED
        BY <1>1, <1>3, <2>1, CommandKeeps DEF SessionTypeOK
<1>4. CASE StartFailsLate(e)
    <2>1. /\ phase' = [phase EXCEPT ![e] = "over"]
          /\ home' = [home EXCEPT ![e] = container]
          /\ engine' = [engine EXCEPT ![e] = TRUE]
          /\ excused' = excused \cup {e}
          /\ container # 0
        BY <1>4 DEF StartFailsLate
    <2>2. QED
        BY <1>1, <2>1, CommandKeeps DEF SessionTypeOK
<1>5. QED
    BY <1>2, <1>3, <1>4 DEF StartFailsLate

LEMMA StreamEndsKeeps ==
    ASSUME SessionInv, NEW e \in Commands, NEW status \in {"zero", "nonzero", "unknown"},
           NEW removed \in BOOLEAN, StreamEnds(e, status, removed)
    PROVE  SessionInv'
<1>1. /\ phase[e] = "streaming" /\ phase' = [phase EXCEPT ![e] = "over"]
      /\ UNCHANGED <<kind, home>>
      /\ status = "unknown" \/ ~engine[e]
    BY DEF StreamEnds
<1>2. CASE kind[e] = "run" /\ status # "zero"
    BY <1>1, <1>2, AbortKeeps DEF StreamEnds
<1>3. CASE ~(kind[e] = "run" /\ status # "zero")
    <2>1. /\ excused' = IF status = "unknown" THEN excused \cup {e} ELSE excused
          /\ UNCHANGED <<withVars, docker, engine>>
        BY <1>3 DEF StreamEnds
    <2>2. engine[e] => home[e] # 0 /\ e \in excused'
        BY <1>1, <2>1 DEF SessionInv, EnginesHaveHomes
    <2>3. QED
        BY <1>1, <2>1, <2>2, CommandKeeps DEF SessionInv, SessionTypeOK
<1>4. QED
    BY <1>2, <1>3

LEMMA NextHolds ==
    ASSUME SessionInv, [SessionNext]_sessionVars
    PROVE  SessionInv'
<1>1. CASE UNCHANGED sessionVars
    BY <1>1 DEF sessionVars, SessionInv, SessionTypeOK, HeldInside, ContainersAreHeld, EnginesHaveHomes,
                EnginesAreAttended
<1>2. ASSUME NEW c \in Containers, EnterFails(c)
      PROVE  SessionInv'
    <2>1. ~inside /\ inside = FALSE /\ docker[c] = "unknown"
        BY <1>2 DEF EnterFails, SessionInv, SessionTypeOK
    <2>2. /\ docker' = [docker EXCEPT ![c] = "created"]
          /\ excused' = excused \cup {c}
          /\ container' = 0 /\ inside' = FALSE /\ client' = FALSE
          /\ UNCHANGED <<commandVars, engine>>
        BY <1>2, <2>1 DEF EnterFails
    <2>3. QED
        BY <2>1, <2>2, EnteringKeeps
<1>3. ASSUME NEW c \in Containers, Enter(c)
      PROVE  SessionInv'
    BY <1>3, EnteringKeeps DEF Enter
<1>4. ASSUME NEW c \in Containers, NEW removed \in BOOLEAN, StartFails(c, removed)
      PROVE  SessionInv'
    <2>1. ~inside /\ inside = FALSE /\ docker[c] = "unknown"
        BY <1>4 DEF StartFails, SessionInv, SessionTypeOK
    <2>2. /\ docker' = [docker EXCEPT ![c] = IF removed THEN "removed" ELSE "created"]
          /\ excused' = IF removed THEN excused ELSE excused \cup {c}
          /\ container' = 0 /\ inside' = FALSE /\ client' = FALSE
          /\ UNCHANGED <<commandVars, engine>>
        BY <1>4, <2>1 DEF StartFails
    <2>3. CASE removed
        <3>1. docker' = [docker EXCEPT ![c] = "removed"] /\ excused' = excused
            BY <2>2, <2>3
        <3>2. QED
            BY <2>1, <2>2, <3>1, EnteringKeeps
    <2>4. CASE ~removed
        <3>1. docker' = [docker EXCEPT ![c] = "created"] /\ excused' = excused \cup {c}
            BY <2>2, <2>4
        <3>2. QED
            BY <2>1, <2>2, <3>1, EnteringKeeps
    <2>5. QED
        BY <2>3, <2>4
<1>5. ASSUME NEW e \in Commands, EngineStops(e)
      PROVE  SessionInv'
    <2>1. /\ engine' = [engine EXCEPT ![e] = FALSE]
          /\ UNCHANGED <<withVars, docker, kind, phase, home, excused>>
        BY <1>5 DEF EngineStops, commandVars
    <2>2. QED
        BY <2>1, CommandKeeps DEF SessionInv, SessionTypeOK
<1>6. ASSUME NEW e \in Commands, NEW removed \in BOOLEAN, Abandon(e, removed)
      PROVE  SessionInv'
    BY <1>6, AbortKeeps DEF Abandon
<1>7. QED
    BY <1>1, <1>2, <1>3, <1>4, <1>5, <1>6, ExitKeeps, StartKeeps, StreamEndsKeeps DEF SessionNext

LEMMA SessionInvariance == SessionSpec => []SessionInv
<1>1. SessionInit => SessionInv
    BY SessionInitHolds
<1>2. SessionInv /\ [SessionNext]_sessionVars => SessionInv'
    BY NextHolds
<1>3. QED
    BY <1>1, <1>2, PTL DEF SessionSpec

-----------------------------------------------------------------------------

\* A session that has been left, or that was never entered, holds no container
\* and leaves none that Docker did not fail on.
THEOREM SessionsLeaveNothing == SessionSpec => []LeavesNothingBehind
<1>1. SessionInv => LeavesNothingBehind
    BY SessionAssumption
       DEF SessionInv, SessionTypeOK, HeldInside, ContainersAreHeld, LeavesNothingBehind
<1>2. QED
    BY <1>1, SessionInvariance, PTL

\* No engine outlives the call that waits for it, or its session, unless Docker
\* failed on it or its container.
THEOREM NoEngineIsForgotten == SessionSpec => []EnginesAreAttended
<1>1. SessionInv => EnginesAreAttended
    BY DEF SessionInv
<1>2. QED
    BY <1>1, SessionInvariance, PTL

=============================================================================

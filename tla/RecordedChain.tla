--------------------------- MODULE RecordedChain ---------------------------
(***************************************************************************)
(* RecordedChain (gerrytools/ben/recorded_chain.py): run iterators of one  *)
(* chain write a recording next to the output path and publish it there;   *)
(* every published recording has a read handle (RecordedRun), which a      *)
(* rerun that publishes over the file invalidates.                         *)
(*                                                                         *)
(* Run iterators may be driven by different threads, and readers are       *)
(* threads of their own.  A handle is guarded by its lock: checking it and *)
(* taking the next assignment is one step, opening a decoder is not.  The  *)
(* body of a run can raise or be interrupted at every step.                *)
(*                                                                         *)
(* Until the chain has published, others may create, replace and remove    *)
(* what is at the output path at any time.  Afterwards nobody but the      *)
(* chain writes it, and it is not redirected to another file while runs    *)
(* exist.                                                                  *)
(***************************************************************************)
EXTENDS Integers, FiniteSets

CONSTANTS
    Runs,       \* iterators handed out by __iter__ and allow_overwrite
    Readers

ASSUME RunsAssumption == Runs \subseteq Nat \ {0} /\ IsFiniteSet(Runs)

VARIABLES
    overwrite,      \* which iterators come from allow_overwrite
    phase,          \* the step of _record each iterator is at
    active,         \* chain._active
    temp,           \* the file in the temporary directory of each run
    dest,           \* whose recording the output path names
    recording,      \* the run whose handle is chain._recording, or NoRun
    previous,       \* previous_recording of _publish_run
    invalid,        \* runs whose handle is invalidated
    committed,      \* runs whose transaction is committed
    outcome,        \* how each run has ended
    torn,           \* history: runs interrupted inside their publication, where
                    \* the handler of a failed publish does not cover it
    meddled,        \* history: runs for which somebody changed the output path
                    \* between their check of it and the replacement
    reader          \* what each reader is doing, and with which handle

vars == <<overwrite, phase, active, temp, dest, recording, previous, invalid, committed,
          outcome, torn, meddled, reader>>

runVars == <<overwrite, previous, committed, outcome, torn, meddled>>

NoRun == 0
NoFile == -1
Foreign == -2       \* a regular file of somebody else
Directory == -3
Special == -4       \* a symlink or a device

Outside == {NoFile, Foreign, Directory, Special}

Phases == {"new", "begin", "running", "publish", "replace", "swap", "commit", "cleanup",
           "finish", "over"}

Inside(g) == phase[g] \notin {"new", "over"}

Idle == [stage |-> "idle", handle |-> NoRun, source |-> NoFile]

-----------------------------------------------------------------------------

Init ==
    /\ overwrite \in [Runs -> BOOLEAN]
    /\ phase = [g \in Runs |-> "new"]
    /\ active = FALSE
    /\ temp = [g \in Runs |-> "none"]
    /\ dest \in Outside
    /\ recording = NoRun
    /\ previous = NoRun
    /\ invalid = {}
    /\ committed = {}
    /\ outcome = [g \in Runs |-> "none"]
    /\ torn = {}
    /\ meddled = {}
    /\ reader = [r \in Readers |-> Idle]

To(g, step) == phase' = [phase EXCEPT ![g] = step]

\* The body raises: _finish_run follows.
Leave(g) ==
    /\ To(g, "finish")
    /\ outcome' = [outcome EXCEPT ![g] = "failed"]

\* The first next(); only one run may be active.
Start(g) ==
    /\ phase[g] = "new"
    /\ IF active
       THEN /\ To(g, "over")
            /\ outcome' = [outcome EXCEPT ![g] = "refused"]
            /\ UNCHANGED active
       ELSE To(g, "begin") /\ active' = TRUE /\ UNCHANGED outcome
    /\ UNCHANGED <<overwrite, temp, dest, recording, previous, invalid, committed, torn,
                   meddled, reader>>

\* _validate_run
Validated(g) == overwrite[g] \/ (recording = NoRun /\ dest = NoFile)

\* The destination is checked; the initial partition, the transaction and the first sample
Begin(g) ==
    /\ phase[g] = "begin"
    /\ Validated(g)
    /\ To(g, "running")
    /\ temp' = [temp EXCEPT ![g] = "unfinalized"]
    /\ UNCHANGED <<active, dest, recording, runVars, invalid, reader>>

\* Any of them fails, perhaps with the encoder's file already created.
BeginFails(g, created) ==
    /\ phase[g] = "begin"
    /\ created => Validated(g)
    /\ Leave(g)
    /\ temp' = [temp EXCEPT ![g] = IF created THEN "unfinalized" ELSE "none"]
    /\ UNCHANGED <<overwrite, active, dest, recording, previous, invalid, committed,
                   torn, meddled, reader>>

\* A step, its verification or its write raises, or the consumer closes the
\* iterator.
RunFails(g) ==
    /\ phase[g] = "running"
    /\ Leave(g)
    /\ UNCHANGED <<overwrite, active, temp, dest, recording, previous, invalid,
                   committed, torn, meddled, reader>>

\* The chain is exhausted: finalize and the verification of the last partition.
Finalize(g) ==
    /\ phase[g] = "running"
    /\ To(g, "publish")
    /\ temp' = [temp EXCEPT ![g] = "finalized"]
    /\ UNCHANGED <<active, dest, recording, runVars, invalid, reader>>

FinalizeFails(g) ==
    /\ phase[g] = "running"
    /\ Leave(g)
    /\ temp' = [temp EXCEPT ![g] = "finalized"]
    /\ UNCHANGED <<overwrite, active, dest, recording, previous, invalid, committed,
                   torn, meddled, reader>>

-----------------------------------------------------------------------------
(* _publish_run *)

\* Mistake: the old handle is left alone until the file has been replaced.
InvalidateNothing(g) ==
    /\ phase[g] = "publish"
    /\ previous' = recording
    /\ To(g, "replace")
    /\ UNCHANGED <<overwrite, active, temp, dest, recording, invalid, committed,
                   outcome, torn, meddled, reader>>

Invalidate(g) ==
    /\ phase[g] = "publish"
    /\ previous' = recording
    /\ invalid' = invalid \cup ({recording} \ {NoRun})
    /\ To(g, "replace")
    /\ UNCHANGED <<overwrite, active, temp, dest, recording, committed, outcome, torn,
                   meddled, reader>>

\* An interrupt between the invalidation and the handler of a failed publish
PublishInterrupted(g) ==
    /\ phase[g] = "replace"
    /\ previous # NoRun
    /\ Leave(g)
    /\ torn' = torn \cup {g}
    /\ UNCHANGED <<overwrite, active, temp, dest, recording, previous, invalid,
                   committed, reader, meddled>>

\* publish without authorization: os.link refuses whatever is there, and keeps
\* the temporary name.
Link(g) ==
    /\ phase[g] = "replace"
    /\ ~overwrite[g]
    /\ dest = NoFile
    /\ dest' = g
    /\ To(g, "commit")
    /\ UNCHANGED <<active, temp, recording, runVars, invalid, reader>>

\* Mistake: publish does not ask what it is about to replace.
LookAtNothing(g) ==
    /\ phase[g] = "replace"
    /\ overwrite[g]
    /\ To(g, "swap")
    /\ UNCHANGED <<active, temp, dest, recording, runVars, invalid, reader>>

\* publish with authorization: lstat finds nothing or a regular file ...
Look(g) ==
    /\ phase[g] = "replace"
    /\ overwrite[g]
    /\ dest \notin {Directory, Special}
    /\ To(g, "swap")
    /\ UNCHANGED <<active, temp, dest, recording, runVars, invalid, reader>>

\* ... and os.replace moves the recording over what is there by then; the
\* system refuses to rename a file over a directory, and nothing else.
Swap(g) ==
    /\ phase[g] = "swap"
    /\ dest # Directory
    /\ dest' = g
    /\ temp' = [temp EXCEPT ![g] = "none"]
    /\ To(g, "commit")
    /\ UNCHANGED <<active, recording, runVars, invalid, reader>>

\* Mistake: a failed publish takes its temporary directory with it.
ReplaceFailsAndRemoves(g) ==
    /\ phase[g] \in {"replace", "swap"}
    /\ Leave(g)
    /\ temp' = [temp EXCEPT ![g] = "none"]
    /\ invalid' = invalid \ {previous}
    /\ UNCHANGED <<overwrite, active, dest, recording, previous, committed, torn,
                   meddled, reader>>

\* publish raises: the old handle is valid again.
ReplaceFails(g) ==
    /\ phase[g] \in {"replace", "swap"}
    /\ Leave(g)
    /\ invalid' = invalid \ {previous}
    /\ UNCHANGED <<overwrite, active, temp, dest, recording, previous, committed, torn,
                   meddled, reader>>

Commit(g) ==
    /\ phase[g] = "commit"
    /\ committed' = committed \cup {g}
    /\ recording' = g
    /\ To(g, "cleanup")
    /\ UNCHANGED <<overwrite, active, temp, dest, previous, invalid, outcome, torn,
                   meddled, reader>>

\* An interrupt after the replacement: either publish has not returned yet, and
\* the old handle is revalidated, or it has, and there is no new handle.
CommitInterrupted(g) ==
    /\ phase[g] = "commit"
    /\ torn' = torn \cup {g}
    /\ Leave(g)
    /\ \/ invalid' = invalid \ {previous} /\ UNCHANGED committed
       \/ committed' = committed \cup {g} /\ UNCHANGED invalid
    /\ UNCHANGED <<overwrite, active, temp, dest, recording, previous, reader, meddled>>

\* cleanup_published only warns when it cannot remove the alias.
Cleanup(g, removed) ==
    /\ phase[g] = "cleanup"
    /\ temp' = [temp EXCEPT ![g] = IF removed THEN "none" ELSE @]
    /\ outcome' = [outcome EXCEPT ![g] = "ok"]
    /\ To(g, "finish")
    /\ UNCHANGED <<overwrite, active, dest, recording, previous, invalid, committed,
                   torn, meddled, reader>>

CleanupInterrupted(g) ==
    /\ phase[g] = "cleanup"
    /\ Leave(g)
    /\ UNCHANGED <<overwrite, active, temp, dest, recording, previous, invalid,
                   committed, torn, meddled, reader>>

\* _finish_run
Finish(g) ==
    /\ phase[g] = "finish"
    /\ active' = FALSE
    /\ To(g, "over")
    /\ UNCHANGED <<temp, dest, recording, runVars, invalid, reader>>

-----------------------------------------------------------------------------
(* Others *)

\* Somebody creates, replaces or removes what is at the output path before the
\* chain has published anything.
OutsiderChanges(thing) ==
    /\ dest \in Outside \ {thing}
    /\ dest' = thing
    /\ meddled' = meddled \cup {g \in Runs : phase[g] = "swap"}
    /\ UNCHANGED <<overwrite, phase, active, temp, recording, previous, invalid,
                   committed, outcome, torn, reader>>

Reading(r, state) ==
    /\ reader' = [reader EXCEPT ![r] = state]
    /\ UNCHANGED <<overwrite, phase, active, temp, dest, recording, previous, invalid,
                   committed, outcome, torn, meddled>>

\* chain.recording, which is not available during a run.
TakeHandle(r) ==
    /\ ~active
    /\ recording # NoRun
    /\ Reading(r, [stage |-> "held", handle |-> recording, source |-> NoFile])

\* _new_decoder checks the handle and opens the file in two steps.
Guard(r) ==
    /\ reader[r].stage = "held"
    /\ reader[r].handle \notin invalid
    /\ Reading(r, [reader[r] EXCEPT !.stage = "guarded"])

Open(r) ==
    /\ reader[r].stage = "guarded"
    /\ Reading(r, [reader[r] EXCEPT !.stage = "open", !.source = dest])

\* The iterator is exhausted or dropped; the handle is kept.
CloseDecoder(r) ==
    /\ reader[r].stage \in {"guarded", "open"}
    /\ Reading(r, [reader[r] EXCEPT !.stage = "held", !.source = NoFile])

Next ==
    \/ \E g \in Runs :
          \/ Start(g)
          \/ Begin(g)
          \/ \E created \in BOOLEAN : BeginFails(g, created)
          \/ RunFails(g)
          \/ Finalize(g)
          \/ FinalizeFails(g)
          \/ Invalidate(g)
          \/ PublishInterrupted(g)
          \/ Link(g)
          \/ Look(g)
          \/ Swap(g)
          \/ ReplaceFails(g)
          \/ Commit(g)
          \/ CommitInterrupted(g)
          \/ \E removed \in BOOLEAN : Cleanup(g, removed)
          \/ CleanupInterrupted(g)
          \/ Finish(g)
    \/ \E thing \in Outside : OutsiderChanges(thing)
    \/ \E r \in Readers : TakeHandle(r) \/ Guard(r) \/ Open(r) \/ CloseDecoder(r)

Spec == Init /\ [][Next]_vars

-----------------------------------------------------------------------------
(* Properties *)

\* Every variable has its type, and the flag of the active run is set exactly
\* while one iterator is inside its run.
TypeOK ==
    /\ overwrite \in [Runs -> BOOLEAN]
    /\ phase \in [Runs -> Phases]
    /\ temp \in [Runs -> {"none", "unfinalized", "finalized"}]
    /\ dest \in Runs \cup Outside
    /\ {recording, previous} \subseteq Runs \cup {NoRun}
    /\ invalid \cup committed \cup torn \cup meddled \subseteq Runs
    /\ outcome \in [Runs -> {"none", "refused", "failed", "ok"}]
    /\ reader \in [Readers -> [stage : {"idle", "held", "guarded", "open"},
                               handle : Runs \cup {NoRun},
                               source : Runs \cup Outside]]
    /\ Cardinality({g \in Runs : Inside(g)}) = IF active THEN 1 ELSE 0

\* A handle that still reads, whether it opens the file now or continues with a
\* decoder it has opened, reads the recording it was made for.
ReadsOwnRecording(r) ==
    reader[r].stage # "idle" /\ reader[r].handle \notin invalid =>
        /\ dest = reader[r].handle
        /\ reader[r].stage = "open" => reader[r].source = reader[r].handle

\* Readers never see the recording of a rerun through the handle of an earlier
\* run, unless a publication has been interrupted just after the replacement.
HandlesFollowTheirFile == torn = {} => \A r \in Readers : ReadsOwnRecording(r)

\* The documented promise: a handle is invalidated at the moment its file is
\* replaced, whatever happens to the run that replaces it.  An interrupt right after the
\* replacement breaks it (README, Findings), so no run checks it.
ReplacementInvalidates == \A r \in Readers : ReadsOwnRecording(r)

\* Between runs the chain's handle is readable and names what is at the output
\* path, whatever has failed since the run it belongs to.
RecordingIsReadable ==
    ~active /\ recording # NoRun /\ torn = {} => recording \notin invalid /\ dest = recording

\* Between runs the recording is readable; a run that has failed without
\* publishing has not touched the output path, and a bundle is gone from its
\* temporary directory only once it is at the output path.
FailureIsHarmless ==
    /\ []RecordingIsReadable
    /\ [](\A g \in Runs \ torn : outcome[g] = "failed" /\ g \notin committed => dest # g)
    /\ [][\A g \in Runs : temp[g] # "none" /\ temp'[g] = "none" => dest' = g]_vars

\* A run without authorization replaces nothing, whatever appears at the output
\* path and whenever.  An authorized run never replaces a directory; it replaces
\* a symlink or a device only if somebody put it there after the run had looked:
\* the check and the replacement are two calls (README, Findings).
DestinationIsProtected ==
    [][\A g \in Runs : dest' = g /\ dest # g =>
          /\ overwrite[g] \/ dest = NoFile
          /\ dest # Directory
          /\ dest = Special => g \in meddled]_vars

=============================================================================

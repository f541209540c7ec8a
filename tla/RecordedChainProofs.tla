------------------------ MODULE RecordedChainProofs ------------------------
(***************************************************************************)
(* For any number of runs and readers, a handle reads the recording it was *)
(* made for or nothing, a run that fails harms nothing, and the output     *)
(* path is replaced only with authorization.                               *)
(*                                                                         *)
(* The argument rests on the exclusion of runs: at most one is between its *)
(* start and its end, so the destination, the chain's handle and the       *)
(* handle that a publication invalidates are that run's to change.  From   *)
(* the invalidation to the commit no valid handle is left; before it and   *)
(* after it the one valid handle is the chain's, whose run owns the file.  *)
(***************************************************************************)
EXTENDS RecordedChain, FiniteSetTheorems, TLAPS

Types ==
    /\ overwrite \in [Runs -> BOOLEAN]
    /\ phase \in [Runs -> Phases]
    /\ active \in BOOLEAN
    /\ temp \in [Runs -> {"none", "unfinalized", "finalized"}]
    /\ dest \in Runs \cup Outside
    /\ {recording, previous} \subseteq Runs \cup {NoRun}
    /\ invalid \cup committed \cup torn \cup meddled \subseteq Runs
    /\ outcome \in [Runs -> {"none", "refused", "failed", "ok"}]
    /\ reader \in [Readers -> [stage : {"idle", "held", "guarded", "open"},
                               handle : Runs \cup {NoRun},
                               source : Runs \cup Outside]]

\* The flag excludes all runs but one.
OneRun ==
    /\ active => \E g \in Runs : Inside(g)
    /\ \A g \in Runs : Inside(g) => active
    /\ \A g, h \in Runs : Inside(g) /\ Inside(h) => g = h

Committing(g) == phase[g] = "commit"
Publishing(g) == phase[g] \in {"replace", "swap", "commit"}

\* How far a run is tells what its file, its outcome and its handle can be.
RunInv(g) ==
    /\ phase[g] \in {"new", "begin"} => temp[g] = "none"
    /\ phase[g] \notin {"finish", "over"} => outcome[g] = "none"
    /\ phase[g] \in {"commit", "cleanup"} => dest = g
    /\ g \in invalid \/ g = recording => phase[g] \in {"cleanup", "finish", "over"}
    /\ dest = g => g \in committed \cup torn \/ Committing(g)
    /\ Publishing(g) => previous = recording /\ {recording} \ {NoRun} \subseteq invalid
    /\ phase[g] = "swap" => overwrite[g] /\ (dest = Special => g \in meddled)

\* The chain's handle is valid and owns the file, but while a run publishes.
ChainInv ==
    recording # NoRun =>
        /\ dest = recording \/ \E g \in Runs : Committing(g)
        /\ recording \notin invalid \/ \E g \in Runs : Publishing(g)

ReaderInv(r) ==
    reader[r].stage # "idle" =>
        /\ reader[r].handle \in Runs
        /\ reader[r].handle = recording \/ reader[r].handle \in invalid
        /\ reader[r].stage = "open" /\ reader[r].handle = recording /\ dest = recording =>
              reader[r].source = reader[r].handle

IInv ==
    /\ Types
    /\ OneRun
    /\ \A g \in Runs : RunInv(g)
    /\ torn = {} => ChainInv /\ \A r \in Readers : ReaderInv(r)

\* Runs are told apart from everything else a name may stand for.
LEMMA Distinct ==
    /\ NoRun \notin Runs
    /\ \A thing \in Outside : thing \notin Runs
    /\ {NoFile, Foreign, Directory, Special} = Outside
    /\ NoFile # Special /\ Directory # Special /\ Foreign # Special
BY RunsAssumption DEF NoRun, NoFile, Foreign, Directory, Special, Outside

LEMMA InitHolds ==
    ASSUME Init
    PROVE  IInv
<1>1. Types
    BY Distinct DEF Init, Types, Phases, Idle
<1>2. OneRun
    BY DEF Init, OneRun, Inside
<1>3. ASSUME NEW g \in Runs
      PROVE  RunInv(g)
    BY Distinct DEF Init, RunInv, Committing, Publishing
<1>4. ChainInv /\ \A r \in Readers : ReaderInv(r)
    BY DEF Init, ChainInv, ReaderInv, Idle
<1>5. QED
    BY <1>1, <1>2, <1>3, <1>4 DEF IInv

-----------------------------------------------------------------------------
(* Steps of runs *)

\* The run inside keeps the others out while it moves on.
LEMMA MovingOn ==
    ASSUME Types, OneRun, NEW g \in Runs, Inside(g),
           NEW step \in Phases \ {"new", "over"}, To(g, step), active' = active
    PROVE  OneRun'
BY DEF Types, OneRun, Inside, To

LEMMA StartHolds ==
    ASSUME IInv, NEW g \in Runs, Start(g)
    PROVE  IInv'
<1>1. /\ phase[g] = "new"
      /\ UNCHANGED <<overwrite, temp, dest, recording, previous, invalid, committed,
                     torn, meddled, reader>>
    BY DEF Start
<1>2. \/ active /\ active' = active /\ To(g, "over") /\ outcome' = [outcome EXCEPT ![g] = "refused"]
      \/ ~active /\ active' = TRUE /\ To(g, "begin") /\ outcome' = outcome
    BY DEF Start
<1>3. Types'
    BY <1>1, <1>2 DEF IInv, Types, Phases, To
<1>4. OneRun'
    BY <1>1, <1>2 DEF IInv, Types, OneRun, Inside, To
<1>5. ASSUME NEW h \in Runs
      PROVE  RunInv(h)'
    BY <1>1, <1>2 DEF IInv, Types, RunInv, Committing, Publishing, To
<1>6. torn' = {} => ChainInv' /\ \A r \in Readers : ReaderInv(r)'
    BY <1>1, <1>2 DEF IInv, Types, ChainInv, ReaderInv, Committing, Publishing, To
<1>7. QED
    BY <1>3, <1>4, <1>5, <1>6 DEF IInv

\* Up to the publication a run changes nothing but its own temporary file.
LEMMA WorkingHolds ==
    ASSUME IInv, NEW g \in Runs, phase[g] \in {"begin", "running"},
           NEW step \in {"running", "publish", "finish"}, To(g, step),
           outcome' \in {outcome, [outcome EXCEPT ![g] = "failed"]},
           outcome' # outcome => step = "finish",
           NEW file \in {"none", "unfinalized", "finalized"}, temp' = [temp EXCEPT ![g] = file],
           UNCHANGED <<overwrite, active, dest, recording, previous, invalid, committed,
                       torn, meddled, reader>>
    PROVE  IInv'
<1>1. Types'
    BY DEF IInv, Types, Phases, To
<1>2. OneRun'
    BY MovingOn DEF IInv, Inside, Phases
<1>3. ASSUME NEW h \in Runs
      PROVE  RunInv(h)'
    BY DEF IInv, Types, RunInv, Committing, Publishing, To
<1>4. torn' = {} => ChainInv' /\ \A r \in Readers : ReaderInv(r)'
    BY DEF IInv, Types, ChainInv, ReaderInv, Committing, Publishing, To
<1>5. QED
    BY <1>1, <1>2, <1>3, <1>4 DEF IInv

LEMMA WorkHolds ==
    ASSUME IInv, NEW g \in Runs,
           \/ Begin(g)
           \/ \E created \in BOOLEAN : BeginFails(g, created)
           \/ RunFails(g)
           \/ Finalize(g)
           \/ FinalizeFails(g)
    PROVE  IInv'
<1>1. CASE Begin(g)
    BY <1>1, WorkingHolds DEF Begin, runVars
<1>2. CASE \E created \in BOOLEAN : BeginFails(g, created)
    BY <1>2, WorkingHolds DEF BeginFails, Leave
<1>3. CASE RunFails(g)
    <2>1. temp' = [temp EXCEPT ![g] = temp[g]] /\ temp[g] \in {"none", "unfinalized", "finalized"}
        BY <1>3 DEF RunFails, IInv, Types
    <2>2. QED
        BY <1>3, <2>1, WorkingHolds DEF RunFails, Leave
<1>4. CASE Finalize(g)
    BY <1>4, WorkingHolds DEF Finalize, runVars
<1>5. CASE FinalizeFails(g)
    BY <1>5, WorkingHolds DEF FinalizeFails, Leave
<1>6. QED
    BY <1>1, <1>2, <1>3, <1>4, <1>5


LEMMA InvalidateHolds ==
    ASSUME IInv, NEW g \in Runs, Invalidate(g)
    PROVE  IInv'
<1>1. /\ phase[g] = "publish" /\ To(g, "replace")
      /\ previous' = recording
      /\ invalid' = invalid \cup ({recording} \ {NoRun})
      /\ UNCHANGED <<overwrite, active, temp, dest, recording, committed, outcome, torn,
                     meddled, reader>>
    BY DEF Invalidate
<1>2. Types'
    BY <1>1 DEF IInv, Types, Phases, To
<1>3. OneRun'
    BY <1>1, MovingOn DEF IInv, Inside, Phases
<1>4. ASSUME NEW h \in Runs
      PROVE  RunInv(h)'
    <2>1. CASE h = g
        BY <1>1, <2>1 DEF IInv, Types, RunInv, Committing, Publishing, To
    <2>2. CASE h # g
        <3>1. phase'[h] = phase[h] /\ ~Publishing(h)
            BY <1>1, <2>2 DEF IInv, Types, OneRun, Inside, Publishing, To
        <3>2. QED
            BY <1>1, <2>2, <3>1 DEF IInv, Types, RunInv, Committing, Publishing
    <2>3. QED
        BY <2>1, <2>2
<1>5. ASSUME torn' = {}
      PROVE  ChainInv' /\ \A r \in Readers : ReaderInv(r)'
    <2>1. ChainInv /\ (\A r \in Readers : ReaderInv(r)) /\ Publishing(g)'
        BY <1>1, <1>5 DEF IInv, Types, Publishing, To
    <2>2. \A h \in Runs : Committing(h) => Committing(h)'
        BY <1>1 DEF IInv, Types, Committing, To
    <2>3. QED
        BY <1>1, <2>1, <2>2 DEF ChainInv, ReaderInv
<1>6. QED
    BY <1>2, <1>3, <1>4, <1>5 DEF IInv

\* A publication that ends in an interrupt voids only what is said of untorn runs.
LEMMA TornHolds ==
    ASSUME IInv, NEW g \in Runs, PublishInterrupted(g) \/ CommitInterrupted(g)
    PROVE  IInv'
<1>1. /\ Publishing(g)
      /\ phase' = [phase EXCEPT ![g] = "finish"]
      /\ outcome' = [outcome EXCEPT ![g] = "failed"]
      /\ torn' = torn \cup {g}
      /\ committed' \in {committed, committed \cup {g}}
      /\ invalid' \in {invalid, invalid \ {previous}}
      /\ UNCHANGED <<overwrite, active, temp, dest, recording, previous, reader,
                     meddled>>
    BY DEF PublishInterrupted, CommitInterrupted, Leave, To, Publishing
<1>2. Types'
    BY <1>1 DEF IInv, Types, Phases
<1>3. OneRun'
    BY <1>1, MovingOn DEF IInv, Inside, Phases, Publishing, To
<1>4. ASSUME NEW h \in Runs
      PROVE  RunInv(h)'
    <2>1. CASE h = g
        BY <1>1, <2>1 DEF IInv, Types, RunInv, Committing, Publishing
    <2>2. CASE h # g
        <3>1. phase'[h] = phase[h] /\ ~Publishing(h)
            BY <1>1, <2>2 DEF IInv, Types, OneRun, Inside, Publishing
        <3>2. QED
            BY <1>1, <2>2, <3>1 DEF IInv, Types, RunInv, Committing, Publishing
    <2>3. QED
        BY <2>1, <2>2
<1>5. torn' # {}
    BY <1>1
<1>6. QED
    BY <1>2, <1>3, <1>4, <1>5 DEF IInv

\* Before the replacement no run is past it, so the file is still the one the
\* chain's handle is for.
LEMMA FileBeforeReplacement ==
    ASSUME IInv, NEW g \in Runs, phase[g] \in {"replace", "swap"}
    PROVE  /\ \A h \in Runs : ~Committing(h)
           /\ \A h \in Runs \ {g} : ~Publishing(h)
           /\ torn = {} /\ recording # NoRun => dest = recording
BY DEF IInv, OneRun, Inside, Committing, Publishing, ChainInv

\* A look changes nothing; what it finds may be replaced.
LEMMA LookHolds ==
    ASSUME IInv, NEW g \in Runs, Look(g)
    PROVE  IInv'
<1>1. /\ phase[g] = "replace" /\ phase' = [phase EXCEPT ![g] = "swap"]
      /\ overwrite[g] /\ dest # Special
      /\ UNCHANGED <<overwrite, active, temp, dest, recording, previous, invalid,
                     committed, outcome, torn, meddled, reader>>
    BY DEF Look, To, runVars
<1>2. Types'
    BY <1>1 DEF IInv, Types, Phases
<1>3. OneRun'
    BY <1>1, MovingOn DEF IInv, Inside, Phases, To
<1>4. ASSUME NEW h \in Runs
      PROVE  RunInv(h)'
    BY <1>1 DEF IInv, Types, RunInv, Committing, Publishing
<1>5. torn' = {} => ChainInv' /\ \A r \in Readers : ReaderInv(r)'
    BY <1>1 DEF IInv, Types, ChainInv, ReaderInv, Committing, Publishing
<1>6. QED
    BY <1>2, <1>3, <1>4, <1>5 DEF IInv

LEMMA ReplaceHolds ==
    ASSUME IInv, NEW g \in Runs, Link(g) \/ Swap(g)
    PROVE  IInv'
<1>1. /\ phase[g] \in {"replace", "swap"} /\ phase' = [phase EXCEPT ![g] = "commit"]
      /\ dest' = g
      /\ temp' \in {temp, [temp EXCEPT ![g] = "none"]}
      /\ UNCHANGED <<overwrite, active, recording, previous, invalid, committed,
                     outcome, torn, meddled, reader>>
    BY DEF Link, Swap, To, runVars
<1>2. Types'
    BY <1>1 DEF IInv, Types, Phases
<1>3. OneRun'
    BY <1>1, MovingOn DEF IInv, Inside, Phases, To
<1>4. ASSUME NEW h \in Runs
      PROVE  RunInv(h)'
    <2>1. CASE h = g
        BY <1>1, <2>1 DEF IInv, Types, RunInv, Committing, Publishing
    <2>2. CASE h # g
        <3>1. phase'[h] = phase[h] /\ ~Inside(h)
            BY <1>1, <2>2 DEF IInv, Types, OneRun, Inside
        <3>2. QED
            BY <1>1, <2>2, <3>1 DEF IInv, Types, RunInv, Committing, Publishing, Inside
    <2>3. QED
        BY <2>1, <2>2
<1>5. ASSUME torn' = {}
      PROVE  ChainInv' /\ \A r \in Readers : ReaderInv(r)'
    <2>1. Committing(g)' /\ Publishing(g)' /\ dest' # recording
        BY <1>1, Distinct DEF IInv, Types, RunInv, Committing, Publishing
    <2>2. QED
        BY <1>1, <1>5, <2>1 DEF IInv, ChainInv, ReaderInv
<1>6. QED
    BY <1>2, <1>3, <1>4, <1>5 DEF IInv

LEMMA ReplaceFailsHolds ==
    ASSUME IInv, NEW g \in Runs, ReplaceFails(g)
    PROVE  IInv'
<1>1. /\ phase[g] \in {"replace", "swap"} /\ phase' = [phase EXCEPT ![g] = "finish"]
      /\ outcome' = [outcome EXCEPT ![g] = "failed"]
      /\ invalid' = invalid \ {previous}
      /\ UNCHANGED <<overwrite, active, temp, dest, recording, previous, committed,
                     torn, meddled, reader>>
    BY DEF ReplaceFails, Leave, To
<1>2. Types'
    BY <1>1 DEF IInv, Types, Phases
<1>3. OneRun'
    BY <1>1, MovingOn DEF IInv, Inside, Phases, To
<1>4. \A h \in Runs \ {g} : phase'[h] = phase[h] /\ ~Publishing(h)
    BY <1>1, FileBeforeReplacement DEF IInv, Types
<1>5. ASSUME NEW h \in Runs
      PROVE  RunInv(h)'
    <2>1. CASE h = g
        BY <1>1, <2>1 DEF IInv, Types, RunInv, Committing, Publishing
    <2>2. CASE h # g
        BY <1>1, <1>4, <2>2 DEF IInv, Types, RunInv, Committing, Publishing
    <2>3. QED
        BY <2>1, <2>2
<1>6. ASSUME torn' = {}
      PROVE  ChainInv' /\ \A r \in Readers : ReaderInv(r)'
    <2>1. previous = recording /\ (recording # NoRun => dest = recording)
        BY <1>1, <1>6, FileBeforeReplacement DEF IInv, RunInv, Publishing
    <2>2. ChainInv'
        BY <1>1, <2>1 DEF ChainInv
    <2>3. ASSUME NEW r \in Readers
          PROVE  ReaderInv(r)'
        BY <1>1, <1>6, <2>1 DEF IInv, ReaderInv
    <2>4. QED
        BY <2>2, <2>3
<1>7. QED
    BY <1>2, <1>3, <1>5, <1>6 DEF IInv

\* The commit finds no valid handle and makes the only one.
LEMMA CommitHolds ==
    ASSUME IInv, NEW g \in Runs, Commit(g)
    PROVE  IInv'
<1>1. /\ phase[g] = "commit" /\ phase' = [phase EXCEPT ![g] = "cleanup"]
      /\ committed' = committed \cup {g}
      /\ recording' = g
      /\ UNCHANGED <<overwrite, active, temp, dest, previous, invalid, outcome, torn,
                     meddled, reader>>
    BY DEF Commit, To
<1>2. Types'
    BY <1>1 DEF IInv, Types, Phases
<1>3. OneRun'
    BY <1>1, MovingOn DEF IInv, Inside, Phases, To
<1>4. \A h \in Runs \ {g} : phase'[h] = phase[h] /\ ~Inside(h)
    BY <1>1 DEF IInv, Types, OneRun, Inside
<1>5. ASSUME NEW h \in Runs
      PROVE  RunInv(h)'
    <2>1. CASE h = g
        BY <1>1, <2>1 DEF IInv, Types, RunInv, Committing, Publishing
    <2>2. CASE h # g
        BY <1>1, <1>4, <2>2 DEF IInv, Types, RunInv, Committing, Publishing, Inside
    <2>3. QED
        BY <2>1, <2>2
<1>6. ASSUME torn' = {}
      PROVE  ChainInv' /\ \A r \in Readers : ReaderInv(r)'
    <2>1. /\ dest = g /\ g \notin invalid
          /\ \A r \in Readers : ReaderInv(r)
          /\ {recording} \ {NoRun} \subseteq invalid
        BY <1>1, <1>6 DEF IInv, RunInv, Publishing
    <2>2. ChainInv'
        BY <1>1, <2>1 DEF ChainInv
    <2>3. ASSUME NEW r \in Readers
          PROVE  ReaderInv(r)'
        BY <1>1, <2>1, Distinct DEF ReaderInv
    <2>4. QED
        BY <2>2, <2>3
<1>7. QED
    BY <1>2, <1>3, <1>5, <1>6 DEF IInv

\* After the commit a run only ends.
LEMMA EndHolds ==
    ASSUME IInv, NEW g \in Runs,
           \/ \E removed \in BOOLEAN : Cleanup(g, removed)
           \/ CleanupInterrupted(g)
    PROVE  IInv'
<1>1. /\ phase[g] = "cleanup" /\ phase' = [phase EXCEPT ![g] = "finish"]
      /\ \E end \in {"ok", "failed"} : outcome' = [outcome EXCEPT ![g] = end]
      /\ temp' \in {temp, [temp EXCEPT ![g] = "none"]}
      /\ UNCHANGED <<overwrite, active, dest, recording, previous, invalid, committed,
                     torn, meddled, reader>>
    BY DEF Cleanup, CleanupInterrupted, Leave, To, IInv, Types
<1>2. Types'
    BY <1>1 DEF IInv, Types, Phases
<1>3. OneRun'
    BY <1>1, MovingOn DEF IInv, Inside, Phases, To
<1>4. ASSUME NEW h \in Runs
      PROVE  RunInv(h)'
    BY <1>1 DEF IInv, Types, RunInv, Committing, Publishing
<1>5. torn' = {} => ChainInv' /\ \A r \in Readers : ReaderInv(r)'
    BY <1>1 DEF IInv, Types, ChainInv, ReaderInv, Committing, Publishing
<1>6. QED
    BY <1>2, <1>3, <1>4, <1>5 DEF IInv

LEMMA FinishHolds ==
    ASSUME IInv, NEW g \in Runs, Finish(g)
    PROVE  IInv'
<1>1. /\ phase[g] = "finish" /\ phase' = [phase EXCEPT ![g] = "over"]
      /\ active' = FALSE
      /\ UNCHANGED <<overwrite, temp, dest, recording, previous, invalid, committed,
                     outcome, torn, meddled, reader>>
    BY DEF Finish, To, runVars
<1>2. Types'
    BY <1>1 DEF IInv, Types, Phases
<1>3. OneRun'
    BY <1>1 DEF IInv, Types, OneRun, Inside
<1>4. ASSUME NEW h \in Runs
      PROVE  RunInv(h)'
    BY <1>1 DEF IInv, Types, RunInv, Committing, Publishing
<1>5. torn' = {} => ChainInv' /\ \A r \in Readers : ReaderInv(r)'
    BY <1>1 DEF IInv, Types, ChainInv, ReaderInv, Committing, Publishing
<1>6. QED
    BY <1>2, <1>3, <1>4, <1>5 DEF IInv

-----------------------------------------------------------------------------
(* Steps of others *)

\* Others change the output path only where the chain has nothing, and whoever
\* is about to replace what was there is noted.
LEMMA OutsiderHolds ==
    ASSUME IInv, NEW thing \in Outside, OutsiderChanges(thing)
    PROVE  IInv'
<1>1. /\ dest \in Outside /\ dest' = thing
      /\ meddled' = meddled \cup {g \in Runs : phase[g] = "swap"}
      /\ UNCHANGED <<overwrite, phase, active, temp, recording, previous, invalid,
                     committed, outcome, torn, reader>>
    BY DEF OutsiderChanges
<1>2. Types' /\ OneRun'
    BY <1>1 DEF IInv, Types, OneRun, Inside
<1>3. ASSUME NEW h \in Runs
      PROVE  RunInv(h)'
    BY <1>1, Distinct DEF IInv, RunInv, Committing, Publishing
<1>4. ASSUME torn' = {}
      PROVE  ChainInv' /\ \A r \in Readers : ReaderInv(r)'
    <2>1. recording = NoRun
        BY <1>1, <1>4, Distinct DEF IInv, Types, ChainInv, RunInv, Committing
    <2>2. QED
        BY <1>1, <1>4, <2>1, Distinct DEF IInv, ChainInv, ReaderInv
<1>5. QED
    BY <1>2, <1>3, <1>4 DEF IInv

LEMMA ReaderHolds ==
    ASSUME IInv, NEW r \in Readers, TakeHandle(r) \/ Guard(r) \/ Open(r) \/ CloseDecoder(r)
    PROVE  IInv'
<1>1. UNCHANGED <<overwrite, phase, active, temp, dest, recording, previous, invalid,
                  committed, outcome, torn, meddled>>
    BY DEF TakeHandle, Guard, Open, CloseDecoder, Reading
<1>2. PICK state : reader' = [reader EXCEPT ![r] = state]
    BY DEF TakeHandle, Guard, Open, CloseDecoder, Reading
<1>3. reader[r] \in [stage : {"idle", "held", "guarded", "open"},
                     handle : Runs \cup {NoRun},
                     source : Runs \cup Outside]
    BY DEF IInv, Types
<1>4. reader'[r] = state
    BY <1>2 DEF IInv, Types
<1>5. /\ state \in [stage : {"idle", "held", "guarded", "open"},
                     handle : Runs \cup {NoRun},
                     source : Runs \cup Outside]
      /\ torn = {} => ReaderInv(r)'
    <2>1. CASE TakeHandle(r)
        <3>1. state = [stage |-> "held", handle |-> recording, source |-> NoFile]
            BY <1>4, <2>1 DEF TakeHandle, Reading, IInv, Types
        <3>2. recording \in Runs
            BY <2>1 DEF TakeHandle, IInv, Types
        <3>3. QED
            BY <1>1, <1>4, <3>1, <3>2 DEF ReaderInv, Outside
    <2>2. CASE Guard(r)
        <3>1. state = [reader[r] EXCEPT !.stage = "guarded"] /\ reader[r].stage = "held"
            BY <1>4, <2>2 DEF Guard, Reading, IInv, Types
        <3>2. QED
            BY <1>1, <1>3, <1>4, <3>1 DEF IInv, ReaderInv
    <2>3. CASE Open(r)
        <3>1. /\ state = [reader[r] EXCEPT !.stage = "open", !.source = dest]
              /\ reader[r].stage = "guarded" /\ dest \in Runs \cup Outside
            BY <1>4, <2>3 DEF Open, Reading, IInv, Types
        <3>2. QED
            BY <1>1, <1>3, <1>4, <3>1 DEF IInv, ReaderInv
    <2>4. CASE CloseDecoder(r)
        <3>1. /\ state = [reader[r] EXCEPT !.stage = "held", !.source = NoFile]
              /\ reader[r].stage \in {"guarded", "open"}
            BY <1>4, <2>4 DEF CloseDecoder, Reading, IInv, Types
        <3>2. QED
            BY <1>1, <1>3, <1>4, <3>1 DEF IInv, ReaderInv, Outside
    <2>5. QED
        BY <2>1, <2>2, <2>3, <2>4
<1>6. Types' /\ OneRun'
    BY <1>1, <1>2, <1>5 DEF IInv, Types, OneRun, Inside
<1>7. ASSUME NEW h \in Runs
      PROVE  RunInv(h)'
    BY <1>1 DEF IInv, RunInv, Committing, Publishing
<1>8. ASSUME torn' = {}
      PROVE  ChainInv' /\ \A q \in Readers : ReaderInv(q)'
    <2>1. ChainInv'
        BY <1>1, <1>8 DEF IInv, ChainInv, Committing, Publishing
    <2>2. ASSUME NEW q \in Readers, q # r
          PROVE  ReaderInv(q)'
        BY <1>1, <1>2, <1>8, <2>2 DEF IInv, Types, ReaderInv
    <2>3. QED
        BY <1>1, <1>5, <1>8, <2>1, <2>2
<1>9. QED
    BY <1>6, <1>7, <1>8 DEF IInv


LEMMA NextHolds ==
    ASSUME IInv, [Next]_vars
    PROVE  IInv'
<1>1. CASE UNCHANGED vars
    BY <1>1 DEF vars, IInv, Types, OneRun, RunInv, ChainInv, ReaderInv, Inside, Committing,
                Publishing
<1>2. QED
    BY <1>1, StartHolds, WorkHolds, InvalidateHolds, TornHolds, LookHolds, ReplaceHolds,
       ReplaceFailsHolds, CommitHolds, EndHolds, FinishHolds, OutsiderHolds, ReaderHolds
       DEF Next

LEMMA Invariance == Spec => []IInv
<1>1. Init => IInv
    BY InitHolds
<1>2. IInv /\ [Next]_vars => IInv'
    BY NextHolds
<1>3. QED
    BY <1>1, <1>2, PTL DEF Spec

-----------------------------------------------------------------------------
(* The theorems *)

\* Every variable has its type, and the flag is set exactly while one run is
\* inside.
THEOREM TypesHold == Spec => []TypeOK
<1>1. IInv => TypeOK
    <2> SUFFICES ASSUME IInv
                 PROVE  TypeOK
        OBVIOUS
    <2>1. Cardinality({g \in Runs : Inside(g)}) = IF active THEN 1 ELSE 0
        <3>1. CASE active
            <4>1. PICK g \in Runs : Inside(g)
                BY <3>1 DEF IInv, OneRun
            <4>2. {h \in Runs : Inside(h)} = {g}
                BY <4>1 DEF IInv, OneRun
            <4>3. QED
                BY <3>1, <4>2, FS_Singleton
        <3>2. CASE ~active
            <4>1. {h \in Runs : Inside(h)} = {}
                BY <3>2 DEF IInv, OneRun
            <4>2. QED
                BY <3>2, <4>1, FS_EmptySet
        <3>3. QED
            BY <3>1, <3>2
    <2>2. QED
        BY <2>1 DEF IInv, Types, TypeOK
<1>2. QED
    BY <1>1, Invariance, PTL

\* A reader never sees the recording of another run through its handle, unless
\* a publication was interrupted where its handler does not cover it.
THEOREM HandlesReadTheirRecording == Spec => []HandlesFollowTheirFile
<1>1. IInv => HandlesFollowTheirFile
    <2> SUFFICES ASSUME IInv, torn = {}, NEW r \in Readers,
                        reader[r].stage # "idle", reader[r].handle \notin invalid
                 PROVE  /\ dest = reader[r].handle
                        /\ reader[r].stage = "open" => reader[r].source = reader[r].handle
        BY DEF HandlesFollowTheirFile, ReadsOwnRecording
    <2>1. recording = reader[r].handle /\ recording \in Runs /\ recording # NoRun
        BY Distinct DEF IInv, ReaderInv
    <2>2. \A g \in Runs : ~Committing(g)
        BY <2>1 DEF IInv, RunInv, Committing, Publishing
    <2>3. dest = recording
        BY <2>1, <2>2 DEF IInv, ChainInv
    <2>4. QED
        BY <2>1, <2>3 DEF IInv, ReaderInv
<1>2. QED
    BY <1>1, Invariance, PTL

LEMMA RecordingStaysReadable == IInv => RecordingIsReadable
BY DEF IInv, OneRun, Inside, Committing, Publishing, ChainInv, RecordingIsReadable

LEMMA FailuresDoNotPublish ==
    IInv => \A g \in Runs \ torn : outcome[g] = "failed" /\ g \notin committed => dest # g
BY DEF IInv, RunInv, Committing

\* A bundle leaves its temporary directory for the output path, or as an alias of
\* what is there.
LEMMA BundlesAreKept ==
    ASSUME IInv, [Next]_vars, NEW g \in Runs, temp[g] # "none", temp'[g] = "none"
    PROVE  dest' = g
<1>1. CASE UNCHANGED vars
    BY <1>1 DEF vars
<1>2. CASE \E h \in Runs : Link(h) \/ Swap(h)
    BY <1>2 DEF Link, Swap, IInv, Types
<1>3. CASE \E h \in Runs : \E removed \in BOOLEAN : Cleanup(h, removed)
    BY <1>3 DEF Cleanup, IInv, Types, RunInv
<1>4. CASE \E h \in Runs : \E created \in BOOLEAN : BeginFails(h, created)
    BY <1>4 DEF BeginFails, IInv, Types, RunInv
<1>5. CASE \E h \in Runs : Begin(h) \/ Finalize(h) \/ FinalizeFails(h)
    BY <1>5 DEF Begin, Finalize, FinalizeFails, IInv, Types
<1>6. CASE \E h \in Runs : \/ Start(h) \/ RunFails(h) \/ Invalidate(h) \/ PublishInterrupted(h)
                          \/ Look(h) \/ ReplaceFails(h) \/ Commit(h)
                          \/ CommitInterrupted(h) \/ CleanupInterrupted(h) \/ Finish(h)
    BY <1>6 DEF Start, Look, RunFails, Invalidate, PublishInterrupted, ReplaceFails, Commit,
                CommitInterrupted, CleanupInterrupted, Finish
<1>7. CASE \/ \E thing \in Outside : OutsiderChanges(thing)
           \/ \E r \in Readers : TakeHandle(r) \/ Guard(r) \/ Open(r) \/ CloseDecoder(r)
    BY <1>7 DEF OutsiderChanges, TakeHandle, Guard, Open, CloseDecoder, Reading
<1>8. QED
    BY <1>1, <1>2, <1>3, <1>4, <1>5, <1>6, <1>7 DEF Next

\* A run that fails leaves the output path, the chain's handle and its bundle as
\* the next run and the caller need them.
THEOREM FailuresAreHarmless == Spec => FailureIsHarmless
<1>1. IInv /\ [Next]_vars =>
         [\A g \in Runs : temp[g] # "none" /\ temp'[g] = "none" => dest' = g]_vars
    BY BundlesAreKept
<1>2. QED
    BY <1>1, Invariance, RecordingStaysReadable, FailuresDoNotPublish, PTL
       DEF Spec, FailureIsHarmless

\* Only a publication puts a recording under the output path.
LEMMA OnlyPublicationsWrite ==
    ASSUME Types, [Next]_vars, NEW g \in Runs, dest' = g, dest # g
    PROVE  Link(g) \/ Swap(g)
<1>1. dest' # dest /\ dest' \notin Outside
    BY Distinct
<1>2. CASE UNCHANGED vars
    BY <1>1, <1>2 DEF vars
<1>3. CASE \E h \in Runs :
              \/ Start(h) \/ Begin(h) \/ (\E created \in BOOLEAN : BeginFails(h, created))
              \/ RunFails(h) \/ Finalize(h) \/ FinalizeFails(h) \/ Invalidate(h)
              \/ PublishInterrupted(h) \/ Look(h) \/ ReplaceFails(h) \/ Commit(h)
              \/ CommitInterrupted(h) \/ (\E removed \in BOOLEAN : Cleanup(h, removed))
              \/ CleanupInterrupted(h) \/ Finish(h)
    BY <1>1, <1>3 DEF Start, Begin, BeginFails, RunFails, Finalize, FinalizeFails, Invalidate,
                      PublishInterrupted, Look, ReplaceFails, Commit, CommitInterrupted,
                      Cleanup, CleanupInterrupted, Finish
<1>4. CASE \E h \in Runs : Link(h) \/ Swap(h)
    BY <1>4 DEF Link, Swap
<1>5. CASE \/ \E thing \in Outside : OutsiderChanges(thing)
           \/ \E r \in Readers : TakeHandle(r) \/ Guard(r) \/ Open(r) \/ CloseDecoder(r)
    BY <1>1, <1>5 DEF OutsiderChanges, TakeHandle, Guard, Open, CloseDecoder, Reading
<1>6. QED
    BY <1>2, <1>3, <1>4, <1>5 DEF Next

\* A run without authorization replaces nothing; one with it replaces no
\* directory, and a symlink or a device only if somebody has put it there since
\* the run looked.
THEOREM DestinationsAreProtected == Spec => DestinationIsProtected
<1>1. IInv /\ [Next]_vars =>
         [\A g \in Runs : dest' = g /\ dest # g =>
             /\ overwrite[g] \/ dest = NoFile
             /\ dest # Directory
             /\ dest = Special => g \in meddled]_vars
    <2> SUFFICES ASSUME IInv, [Next]_vars, NEW g \in Runs, dest' = g, dest # g
                 PROVE  /\ overwrite[g] \/ dest = NoFile
                        /\ dest # Directory
                        /\ dest = Special => g \in meddled
        OBVIOUS
    <2>1. CASE Link(g)
        BY <2>1 DEF Link, NoFile, Directory, Special
    <2>2. CASE Swap(g)
        BY <2>2 DEF Swap, IInv, RunInv
    <2>3. QED
        BY <2>1, <2>2, OnlyPublicationsWrite DEF IInv
<1>2. QED
    BY <1>1, Invariance, PTL DEF Spec, DestinationIsProtected

=============================================================================

--------------------------- MODULE RunnerSession ---------------------------
(***************************************************************************)
(* RunnerSession (gerrytools/mgrp/run_container.py): a with block owns one *)
(* Docker container and runs engine commands in it, either to the end      *)
(* (run) or as generators that the caller drives, leaves suspended or      *)
(* closes (run_iter, mcmc_run_with_updaters).  A session may be entered    *)
(* again after it has been left.                                           *)
(*                                                                         *)
(* Python is one thread and so is every action here; the engines run on    *)
(* their own.  A call to Docker may fail or be interrupted after it has    *)
(* had its effect.  The files that engines write are OutputRecovery's.     *)
(***************************************************************************)
EXTENDS Integers, FiniteSets

CONSTANTS
    Containers,     \* containers Docker may create
    Commands        \* calls of run and of the generator methods

ASSUME SessionAssumption == 0 \notin Containers /\ Containers \cap Commands = {}

VARIABLES
    inside,     \* is the with block being executed?
    client,     \* is self.client set?
    container,  \* self.container, 0 for None
    docker,     \* what Docker knows of every container
    kind,       \* "run" or "iterate"
    phase,      \* where the Python side of a command is
    home,       \* the container a command was started in
    engine,     \* does the engine of a command run?
    excused     \* history: containers and commands that Docker calls failed on

sessionVars == <<inside, client, container, docker, kind, phase, home, engine, excused>>

withVars == <<inside, client, container>>
commandVars == <<kind, phase, home>>

-----------------------------------------------------------------------------

SessionInit ==
    /\ inside = FALSE
    /\ client = FALSE
    /\ container = 0
    /\ docker = [c \in Containers |-> "unknown"]
    /\ kind \in [Commands -> {"run", "iterate"}]
    /\ phase = [e \in Commands |-> "new"]
    /\ home = [e \in Commands |-> 0]
    /\ engine = [e \in Commands |-> FALSE]
    /\ excused = {}

\* run returns to its caller only when it is over.
CallerHasControl == \A e \in Commands : ~(kind[e] = "run" /\ phase[e] = "streaming")

\* remove(force=True) ends the engines of a container; it may fail.
RemoveContainer(c, removed) ==
    IF removed
    THEN /\ docker' = [docker EXCEPT ![c] = "removed"]
         /\ engine' = [e \in Commands |-> engine[e] /\ home[e] # c]
         /\ UNCHANGED excused
    ELSE /\ excused' = excused \cup {c}
         /\ UNCHANGED <<docker, engine>>

-----------------------------------------------------------------------------
(* __enter__ and __exit__ *)

\* The client cannot connect, the volumes cannot be configured, the pull is
\* interrupted or create fails: the client is closed again.  An interrupted
\* create may have made a container that nobody has a reference to.
EnterFails(c) ==
    /\ ~inside
    /\ docker[c] = "unknown"
    /\ docker' = [docker EXCEPT ![c] = "created"]
    /\ excused' = excused \cup {c}
    /\ container' = 0
    /\ client' = FALSE
    /\ UNCHANGED <<inside, commandVars, engine>>

\* Mistake: the created container is forgotten.
StartFailsForgetful(c, removed) ==
    /\ ~inside
    /\ docker[c] = "unknown"
    /\ docker' = [docker EXCEPT ![c] = "created"]
    /\ container' = 0
    /\ client' = FALSE
    /\ UNCHANGED <<inside, commandVars, engine, excused>>

\* start fails or is interrupted: the container is removed again.
StartFails(c, removed) ==
    /\ ~inside
    /\ docker[c] = "unknown"
    /\ docker' = [docker EXCEPT ![c] = IF removed THEN "removed" ELSE "created"]
    /\ excused' = IF removed THEN excused ELSE excused \cup {c}
    /\ container' = 0
    /\ client' = FALSE
    /\ UNCHANGED <<inside, commandVars, engine>>

Enter(c) ==
    /\ ~inside
    /\ docker[c] = "unknown"
    /\ docker' = [docker EXCEPT ![c] = "running"]
    /\ container' = c
    /\ client' = TRUE
    /\ inside' = TRUE
    /\ UNCHANGED <<commandVars, engine, excused>>

\* Generators stay as they are; a failed removal is only logged.
Exit(removed) ==
    /\ inside
    /\ CallerHasControl
    /\ IF container # 0 THEN RemoveContainer(container, removed)
       ELSE UNCHANGED <<docker, engine, excused>>
    /\ inside' = FALSE
    /\ container' = 0
    /\ client' = FALSE
    /\ UNCHANGED commandVars

-----------------------------------------------------------------------------
(* Commands *)

\* _exec_stream, which raises without a container.
Start(e) ==
    /\ CallerHasControl
    /\ phase[e] = "new"
    /\ IF container = 0
       THEN /\ phase' = [phase EXCEPT ![e] = "over"]
            /\ UNCHANGED <<home, engine>>
       ELSE /\ phase' = [phase EXCEPT ![e] = "streaming"]
            /\ home' = [home EXCEPT ![e] = container]
            /\ engine' = [engine EXCEPT ![e] = TRUE]
    /\ UNCHANGED <<withVars, docker, kind, excused>>

\* exec_start raises after the engine has started: the try statement that
\* would stop it has not been entered.
StartFailsLate(e) ==
    /\ CallerHasControl
    /\ phase[e] = "new"
    /\ container # 0
    /\ phase' = [phase EXCEPT ![e] = "over"]
    /\ home' = [home EXCEPT ![e] = container]
    /\ engine' = [engine EXCEPT ![e] = TRUE]
    /\ excused' = excused \cup {e}
    /\ UNCHANGED <<withVars, docker, kind>>

\* _cleanup_exec_stream(completed=False): the container that the session
\* holds now is removed.
Abort(removed) ==
    IF container = 0 THEN UNCHANGED <<withVars, docker, engine, excused>>
    ELSE /\ RemoveContainer(container, removed)
         /\ container' = IF removed THEN 0 ELSE container
         /\ UNCHANGED <<inside, client>>

\* Mistake: only the stream is closed.
AbandonStream(e, removed) ==
    /\ kind[e] = "iterate" => CallerHasControl
    /\ phase[e] = "streaming"
    /\ phase' = [phase EXCEPT ![e] = "over"]
    /\ UNCHANGED <<withVars, docker, kind, home, engine, excused>>

\* The stream breaks, a line cannot be parsed, an updater raises, the user
\* interrupts, or a generator is closed before its end.
Abandon(e, removed) ==
    /\ kind[e] = "iterate" => CallerHasControl
    /\ phase[e] = "streaming"
    /\ phase' = [phase EXCEPT ![e] = "over"]
    /\ Abort(removed)
    /\ UNCHANGED <<kind, home>>

EngineStops(e) ==
    /\ engine[e]
    /\ engine' = [engine EXCEPT ![e] = FALSE]
    /\ UNCHANGED <<withVars, docker, commandVars, excused>>

\* The stream ends.  run aborts on a nonzero or unknown exit status and leaves
\* the container to the next command otherwise; a generator leaves it whatever
\* the status is.
StreamEnds(e, status, removed) ==
    /\ kind[e] = "iterate" => CallerHasControl
    /\ phase[e] = "streaming"
    /\ status = "unknown" \/ ~engine[e]
    /\ phase' = [phase EXCEPT ![e] = "over"]
    /\ IF kind[e] = "run" /\ status # "zero"
       THEN Abort(removed)
       ELSE /\ excused' = IF status = "unknown" THEN excused \cup {e} ELSE excused
            /\ UNCHANGED <<withVars, docker, engine>>
    /\ UNCHANGED <<kind, home>>

SessionNext ==
    \/ \E c \in Containers : EnterFails(c) \/ Enter(c)
    \/ \E c \in Containers, removed \in BOOLEAN : StartFails(c, removed)
    \/ \E removed \in BOOLEAN : Exit(removed)
    \/ \E e \in Commands : Start(e) \/ StartFailsLate(e) \/ EngineStops(e)
    \/ \E e \in Commands, removed \in BOOLEAN : Abandon(e, removed)
    \/ \E e \in Commands, status \in {"zero", "nonzero", "unknown"}, removed \in BOOLEAN :
          StreamEnds(e, status, removed)

SessionSpec == SessionInit /\ [][SessionNext]_sessionVars

-----------------------------------------------------------------------------
(* Properties *)

\* Every variable has its type; the session has a client and at most the
\* container of this with block.
SessionTypeOK ==
    /\ inside \in BOOLEAN
    /\ client = inside
    /\ container \in {0} \cup {c \in Containers : docker[c] = "running"}
    /\ docker \in [Containers -> {"unknown", "created", "running", "removed"}]
    /\ kind \in [Commands -> {"run", "iterate"}]
    /\ phase \in [Commands -> {"new", "streaming", "over"}]
    /\ home \in [Commands -> {0} \cup Containers]
    /\ engine \in [Commands -> BOOLEAN]
    /\ excused \subseteq Containers \cup Commands

\* Outside the with block no container is left, whichever step of entering or
\* leaving it failed, unless Docker refused to remove it or the session never
\* learnt of it.
LeavesNothingBehind ==
    ~inside =>
        /\ container = 0
        /\ \A c \in Containers : docker[c] \in {"unknown", "removed"} \/ c \in excused

\* An engine runs only while a caller is still waiting for it in the session
\* it was started in: an abandoned one has lost its container.  The exceptions
\* are an engine whose start or exit status was lost, and one whose container
\* could not be removed.
EnginesAreAttended ==
    \A e \in Commands : engine[e] =>
        \/ phase[e] = "streaming" /\ inside /\ home[e] = container
        \/ {e, home[e]} \cap excused # {}

\* Abandoning a command removes the container its own engine was started in.  A command
\* kept from an earlier with block breaks it (README, Findings), so no run checks it.
AbortsOwnContainer ==
    [][\A e \in Commands, c \in Containers :
          /\ phase[e] = "streaming" /\ phase'[e] = "over"
          /\ docker[c] # "removed" /\ docker'[c] = "removed"
          => home[e] = c]_sessionVars

=============================================================================

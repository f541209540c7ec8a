------------------------ MODULE EnsembleMergeProofs ------------------------
(***************************************************************************)
(* For any number of metrics, layouts and calls that follow each other: the *)
(* tables a manifest names can be read, none is given up while it is named, *)
(* and a merge that fails changes nothing.                                 *)
(*                                                                         *)
(* The argument is about the one call at work: the manifest is the one it  *)
(* has opened until it replaces it, and each path of its tables is as it   *)
(* was, or holds the call's own table with what was there among the        *)
(* backups.  Tables of metrics it does not score are none of its paths.    *)
(***************************************************************************)
EXTENDS EnsembleMerge, TLAPS

AllLayouts == UNION {Layouts[m] : m \in Metrics}
Writers == Calls \cup {Existing, NoFile, Untracked}
Entry == [tables : AllLayouts, by : Calls \cup {Existing}]

IsEntries(entries) == DOMAIN entries \subseteq Metrics /\ entries \in [DOMAIN entries -> Entry]

CallRecord ==
    [pc : Phases, job : Entries(Metrics), existing : Entries(Metrics),
     merged : Entries(Metrics), before : [Paths -> Writers], kept : [Paths -> Writers],
     at : SUBSET Paths, todo : SUBSET Paths, installed : SUBSET Paths,
     backups : SUBSET Paths, outcome : {"none", "failed", "ok"}]

Typed ==
    /\ files \in [Paths -> Writers]
    /\ IsEntries(manifest)
    /\ call \in [Calls -> CallRecord]
    /\ excused \subseteq Calls

OneWorks == \A e, f \in Calls : Working(e) /\ Working(f) => e = f

Disjoint(entries) ==
    \A m, n \in DOMAIN entries : m # n => entries[m].tables \cap entries[n].tables = {}

\* A call that has not begun has left no trace.
NewAreIdle ==
    \A e \in Calls : call[e].pc = "new" =>
        /\ call[e] = Idle
        /\ e \notin excused
        /\ \A m \in DOMAIN manifest : manifest[m].by # e

JobIsOwn(e) ==
    /\ Disjoint(call[e].job)
    /\ Disjoint(call[e].existing)
    /\ \A m \in DOMAIN call[e].job : call[e].job[m].by = e
    /\ \A m \in DOMAIN call[e].existing : call[e].existing[m].by # e

Installing(e) == call[e].pc \in {"install", "move", "stale", "rollback"}

Succeeded(e) == call[e].pc = "stale" \/ (call[e].pc = "leave" /\ call[e].outcome = "ok")

\* What Check has found and decided.
IsChecked(e) ==
    /\ Destinations(e) \cap Unrelated(e) = {}
    /\ DOMAIN call[e].merged = DOMAIN call[e].existing \cup DOMAIN call[e].job
    /\ \A m \in DOMAIN call[e].merged :
          call[e].merged[m] = IF m \in DOMAIN call[e].job THEN call[e].job[m]
                              ELSE call[e].existing[m]

ManifestIsKnown(e) ==
    /\ call[e].pc \in {"score", "check", "install", "move"} => manifest = call[e].existing
    /\ call[e].pc = "rollback" =>
          \/ manifest = call[e].existing
          \/ e \in excused /\ manifest = call[e].merged
    /\ Succeeded(e) => manifest = call[e].merged
    /\ call[e].pc = "leave" =>
          IF call[e].outcome = "ok" THEN TRUE
          ELSE /\ call[e].outcome = "failed"
               /\ e \notin excused =>
                     /\ manifest = call[e].existing
                     /\ files = call[e].before
                     /\ call[e].backups = {}

\* Where the tables of the paths of a call are.
AsFound(e, p) == files[p] = call[e].before[p] /\ p \notin call[e].backups

Replaced(e, p) ==
    IF p \in call[e].backups THEN call[e].kept[p] = call[e].before[p]
    ELSE call[e].before[p] = NoFile

PathsAreKnown(e) ==
    /\ call[e].at \cup call[e].todo \cup call[e].installed \cup call[e].backups
           \subseteq Destinations(e)
    /\ call[e].pc \in {"score", "check"} =>
          /\ e \notin excused
          /\ files = call[e].before
          /\ call[e].at \cup call[e].installed \cup call[e].backups = {}
    /\ call[e].pc \in {"install", "move"} =>
          /\ e \notin excused
          /\ call[e].pc = "install" => call[e].at = {}
          /\ \A p, q \in call[e].at : p = q
          /\ \A p \in Paths \ Destinations(e) : AsFound(e, p)
          /\ \A p \in Destinations(e) :
                IF p \in call[e].at
                THEN /\ p \in call[e].todo /\ p \in call[e].backups /\ p \notin call[e].installed
                     /\ files[p] = NoFile
                     /\ call[e].kept[p] = call[e].before[p]
                ELSE IF p \in call[e].todo THEN AsFound(e, p) /\ p \notin call[e].installed
                ELSE p \in call[e].installed /\ files[p] = e /\ Replaced(e, p)
    /\ call[e].pc = "rollback" /\ e \notin excused =>
          /\ \A p \in call[e].installed : files[p] = e /\ Replaced(e, p)
          /\ \A p \in call[e].backups :
                files[p] \in {NoFile, e} /\ call[e].kept[p] = call[e].before[p]
          /\ \A p \in Paths \ (call[e].installed \cup call[e].backups) : AsFound(e, p)
    /\ Succeeded(e) =>
          /\ \A p \in Destinations(e) : files[p] = e
          /\ \A p \in Unrelated(e) : files[p] = call[e].before[p]

KeptAreListed(e) ==
    e \notin excused => \A p \in Paths \ call[e].backups : call[e].kept[p] = NoFile

CallHolds(e) ==
    /\ JobIsOwn(e)
    /\ ManifestIsKnown(e)
    /\ PathsAreKnown(e)
    /\ Installing(e) \/ Succeeded(e) => IsChecked(e)
    /\ KeptAreListed(e)

\* No call has left the result in pieces.
Clean == excused = {} /\ \A e \in Calls : call[e].pc # "killed"

FoundReadable(e) ==
    \A m \in DOMAIN call[e].existing : \A p \in call[e].existing[m].tables :
        call[e].before[p] = call[e].existing[m].by

CleanIsReadable ==
    Clean =>
        /\ (\A e \in Calls : ~Installing(e)) => \A m \in DOMAIN manifest : Readable(m)
        /\ \A e \in Calls : Working(e) => FoundReadable(e)

IInv ==
    /\ Typed
    /\ OneWorks
    /\ Disjoint(manifest)
    /\ NewAreIdle
    /\ \A e \in Calls : Working(e) => CallHolds(e)
    /\ CleanIsReadable
    /\ OthersStayReadable

\* The bodies of the action properties.
NamedStay ==
    excused' # {} \/
    \A m \in DOMAIN manifest \cap DOMAIN manifest' : \A p \in manifest[m].tables :
        manifest'[m] = manifest[m] /\ Stored(p, manifest[m].by) => Stored(p, manifest[m].by)'

FailuresChangeNothing ==
    \A e \in Calls :
        /\ call[e].pc # "over" /\ call'[e].pc = "over"
        /\ call'[e].outcome = "failed"
        /\ call[e].pc # "new"
        /\ e \notin excused
        => files = call[e].before /\ manifest = call[e].existing

Kept == IInv' /\ NamedStay /\ FailuresChangeNothing

-----------------------------------------------------------------------------
(* The operators *)

LEMMA EntriesAre ==
    ASSUME NEW x
    PROVE  x \in Entries(Metrics) <=> IsEntries(x)
<1>1. ASSUME x \in Entries(Metrics) PROVE IsEntries(x)
    <2>1. PICK S \in SUBSET Metrics : x \in [S -> Entry]
        BY <1>1 DEF Entries, Entry, AllLayouts
    <2>2. DOMAIN x = S
        BY <2>1
    <2>3. QED
        BY <2>1, <2>2 DEF IsEntries
<1>2. ASSUME IsEntries(x) PROVE x \in Entries(Metrics)
    BY <1>2 DEF IsEntries, Entries, Entry, AllLayouts
<1>3. QED
    BY <1>1, <1>2

LEMMA LayoutsArePaths == \A t \in AllLayouts : t \subseteq Paths
BY DEF AllLayouts, Paths

\* Which paths are those of a job, of what it replaces and of the rest.
LEMMA PathsOfCalls ==
    ASSUME Typed, NEW e \in Calls
    PROVE  /\ \A p : p \in Destinations(e) <=>
                  \E m \in DOMAIN call[e].job : p \in call[e].job[m].tables
           /\ \A p : p \in Stale(e) <=>
                  \E m \in DOMAIN call[e].existing \cap DOMAIN call[e].job :
                      p \in call[e].existing[m].tables
           /\ \A p : p \in Unrelated(e) <=>
                  \E m \in DOMAIN call[e].existing \ DOMAIN call[e].job :
                      p \in call[e].existing[m].tables
           /\ Destinations(e) \subseteq Paths
           /\ IsEntries(call[e].job) /\ IsEntries(call[e].existing) /\ IsEntries(call[e].merged)
<1>1. IsEntries(call[e].job) /\ IsEntries(call[e].existing) /\ IsEntries(call[e].merged)
    BY EntriesAre DEF Typed, CallRecord
<1>2. DOMAIN call[e].job \subseteq Metrics /\ DOMAIN call[e].existing \subseteq Metrics
    BY <1>1 DEF IsEntries
<1>3. /\ Destinations(e) = UNION {call[e].job[m].tables : m \in DOMAIN call[e].job}
      /\ Stale(e) = UNION {call[e].existing[m].tables :
                                m \in DOMAIN call[e].existing \cap DOMAIN call[e].job}
      /\ Unrelated(e) = UNION {call[e].existing[m].tables :
                                    m \in DOMAIN call[e].existing \ DOMAIN call[e].job}
    BY <1>2 DEF Destinations, Stale, Unrelated, TablesOf
<1>4. Destinations(e) \subseteq Paths
    BY <1>1, <1>3, LayoutsArePaths DEF IsEntries, Entry
<1>5. QED
    BY <1>1, <1>3, <1>4

LEMMA NumbersDiffer ==
    /\ NoFile \notin Calls \cup {Existing}
    /\ Untracked \notin Calls \cup {Existing}
    /\ Existing \notin Calls
BY MergeAssumption DEF NoFile, Untracked, Existing

LEMMA IdleIsTyped == Idle \in CallRecord
<1>1. IsEntries(NoEntries)
    BY DEF IsEntries, NoEntries
<1>2. NoEntries \in Entries(Metrics)
    BY <1>1, EntriesAre
<1>3. NoTables \in [Paths -> Writers]
    BY DEF NoTables, Writers
<1>4. QED
    BY <1>2, <1>3 DEF Idle, CallRecord, Phases

-----------------------------------------------------------------------------
(* What any step of a call leaves alone *)

\* The metrics that nobody scores stay readable while the call touches its own
\* paths only.
LEMMA OthersKept ==
    ASSUME IInv, NEW e \in Calls, Working(e), IsChecked(e),
           manifest \in {call[e].existing, call[e].merged},
           manifest' \in {manifest, call[e].merged},
           \A p \in Paths \ (Destinations(e) \cup Stale(e)) : files'[p] = files[p],
           \A f \in Calls : call'[f].job = call[f].job
    PROVE  OthersStayReadable'
<1>1. SUFFICES ASSUME NEW m \in DOMAIN manifest', \A f \in Calls : m \notin DOMAIN call[f].job
               PROVE  Readable(m)'
    BY DEF OthersStayReadable
<1>2. Typed /\ JobIsOwn(e)
    BY DEF IInv, CallHolds
<1>3. m \in DOMAIN call[e].existing /\ m \notin DOMAIN call[e].job
    BY <1>1 DEF IsChecked
<1>4. m \in DOMAIN manifest /\ manifest[m] = call[e].existing[m]
      /\ manifest'[m] = call[e].existing[m]
    BY <1>3 DEF IsChecked
<1>5. Readable(m)
    BY <1>1, <1>4 DEF IInv, OthersStayReadable
<1>6. \A p \in call[e].existing[m].tables : p \in Unrelated(e) /\ p \notin Stale(e)
    BY <1>2, <1>3, PathsOfCalls DEF JobIsOwn, Disjoint
<1>7. call[e].existing[m].tables \subseteq Paths
    BY <1>2, <1>3, PathsOfCalls, LayoutsArePaths DEF IsEntries, Entry
<1>8. QED
    BY <1>4, <1>5, <1>6, <1>7 DEF IsChecked, Readable

LEMMA OthersKeptQuietly ==
    ASSUME IInv, files' = files, manifest' = manifest,
           \A f \in Calls : DOMAIN call[f].job \subseteq DOMAIN call'[f].job
    PROVE  OthersStayReadable'
BY DEF IInv, OthersStayReadable, Readable

LEMMA WorkKeeps ==
    ASSUME IInv, NEW e \in Calls, Working(e), NEW d \in CallRecord,
           call' = [call EXCEPT ![e] = d],
           d.job = call[e].job, d.existing = call[e].existing, d.before = call[e].before,
           d.pc # "new",
           files' \in [Paths -> Writers],
           \/ manifest' = manifest
           \/ manifest' = call[e].merged /\ manifest = call[e].existing /\ IsChecked(e),
           excused' \in {excused, excused \cup {e}},
           Working(e)' => CallHolds(e)',
           OthersStayReadable',
           Clean' /\ ~Installing(e)' => \A m \in DOMAIN manifest' : Readable(m)'
    PROVE  IInv'
<1>1. Typed /\ CallHolds(e)
    BY DEF IInv
<1>2. call'[e] = d /\ \A f \in Calls : f # e => call'[f] = call[f]
    BY <1>1 DEF Typed
<1>3. IsEntries(manifest')
    BY <1>1, PathsOfCalls DEF Typed
<1>4. Typed'
    BY <1>1, <1>3 DEF Typed
<1>5. OneWorks'
    BY <1>2 DEF IInv, OneWorks, Working
<1>6. \A f \in Calls : f # e => ~Working(f)
    BY DEF IInv, OneWorks
<1>7. Disjoint(manifest)'
    <2>1. CASE manifest' = manifest
        BY <2>1 DEF IInv, Disjoint
    <2>2. CASE manifest' = call[e].merged /\ manifest = call[e].existing /\ IsChecked(e)
        <3> SUFFICES ASSUME NEW m \in DOMAIN call[e].merged, NEW n \in DOMAIN call[e].merged,
                            m # n
                     PROVE  call[e].merged[m].tables \cap call[e].merged[n].tables = {}
            BY <2>2 DEF Disjoint
        <3>1. IsChecked(e) /\ JobIsOwn(e)
            BY <1>1, <2>2 DEF CallHolds
        <3>2. CASE m \in DOMAIN call[e].job /\ n \in DOMAIN call[e].job
            BY <3>1, <3>2 DEF IsChecked, JobIsOwn, Disjoint
        <3>3. CASE m \notin DOMAIN call[e].job /\ n \notin DOMAIN call[e].job
            BY <3>1, <3>3 DEF IsChecked, JobIsOwn, Disjoint
        <3>4. CASE m \in DOMAIN call[e].job /\ n \notin DOMAIN call[e].job
            BY <1>1, <3>1, <3>4, PathsOfCalls DEF IsChecked
        <3>5. CASE m \notin DOMAIN call[e].job /\ n \in DOMAIN call[e].job
            BY <1>1, <3>1, <3>5, PathsOfCalls DEF IsChecked
        <3>6. QED
            BY <3>2, <3>3, <3>4, <3>5
    <2>3. QED
        BY <2>1, <2>2
<1>8. NewAreIdle'
    <2> SUFFICES ASSUME NEW f \in Calls, call'[f].pc = "new"
                 PROVE  /\ call'[f] = Idle
                        /\ f \notin excused'
                        /\ \A m \in DOMAIN manifest' : manifest'[m].by # f
        BY DEF NewAreIdle
    <2>1. f # e /\ call[f].pc = "new" /\ call'[f] = call[f]
        BY <1>2
    <2>2. f \notin excused' /\ \A m \in DOMAIN manifest : manifest[m].by # f
        BY <2>1 DEF IInv, NewAreIdle
    <2>3. CASE manifest' = call[e].merged /\ manifest = call[e].existing /\ IsChecked(e)
        <3>1. JobIsOwn(e)
            BY <1>1 DEF CallHolds
        <3>2. QED
            BY <2>1, <2>2, <2>3, <3>1 DEF IInv, NewAreIdle, IsChecked, JobIsOwn
    <2>4. QED
        BY <2>1, <2>2, <2>3 DEF IInv, NewAreIdle
<1>9. \A f \in Calls : Working(f)' => CallHolds(f)'
    BY <1>2, <1>6 DEF Working
<1>10. CleanIsReadable'
    <2> SUFFICES ASSUME Clean'
                 PROVE  /\ (\A f \in Calls : ~Installing(f)') =>
                              \A m \in DOMAIN manifest' : Readable(m)'
                        /\ \A f \in Calls : Working(f)' => FoundReadable(f)'
        BY DEF CleanIsReadable
    <2>1. Clean
        <3>1. excused = {}
            BY DEF Clean
        <3>2. call[e].pc # "killed"
            BY DEF Working
        <3>3. QED
            BY <1>2, <3>1, <3>2 DEF Clean
    <2>2. FoundReadable(e)
        BY <2>1 DEF IInv, CleanIsReadable
    <2>3. \A f \in Calls : Working(f)' => f = e
        BY <1>2, <1>6 DEF Working
    <2>4. QED
        BY <1>2, <2>2, <2>3 DEF FoundReadable
<1>11. QED
    BY <1>4, <1>5, <1>7, <1>8, <1>9, <1>10 DEF IInv

LEMMA InitHolds ==
    ASSUME Init
    PROVE  IInv
<1>1. PICK names \in SUBSET Metrics \ {{}} :
          /\ manifest \in [names -> [tables : AllLayouts, by : {Existing}]]
          /\ \A m, n \in names : m # n => manifest[m].tables \cap manifest[n].tables = {}
    BY DEF Init, AllLayouts
<1>2. PICK strays \in SUBSET (Paths \ TablesOf(manifest, Metrics)) :
          files = [p \in Paths |-> IF p \in TablesOf(manifest, Metrics) THEN Existing
                                   ELSE IF p \in strays THEN Untracked ELSE NoFile]
    BY DEF Init
<1>3. DOMAIN manifest = names
    BY <1>1
<1>4. \A m \in names : manifest[m] \in Entry /\ manifest[m].by = Existing
    BY <1>1 DEF Entry
<1>5. IsEntries(manifest)
    BY <1>1, <1>3, <1>4 DEF IsEntries
<1>6. call \in [Calls -> CallRecord]
    BY IdleIsTyped DEF Init
<1>7. \A e \in Calls : call[e] = Idle /\ ~Working(e) /\ ~Installing(e) /\ call[e].pc = "new"
    BY DEF Init, Working, Installing, Idle
<1>8. Typed
    BY <1>2, <1>5, <1>6 DEF Typed, Writers, Init
<1>9. \A m \in names : Readable(m)
    <2> SUFFICES ASSUME NEW m \in names, NEW p \in manifest[m].tables
                 PROVE  files[p] = manifest[m].by
        BY DEF Readable
    <2>1. p \in TablesOf(manifest, Metrics)
        BY <1>3 DEF TablesOf
    <2>2. p \in Paths
        BY <1>4, LayoutsArePaths DEF Entry
    <2>3. QED
        BY <1>2, <1>4, <2>1, <2>2
<1>10. OneWorks /\ Disjoint(manifest) /\ NewAreIdle /\ CleanIsReadable /\ OthersStayReadable
    BY <1>1, <1>3, <1>4, <1>7, <1>9, NumbersDiffer
       DEF Init, OneWorks, Disjoint, NewAreIdle, CleanIsReadable, OthersStayReadable
<1>11. QED
    BY <1>7, <1>8, <1>10 DEF IInv

-----------------------------------------------------------------------------
(* Steps that move no table *)

LEMMA Unaltered ==
    ASSUME IInv, NEW e \in Calls, NEW d \in CallRecord, call' = [call EXCEPT ![e] = d],
           d.job = call[e].job, d.existing = call[e].existing, Working(e)
    PROVE  /\ call'[e] = d /\ \A f \in Calls : f # e => call'[f] = call[f]
           /\ Destinations(e)' = Destinations(e)
           /\ Stale(e)' = Stale(e)
           /\ Unrelated(e)' = Unrelated(e)
           /\ JobIsOwn(e) /\ JobIsOwn(e)'
           /\ \A f \in Calls : call'[f].job = call[f].job
<1>1. call'[e] = d /\ \A f \in Calls : f # e => call'[f] = call[f]
    BY DEF IInv, Typed
<1>2. QED
    BY <1>1 DEF IInv, CallHolds, JobIsOwn, Destinations, Stale, Unrelated, TablesOf, Disjoint

LEMMA NamedStayQuietly ==
    ASSUME files' = files, \A f \in Calls : call'[f].kept = call[f].kept
    PROVE  NamedStay
BY DEF NamedStay, Stored

LEMMA NoEnd ==
    ASSUME IInv, NEW e \in Calls, NEW d \in CallRecord, call' = [call EXCEPT ![e] = d],
           d.pc # "over"
    PROVE  FailuresChangeNothing
BY DEF FailuresChangeNothing, IInv, Typed

\* A call goes on, and neither a table nor the manifest is touched.
LEMMA QuietKeeps ==
    ASSUME IInv, NEW e \in Calls, Working(e), NEW d \in CallRecord,
           call' = [call EXCEPT ![e] = d],
           d.job = call[e].job, d.existing = call[e].existing, d.before = call[e].before,
           d.kept = call[e].kept, d.pc \notin {"new", "over"},
           UNCHANGED <<files, manifest>>,
           excused' \in {excused, excused \cup {e}},
           Working(e)' => CallHolds(e)',
           Clean' /\ ~Installing(e)' => \A m \in DOMAIN manifest : Readable(m)
    PROVE  Kept
<1>1. /\ call'[e] = d /\ \A f \in Calls : f # e => call'[f] = call[f]
      /\ \A f \in Calls : call'[f].job = call[f].job
    BY Unaltered
<1>2. \A f \in Calls : call'[f].kept = call[f].kept
    BY <1>1
<1>3. OthersStayReadable'
    BY <1>1, OthersKeptQuietly
<1>4. Clean' /\ ~Installing(e)' => \A m \in DOMAIN manifest' : Readable(m)'
    BY DEF Readable
<1>5. IInv'
    <2>1. d.pc # "new" /\ files' \in [Paths -> Writers]
        BY DEF IInv, Typed
    <2>2. QED
        BY <1>3, <1>4, <2>1, WorkKeeps
<1>6. QED
    BY <1>2, <1>5, NamedStayQuietly, NoEnd DEF Kept

\* The files and the manifest are those the call has found.
NothingDone(e) ==
    /\ manifest = call[e].existing
    /\ files = call[e].before
    /\ call[e].backups = {}

\* A call that gives up before or after a rollback.
LEMMA GivingUpKeeps ==
    ASSUME IInv, NEW e \in Calls, Working(e), NEW changes, call' = [call EXCEPT ![e] = changes],
           changes = [call[e] EXCEPT !.pc = "leave", !.outcome = "failed"],
           UNCHANGED <<files, manifest>>,
           \/ excused' = excused /\ (e \notin excused => NothingDone(e))
           \/ excused' = excused \cup {e},
           ~Installing(e) => NothingDone(e)
    PROVE  Kept
<1>1. PICK c \in CallRecord : c = call[e]
    BY DEF IInv, Typed
<1>2. /\ changes \in CallRecord
      /\ changes = [c EXCEPT !.pc = "leave", !.outcome = "failed"]
    BY <1>1 DEF CallRecord, Phases
<1>3. /\ changes.pc = "leave" /\ changes.outcome = "failed"
      /\ changes.job = c.job /\ changes.existing = c.existing /\ changes.merged = c.merged
      /\ changes.before = c.before /\ changes.kept = c.kept /\ changes.at = c.at
      /\ changes.todo = c.todo /\ changes.installed = c.installed
      /\ changes.backups = c.backups
    BY <1>1, <1>2 DEF CallRecord
<1>4. call'[e] = changes /\ Destinations(e)' = Destinations(e) /\ JobIsOwn(e)'
    BY <1>1, <1>2, <1>3, Unaltered
<1>5. CallHolds(e)
    BY DEF IInv
<1>6. ManifestIsKnown(e)' /\ PathsAreKnown(e)' /\ KeptAreListed(e)'
    <2>1. ManifestIsKnown(e)'
        <3>1. e \notin excused' => NothingDone(e)
            OBVIOUS
        <3>2. QED
            BY <1>1, <1>3, <1>4, <3>1 DEF ManifestIsKnown, Succeeded, NothingDone
    <2>2. PathsAreKnown(e)'
        <3>1. c.at \cup c.todo \cup c.installed \cup c.backups \subseteq Destinations(e)
            BY <1>1, <1>5 DEF CallHolds, PathsAreKnown
        <3>2. QED
            BY <1>3, <1>4, <3>1 DEF PathsAreKnown, Succeeded
    <2>3. KeptAreListed(e)'
        <3>1. e \notin excused' => e \notin excused
            OBVIOUS
        <3>2. QED
            BY <1>1, <1>3, <1>4, <1>5, <3>1 DEF CallHolds, KeptAreListed
    <2>4. QED
        BY <2>1, <2>2, <2>3
<1>7. CallHolds(e)'
    BY <1>3, <1>4, <1>6 DEF CallHolds, Installing, Succeeded
<1>8. Clean' => \A m \in DOMAIN manifest : Readable(m)
    <2> SUFFICES ASSUME Clean'
                 PROVE  \A m \in DOMAIN manifest : Readable(m)
        OBVIOUS
    <2>1. excused' = {} /\ NothingDone(e)
        BY DEF Clean
    <2>2. Clean
        <3>1. \A f \in Calls : f # e => call'[f] = call[f]
            BY <1>1, <1>2, <1>3, Unaltered
        <3>2. QED
            BY <2>1, <3>1 DEF Clean, Working
    <2>3. FoundReadable(e)
        BY <2>2 DEF IInv, CleanIsReadable
    <2>4. QED
        BY <2>1, <2>3 DEF NothingDone, FoundReadable, Readable
<1>9. excused' \in {excused, excused \cup {e}} /\ changes.pc \notin {"new", "over"}
    BY <1>3
<1>10. QED
    BY <1>1, <1>2, <1>3, <1>7, <1>8, <1>9, QuietKeeps

LEMMA ScoreKeeps ==
    ASSUME IInv, NEW e \in Calls, Score(e)
    PROVE  Kept
<1> DEFINE d == [call[e] EXCEPT !.pc = "check"]
<1>1. PICK c \in CallRecord : c = call[e]
    BY DEF IInv, Typed
<1>2. d \in CallRecord /\ d = [c EXCEPT !.pc = "check"]
    BY <1>1 DEF CallRecord, Phases
<1>3. /\ d.pc = "check" /\ d.outcome = c.outcome
      /\ d.job = c.job /\ d.existing = c.existing /\ d.merged = c.merged
      /\ d.before = c.before /\ d.kept = c.kept /\ d.at = c.at
      /\ d.todo = c.todo /\ d.installed = c.installed /\ d.backups = c.backups
    BY <1>1, <1>2 DEF CallRecord
<1>4. Working(e) /\ call' = [call EXCEPT ![e] = d] /\ UNCHANGED <<files, manifest, excused>>
      /\ call[e].pc = "score"
    BY DEF Score, Go, Working
<1> HIDE DEF d
<1>5. /\ call'[e] = d /\ Destinations(e)' = Destinations(e) /\ JobIsOwn(e)'
      /\ \A f \in Calls : f # e => call'[f] = call[f]
    BY <1>1, <1>2, <1>3, <1>4, Unaltered
<1>6. CallHolds(e)'
    BY <1>1, <1>3, <1>4, <1>5
       DEF IInv, CallHolds, ManifestIsKnown, PathsAreKnown, KeptAreListed, Succeeded, Installing
<1>7. Clean' => \A m \in DOMAIN manifest : Readable(m)
    <2>1. \A f \in Calls : ~Installing(f)
        BY <1>4 DEF IInv, OneWorks, Installing, Working
    <2>2. Clean' => Clean
        BY <1>4, <1>5 DEF Clean
    <2>3. QED
        BY <2>1, <2>2 DEF IInv, CleanIsReadable
<1>8. QED
    BY <1>1, <1>2, <1>3, <1>4, <1>6, <1>7, QuietKeeps

LEMMA ScoreFailsKeeps ==
    ASSUME IInv, NEW e \in Calls, ScoreFails(e)
    PROVE  Kept
<1>1. Working(e) /\ NothingDone(e)
    BY DEF ScoreFails, Working, IInv, CallHolds, ManifestIsKnown, PathsAreKnown, NothingDone
<1>2. QED
    BY <1>1, GivingUpKeeps DEF ScoreFails, Go

LEMMA RollbackEndsKeeps ==
    ASSUME IInv, NEW e \in Calls, RolledBack(e) \/ RollbackFails(e)
    PROVE  Kept
<1>1. Working(e) /\ Installing(e)
    BY DEF RolledBack, RollbackFails, Working, Installing
<1>2. ASSUME RolledBack(e), e \notin excused PROVE NothingDone(e)
    <2>1. CallHolds(e) /\ call[e].pc = "rollback" /\ call[e].backups = {} /\ call[e].installed = {}
        BY <1>1, <1>2 DEF IInv, RolledBack
    <2>2. files \in [Paths -> Writers] /\ call[e].before \in [Paths -> Writers]
        BY DEF IInv, Typed, CallRecord
    <2>3. \A p \in Paths : files[p] = call[e].before[p]
        BY <1>2, <2>1 DEF CallHolds, PathsAreKnown, AsFound
    <2>4. QED
        BY <1>2, <2>1, <2>2, <2>3 DEF CallHolds, ManifestIsKnown, NothingDone
<1>3. QED
    BY <1>1, <1>2, GivingUpKeeps DEF RolledBack, RollbackFails, Go

LEMMA CheckKeeps ==
    ASSUME IInv, NEW e \in Calls, Check(e)
    PROVE  Kept
<1>1. PICK c \in CallRecord : c = call[e]
    BY DEF IInv, Typed
<1>2. /\ Working(e) /\ call[e].pc = "check" /\ UNCHANGED <<files, manifest, excused>>
      /\ CallHolds(e)
    BY DEF Check, Working, IInv
<1>3. NothingDone(e) /\ e \notin excused /\ c.at = {} /\ c.installed = {}
    BY <1>1, <1>2 DEF CallHolds, ManifestIsKnown, PathsAreKnown, NothingDone
<1>4. CASE ~Unobstructed(e)
    <2>1. call' = [call EXCEPT ![e] = [call[e] EXCEPT !.pc = "leave", !.outcome = "failed"]]
        BY <1>4 DEF Check, Go
    <2>2. QED
        BY <1>2, <1>3, <2>1, GivingUpKeeps
<1>5. CASE Unobstructed(e)
    <2> DEFINE d == [c EXCEPT !.pc = "install", !.merged = Merged(call[e].job),
                              !.todo = Destinations(e)]
    <2>1. call' = [call EXCEPT ![e] = d]
        BY <1>1, <1>5 DEF Check, Go
    <2>2. /\ DOMAIN Merged(call[e].job) = DOMAIN call[e].existing \cup DOMAIN call[e].job
          /\ \A m \in DOMAIN Merged(call[e].job) :
                Merged(call[e].job)[m] = IF m \in DOMAIN call[e].job THEN call[e].job[m]
                                         ELSE call[e].existing[m]
        BY <1>3 DEF Merged, NothingDone
    <2>3. Merged(call[e].job) \in Entries(Metrics) /\ Destinations(e) \in SUBSET Paths
        <3>1. IsEntries(call[e].job) /\ IsEntries(call[e].existing) /\ Destinations(e) \subseteq Paths
            BY PathsOfCalls DEF IInv
        <3>2. \A m \in DOMAIN Merged(call[e].job) : Merged(call[e].job)[m] \in Entry
            BY <2>2, <3>1 DEF IsEntries
        <3>3. IsEntries(Merged(call[e].job))
            BY <2>2, <3>1, <3>2 DEF IsEntries, Merged
        <3>4. QED
            BY <3>1, <3>3, EntriesAre
    <2>4. /\ d \in CallRecord
          /\ d.pc = "install" /\ d.outcome = c.outcome
          /\ d.job = c.job /\ d.existing = c.existing /\ d.merged = Merged(call[e].job)
          /\ d.before = c.before /\ d.kept = c.kept /\ d.at = c.at
          /\ d.todo = Destinations(e) /\ d.installed = c.installed /\ d.backups = c.backups
        BY <2>3 DEF CallRecord, Phases
    <2> HIDE DEF d
    <2>5. /\ call'[e] = d /\ Destinations(e)' = Destinations(e) /\ JobIsOwn(e)'
          /\ Unrelated(e)' = Unrelated(e)
        BY <1>1, <1>2, <2>1, <2>4, Unaltered
    <2>6. IsChecked(e)'
        BY <1>1, <1>5, <2>2, <2>4, <2>5 DEF IsChecked, Unobstructed
    <2>7. ManifestIsKnown(e)' /\ KeptAreListed(e)'
        BY <1>1, <1>2, <1>3, <2>4, <2>5
           DEF CallHolds, ManifestIsKnown, KeptAreListed, NothingDone, Succeeded
    <2>8. PathsAreKnown(e)'
        BY <1>1, <1>2, <1>3, <2>4, <2>5
           DEF CallHolds, PathsAreKnown, NothingDone, Succeeded, AsFound
    <2>9. CallHolds(e)' /\ Installing(e)'
        BY <2>4, <2>5, <2>6, <2>7, <2>8 DEF CallHolds, Installing
    <2>10. QED
        BY <1>1, <1>2, <2>1, <2>4, <2>9, QuietKeeps
<1>6. QED
    BY <1>4, <1>5

\* A rollback begins with what was installed and backed up so far.
LEMMA InstallFailsKeeps ==
    ASSUME IInv, NEW e \in Calls, InstallFails(e)
    PROVE  Kept
<1>1. PICK c \in CallRecord : c = call[e]
    BY DEF IInv, Typed
<1> DEFINE d == [c EXCEPT !.pc = "rollback", !.at = {}]
<1>2. /\ Working(e) /\ call[e].pc \in {"install", "move"} /\ UNCHANGED <<files, manifest, excused>>
      /\ CallHolds(e) /\ call' = [call EXCEPT ![e] = d]
    BY <1>1 DEF InstallFails, Go, Working, IInv
<1>3. /\ d \in CallRecord
      /\ d.pc = "rollback" /\ d.outcome = c.outcome
      /\ d.job = c.job /\ d.existing = c.existing /\ d.merged = c.merged
      /\ d.before = c.before /\ d.kept = c.kept /\ d.at = {}
      /\ d.todo = c.todo /\ d.installed = c.installed /\ d.backups = c.backups
    BY DEF CallRecord, Phases
<1> HIDE DEF d
<1>4. /\ call'[e] = d /\ Destinations(e)' = Destinations(e) /\ JobIsOwn(e)'
      /\ Unrelated(e)' = Unrelated(e)
    BY <1>1, <1>2, <1>3, Unaltered
<1>5. IsChecked(e)' /\ ManifestIsKnown(e)' /\ KeptAreListed(e)'
    BY <1>1, <1>2, <1>3, <1>4
       DEF CallHolds, ManifestIsKnown, KeptAreListed, Succeeded, IsChecked, Installing
<1>6. PathsAreKnown(e)'
    <2>1. \A p \in c.installed : files[p] = e /\ Replaced(e, p)
        BY <1>1, <1>2 DEF CallHolds, PathsAreKnown
    <2>2. \A p \in c.backups : files[p] \in {NoFile, e} /\ c.kept[p] = c.before[p]
        BY <1>1, <1>2 DEF CallHolds, PathsAreKnown, AsFound, Replaced
    <2>3. \A p \in Paths \ (c.installed \cup c.backups) : AsFound(e, p)
        BY <1>1, <1>2 DEF CallHolds, PathsAreKnown, AsFound
    <2>4. QED
        BY <1>1, <1>2, <1>3, <1>4, <2>1, <2>2, <2>3
           DEF CallHolds, PathsAreKnown, AsFound, Replaced, Succeeded
<1>7. CallHolds(e)' /\ Installing(e)'
    BY <1>3, <1>4, <1>5, <1>6 DEF CallHolds, Installing
<1>8. QED
    BY <1>1, <1>2, <1>3, <1>7, QuietKeeps

\* The manifest is replaced when every table is installed.
LEMMA ManifestKeeps ==
    ASSUME IInv, NEW e \in Calls, NEW next \in {"stale", "rollback"},
           call[e].pc = "install", call[e].todo = {}, manifest' = call[e].merged,
           call' = [call EXCEPT ![e] = [call[e] EXCEPT !.pc = next]],
           excused' = IF next = "stale" THEN excused ELSE excused \cup {e},
           files' = files
    PROVE  Kept
<1>1. PICK c \in CallRecord : c = call[e]
    BY DEF IInv, Typed
<1> DEFINE d == [c EXCEPT !.pc = next]
<1>2. /\ Working(e) /\ CallHolds(e) /\ call' = [call EXCEPT ![e] = d]
      /\ manifest = call[e].existing /\ IsChecked(e)
    BY <1>1 DEF Working, Installing, IInv, CallHolds, ManifestIsKnown
<1>3. /\ d \in CallRecord
      /\ d.pc = next /\ d.outcome = c.outcome
      /\ d.job = c.job /\ d.existing = c.existing /\ d.merged = c.merged
      /\ d.before = c.before /\ d.kept = c.kept /\ d.at = c.at
      /\ d.todo = c.todo /\ d.installed = c.installed /\ d.backups = c.backups
    BY DEF CallRecord, Phases
<1> HIDE DEF d
<1>4. /\ call'[e] = d /\ Destinations(e)' = Destinations(e) /\ JobIsOwn(e) /\ JobIsOwn(e)'
      /\ Unrelated(e)' = Unrelated(e) /\ Stale(e)' = Stale(e)
      /\ \A f \in Calls : f # e => call'[f] = call[f]
      /\ \A f \in Calls : call'[f].job = call[f].job
    BY <1>1, <1>2, <1>3, Unaltered
<1>5. \A p \in Destinations(e) : files[p] = e
    BY <1>2 DEF CallHolds, PathsAreKnown
<1>6. ManifestIsKnown(e)' /\ KeptAreListed(e)' /\ IsChecked(e)'
    BY <1>1, <1>2, <1>3, <1>4
       DEF CallHolds, ManifestIsKnown, KeptAreListed, Succeeded, IsChecked
<1>7. PathsAreKnown(e)'
    <2>1. c.at \cup c.todo \cup c.installed \cup c.backups \subseteq Destinations(e)
        BY <1>1, <1>2 DEF CallHolds, PathsAreKnown
    <2>2. next = "rollback" => e \in excused'
        OBVIOUS
    <2>3. \A p \in Unrelated(e) : files[p] = c.before[p]
        <3>1. \A p \in Paths \ Destinations(e) : AsFound(e, p)
            BY <1>2 DEF CallHolds, PathsAreKnown
        <3>2. Unrelated(e) \subseteq Paths
            BY PathsOfCalls, LayoutsArePaths DEF IInv, IsEntries, Entry
        <3>3. QED
            BY <1>1, <1>2, <3>1, <3>2 DEF IsChecked, AsFound
    <2>4. QED
        BY <1>1, <1>3, <1>4, <1>5, <2>1, <2>2, <2>3 DEF PathsAreKnown, Succeeded
<1>8. OthersStayReadable'
    BY <1>2, <1>4, OthersKept
<1>9. Installing(e)'
    BY <1>3, <1>4 DEF Installing
<1>10. CallHolds(e)'
    BY <1>4, <1>6, <1>7 DEF CallHolds
<1>11. IInv'
    <2>1. files' \in [Paths -> Writers] /\ excused' \in {excused, excused \cup {e}} /\ d.pc # "new"
        BY <1>3 DEF IInv, Typed
    <2>2. QED
        BY <1>1, <1>2, <1>3, <1>8, <1>9, <1>10, <2>1, WorkKeeps
<1>12. NamedStay
    BY <1>1, <1>3, <1>4, NamedStayQuietly
<1>13. QED
    BY <1>2, <1>3, <1>11, <1>12, NoEnd DEF Kept

LEMMA WriteManifestKeeps ==
    ASSUME IInv, NEW e \in Calls, WriteManifest(e) \/ WriteManifestInterrupted(e)
    PROVE  Kept
<1>1. CASE WriteManifest(e)
    BY <1>1, ManifestKeeps DEF WriteManifest, Go
<1>2. CASE WriteManifestInterrupted(e)
    BY <1>2, ManifestKeeps DEF WriteManifestInterrupted, Go
<1>3. QED
    BY <1>1, <1>2

-----------------------------------------------------------------------------
(* Steps that move a table *)

\* A call touches a path of its job only; what the manifest names there goes on
\* being stored.
LEMMA MoveKeeps ==
    ASSUME IInv, NEW e \in Calls, Working(e), NEW d \in CallRecord, NEW p \in Destinations(e),
           call' = [call EXCEPT ![e] = d], Installing(e), d.pc \in {"install", "move", "rollback"},
           d.job = call[e].job, d.existing = call[e].existing, d.before = call[e].before,
           d.merged = call[e].merged,
           manifest' = manifest,
           files' \in [Paths -> Writers],
           \A q \in Paths \ {p} : files'[q] = files[q] /\ d.kept[q] = call[e].kept[q],
           excused' \in {excused, excused \cup {e}},
           ManifestIsKnown(e)', PathsAreKnown(e)', KeptAreListed(e)',
           \/ excused' # {}
           \/ \A m \in DOMAIN manifest :
                  p \in manifest[m].tables /\ Stored(p, manifest[m].by) => Stored(p, manifest[m].by)'
    PROVE  Kept
<1>1. /\ call'[e] = d /\ Destinations(e)' = Destinations(e) /\ JobIsOwn(e)'
      /\ Unrelated(e)' = Unrelated(e)
      /\ \A f \in Calls : f # e => call'[f] = call[f]
      /\ \A f \in Calls : call'[f].job = call[f].job
    BY Unaltered
<1>2. CallHolds(e) /\ IsChecked(e) /\ Typed
    BY DEF IInv, CallHolds
<1>3. IsChecked(e)' /\ Installing(e)'
    BY <1>1, <1>2 DEF IsChecked, Installing
<1>4. CallHolds(e)'
    BY <1>1, <1>3 DEF CallHolds
<1>5. OthersStayReadable'
    <2>1. manifest \in {call[e].existing, call[e].merged}
        BY <1>2 DEF CallHolds, ManifestIsKnown, Installing, Succeeded
    <2>2. QED
        BY <1>1, <1>2, <2>1, OthersKept
<1>6. IInv'
    BY <1>3, <1>4, <1>5, WorkKeeps
<1>7. NamedStay
    <2>1. SUFFICES ASSUME excused' = {}, NEW m \in DOMAIN manifest, NEW q \in manifest[m].tables,
                          Stored(q, manifest[m].by)
                   PROVE  Stored(q, manifest[m].by)'
        BY DEF NamedStay
    <2>2. CASE q = p
        BY <2>1, <2>2
    <2>3. CASE q # p
        <3>1. q \in Paths
            BY <1>2, LayoutsArePaths DEF Typed, IsEntries, Entry
        <3>2. files'[q] = files[q] /\ \A f \in Calls : call'[f].kept[q] = call[f].kept[q]
            BY <1>1, <2>3, <3>1
        <3>3. QED
            BY <2>1, <3>2 DEF Stored
    <2>4. QED
        BY <2>2, <2>3
<1>8. QED
    BY <1>6, <1>7, NoEnd DEF Kept

\* No table is stored under the name of a call that is at work, nor under no name.
LEMMA NamesAreOld ==
    ASSUME IInv, NEW e \in Calls, Working(e), manifest = call[e].existing
    PROVE  \A m \in DOMAIN manifest : manifest[m].by \notin {NoFile, e}
<1> SUFFICES ASSUME NEW m \in DOMAIN manifest
             PROVE  manifest[m].by \notin {NoFile, e}
    OBVIOUS
<1>1. JobIsOwn(e) /\ manifest[m].by \in Calls \cup {Existing}
    BY DEF IInv, CallHolds, Typed, IsEntries, Entry
<1>2. QED
    BY <1>1, NumbersDiffer DEF JobIsOwn

\* Where the paths are while tables are installed.
InstallationIsKnown(e) ==
    /\ e \notin excused
    /\ manifest = call[e].existing
    /\ call[e].at \cup call[e].todo \cup call[e].installed \cup call[e].backups
          \subseteq Destinations(e)
    /\ call[e].pc = "install" => call[e].at = {}
    /\ \A q, r \in call[e].at : q = r
    /\ \A q \in Paths \ Destinations(e) : AsFound(e, q)
    /\ \A q \in call[e].at :
          /\ q \in call[e].todo /\ q \in call[e].backups /\ q \notin call[e].installed
          /\ files[q] = NoFile
          /\ call[e].kept[q] = call[e].before[q]
    /\ \A q \in call[e].todo \ call[e].at : AsFound(e, q) /\ q \notin call[e].installed
    /\ \A q \in Destinations(e) \ (call[e].todo \cup call[e].at) :
          q \in call[e].installed /\ files[q] = e /\ Replaced(e, q)
    /\ \A q \in Paths \ call[e].backups : call[e].kept[q] = NoFile
    /\ \A m \in DOMAIN manifest : manifest[m].by \notin {NoFile, e}

LEMMA WhileInstalling ==
    ASSUME IInv, NEW e \in Calls, Working(e), call[e].pc \in {"install", "move"}
    PROVE  InstallationIsKnown(e)
<1>1. PathsAreKnown(e) /\ ManifestIsKnown(e) /\ KeptAreListed(e)
    BY DEF IInv, CallHolds
<1>2. /\ e \notin excused /\ manifest = call[e].existing
      /\ call[e].pc = "install" => call[e].at = {}
      /\ \A q, r \in call[e].at : q = r
    BY <1>1 DEF PathsAreKnown, ManifestIsKnown
<1>3. call[e].at \cup call[e].todo \cup call[e].installed \cup call[e].backups
          \subseteq Destinations(e)
    BY <1>1 DEF PathsAreKnown
<1>4. \A q \in Paths \ Destinations(e) : AsFound(e, q)
    BY <1>1 DEF PathsAreKnown
<1>5. \A q \in Destinations(e) :
          IF q \in call[e].at
          THEN /\ q \in call[e].todo /\ q \in call[e].backups /\ q \notin call[e].installed
               /\ files[q] = NoFile
               /\ call[e].kept[q] = call[e].before[q]
          ELSE IF q \in call[e].todo THEN AsFound(e, q) /\ q \notin call[e].installed
          ELSE q \in call[e].installed /\ files[q] = e /\ Replaced(e, q)
    BY <1>1 DEF PathsAreKnown
<1>6. \A q \in Paths \ call[e].backups : call[e].kept[q] = NoFile
    BY <1>1, <1>2 DEF KeptAreListed
<1>7. \A m \in DOMAIN manifest : manifest[m].by \notin {NoFile, e}
    BY <1>2, NamesAreOld
<1>8. QED
    BY <1>2, <1>3, <1>4, <1>5, <1>6, <1>7 DEF InstallationIsKnown

LEMMA ManifestStays ==
    ASSUME NEW e \in Calls, NEW d \in CallRecord, call'[e] = d,
           d.pc \in {"install", "move", "rollback"},
           manifest' = d.existing
    PROVE  ManifestIsKnown(e)'
BY DEF ManifestIsKnown, Succeeded

LEMMA BackUpKeeps ==
    ASSUME IInv, NEW e \in Calls, NEW p \in Paths, BackUp(e, p)
    PROVE  Kept
<1>1. PICK c \in CallRecord : c = call[e]
    BY DEF IInv, Typed
<1> DEFINE d == [c EXCEPT !.pc = "move", !.at = {p}, !.kept[p] = files[p],
                          !.backups = c.backups \cup {p}]
<1>2. /\ Working(e) /\ Installing(e) /\ CallHolds(e) /\ call[e].pc = "install"
      /\ p \in c.todo /\ files[p] # NoFile /\ files' = [files EXCEPT ![p] = NoFile]
      /\ call' = [call EXCEPT ![e] = d]
      /\ UNCHANGED <<manifest, excused>>
    BY <1>1 DEF BackUp, MoveAway, Go, Working, Installing, IInv
<1>3. files \in [Paths -> Writers] /\ c.kept \in [Paths -> Writers]
    BY <1>1 DEF IInv, Typed, CallRecord
<1>4. /\ d \in CallRecord
      /\ d.pc = "move" /\ d.outcome = c.outcome
      /\ d.job = c.job /\ d.existing = c.existing /\ d.merged = c.merged
      /\ d.before = c.before /\ d.kept = [c.kept EXCEPT ![p] = files[p]] /\ d.at = {p}
      /\ d.todo = c.todo /\ d.installed = c.installed /\ d.backups = c.backups \cup {p}
    BY <1>3 DEF CallRecord, Phases
<1> HIDE DEF d
<1>5. /\ call'[e] = d /\ Destinations(e)' = Destinations(e)
      /\ \A f \in Calls : f # e => call'[f] = call[f]
    BY <1>1, <1>2, <1>4, Unaltered
<1>6. /\ files' \in [Paths -> Writers] /\ files'[p] = NoFile
      /\ d.kept[p] = files[p]
      /\ \A q \in Paths \ {p} : files'[q] = files[q] /\ d.kept[q] = c.kept[q]
    BY <1>2, <1>3, <1>4 DEF Writers
<1>7. InstallationIsKnown(e)
    BY <1>2, WhileInstalling
<1>8. p \in Destinations(e) /\ AsFound(e, p) /\ p \notin c.installed /\ c.at = {}
    BY <1>1, <1>2, <1>7 DEF InstallationIsKnown
<1>9. ManifestIsKnown(e)'
    BY <1>1, <1>2, <1>4, <1>5, <1>7, ManifestStays DEF InstallationIsKnown
<1>10. KeptAreListed(e)'
    BY <1>1, <1>4, <1>5, <1>6, <1>7 DEF KeptAreListed, InstallationIsKnown
<1>11. PathsAreKnown(e)'
    <2>1. d.at \cup d.todo \cup d.installed \cup d.backups \subseteq Destinations(e)
        BY <1>1, <1>4, <1>7, <1>8 DEF InstallationIsKnown
    <2>2. \A q \in Paths \ Destinations(e) : AsFound(e, q)'
        BY <1>1, <1>4, <1>5, <1>6, <1>7, <1>8 DEF AsFound, InstallationIsKnown
    <2>3. \A q \in Destinations(e) :
              IF q \in d.at
              THEN /\ q \in d.todo /\ q \in d.backups /\ q \notin d.installed
                   /\ files'[q] = NoFile
                   /\ d.kept[q] = d.before[q]
              ELSE IF q \in d.todo THEN AsFound(e, q)' /\ q \notin d.installed
              ELSE q \in d.installed /\ files'[q] = e /\ Replaced(e, q)'
        <3> SUFFICES ASSUME NEW q \in Destinations(e)
                     PROVE  IF q \in d.at
                            THEN /\ q \in d.todo /\ q \in d.backups /\ q \notin d.installed
                                 /\ files'[q] = NoFile
                                 /\ d.kept[q] = d.before[q]
                            ELSE IF q \in d.todo THEN AsFound(e, q)' /\ q \notin d.installed
                            ELSE q \in d.installed /\ files'[q] = e /\ Replaced(e, q)'
            OBVIOUS
        <3>1. ASSUME q = p
              PROVE  /\ q \in d.at /\ q \in d.todo /\ q \in d.backups /\ q \notin d.installed
                     /\ files'[q] = NoFile
                     /\ d.kept[q] = d.before[q]
            BY <1>1, <1>2, <1>4, <1>6, <1>8, <3>1 DEF AsFound
        <3>2. ASSUME q # p
              PROVE  /\ q \notin d.at
                     /\ q \in d.todo => AsFound(e, q)' /\ q \notin d.installed
                     /\ q \notin d.todo =>
                           q \in d.installed /\ files'[q] = e /\ Replaced(e, q)'
            <4>1. q \in Paths
                BY PathsOfCalls DEF IInv
            <4>2. q \notin d.at /\ files'[q] = files[q] /\ d.kept[q] = c.kept[q]
                  /\ (q \in d.backups <=> q \in c.backups)
                BY <1>4, <1>6, <3>2, <4>1
            <4>3. q \in d.todo => AsFound(e, q)' /\ q \notin d.installed
                BY <1>1, <1>4, <1>5, <1>7, <1>8, <4>2 DEF AsFound, InstallationIsKnown
            <4>4. ASSUME q \notin d.todo
                  PROVE  q \in d.installed /\ files'[q] = e /\ Replaced(e, q)'
                <5>1. q \in c.installed /\ files[q] = e /\ Replaced(e, q)
                    BY <1>1, <1>4, <1>7, <1>8, <4>4 DEF InstallationIsKnown
                <5>2. QED
                    BY <1>1, <1>4, <1>5, <4>2, <5>1 DEF Replaced
            <4>5. QED
                BY <4>2, <4>3, <4>4
        <3>3. QED
            BY <3>1, <3>2
    <2>4. e \notin excused'
        BY <1>2, <1>7 DEF InstallationIsKnown
    <2>5. QED
        BY <1>4, <1>5, <2>1, <2>2, <2>3, <2>4 DEF PathsAreKnown, Succeeded
<1>12. \A m \in DOMAIN manifest :
          p \in manifest[m].tables /\ Stored(p, manifest[m].by) => Stored(p, manifest[m].by)'
    <2> SUFFICES ASSUME NEW m \in DOMAIN manifest, Stored(p, manifest[m].by)
                 PROVE  Stored(p, manifest[m].by)'
        OBVIOUS
    <2>1. manifest[m].by # NoFile /\ c.kept[p] = NoFile
        BY <1>1, <1>7, <1>8 DEF AsFound, InstallationIsKnown
    <2>2. CASE files[p] = manifest[m].by
        BY <1>2, <1>5, <1>6, <2>2 DEF Stored
    <2>3. CASE files[p] # manifest[m].by
        <3>1. PICK f \in Calls : call[f].kept[p] = manifest[m].by
            BY <2>3 DEF Stored
        <3>2. f # e
            BY <1>1, <2>1, <3>1
        <3>3. QED
            BY <1>2, <1>5, <3>1, <3>2 DEF Stored
    <2>4. QED
        BY <2>2, <2>3
<1>13. d.pc \in {"install", "move", "rollback"} /\ manifest' = manifest
       /\ excused' \in {excused, excused \cup {e}}
       /\ d.job = call[e].job /\ d.existing = call[e].existing /\ d.before = call[e].before
       /\ d.merged = call[e].merged
       /\ \A q \in Paths \ {p} : files'[q] = files[q] /\ d.kept[q] = call[e].kept[q]
    BY <1>1, <1>2, <1>4, <1>6
<1>14. QED
    BY <1>2, <1>4, <1>6, <1>8, <1>9, <1>10, <1>11, <1>12, <1>13, MoveKeeps

\* An interrupt that loses track of one path.
LEMMA CutShortKeeps ==
    ASSUME IInv, NEW e \in Calls, call[e].pc \in {"install", "move"},
           NEW d \in CallRecord, NEW p \in Destinations(e),
           call' = [call EXCEPT ![e] = d], d.pc = "rollback",
           d.job = call[e].job, d.existing = call[e].existing, d.before = call[e].before,
           d.merged = call[e].merged,
           d.at \cup d.todo \cup d.installed \cup d.backups \subseteq Destinations(e),
           manifest' = manifest, excused' = excused \cup {e},
           files' \in [Paths -> Writers],
           \A q \in Paths \ {p} : files'[q] = files[q] /\ d.kept[q] = call[e].kept[q]
    PROVE  Kept
<1>1. Working(e) /\ Installing(e)
    BY DEF Working, Installing
<1>2. /\ call'[e] = d /\ Destinations(e)' = Destinations(e)
      /\ InstallationIsKnown(e)
    BY <1>1, Unaltered, WhileInstalling
<1>3. ManifestIsKnown(e)'
    BY <1>2, ManifestStays DEF InstallationIsKnown
<1>4. PathsAreKnown(e)' /\ KeptAreListed(e)'
    BY <1>2 DEF PathsAreKnown, KeptAreListed, Succeeded
<1>5. d.pc \in {"install", "move", "rollback"} /\ excused' # {}
      /\ excused' \in {excused, excused \cup {e}}
    OBVIOUS
<1>6. QED
    BY <1>1, <1>3, <1>4, <1>5, MoveKeeps, ZenonT(30)

LEMMA BackUpInterruptedKeeps ==
    ASSUME IInv, NEW e \in Calls, NEW p \in Paths, BackUpInterrupted(e, p)
    PROVE  Kept
<1>1. PICK c \in CallRecord : c = call[e]
    BY DEF IInv, Typed
<1> DEFINE d == [c EXCEPT !.pc = "rollback", !.kept[p] = files[p]]
<1>2. /\ call[e].pc = "install" /\ p \in c.todo /\ files' = [files EXCEPT ![p] = NoFile]
      /\ call' = [call EXCEPT ![e] = d] /\ excused' = excused \cup {e} /\ manifest' = manifest
    BY <1>1 DEF BackUpInterrupted, MoveAway, Go
<1>3. files \in [Paths -> Writers] /\ c.kept \in [Paths -> Writers]
    BY <1>1 DEF IInv, Typed, CallRecord
<1>4. /\ d \in CallRecord
      /\ d.pc = "rollback"
      /\ d.job = c.job /\ d.existing = c.existing /\ d.merged = c.merged
      /\ d.before = c.before /\ d.kept = [c.kept EXCEPT ![p] = files[p]] /\ d.at = c.at
      /\ d.todo = c.todo /\ d.installed = c.installed /\ d.backups = c.backups
    BY <1>3 DEF CallRecord, Phases
<1> HIDE DEF d
<1>5. /\ files' \in [Paths -> Writers]
      /\ \A q \in Paths \ {p} : files'[q] = files[q] /\ d.kept[q] = call[e].kept[q]
    BY <1>1, <1>2, <1>3, <1>4 DEF Writers
<1>6. p \in Destinations(e)
      /\ d.at \cup d.todo \cup d.installed \cup d.backups \subseteq Destinations(e)
    BY <1>1, <1>2, <1>4, WhileInstalling DEF InstallationIsKnown, Working
<1>7. /\ call[e].pc \in {"install", "move"}
      /\ d.job = call[e].job /\ d.existing = call[e].existing /\ d.before = call[e].before
      /\ d.merged = call[e].merged
    BY <1>1, <1>2, <1>4
<1>8. QED
    BY <1>2, <1>4, <1>5, <1>6, <1>7, CutShortKeeps, ZenonT(30)

LEMMA InstallKeeps ==
    ASSUME IInv, NEW e \in Calls, NEW p \in Paths, Install(e, p)
    PROVE  Kept
<1>1. PICK c \in CallRecord : c = call[e]
    BY DEF IInv, Typed
<1> DEFINE d == [c EXCEPT !.pc = "install", !.at = {}, !.installed = c.installed \cup {p},
                          !.todo = c.todo \ {p}]
<1>2. /\ Working(e) /\ Installing(e) /\ CallHolds(e) /\ call[e].pc \in {"install", "move"}
      /\ (call[e].pc = "install" /\ p \in c.todo /\ files[p] = NoFile) \/ p \in c.at
      /\ files' = [files EXCEPT ![p] = e]
      /\ call' = [call EXCEPT ![e] = d]
      /\ UNCHANGED <<manifest, excused>>
    BY <1>1 DEF Install, MoveIn, Go, Working, Installing, IInv
<1>3. files \in [Paths -> Writers]
    BY DEF IInv, Typed
<1>4. /\ d \in CallRecord
      /\ d.pc = "install" /\ d.outcome = c.outcome
      /\ d.job = c.job /\ d.existing = c.existing /\ d.merged = c.merged
      /\ d.before = c.before /\ d.kept = c.kept /\ d.at = {}
      /\ d.todo = c.todo \ {p} /\ d.installed = c.installed \cup {p} /\ d.backups = c.backups
    BY DEF CallRecord, Phases
<1> HIDE DEF d
<1>5. /\ call'[e] = d /\ Destinations(e)' = Destinations(e)
      /\ \A f \in Calls : f # e => call'[f] = call[f]
    BY <1>1, <1>2, <1>4, Unaltered
<1>6. /\ files' \in [Paths -> Writers] /\ files'[p] = e
      /\ \A q \in Paths \ {p} : files'[q] = files[q]
    BY <1>2, <1>3 DEF Writers
<1>7. InstallationIsKnown(e)
    BY <1>2, WhileInstalling
<1>8. p \in Destinations(e) /\ p \in c.todo /\ files[p] = NoFile /\ c.at \subseteq c.todo
    BY <1>1, <1>2, <1>7 DEF InstallationIsKnown
<1>9. Replaced(e, p)
    BY <1>1, <1>7, <1>8 DEF InstallationIsKnown, Replaced, AsFound
<1>10. ManifestIsKnown(e)' /\ KeptAreListed(e)'
    <2>1. ManifestIsKnown(e)'
        BY <1>1, <1>2, <1>4, <1>5, <1>7, ManifestStays DEF InstallationIsKnown
    <2>2. KeptAreListed(e)'
        BY <1>1, <1>4, <1>5, <1>7 DEF KeptAreListed, InstallationIsKnown
    <2>3. QED
        BY <2>1, <2>2
<1>11. PathsAreKnown(e)'
    <2>1. d.at \cup d.todo \cup d.installed \cup d.backups \subseteq Destinations(e)
        BY <1>1, <1>4, <1>7, <1>8 DEF InstallationIsKnown
    <2>2. \A q \in Paths \ Destinations(e) : AsFound(e, q)'
        BY <1>1, <1>4, <1>5, <1>6, <1>7, <1>8 DEF AsFound, InstallationIsKnown
    <2>3. \A q \in Destinations(e) :
              IF q \in d.at
              THEN /\ q \in d.todo /\ q \in d.backups /\ q \notin d.installed
                   /\ files'[q] = NoFile
                   /\ d.kept[q] = d.before[q]
              ELSE IF q \in d.todo THEN AsFound(e, q)' /\ q \notin d.installed
              ELSE q \in d.installed /\ files'[q] = e /\ Replaced(e, q)'
        <3> SUFFICES ASSUME NEW q \in Destinations(e)
                     PROVE  /\ q \notin d.at
                            /\ q \in d.todo => AsFound(e, q)' /\ q \notin d.installed
                            /\ q \notin d.todo =>
                                  q \in d.installed /\ files'[q] = e /\ Replaced(e, q)'
            OBVIOUS
        <3>1. ASSUME q = p
              PROVE  q \notin d.todo /\ q \in d.installed /\ files'[q] = e /\ Replaced(e, q)'
            BY <1>1, <1>4, <1>5, <1>6, <1>9, <3>1 DEF Replaced
        <3>2. ASSUME q # p
              PROVE  /\ q \in d.todo => AsFound(e, q)' /\ q \notin d.installed
                     /\ q \notin d.todo =>
                           q \in d.installed /\ files'[q] = e /\ Replaced(e, q)'
            <4>1. q \in Paths
                BY PathsOfCalls DEF IInv
            <4>2. /\ files'[q] = files[q] /\ q \notin c.at
                  /\ (q \in d.todo <=> q \in c.todo) /\ (q \in d.installed <=> q \in c.installed)
                BY <1>1, <1>2, <1>4, <1>6, <1>7, <3>2, <4>1 DEF InstallationIsKnown
            <4>3. ASSUME q \in d.todo PROVE AsFound(e, q)' /\ q \notin d.installed
                <5>1. AsFound(e, q) /\ q \notin c.installed
                    BY <1>1, <1>7, <4>2, <4>3 DEF InstallationIsKnown
                <5>2. QED
                    BY <1>1, <1>4, <1>5, <4>2, <5>1 DEF AsFound
            <4>4. ASSUME q \notin d.todo
                  PROVE  q \in d.installed /\ files'[q] = e /\ Replaced(e, q)'
                <5>1. q \in c.installed /\ files[q] = e /\ Replaced(e, q)
                    BY <1>1, <1>7, <4>2, <4>4 DEF InstallationIsKnown
                <5>2. QED
                    BY <1>1, <1>4, <1>5, <4>2, <5>1 DEF Replaced
            <4>5. QED
                BY <4>3, <4>4
        <3>3. QED
            BY <1>4, <3>1, <3>2
    <2>4. e \notin excused'
        BY <1>2, <1>7 DEF InstallationIsKnown
    <2>5. QED
        BY <1>4, <1>5, <2>1, <2>2, <2>3, <2>4 DEF PathsAreKnown, Succeeded
<1>12. \A m \in DOMAIN manifest :
          p \in manifest[m].tables /\ Stored(p, manifest[m].by) => Stored(p, manifest[m].by)'
    <2> SUFFICES ASSUME NEW m \in DOMAIN manifest, Stored(p, manifest[m].by)
                 PROVE  Stored(p, manifest[m].by)'
        OBVIOUS
    <2>1. manifest[m].by # NoFile
        BY <1>7 DEF InstallationIsKnown
    <2>2. PICK f \in Calls : call[f].kept[p] = manifest[m].by
        BY <1>8, <2>1 DEF Stored
    <2>3. call'[f].kept = call[f].kept
        BY <1>1, <1>4, <1>5
    <2>4. QED
        BY <1>2, <2>2, <2>3 DEF Stored
<1>13. Working(e) /\ Installing(e) /\ d \in CallRecord /\ call' = [call EXCEPT ![e] = d]
       /\ d.pc \in {"install", "move", "rollback"} /\ manifest' = manifest
       /\ files' \in [Paths -> Writers]
       /\ excused' \in {excused, excused \cup {e}}
       /\ d.job = call[e].job /\ d.existing = call[e].existing /\ d.before = call[e].before
       /\ d.merged = call[e].merged
       /\ \A q \in Paths \ {p} : files'[q] = files[q] /\ d.kept[q] = call[e].kept[q]
    BY <1>1, <1>2, <1>4, <1>6
<1>14. QED
    BY <1>8, <1>10, <1>11, <1>12, <1>13, MoveKeeps, ZenonT(30)

LEMMA InstallInterruptedKeeps ==
    ASSUME IInv, NEW e \in Calls, NEW p \in Paths, InstallInterrupted(e, p)
    PROVE  Kept
<1>1. PICK c \in CallRecord : c = call[e]
    BY DEF IInv, Typed
<1> DEFINE d == [c EXCEPT !.pc = "rollback", !.at = {}]
<1>2. /\ Working(e) /\ Installing(e) /\ call[e].pc \in {"install", "move"}
      /\ (call[e].pc = "install" /\ p \in c.todo /\ files[p] = NoFile) \/ p \in c.at
      /\ files' = [files EXCEPT ![p] = e]
      /\ call' = [call EXCEPT ![e] = d]
      /\ manifest' = manifest
      /\ excused' = IF p \in c.backups THEN excused ELSE excused \cup {e}
    BY <1>1 DEF InstallInterrupted, MoveIn, Go, Working, Installing
<1>3. files \in [Paths -> Writers]
    BY DEF IInv, Typed
<1>4. /\ d \in CallRecord
      /\ d.pc = "rollback" /\ d.outcome = c.outcome
      /\ d.job = c.job /\ d.existing = c.existing /\ d.merged = c.merged
      /\ d.before = c.before /\ d.kept = c.kept /\ d.at = {}
      /\ d.todo = c.todo /\ d.installed = c.installed /\ d.backups = c.backups
    BY DEF CallRecord, Phases
<1> HIDE DEF d
<1>5. /\ call'[e] = d /\ Destinations(e)' = Destinations(e)
      /\ \A f \in Calls : f # e => call'[f] = call[f]
    BY <1>1, <1>2, <1>4, Unaltered
<1>6. /\ files' \in [Paths -> Writers] /\ files'[p] = e
      /\ \A q \in Paths \ {p} : files'[q] = files[q]
    BY <1>2, <1>3 DEF Writers
<1>7. InstallationIsKnown(e)
    BY <1>2, WhileInstalling
<1>8. p \in Destinations(e) /\ p \in c.todo /\ files[p] = NoFile /\ p \notin c.installed
    BY <1>1, <1>2, <1>7 DEF InstallationIsKnown, AsFound
<1>9. d.at \cup d.todo \cup d.installed \cup d.backups \subseteq Destinations(e)
    BY <1>1, <1>4, <1>7 DEF InstallationIsKnown
<1>10. d.pc \in {"install", "move", "rollback"}
       /\ d.job = call[e].job /\ d.existing = call[e].existing /\ d.before = call[e].before
       /\ d.merged = call[e].merged
       /\ \A q \in Paths \ {p} : files'[q] = files[q] /\ d.kept[q] = call[e].kept[q]
    BY <1>1, <1>4, <1>6
<1>11. CASE p \notin c.backups
    <2>1. excused' = excused \cup {e}
        BY <1>2, <1>11
    <2>2. QED
        BY <1>2, <1>4, <1>6, <1>8, <1>9, <1>10, <2>1, CutShortKeeps, ZenonT(30)
<1>12. CASE p \in c.backups
    <2>1. excused' = excused /\ e \notin excused
        BY <1>2, <1>7, <1>12 DEF InstallationIsKnown
    <2>2. ManifestIsKnown(e)' /\ KeptAreListed(e)'
        <3>1. ManifestIsKnown(e)'
            BY <1>1, <1>2, <1>4, <1>5, <1>7, ManifestStays DEF InstallationIsKnown
        <3>2. KeptAreListed(e)'
            BY <1>1, <1>4, <1>5, <1>7 DEF KeptAreListed, InstallationIsKnown
        <3>3. QED
            BY <3>1, <3>2
    <2>3. PathsAreKnown(e)'
        <3>1. \A q \in d.installed : files'[q] = e /\ Replaced(e, q)'
            <4> SUFFICES ASSUME NEW q \in c.installed
                         PROVE  files'[q] = e /\ Replaced(e, q)'
                BY <1>4
            <4>1. q \in Paths /\ q \in Destinations(e) /\ q # p
                BY <1>1, <1>7, <1>8, PathsOfCalls DEF InstallationIsKnown, IInv
            <4>2. q \notin c.at /\ q \notin c.todo
                BY <1>1, <1>7 DEF InstallationIsKnown
            <4>3. files[q] = e /\ Replaced(e, q)
                BY <1>1, <1>7, <4>1, <4>2 DEF InstallationIsKnown
            <4>4. QED
                BY <1>1, <1>4, <1>5, <1>6, <4>1, <4>3 DEF Replaced
        <3>2. \A q \in d.backups : files'[q] \in {NoFile, e} /\ d.kept[q] = d.before[q]
            <4> SUFFICES ASSUME NEW q \in c.backups
                         PROVE  files'[q] \in {NoFile, e} /\ c.kept[q] = c.before[q]
                BY <1>4
            <4>1. q \in Paths /\ q \in Destinations(e)
                BY <1>1, <1>7, PathsOfCalls DEF InstallationIsKnown, IInv
            <4>2. files[q] \in {NoFile, e} /\ c.kept[q] = c.before[q]
                BY <1>1, <1>7, <4>1 DEF InstallationIsKnown, AsFound, Replaced
            <4>3. QED
                BY <1>6, <4>1, <4>2
        <3>3. \A q \in Paths \ (d.installed \cup d.backups) : AsFound(e, q)'
            <4> SUFFICES ASSUME NEW q \in Paths, q \notin c.installed, q \notin c.backups
                         PROVE  AsFound(e, q)'
                BY <1>4
            <4>1. AsFound(e, q)
                BY <1>1, <1>7 DEF InstallationIsKnown
            <4>2. QED
                BY <1>1, <1>4, <1>5, <1>6, <1>12, <4>1 DEF AsFound
        <3>4. QED
            BY <1>4, <1>5, <1>9, <2>1, <3>1, <3>2, <3>3 DEF PathsAreKnown, Succeeded
    <2>4. \A m \in DOMAIN manifest :
             p \in manifest[m].tables /\ Stored(p, manifest[m].by) => Stored(p, manifest[m].by)'
        <3> SUFFICES ASSUME NEW m \in DOMAIN manifest, Stored(p, manifest[m].by)
                     PROVE  Stored(p, manifest[m].by)'
            OBVIOUS
        <3>1. manifest[m].by # NoFile
            BY <1>7 DEF InstallationIsKnown
        <3>2. PICK f \in Calls : call[f].kept[p] = manifest[m].by
            BY <1>8, <3>1 DEF Stored
        <3>3. call'[f].kept = call[f].kept
            BY <1>1, <1>4, <1>5
        <3>4. QED
            BY <1>2, <3>2, <3>3 DEF Stored
    <2>5. manifest' = manifest /\ excused' \in {excused, excused \cup {e}}
        BY <1>2, <2>1
    <2>6. QED
        BY <1>2, <1>4, <1>6, <1>8, <1>10, <2>2, <2>3, <2>4, <2>5, MoveKeeps
<1>13. QED
    BY <1>11, <1>12

\* Where the paths are during a rollback that nothing has cut short.
RollbackIsKnown(e) ==
    /\ manifest = call[e].existing
    /\ \A q \in call[e].installed : files[q] = e /\ Replaced(e, q)
    /\ \A q \in call[e].backups :
          files[q] \in {NoFile, e} /\ call[e].kept[q] = call[e].before[q]
    /\ \A q \in Paths \ (call[e].installed \cup call[e].backups) : AsFound(e, q)
    /\ \A q \in Paths \ call[e].backups : call[e].kept[q] = NoFile
    /\ \A m \in DOMAIN manifest : manifest[m].by \notin {NoFile, e}

LEMMA WhileRollingBack ==
    ASSUME IInv, NEW e \in Calls, call[e].pc = "rollback"
    PROVE  /\ call[e].at \cup call[e].todo \cup call[e].installed \cup call[e].backups
                 \subseteq Destinations(e)
           /\ manifest = call[e].existing \/ (e \in excused /\ manifest = call[e].merged)
           /\ e \notin excused => RollbackIsKnown(e)
<1>1. Working(e) /\ PathsAreKnown(e) /\ ManifestIsKnown(e) /\ KeptAreListed(e)
    BY DEF IInv, CallHolds, Working
<1>2. /\ call[e].at \cup call[e].todo \cup call[e].installed \cup call[e].backups
            \subseteq Destinations(e)
      /\ manifest = call[e].existing \/ (e \in excused /\ manifest = call[e].merged)
    <2>1. call[e].at \cup call[e].todo \cup call[e].installed \cup call[e].backups
              \subseteq Destinations(e)
        BY <1>1 DEF PathsAreKnown
    <2>2. manifest = call[e].existing \/ (e \in excused /\ manifest = call[e].merged)
        BY <1>1 DEF ManifestIsKnown
    <2>3. QED
        BY <2>1, <2>2
<1>3. ASSUME e \notin excused
      PROVE  RollbackIsKnown(e)
    <2>1. manifest = call[e].existing
        BY <1>2, <1>3
    <2>2. \A m \in DOMAIN manifest : manifest[m].by \notin {NoFile, e}
        BY <1>1, <2>1, NamesAreOld
    <2>3. \A q \in Paths \ call[e].backups : call[e].kept[q] = NoFile
        BY <1>1, <1>3 DEF KeptAreListed
    <2>4. /\ \A q \in call[e].installed : files[q] = e /\ Replaced(e, q)
          /\ \A q \in call[e].backups :
                files[q] \in {NoFile, e} /\ call[e].kept[q] = call[e].before[q]
          /\ \A q \in Paths \ (call[e].installed \cup call[e].backups) : AsFound(e, q)
        BY <1>1, <1>3 DEF PathsAreKnown
    <2>5. QED
        BY <2>1, <2>2, <2>3, <2>4 DEF RollbackIsKnown
<1>4. QED
    BY <1>2, <1>3

LEMMA RemoveKeeps ==
    ASSUME IInv, NEW e \in Calls, NEW p \in Paths, Remove(e, p)
    PROVE  Kept
<1>1. PICK c \in CallRecord : c = call[e]
    BY DEF IInv, Typed
<1> DEFINE d == [c EXCEPT !.installed = c.installed \ {p}]
<1>2. /\ Working(e) /\ Installing(e) /\ call[e].pc = "rollback" /\ p \in c.installed
      /\ files' = [files EXCEPT ![p] = NoFile]
      /\ call' = [call EXCEPT ![e] = d]
      /\ manifest' = manifest /\ excused' = excused
    BY <1>1 DEF Remove, Go, Working, Installing
<1>3. files \in [Paths -> Writers]
    BY DEF IInv, Typed
<1>4. /\ d \in CallRecord
      /\ d.pc = c.pc /\ d.outcome = c.outcome
      /\ d.job = c.job /\ d.existing = c.existing /\ d.merged = c.merged
      /\ d.before = c.before /\ d.kept = c.kept /\ d.at = c.at
      /\ d.todo = c.todo /\ d.installed = c.installed \ {p} /\ d.backups = c.backups
    BY DEF CallRecord
<1> HIDE DEF d
<1>5. /\ call'[e] = d /\ Destinations(e)' = Destinations(e)
      /\ \A f \in Calls : f # e => call'[f] = call[f]
    BY <1>1, <1>2, <1>4, Unaltered
<1>6. /\ files' \in [Paths -> Writers] /\ files'[p] = NoFile
      /\ \A q \in Paths \ {p} : files'[q] = files[q]
    BY <1>2, <1>3 DEF Writers
<1>7. /\ p \in Destinations(e)
      /\ c.at \cup c.todo \cup c.installed \cup c.backups \subseteq Destinations(e)
      /\ manifest = call[e].existing \/ (e \in excused /\ manifest = call[e].merged)
    BY <1>1, <1>2, WhileRollingBack
<1>8. ManifestIsKnown(e)'
    <2>1. call'[e].pc = "rollback" /\ call'[e].existing = call[e].existing
          /\ call'[e].merged = call[e].merged
        BY <1>1, <1>2, <1>4, <1>5
    <2>2. QED
        BY <1>2, <1>7, <2>1 DEF ManifestIsKnown, Succeeded
<1>9. ASSUME e \notin excused
      PROVE  /\ \A q \in d.installed : files'[q] = e /\ Replaced(e, q)'
             /\ \A q \in d.backups : files'[q] \in {NoFile, e} /\ d.kept[q] = d.before[q]
             /\ \A q \in Paths \ (d.installed \cup d.backups) : AsFound(e, q)'
             /\ \A q \in Paths \ d.backups : d.kept[q] = NoFile
             /\ \A m \in DOMAIN manifest :
                   p \in manifest[m].tables /\ Stored(p, manifest[m].by)
                       => Stored(p, manifest[m].by)'
    <2>1. RollbackIsKnown(e)
        BY <1>2, <1>9, WhileRollingBack
    <2>2. c.installed \cup c.backups \subseteq Paths
        BY <1>7, PathsOfCalls DEF IInv
    <2>3. \A q \in d.installed : files'[q] = e /\ Replaced(e, q)'
        <3> SUFFICES ASSUME NEW q \in c.installed, q # p
                     PROVE  files'[q] = e /\ Replaced(e, q)'
            BY <1>4
        <3>1. files[q] = e /\ Replaced(e, q)
            BY <1>1, <2>1 DEF RollbackIsKnown
        <3>2. QED
            BY <1>1, <1>4, <1>5, <1>6, <2>2, <3>1 DEF Replaced
    <2>4. \A q \in d.backups : files'[q] \in {NoFile, e} /\ d.kept[q] = d.before[q]
        BY <1>1, <1>4, <1>6, <2>1, <2>2 DEF RollbackIsKnown
    <2>5. \A q \in Paths \ (d.installed \cup d.backups) : AsFound(e, q)'
        <3> SUFFICES ASSUME NEW q \in Paths, q \notin d.installed, q \notin d.backups
                     PROVE  AsFound(e, q)'
            OBVIOUS
        <3>1. ASSUME q = p PROVE AsFound(e, q)'
            <4>1. Replaced(e, q) /\ q \notin c.backups
                BY <1>1, <1>2, <1>4, <2>1, <3>1 DEF RollbackIsKnown
            <4>2. QED
                BY <1>1, <1>4, <1>5, <1>6, <3>1, <4>1 DEF AsFound, Replaced
        <3>2. ASSUME q # p PROVE AsFound(e, q)'
            <4>1. AsFound(e, q)
                BY <1>1, <1>4, <2>1, <3>2 DEF RollbackIsKnown
            <4>2. QED
                BY <1>1, <1>4, <1>5, <1>6, <3>2, <4>1 DEF AsFound
        <3>3. QED
            BY <3>1, <3>2
    <2>6. \A q \in Paths \ d.backups : d.kept[q] = NoFile
        BY <1>1, <1>4, <2>1 DEF RollbackIsKnown
    <2>7. ASSUME NEW m \in DOMAIN manifest, Stored(p, manifest[m].by)
          PROVE  Stored(p, manifest[m].by)'
        <3>1. files[p] = e /\ manifest[m].by # e
            BY <1>1, <1>2, <2>1 DEF RollbackIsKnown
        <3>2. PICK f \in Calls : call[f].kept[p] = manifest[m].by
            BY <2>7, <3>1 DEF Stored
        <3>3. call'[f].kept = call[f].kept
            BY <1>1, <1>4, <1>5
        <3>4. QED
            BY <1>2, <3>2, <3>3 DEF Stored
    <2>8. QED
        BY <2>3, <2>4, <2>5, <2>6, <2>7
<1>10. PathsAreKnown(e)'
    <2>1. d.at \cup d.todo \cup d.installed \cup d.backups \subseteq Destinations(e)
        BY <1>4, <1>7
    <2>2. QED
        BY <1>1, <1>2, <1>4, <1>5, <1>9, <2>1 DEF PathsAreKnown, Succeeded
<1>11. KeptAreListed(e)'
    BY <1>2, <1>5, <1>9 DEF KeptAreListed
<1>12. \/ excused' # {}
       \/ \A m \in DOMAIN manifest :
              p \in manifest[m].tables /\ Stored(p, manifest[m].by) => Stored(p, manifest[m].by)'
    BY <1>2, <1>9
<1>13. Working(e) /\ Installing(e) /\ d \in CallRecord /\ call' = [call EXCEPT ![e] = d]
       /\ d.pc \in {"install", "move", "rollback"} /\ manifest' = manifest
       /\ files' \in [Paths -> Writers]
       /\ excused' \in {excused, excused \cup {e}}
       /\ d.job = call[e].job /\ d.existing = call[e].existing /\ d.before = call[e].before
       /\ d.merged = call[e].merged
       /\ \A q \in Paths \ {p} : files'[q] = files[q] /\ d.kept[q] = call[e].kept[q]
    BY <1>1, <1>2, <1>4, <1>6
<1>14. QED
    BY <1>7, <1>8, <1>10, <1>11, <1>12, <1>13, MoveKeeps, ZenonT(30)

LEMMA RestoreKeeps ==
    ASSUME IInv, NEW e \in Calls, NEW p \in Paths, Restore(e, p)
    PROVE  Kept
<1>1. PICK c \in CallRecord : c = call[e]
    BY DEF IInv, Typed
<1> DEFINE d == [c EXCEPT !.backups = c.backups \ {p}, !.kept[p] = NoFile]
<1>2. /\ Working(e) /\ Installing(e) /\ call[e].pc = "rollback" /\ p \in c.backups
      /\ c.installed = {}
      /\ files' = [files EXCEPT ![p] = c.kept[p]]
      /\ call' = [call EXCEPT ![e] = d]
      /\ manifest' = manifest /\ excused' = excused
    BY <1>1 DEF Restore, Go, Working, Installing
<1>3. files \in [Paths -> Writers] /\ c.kept \in [Paths -> Writers]
    BY DEF IInv, Typed, CallRecord
<1>4. /\ d \in CallRecord
      /\ d.pc = c.pc /\ d.outcome = c.outcome
      /\ d.job = c.job /\ d.existing = c.existing /\ d.merged = c.merged
      /\ d.before = c.before /\ d.kept = [c.kept EXCEPT ![p] = NoFile] /\ d.at = c.at
      /\ d.todo = c.todo /\ d.installed = c.installed /\ d.backups = c.backups \ {p}
    BY <1>3 DEF CallRecord, Writers
<1> HIDE DEF d
<1>5. /\ call'[e] = d /\ Destinations(e)' = Destinations(e)
      /\ \A f \in Calls : f # e => call'[f] = call[f]
    BY <1>1, <1>2, <1>4, Unaltered
<1>6. /\ files' \in [Paths -> Writers] /\ files'[p] = c.kept[p] /\ d.kept[p] = NoFile
      /\ \A q \in Paths \ {p} : files'[q] = files[q] /\ d.kept[q] = c.kept[q]
    BY <1>2, <1>3, <1>4
<1>7. /\ p \in Destinations(e)
      /\ c.at \cup c.todo \cup c.installed \cup c.backups \subseteq Destinations(e)
      /\ manifest = call[e].existing \/ (e \in excused /\ manifest = call[e].merged)
    BY <1>1, <1>2, WhileRollingBack
<1>8. ManifestIsKnown(e)'
    <2>1. call'[e].pc = "rollback" /\ call'[e].existing = call[e].existing
          /\ call'[e].merged = call[e].merged
        BY <1>1, <1>2, <1>4, <1>5
    <2>2. QED
        BY <1>2, <1>7, <2>1 DEF ManifestIsKnown, Succeeded
<1>9. ASSUME e \notin excused
      PROVE  /\ \A q \in d.backups : files'[q] \in {NoFile, e} /\ d.kept[q] = d.before[q]
             /\ \A q \in Paths \ (d.installed \cup d.backups) : AsFound(e, q)'
             /\ \A q \in Paths \ d.backups : d.kept[q] = NoFile
             /\ \A m \in DOMAIN manifest :
                   p \in manifest[m].tables /\ Stored(p, manifest[m].by)
                       => Stored(p, manifest[m].by)'
    <2>1. RollbackIsKnown(e)
        BY <1>2, <1>9, WhileRollingBack
    <2>2. c.installed \cup c.backups \subseteq Paths
        BY <1>7, PathsOfCalls DEF IInv
    <2>3. \A q \in d.backups : files'[q] \in {NoFile, e} /\ d.kept[q] = d.before[q]
        BY <1>1, <1>4, <1>6, <2>1, <2>2 DEF RollbackIsKnown
    <2>4. \A q \in Paths \ (d.installed \cup d.backups) : AsFound(e, q)'
        <3> SUFFICES ASSUME NEW q \in Paths, q \notin d.installed, q \notin d.backups
                     PROVE  AsFound(e, q)'
            OBVIOUS
        <3>1. ASSUME q = p PROVE AsFound(e, q)'
            <4>1. c.kept[q] = c.before[q]
                BY <1>1, <1>2, <2>1, <3>1 DEF RollbackIsKnown
            <4>2. QED
                BY <1>1, <1>4, <1>5, <1>6, <3>1, <4>1 DEF AsFound
        <3>2. ASSUME q # p PROVE AsFound(e, q)'
            <4>1. AsFound(e, q)
                BY <1>1, <1>4, <2>1, <3>2 DEF RollbackIsKnown
            <4>2. QED
                BY <1>1, <1>4, <1>5, <1>6, <3>2, <4>1 DEF AsFound
        <3>3. QED
            BY <3>1, <3>2
    <2>5. \A q \in Paths \ d.backups : d.kept[q] = NoFile
        BY <1>1, <1>4, <1>6, <2>1 DEF RollbackIsKnown
    <2>6. ASSUME NEW m \in DOMAIN manifest, Stored(p, manifest[m].by)
          PROVE  Stored(p, manifest[m].by)'
        <3>1. files[p] \in {NoFile, e} /\ manifest[m].by \notin {NoFile, e}
            BY <1>1, <1>2, <2>1 DEF RollbackIsKnown
        <3>2. PICK f \in Calls : call[f].kept[p] = manifest[m].by
            BY <2>6, <3>1 DEF Stored
        <3>3. CASE f = e
            BY <1>1, <1>2, <1>6, <3>2, <3>3 DEF Stored
        <3>4. CASE f # e
            BY <1>2, <1>5, <3>2, <3>4 DEF Stored
        <3>5. QED
            BY <3>3, <3>4
    <2>7. QED
        BY <2>3, <2>4, <2>5, <2>6
<1>10. PathsAreKnown(e)'
    <2>1. d.at \cup d.todo \cup d.installed \cup d.backups \subseteq Destinations(e)
        BY <1>4, <1>7
    <2>2. QED
        BY <1>1, <1>2, <1>4, <1>5, <1>9, <2>1 DEF PathsAreKnown, Succeeded
<1>11. KeptAreListed(e)'
    BY <1>2, <1>5, <1>9 DEF KeptAreListed
<1>12. \/ excused' # {}
       \/ \A m \in DOMAIN manifest :
              p \in manifest[m].tables /\ Stored(p, manifest[m].by) => Stored(p, manifest[m].by)'
    BY <1>2, <1>9
<1>13. Working(e) /\ Installing(e) /\ d \in CallRecord /\ call' = [call EXCEPT ![e] = d]
       /\ d.pc \in {"install", "move", "rollback"} /\ manifest' = manifest
       /\ files' \in [Paths -> Writers]
       /\ excused' \in {excused, excused \cup {e}}
       /\ d.job = call[e].job /\ d.existing = call[e].existing /\ d.before = call[e].before
       /\ d.merged = call[e].merged
       /\ \A q \in Paths \ {p} : files'[q] = files[q] /\ d.kept[q] = call[e].kept[q]
    BY <1>1, <1>2, <1>4, <1>6
<1>14. QED
    BY <1>7, <1>8, <1>10, <1>11, <1>12, <1>13, MoveKeeps, ZenonT(30)

\* Tables that only the old manifest names are named by no metric any more.
LEMMA RemoveStaleKeeps ==
    ASSUME IInv, NEW e \in Calls, NEW removed \in SUBSET Paths, RemoveStale(e, removed)
    PROVE  Kept
<1>1. PICK c \in CallRecord : c = call[e]
    BY DEF IInv, Typed
<1>2. PICK outcome \in {"ok", "failed"} :
          /\ call' = [call EXCEPT ![e] = [c EXCEPT !.pc = "leave", !.outcome = outcome]]
          /\ excused' = IF outcome = "ok" THEN excused ELSE excused \cup {e}
    BY <1>1 DEF RemoveStale, Go
<1> DEFINE d == [c EXCEPT !.pc = "leave", !.outcome = outcome]
<1>3. /\ Working(e) /\ call[e].pc = "stale" /\ CallHolds(e) /\ IsChecked(e)
      /\ removed \subseteq Stale(e) \ Destinations(e)
      /\ files' = [p \in Paths |-> IF p \in removed THEN NoFile ELSE files[p]]
      /\ manifest' = manifest /\ manifest = call[e].merged
      /\ call' = [call EXCEPT ![e] = d]
    BY <1>2 DEF RemoveStale, Working, IInv, CallHolds, Installing, ManifestIsKnown, Succeeded
<1>4. /\ d \in CallRecord
      /\ d.pc = "leave" /\ d.outcome = outcome
      /\ d.job = c.job /\ d.existing = c.existing /\ d.merged = c.merged
      /\ d.before = c.before /\ d.kept = c.kept /\ d.at = c.at
      /\ d.todo = c.todo /\ d.installed = c.installed /\ d.backups = c.backups
    BY DEF CallRecord, Phases
<1> HIDE DEF d
<1>5. /\ call'[e] = d /\ Destinations(e)' = Destinations(e) /\ JobIsOwn(e) /\ JobIsOwn(e)'
      /\ Unrelated(e)' = Unrelated(e) /\ Stale(e)' = Stale(e)
      /\ \A f \in Calls : f # e => call'[f] = call[f]
      /\ \A f \in Calls : call'[f].job = call[f].job
    BY <1>1, <1>3, <1>4, Unaltered
<1>6. /\ files \in [Paths -> Writers] /\ Destinations(e) \subseteq Paths
      /\ files' \in [Paths -> Writers]
      /\ \A p \in Paths \ removed : files'[p] = files[p]
    <2>1. files \in [Paths -> Writers]
        BY DEF IInv, Typed
    <2>2. QED
        BY <1>3, <2>1, PathsOfCalls DEF IInv, Writers
\* What the manifest names is not removed, and is the table it names.
<1>7. \A m \in DOMAIN manifest : \A p \in manifest[m].tables :
          /\ p \in Paths \ removed
          /\ m \in DOMAIN call[e].job => p \in Destinations(e) /\ manifest[m].by = e
          /\ m \notin DOMAIN call[e].job =>
                /\ p \in Unrelated(e) /\ m \in DOMAIN call[e].existing
                /\ manifest[m] = call[e].existing[m]
    <2> SUFFICES ASSUME NEW m \in DOMAIN manifest, NEW p \in manifest[m].tables
                 PROVE  /\ p \in Paths \ removed
                        /\ m \in DOMAIN call[e].job => p \in Destinations(e) /\ manifest[m].by = e
                        /\ m \notin DOMAIN call[e].job =>
                              /\ p \in Unrelated(e) /\ m \in DOMAIN call[e].existing
                              /\ manifest[m] = call[e].existing[m]
        OBVIOUS
    <2>1. p \in Paths
        BY LayoutsArePaths DEF IInv, Typed, IsEntries, Entry
    <2>2. CASE m \in DOMAIN call[e].job
        <3>1. manifest[m] = call[e].job[m]
            BY <1>3, <2>2 DEF IsChecked
        <3>2. p \in Destinations(e)
            BY <2>2, <3>1, PathsOfCalls DEF IInv
        <3>3. QED
            BY <1>3, <1>5, <2>1, <2>2, <3>1, <3>2 DEF JobIsOwn
    <2>3. CASE m \notin DOMAIN call[e].job
        <3>1. m \in DOMAIN call[e].existing /\ manifest[m] = call[e].existing[m]
            BY <1>3, <2>3 DEF IsChecked
        <3>2. p \in Unrelated(e)
            BY <2>3, <3>1, PathsOfCalls DEF IInv
        <3>3. p \notin Stale(e)
            BY <1>5, <2>3, <3>1, PathsOfCalls DEF IInv, JobIsOwn, Disjoint
        <3>4. QED
            BY <1>3, <2>1, <2>3, <3>1, <3>2, <3>3
    <2>4. QED
        BY <2>2, <2>3
<1>8. CallHolds(e)'
    <2>1. ManifestIsKnown(e)'
        <3>1. outcome = "failed" => e \in excused'
            BY <1>2
        <3>2. QED
            BY <1>1, <1>3, <1>4, <1>5, <3>1 DEF ManifestIsKnown, Succeeded
    <2>2. KeptAreListed(e)'
        <3>1. e \notin excused' => e \notin excused
            BY <1>2
        <3>2. QED
            BY <1>1, <1>3, <1>4, <1>5, <3>1 DEF CallHolds, KeptAreListed
    <2>3. IsChecked(e)'
        BY <1>1, <1>3, <1>4, <1>5 DEF IsChecked
    <2>4. PathsAreKnown(e)'
        <3>1. d.at \cup d.todo \cup d.installed \cup d.backups \subseteq Destinations(e)
            BY <1>1, <1>3, <1>4 DEF CallHolds, PathsAreKnown
        <3>2. /\ \A p \in Destinations(e) : files[p] = e
              /\ \A p \in Unrelated(e) : files[p] = call[e].before[p]
            BY <1>3 DEF CallHolds, PathsAreKnown, Succeeded
        <3>3. \A p \in Destinations(e) : files'[p] = e
            BY <1>3, <1>6, <3>2
        <3>4. ASSUME NEW p \in Unrelated(e) PROVE files'[p] = d.before[p]
            <4>1. PICK m \in DOMAIN call[e].existing \ DOMAIN call[e].job :
                      p \in call[e].existing[m].tables
                BY PathsOfCalls DEF IInv
            <4>2. m \in DOMAIN manifest /\ manifest[m] = call[e].existing[m]
                BY <1>3, <4>1 DEF IsChecked
            <4>3. p \in Paths \ removed
                BY <1>7, <4>1, <4>2
            <4>4. QED
                BY <1>1, <1>4, <1>6, <3>2, <4>3
        <3>5. QED
            BY <1>4, <1>5, <3>1, <3>3, <3>4 DEF PathsAreKnown
    <2>5. QED
        BY <1>5, <2>1, <2>2, <2>3, <2>4 DEF CallHolds
<1>9. OthersStayReadable'
    <2>1. manifest \in {call[e].existing, call[e].merged}
          /\ manifest' \in {manifest, call[e].merged}
          /\ \A p \in Paths \ (Destinations(e) \cup Stale(e)) : files'[p] = files[p]
        BY <1>3, <1>6
    <2>2. QED
        BY <1>3, <1>5, <2>1, OthersKept
<1>10. ASSUME Clean' PROVE \A m \in DOMAIN manifest' : Readable(m)'
    <2>1. Clean /\ FoundReadable(e)
        <3>1. excused = {}
            BY <1>2, <1>10 DEF Clean
        <3>2. Clean
            BY <1>3, <1>5, <1>10, <3>1 DEF Clean
        <3>3. QED
            BY <1>3, <3>2 DEF IInv, CleanIsReadable
    <2> SUFFICES ASSUME NEW m \in DOMAIN manifest, NEW p \in manifest[m].tables
                 PROVE  files'[p] = manifest[m].by
        BY <1>3 DEF Readable
    <2>2. files'[p] = files[p]
        BY <1>6, <1>7
    <2>3. /\ \A q \in Destinations(e) : files[q] = e
          /\ \A q \in Unrelated(e) : files[q] = call[e].before[q]
        BY <1>3 DEF CallHolds, PathsAreKnown, Succeeded
    <2>4. CASE m \in DOMAIN call[e].job
        BY <1>7, <2>2, <2>3, <2>4
    <2>5. CASE m \notin DOMAIN call[e].job
        BY <1>7, <2>1, <2>2, <2>3, <2>5 DEF FoundReadable
    <2>6. QED
        BY <2>4, <2>5
<1>11. IInv'
    <2>1. /\ d.job = call[e].job /\ d.existing = call[e].existing /\ d.before = call[e].before
          /\ d.pc # "new" /\ excused' \in {excused, excused \cup {e}}
        BY <1>1, <1>2, <1>4
    <2>2. QED
        BY <1>3, <1>4, <1>6, <1>8, <1>9, <1>10, <2>1, WorkKeeps, ZenonT(30)
<1>12. NamedStay
    <2> SUFFICES ASSUME NEW m \in DOMAIN manifest, NEW p \in manifest[m].tables,
                        Stored(p, manifest[m].by)
                 PROVE  Stored(p, manifest[m].by)'
        BY <1>3 DEF NamedStay
    <2>1. files'[p] = files[p]
        BY <1>6, <1>7
    <2>2. \A f \in Calls : call'[f].kept = call[f].kept
        BY <1>1, <1>4, <1>5
    <2>3. QED
        BY <1>3, <2>1, <2>2 DEF Stored
<1>13. FailuresChangeNothing
    BY <1>3, <1>4, NoEnd
<1>14. QED
    BY <1>11, <1>12, <1>13 DEF Kept

-----------------------------------------------------------------------------
(* Beginning and end of a call *)

\* Nobody works on the result while a call opens it.
LEMMA OpenKeeps ==
    ASSUME IInv, ~Overlapping, NEW e \in Calls, NEW job \in Jobs(e), NEW update \in BOOLEAN,
           Open(e, job, update)
    PROVE  Kept
<1>1. /\ call[e] = Idle /\ e \notin excused /\ \A m \in DOMAIN manifest : manifest[m].by # e
      /\ call[e].pc = "new"
      /\ \A f \in Calls : ~Working(f) /\ ~Installing(f)
      /\ UNCHANGED <<files, manifest, excused>>
    BY DEF Open, IInv, NewAreIdle, Working, Installing
<1>2. PICK names \in SUBSET Metrics :
          /\ job \in [names -> [tables : AllLayouts, by : {e}]]
          /\ \A m, n \in names : m # n => job[m].tables \cap job[n].tables = {}
    BY DEF Jobs, AllLayouts
<1>3. /\ DOMAIN job = names
      /\ \A m \in names : job[m] \in Entry /\ job[m].by = e
    BY <1>2 DEF Entry
<1>4. IsEntries(job) /\ IsEntries(manifest) /\ Disjoint(job) /\ Disjoint(manifest)
    <2>1. IsEntries(job)
        BY <1>2, <1>3 DEF IsEntries
    <2>2. Disjoint(job)
        BY <1>2, <1>3 DEF Disjoint
    <2>3. QED
        BY <2>1, <2>2 DEF IInv, Typed
<1>5. job \in Entries(Metrics) /\ manifest \in Entries(Metrics)
    BY <1>4, EntriesAre
<1> DEFINE opened == [Idle EXCEPT !.pc = "score", !.job = job, !.existing = manifest,
                                  !.before = files]
           refused == [Idle EXCEPT !.pc = "over", !.outcome = "failed"]
<1>6. PICK d \in {opened, refused} : call' = [call EXCEPT ![e] = d]
    BY <1>1 DEF Open
<1>7. /\ d \in CallRecord /\ d.pc \in {"score", "over"} /\ d.kept = NoTables
    <2>1. opened \in CallRecord /\ opened.pc = "score" /\ opened.kept = NoTables
        BY <1>5, IdleIsTyped DEF IInv, Typed, CallRecord, Phases, Idle
    <2>2. refused \in CallRecord /\ refused.pc = "over" /\ refused.kept = NoTables
        BY IdleIsTyped DEF CallRecord, Phases, Idle
    <2>3. QED
        BY <2>1, <2>2
<1>8. /\ call'[e] = d
      /\ \A f \in Calls : f # e => call'[f] = call[f]
    BY <1>6 DEF IInv, Typed
<1>9. d = refused => d.pc = "over"
    BY DEF Idle
<1>10. d = opened =>
          /\ d.pc = "score" /\ d.job = job /\ d.existing = manifest /\ d.before = files
          /\ d.at = {} /\ d.todo = {} /\ d.installed = {} /\ d.backups = {}
    BY DEF Idle
<1> HIDE DEF opened, refused
<1>11. Typed'
    BY <1>1, <1>6, <1>7 DEF IInv, Typed
<1>12. OneWorks' /\ Disjoint(manifest)' /\ NewAreIdle'
    <2>1. OneWorks'
        BY <1>1, <1>8 DEF OneWorks, Working
    <2>2. Disjoint(manifest)'
        BY <1>1, <1>4 DEF Disjoint
    <2>3. NewAreIdle'
        BY <1>1, <1>7, <1>8 DEF IInv, NewAreIdle
    <2>4. QED
        BY <2>1, <2>2, <2>3
<1>13. ASSUME NEW f \in Calls, Working(f)' PROVE CallHolds(f)' /\ f = e /\ d = opened
    <2>1. f = e /\ d = opened
        BY <1>1, <1>6, <1>8, <1>9, <1>13 DEF Working
    <2>2. JobIsOwn(e)'
        BY <1>1, <1>3, <1>4, <1>8, <1>10, <2>1 DEF JobIsOwn, Disjoint
    <2>3. ManifestIsKnown(e)' /\ KeptAreListed(e)' /\ ~Installing(e)' /\ ~Succeeded(e)'
        BY <1>1, <1>7, <1>8, <1>10, <2>1
           DEF ManifestIsKnown, KeptAreListed, Installing, Succeeded, NoTables
    <2>4. PathsAreKnown(e)'
        BY <1>1, <1>8, <1>10, <2>1, <2>3 DEF PathsAreKnown
    <2>5. QED
        BY <2>1, <2>2, <2>3, <2>4 DEF CallHolds
<1>14. CleanIsReadable'
    <2> SUFFICES ASSUME Clean'
                 PROVE  /\ \A m \in DOMAIN manifest : Readable(m)'
                        /\ \A f \in Calls : Working(f)' => FoundReadable(f)'
        BY <1>1 DEF CleanIsReadable
    <2>1. Clean
        BY <1>1, <1>8 DEF Clean
    <2>2. \A m \in DOMAIN manifest : Readable(m)
        BY <1>1, <2>1 DEF IInv, CleanIsReadable
    <2>3. QED
        BY <1>1, <1>8, <1>10, <1>13, <2>2 DEF Readable, FoundReadable
<1>15. OthersStayReadable'
    <2>1. DOMAIN call[e].job = {}
        BY <1>1 DEF Idle, NoEntries
    <2>2. \A f \in Calls : DOMAIN call[f].job \subseteq DOMAIN call'[f].job
        BY <1>8, <2>1
    <2>3. QED
        BY <1>1, <2>2, OthersKeptQuietly
<1>16. IInv'
    BY <1>11, <1>12, <1>13, <1>14, <1>15 DEF IInv
<1>17. NamedStay
    <2>1. \A f \in Calls : call'[f].kept = call[f].kept
        BY <1>1, <1>7, <1>8 DEF Idle
    <2>2. QED
        BY <1>1, <2>1, NamedStayQuietly
<1>18. FailuresChangeNothing
    BY <1>1, <1>8 DEF FailuresChangeNothing
<1>19. QED
    BY <1>16, <1>17, <1>18 DEF Kept

\* A call that is over or killed works no more.
LEMMA StopKeeps ==
    ASSUME IInv, NEW e \in Calls, Working(e), NEW d \in CallRecord,
           call' = [call EXCEPT ![e] = d],
           d.pc = "killed" \/ (d.pc = "over" /\ call[e].pc = "leave"),
           d.job = call[e].job,
           UNCHANGED <<files, manifest, excused>>
    PROVE  IInv'
<1>1. call'[e] = d /\ \A f \in Calls : f # e => call'[f] = call[f]
    BY DEF IInv, Typed
<1>2. \A f \in Calls : f # e => ~Working(f) /\ ~Installing(f)
    BY DEF IInv, OneWorks, Working, Installing
<1>3. Typed'
    BY DEF IInv, Typed
<1>4. \A f \in Calls : ~Working(f)'
    BY <1>1, <1>2 DEF Working
<1>5. OneWorks' /\ Disjoint(manifest)' /\ NewAreIdle'
    <2>1. Disjoint(manifest)'
        BY DEF IInv, Disjoint
    <2>2. NewAreIdle'
        BY <1>1 DEF IInv, NewAreIdle
    <2>3. QED
        BY <1>4, <2>1, <2>2 DEF OneWorks
<1>6. OthersStayReadable'
    <2>1. \A f \in Calls : DOMAIN call[f].job \subseteq DOMAIN call'[f].job
        BY <1>1
    <2>2. QED
        BY <2>1, OthersKeptQuietly
<1>7. CleanIsReadable'
    <2> SUFFICES ASSUME Clean' PROVE \A m \in DOMAIN manifest : Readable(m)'
        BY <1>4 DEF CleanIsReadable
    <2>1. call[e].pc = "leave" /\ Clean
        BY <1>1 DEF Clean
    <2>2. \A f \in Calls : ~Installing(f)
        BY <1>2, <2>1 DEF Installing
    <2>3. QED
        BY <2>1, <2>2 DEF IInv, CleanIsReadable, Readable
<1>8. QED
    BY <1>3, <1>4, <1>5, <1>6, <1>7 DEF IInv

\* The backups that go with the temporary directory are not needed any more.
LEMMA LeaveKeeps ==
    ASSUME IInv, NEW e \in Calls, Leave(e)
    PROVE  Kept
<1> DEFINE d == [Idle EXCEPT !.pc = "over", !.job = call[e].job, !.outcome = call[e].outcome]
<1>1. /\ Working(e) /\ CallHolds(e) /\ call[e].pc = "leave"
      /\ UNCHANGED <<files, manifest, excused>>
      /\ call' = [call EXCEPT ![e] = d]
    BY DEF Leave, Go, Working, IInv
<1>2. /\ d \in CallRecord /\ d.pc = "over" /\ d.job = call[e].job
      /\ d.outcome = call[e].outcome
    BY IdleIsTyped DEF IInv, Typed, CallRecord, Phases, Idle
<1> HIDE DEF d
<1>3. call'[e] = d /\ \A f \in Calls : f # e => call'[f] = call[f]
    BY <1>1 DEF IInv, Typed
<1>4. IInv'
    BY <1>1, <1>2, StopKeeps
<1>5. ASSUME e \notin excused, call[e].outcome # "ok" PROVE NothingDone(e)
    BY <1>1, <1>5 DEF CallHolds, ManifestIsKnown, NothingDone
<1>6. FailuresChangeNothing
    BY <1>2, <1>3, <1>5 DEF FailuresChangeNothing, NothingDone
<1>7. NamedStay
    <2> SUFFICES ASSUME excused = {}, NEW m \in DOMAIN manifest, NEW p \in manifest[m].tables,
                        Stored(p, manifest[m].by)
                 PROVE  Stored(p, manifest[m].by)'
        BY <1>1 DEF NamedStay
    <2>1. p \in Paths /\ manifest[m].by # NoFile
        BY LayoutsArePaths, NumbersDiffer DEF IInv, Typed, IsEntries, Entry
    <2>2. \A q \in Paths \ call[e].backups : call[e].kept[q] = NoFile
        BY <1>1 DEF CallHolds, KeptAreListed
    <2>3. call[e].kept[p] = manifest[m].by => files[p] = manifest[m].by
        <3> SUFFICES ASSUME call[e].kept[p] = manifest[m].by
                     PROVE  files[p] = manifest[m].by
            OBVIOUS
        <3>1. p \in call[e].backups
            BY <2>1, <2>2
        <3>2. Succeeded(e) /\ manifest = call[e].merged /\ IsChecked(e)
            BY <1>1, <1>5, <3>1 DEF NothingDone, Succeeded, CallHolds, ManifestIsKnown
        <3>3. p \in Destinations(e) /\ files[p] = e
            BY <1>1, <3>1, <3>2 DEF CallHolds, PathsAreKnown
        <3>4. CASE m \in DOMAIN call[e].job
            BY <1>1, <3>2, <3>3, <3>4 DEF CallHolds, JobIsOwn, IsChecked
        <3>5. CASE m \notin DOMAIN call[e].job
            <4>1. m \in DOMAIN call[e].existing /\ p \in call[e].existing[m].tables
                BY <3>2, <3>5 DEF IsChecked
            <4>2. p \in Unrelated(e)
                BY <3>5, <4>1, PathsOfCalls DEF IInv
            <4>3. QED
                BY <3>2, <3>3, <4>2 DEF IsChecked
        <3>6. QED
            BY <3>4, <3>5
    <2>4. QED
        BY <1>1, <1>3, <2>3 DEF Stored
<1>8. QED
    BY <1>4, <1>6, <1>7 DEF Kept

LEMMA KillKeeps ==
    ASSUME IInv, NEW e \in Calls, Kill(e)
    PROVE  Kept
<1> DEFINE d == [Idle EXCEPT !.pc = "killed", !.job = call[e].job, !.kept = call[e].kept]
<1>1. /\ Working(e) /\ UNCHANGED <<files, manifest, excused>>
      /\ call' = [call EXCEPT ![e] = d]
    BY DEF Kill, Go
<1>2. d \in CallRecord /\ d.pc = "killed" /\ d.job = call[e].job /\ d.kept = call[e].kept
    BY IdleIsTyped DEF IInv, Typed, CallRecord, Phases, Idle
<1> HIDE DEF d
<1>3. IInv'
    BY <1>1, <1>2, StopKeeps, ZenonT(30)
<1>4. \A f \in Calls : call'[f].kept = call[f].kept
    BY <1>1, <1>2 DEF IInv, Typed
<1>5. NamedStay
    BY <1>1, <1>4, NamedStayQuietly
<1>6. FailuresChangeNothing
    BY <1>1, <1>2, NoEnd
<1>7. QED
    BY <1>3, <1>5, <1>6 DEF Kept

-----------------------------------------------------------------------------
(* The theorems *)

LEMMA StepKeeps ==
    ASSUME ~Overlapping, IInv, Next
    PROVE  Kept
<1>1. PICK e \in Calls :
        \/ \E job \in Jobs(e), update \in BOOLEAN : Open(e, job, update)
        \/ Score(e)
        \/ ScoreFails(e)
        \/ Check(e)
        \/ \E p \in Paths :
              \/ BackUp(e, p)
              \/ BackUpInterrupted(e, p)
              \/ Install(e, p)
              \/ InstallInterrupted(e, p)
              \/ Remove(e, p)
              \/ Restore(e, p)
        \/ InstallFails(e)
        \/ WriteManifest(e)
        \/ WriteManifestInterrupted(e)
        \/ \E removed \in SUBSET Paths : RemoveStale(e, removed)
        \/ RollbackFails(e)
        \/ RolledBack(e)
        \/ Leave(e)
        \/ Kill(e)
    BY DEF Next
<1>2. CASE \E job \in Jobs(e), update \in BOOLEAN : Open(e, job, update)
    BY <1>2, OpenKeeps
<1>3. CASE Score(e) \/ ScoreFails(e) \/ Check(e)
    BY <1>3, ScoreKeeps, ScoreFailsKeeps, CheckKeeps
<1>4. CASE \E p \in Paths : BackUp(e, p) \/ BackUpInterrupted(e, p)
    BY <1>4, BackUpKeeps, BackUpInterruptedKeeps
<1>5. CASE \E p \in Paths : Install(e, p) \/ InstallInterrupted(e, p)
    BY <1>5, InstallKeeps, InstallInterruptedKeeps
<1>6. CASE \E p \in Paths : Remove(e, p) \/ Restore(e, p)
    BY <1>6, RemoveKeeps, RestoreKeeps
<1>7. CASE InstallFails(e)
    BY <1>7, InstallFailsKeeps
<1>8. CASE WriteManifest(e) \/ WriteManifestInterrupted(e)
    BY <1>8, WriteManifestKeeps
<1>9. CASE \E removed \in SUBSET Paths : RemoveStale(e, removed)
    BY <1>9, RemoveStaleKeeps
<1>10. CASE RollbackFails(e) \/ RolledBack(e)
    BY <1>10, RollbackEndsKeeps
<1>11. CASE Leave(e) \/ Kill(e)
    BY <1>11, LeaveKeeps, KillKeeps
<1>12. QED
    BY <1>1, <1>2, <1>3, <1>4, <1>5, <1>6, <1>7, <1>8, <1>9, <1>10, <1>11

LEMMA StutterKeeps ==
    ASSUME IInv, UNCHANGED vars
    PROVE  IInv'
<1>1. Typed' /\ OneWorks' /\ Disjoint(manifest)' /\ NewAreIdle'
    BY DEF IInv, vars, Typed, OneWorks, Working, Disjoint, NewAreIdle
<1>2. ASSUME NEW e \in Calls, Working(e)' PROVE CallHolds(e)'
    <2>1. CallHolds(e)
        BY <1>2 DEF IInv, Working, vars
    <2>2. Destinations(e)' = Destinations(e) /\ Unrelated(e)' = Unrelated(e)
        BY DEF vars, Destinations, Unrelated, TablesOf
    <2>3. JobIsOwn(e)'
        BY <2>1 DEF vars, CallHolds, JobIsOwn, Disjoint
    <2>4. ManifestIsKnown(e)' /\ KeptAreListed(e)'
        BY <2>1 DEF vars, CallHolds, ManifestIsKnown, KeptAreListed, Succeeded
    <2>5. PathsAreKnown(e)'
        BY <2>1, <2>2 DEF vars, CallHolds, PathsAreKnown, Succeeded, AsFound, Replaced
    <2>6. Installing(e)' \/ Succeeded(e)' => IsChecked(e)'
        BY <2>1, <2>2 DEF vars, CallHolds, IsChecked, Installing, Succeeded
    <2>7. QED
        BY <2>3, <2>4, <2>5, <2>6 DEF CallHolds
<1>3. CleanIsReadable' /\ OthersStayReadable'
    BY DEF IInv, vars, CleanIsReadable, Clean, Installing, Working, FoundReadable, Readable,
           OthersStayReadable
<1>4. QED
    BY <1>1, <1>2, <1>3 DEF IInv

\* A result whose merges follow each other is as the calls at work and those
\* that are over have left it: every path and the manifest are accounted for
\* (evaluator.py, _merge_ensemble_result).
THEOREM ResultsAreAccountedFor ==
    ASSUME ~Overlapping
    PROVE  Spec => []IInv
<1>1. Init => IInv
    BY InitHolds
<1>2. IInv /\ [Next]_vars => IInv'
    BY StepKeeps, StutterKeeps DEF Kept
<1>3. QED
    BY <1>1, <1>2, PTL DEF Spec

\* However merges fail or are interrupted, the tables of metrics they do not
\* score stay those the manifest names, and without a kill or a rollback that
\* was cut short the whole result is readable between them.
THEOREM ResultsStayReadable ==
    ASSUME ~Overlapping
    PROVE  Spec => []TablesAreReadable
<1>1. ASSUME IInv PROVE TablesAreReadable
    <2>1. ResultIsReadable
        <3> SUFFICES ASSUME excused = {},
                            \A e \in Calls :
                                call[e].pc \in {"new", "score", "check", "leave", "over"}
                     PROVE  \A m \in DOMAIN manifest : Readable(m)
            BY DEF ResultIsReadable
        <3>1. Clean /\ \A e \in Calls : ~Installing(e)
            BY DEF Clean, Installing
        <3>2. QED
            BY <1>1, <3>1 DEF IInv, CleanIsReadable
    <2>2. QED
        BY <1>1, <2>1 DEF IInv, TablesAreReadable
<1>2. QED
    BY <1>1, ResultsAreAccountedFor, PTL

\* No step gives up a table that the manifest goes on naming: what is not in the
\* result is among the backups of a call (_merge_ensemble_result and its rollback).
THEOREM NamedTablesAreNotGivenUp ==
    ASSUME ~Overlapping
    PROVE  Spec => NamedTablesAreKept
<1>1. IInv /\ [Next]_vars => [NamedStay]_vars
    BY StepKeeps DEF Kept
<1>2. QED
    BY <1>1, ResultsAreAccountedFor, PTL DEF Spec, NamedTablesAreKept, NamedStay

\* A merge that fails, with its rollback done, leaves the files and the manifest
\* it has found.
THEOREM FailedMergesAreUndone ==
    ASSUME ~Overlapping
    PROVE  Spec => FailedMergeChangesNothing
<1>1. IInv /\ [Next]_vars => [FailuresChangeNothing]_vars
    BY StepKeeps DEF Kept
<1>2. QED
    BY <1>1, ResultsAreAccountedFor, PTL
       DEF Spec, FailedMergeChangesNothing, FailuresChangeNothing

=============================================================================

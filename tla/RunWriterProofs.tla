-------------------------- MODULE RunWriterProofs --------------------------
(***************************************************************************)
(* For any number of writers, tables and rows, and any failure, what is    *)
(* under the output path is a whole run, and it gets and stays there as    *)
(* PublishedRun says.                                                      *)
(*                                                                         *)
(* The argument follows a row: while no push of a writer has failed, each  *)
(* table's file and buffer together hold the rows pushed so far.  Every    *)
(* step of finish moves all of them one stage on (stored, linked,          *)
(* described), none of these stages is lost while the writer is at work,   *)
(* and the rename is the last of them.  After it nobody touches the        *)
(* directory but a power loss, which finds nothing in it that is not       *)
(* durable.                                                                *)
(***************************************************************************)
EXTENDS RunWriter, SequenceTheorems, TLAPS

File == [rows : Seq(Row), closed : BOOLEAN, synced : BOOLEAN, linked : BOOLEAN]

Types ==
    /\ TypeOK
    /\ offers \in [Writers -> Nat]
    /\ buffer \in [Writers -> [Tables -> Seq(Row)]]
    /\ DOMAIN expected = Writers
    /\ DOMAIN temp = Writers

\* The rows of a table that its writer still holds, and those in its file.
Held(w, t) == temp[w].tables[t].rows \o buffer[w][t]

\* The rows are those that the writer has accepted.
AsPushed(rows, w) ==
    /\ rows \in Seq(Row)
    /\ Destination!Contiguous(rows)
    /\ Len(rows) = accepted[w]
    /\ Destination!SamplesOf(rows) = samples[w]
    /\ \A i \in DOMAIN rows : rows[i].districts = districts[w]

AtWork == Live \ {"parent"}

\* The phases after a step of finish that moves the tables one stage on.
StoredPhases == {"directories", "manifest", "temp", "publish"}
LinkedPhases == {"manifest", "temp", "publish"}
DescribedPhases == {"temp", "publish"}

AbsentIsNew(w) ==
    phase[w] = "absent" =>
        /\ offers[w] = 0 /\ samples[w] = 0 /\ accepted[w] = 0
        /\ ~failed[w]
        /\ \A t \in Tables : buffer[w][t] = << >>

HasDirectory(w) ==
    /\ phase[w] \in AtWork =>
          /\ DOMAIN temp[w] = {"tables", "manifest"}
          /\ temp[w].tables \in [Tables -> File]
    /\ phase[w] = "parent" => temp[w] = NoDirectory

HoldsAllRows(w) ==
    phase[w] \in AtWork /\ ~failed[w] => \A t \in Tables : AsPushed(Held(w, t), w)

CountsOffers(w) == ~failed[w] => accepted[w] = offers[w]

Expects(w) ==
    phase[w] \in Finishing =>
        /\ ~failed[w]
        /\ expected[w].samples = samples[w]
        /\ expected[w].accepted = accepted[w]

IsStored(w) ==
    phase[w] \in StoredPhases =>
        \A t \in Tables :
            /\ buffer[w][t] = << >>
            /\ temp[w].tables[t].closed
            /\ temp[w].tables[t].synced

IsLinked(w) ==
    /\ phase[w] \in LinkedPhases =>
          \A t \in Nested : temp[w].tables[t].linked
    /\ phase[w] = "publish" =>
          /\ \A t \in Tables : temp[w].tables[t].linked
          /\ temp[w].manifest.linked

\* The manifest describes these tables of this writer.
Describes(manifest, tables, w) ==
    /\ DOMAIN manifest = {"summary", "districts", "checksums", "synced", "linked"}
    /\ manifest.summary.samples = samples[w]
    /\ manifest.summary.accepted = accepted[w]
    /\ manifest.districts = districts[w]
    /\ manifest.checksums = [t \in Tables |-> tables[t].rows]
    /\ manifest.synced

IsDescribed(w) ==
    phase[w] \in DescribedPhases => Describes(temp[w].manifest, temp[w].tables, w)

IsInvisible(w) == phase[w] # "closed" => result[w] = "none"

WriterInv(w) ==
    /\ AbsentIsNew(w)
    /\ HasDirectory(w)
    /\ HoldsAllRows(w)
    /\ CountsOffers(w)
    /\ Expects(w)
    /\ IsStored(w)
    /\ IsLinked(w)
    /\ IsDescribed(w)
    /\ IsInvisible(w)

DestinationInv ==
    dest # NoDirectory =>
        /\ dest = [owner |-> dest.owner, tables |-> dest.tables, manifest |-> dest.manifest]
        /\ dest.owner \in Writers
        /\ phase[dest.owner] \in {"parent", "closed", "killed"}
        /\ ~failed[dest.owner]
        /\ dest.tables \in [Tables -> File]
        /\ \A t \in Tables :
              /\ AsPushed(dest.tables[t].rows, dest.owner)
              /\ dest.tables[t].closed /\ dest.tables[t].synced /\ dest.tables[t].linked
        /\ Describes(dest.manifest, dest.tables, dest.owner)
        /\ dest.manifest.linked

OutcomeInv ==
    /\ dest # NoDirectory =>
          /\ parent # "missing"
          /\ result[dest.owner] = "ok" => renamed
    /\ \A w \in Writers :
          /\ phase[w] = "parent" => dest # NoDirectory /\ dest.owner = w
          /\ phase[w] \in Live => parent # "missing"

IInv ==
    /\ Types
    /\ \A w \in Writers : WriterInv(w)
    /\ DestinationInv
    /\ OutcomeInv


-----------------------------------------------------------------------------
(* What a step of one writer leaves alone *)

Untouched(v) ==
    /\ phase'[v] = phase[v]
    /\ result'[v] = result[v]
    /\ offers'[v] = offers[v]
    /\ samples'[v] = samples[v]
    /\ accepted'[v] = accepted[v]
    /\ districts'[v] = districts[v]
    /\ failed'[v] = failed[v]
    /\ buffer'[v] = buffer[v]
    /\ expected'[v] = expected[v]
    /\ temp'[v] = temp[v]

\* What holds of a writer stays true while nothing of it changes.
LEMMA OthersKeep ==
    ASSUME NEW v \in Writers, WriterInv(v), Untouched(v)
    PROVE  WriterInv(v)'
<1>1. AbsentIsNew(v)' BY DEF WriterInv, AbsentIsNew, Untouched
<1>2. HasDirectory(v)' BY DEF WriterInv, HasDirectory, Untouched
<1>3. HoldsAllRows(v)' BY DEF WriterInv, HoldsAllRows, Untouched, AsPushed, Held
<1>4. CountsOffers(v)' BY DEF WriterInv, CountsOffers, Untouched
<1>5. Expects(v)' BY DEF WriterInv, Expects, Untouched
<1>6. IsStored(v)' BY DEF WriterInv, IsStored, Untouched
<1>7. IsLinked(v)' BY DEF WriterInv, IsLinked, Untouched
<1>8. IsDescribed(v)' BY DEF WriterInv, IsDescribed, Untouched, Describes
<1>9. IsInvisible(v)' BY DEF WriterInv, IsInvisible, Untouched
<1> QED BY <1>1, <1>2, <1>3, <1>4, <1>5, <1>6, <1>7, <1>8, <1>9 DEF WriterInv


\* A parent that is there stays the same directory.
LEMMA CreatedParentIsThere ==
    /\ CreatedParent # "missing"
    /\ parent # "missing" => CreatedParent = parent
BY DEF CreatedParent

\* A step of one writer that publishes nothing: once it is past its work its
\* counts are final, which is all that a published directory depends on.
LEMMA StepOfOne ==
    ASSUME IInv, NEW w \in Writers,
           \A v \in Writers \ {w} : Untouched(v),
           dest' = dest, renamed' = renamed, parent' \in {parent, CreatedParent},
           phase'[w] \in Live => phase[w] \in Live \/ parent' = CreatedParent,
           phase[w] \in {"parent", "closed", "killed"} =>
               /\ phase'[w] \in {"parent", "closed", "killed"}
               /\ samples'[w] = samples[w] /\ accepted'[w] = accepted[w]
               /\ districts'[w] = districts[w] /\ failed'[w] = failed[w],
           phase'[w] = "parent" => phase[w] = "parent",
           result'[w] = "ok" => result[w] = "ok",
           Types', WriterInv(w)'
    PROVE  IInv'
<1>1. \A v \in Writers : WriterInv(v)'
    BY OthersKeep DEF IInv
<1>2. DestinationInv'
    <2> SUFFICES ASSUME dest' # NoDirectory
                 PROVE  DestinationInv'
        BY DEF DestinationInv
    <2> DEFINE o == dest.owner
    <2>1. dest # NoDirectory /\ o \in Writers /\ dest'.owner = o
        BY DEF IInv, DestinationInv
    <2>2. /\ phase'[o] \in {"parent", "closed", "killed"}
          /\ samples'[o] = samples[o] /\ accepted'[o] = accepted[o]
          /\ districts'[o] = districts[o] /\ failed'[o] = failed[o]
        BY <2>1 DEF IInv, DestinationInv, Untouched
    <2>3. QED
        BY <2>1, <2>2 DEF IInv, DestinationInv, AsPushed, Describes
<1>3. OutcomeInv'
    <2>1. dest # NoDirectory =>
             /\ dest.owner \in Writers
             /\ result'[dest.owner] = "ok" => result[dest.owner] = "ok"
        BY DEF IInv, DestinationInv, Untouched
    <2>2. QED
        BY <2>1, CreatedParentIsThere DEF IInv, OutcomeInv, Untouched
<1>4. QED
    BY <1>1, <1>2, <1>3 DEF IInv

\* An error, a drop: what is left is a closed writer without a directory.
LEMMA CloseKeeps ==
    ASSUME IInv, NEW w \in Writers, NEW outcome \in {"error", "dropped"},
           phase[w] # "closed", Close(w, outcome), parent' \in {parent, CreatedParent}
    PROVE  IInv'
<1> USE DEF IInv
<1>1. /\ phase' = [phase EXCEPT ![w] = "closed"]
      /\ result' = [result EXCEPT ![w] = outcome]
      /\ temp' = [temp EXCEPT ![w] = NoDirectory]
      /\ UNCHANGED <<offers, samples, accepted, districts, failed, buffer, expected,
                     dest, renamed>>
    BY DEF Close
<1>2. Types'
    BY <1>1, CreatedParentIsThere DEF Types, TypeOK, Phases, CreatedParent
<1>3. phase'[w] = "closed" /\ result'[w] = outcome
    BY <1>1 DEF Types, TypeOK
<1>4. WriterInv(w)'
    BY <1>1, <1>3 DEF WriterInv, AbsentIsNew, HasDirectory, HoldsAllRows, CountsOffers,
                      Expects, IsStored, IsLinked, IsDescribed, IsInvisible, AtWork, Live,
                      Finishing, StoredPhases,
                      LinkedPhases, DescribedPhases
<1>5. \A v \in Writers \ {w} : Untouched(v)
    BY <1>1 DEF Untouched, Types, TypeOK
<1>6. QED
    BY <1>1, <1>2, <1>3, <1>4, <1>5, StepOfOne DEF Live, Finishing


-----------------------------------------------------------------------------
(* Rows *)

LEMMA NoRowsPushed ==
    ASSUME NEW w, samples[w] = 0, accepted[w] = 0
    PROVE  AsPushed(<< >>, w)
BY DEF AsPushed, Destination!Contiguous, Destination!SamplesOf

\* A row that goes on where the rows before it stop.
LEMMA AppendContinues ==
    ASSUME NEW rows \in Seq(Row), NEW row \in Row,
           Destination!Contiguous(rows),
           row.accepted_index = Len(rows),
           row.sample_offset = Destination!SamplesOf(rows)
    PROVE  /\ Append(rows, row) \in Seq(Row)
           /\ Len(Append(rows, row)) = Len(rows) + 1
           /\ Destination!Contiguous(Append(rows, row))
           /\ Destination!SamplesOf(Append(rows, row)) = row.sample_offset + row.repetitions
<1> DEFINE longer == Append(rows, row)
<1>1. /\ longer \in Seq(Row) /\ Len(longer) = Len(rows) + 1
      /\ DOMAIN longer = 1 .. Len(rows) + 1
      /\ \A i \in 1 .. Len(rows) : longer[i] = rows[i]
      /\ longer[Len(rows) + 1] = row
    BY AppendProperties
<1>2. DOMAIN rows = 1 .. Len(rows) /\ Len(rows) \in Nat
    BY LenProperties
<1> HIDE DEF longer
<1>3. Destination!SamplesOf(longer) = row.sample_offset + row.repetitions
    <2>1. longer # << >>
        BY <1>1, <1>2
    <2>2. QED
        BY <1>1, <2>1 DEF Destination!SamplesOf
<1>4. Destination!Contiguous(longer)
    <2> SUFFICES ASSUME NEW i \in DOMAIN longer
                 PROVE  /\ longer[i].accepted_index = i - 1
                        /\ longer[i].sample_offset =
                              IF i = 1 THEN 0
                              ELSE longer[i - 1].sample_offset + longer[i - 1].repetitions
        BY DEF Destination!Contiguous
    <2>1. CASE i \in 1 .. Len(rows)
        <3>1. i # 1 => i - 1 \in 1 .. Len(rows)
            BY <2>1, <1>2
        <3>2. QED
            BY <2>1, <3>1, <1>1, <1>2 DEF Destination!Contiguous
    <2>2. CASE i = Len(rows) + 1
        <3>1. CASE rows = << >>
            BY <2>2, <3>1, <1>1, <1>2 DEF Destination!SamplesOf
        <3>2. CASE rows # << >>
            <4>1. Len(rows) \in 1 .. Len(rows) /\ i # 1 /\ i - 1 = Len(rows)
                BY <3>2, <2>2, <1>2, EmptySeq
            <4>2. QED
                BY <4>1, <3>2, <2>2, <1>1, <1>2 DEF Destination!SamplesOf
        <3>3. QED
            BY <3>1, <3>2
    <2>3. QED
        BY <2>1, <2>2, <1>1, <1>2
<1>5. QED
    BY <1>1, <1>3, <1>4 DEF longer

\* A row behind the second of two sequences is behind both.
LEMMA ConcatAppend ==
    ASSUME NEW first \in Seq(Row), NEW second \in Seq(Row), NEW row \in Row
    PROVE  first \o Append(second, row) = Append(first \o second, row)
<1>1. <<row>> \in Seq(Row) /\ first \o second \in Seq(Row)
    BY ConcatProperties
<1>2. /\ Append(second, row) = second \o <<row>>
      /\ Append(first \o second, row) = (first \o second) \o <<row>>
    BY <1>1, AppendIsConcat
<1>3. QED
    BY <1>1, <1>2, ConcatAssociative

\* Only the rows of a file grow.
LEMMA ExtendedFile ==
    ASSUME NEW file \in File, NEW rows \in Seq(Row)
    PROVE  /\ Extended(file, rows) \in File
           /\ Extended(file, rows).rows = file.rows \o rows
BY ConcatProperties DEF File, Extended

\* Taking a row moves it behind those that the table holds, wherever a full
\* buffer ends.
LEMMA PushToAppends ==
    ASSUME Types, NEW w \in Writers, phase[w] = "open", HasDirectory(w),
           NEW row \in Row, NEW reached \in SUBSET Tables, PushTo(w, reached, row)
    PROVE  /\ buffer' \in [Writers -> [Tables -> Seq(Row)]]
           /\ \A t \in Tables : Len(buffer'[w][t]) < BatchRows
           /\ DOMAIN temp' = Writers
           /\ DOMAIN temp'[w] = {"tables", "manifest"}
           /\ temp'[w].tables \in [Tables -> File]
           /\ \A v \in Writers \ {w} : buffer'[v] = buffer[v] /\ temp'[v] = temp[v]
           /\ \A t \in Tables :
                 Held(w, t)' = IF t \in reached THEN Append(Held(w, t), row) ELSE Held(w, t)
<1> DEFINE filled(t) == Append(buffer[w][t], row)
           full(t) == t \in reached /\ Len(filled(t)) = BatchRows
           rows(t) == temp[w].tables[t].rows
<1>1. /\ DOMAIN temp[w] = {"tables", "manifest"}
      /\ temp[w].tables \in [Tables -> File]
    BY DEF HasDirectory, AtWork, Live
<1>2. /\ buffer' = [buffer EXCEPT ![w] =
                       [t \in Tables |-> IF full(t) THEN << >>
                                         ELSE IF t \in reached THEN filled(t)
                                         ELSE buffer[w][t]]]
      /\ temp' = [temp EXCEPT ![w].tables =
                     [t \in Tables |-> IF full(t) THEN Extended(@[t], filled(t))
                                       ELSE @[t]]]
    BY DEF PushTo
<1>3. \A t \in Tables :
         /\ buffer[w][t] \in Seq(Row) /\ Len(buffer[w][t]) \in Nat
         /\ Len(buffer[w][t]) < BatchRows
         /\ filled(t) \in Seq(Row) /\ Len(filled(t)) = Len(buffer[w][t]) + 1
         /\ rows(t) \in Seq(Row)
         /\ rows(t) \o filled(t) \in Seq(Row)
    BY <1>1, AppendProperties, LenProperties, ConcatProperties DEF Types, TypeOK, File
<1>4. BatchRows \in Nat \ {0}
    BY WriterAssumption
<1>5. \A t \in Tables :
         /\ buffer'[w][t] = IF full(t) THEN << >>
                            ELSE IF t \in reached THEN filled(t) ELSE buffer[w][t]
         /\ temp'[w].tables[t] = IF full(t)
                                 THEN Extended(temp[w].tables[t], filled(t))
                                 ELSE temp[w].tables[t]
    BY <1>1, <1>2 DEF Types
<1>6. /\ buffer' \in [Writers -> [Tables -> Seq(Row)]]
      /\ \A t \in Tables : Len(buffer'[w][t]) < BatchRows
    BY <1>2, <1>3, <1>4, <1>5 DEF Types
<1>7. /\ DOMAIN temp' = Writers
      /\ DOMAIN temp'[w] = {"tables", "manifest"}
      /\ temp'[w].tables \in [Tables -> File]
    <2>1. DOMAIN temp' = Writers /\ DOMAIN temp'[w] = {"tables", "manifest"}
        BY <1>1, <1>2 DEF Types
    <2>2. DOMAIN temp'[w].tables = Tables
        BY <1>1, <1>2 DEF Types
    <2>3. \A t \in Tables : temp'[w].tables[t] \in File
        BY <1>1, <1>3, <1>5, ExtendedFile
    <2>4. temp'[w].tables = [t \in Tables |-> temp'[w].tables[t]]
        BY <1>1, <1>2 DEF Types
    <2>5. QED
        BY <2>1, <2>3, <2>4
<1>8. \A v \in Writers \ {w} : buffer'[v] = buffer[v] /\ temp'[v] = temp[v]
    BY <1>2 DEF Types
<1>9. ASSUME NEW t \in Tables
      PROVE  Held(w, t)' = IF t \in reached THEN Append(Held(w, t), row) ELSE Held(w, t)
    <2>1. rows(t) \o filled(t) = Append(rows(t) \o buffer[w][t], row)
        BY <1>3, ConcatAppend
    <2>2. CASE full(t)
        <3>1. buffer'[w][t] = << >> /\ temp'[w].tables[t].rows = rows(t) \o filled(t)
            BY <1>1, <1>3, <1>5, <2>2, ExtendedFile
        <3>2. (rows(t) \o filled(t)) \o << >> = rows(t) \o filled(t)
            BY <1>3, ConcatEmptySeq
        <3>3. QED
            BY <2>1, <2>2, <3>1, <3>2 DEF Held
    <2>3. CASE ~full(t)
        BY <1>5, <2>1, <2>3 DEF Held
    <2>4. QED
        BY <2>2, <2>3
<1>10. QED
    BY <1>6, <1>7, <1>8, <1>9


-----------------------------------------------------------------------------
(* The steps *)

LEMMA InitKeeps ==
    ASSUME Init
    PROVE  IInv
<1>1. Types
    <2>1. << >> \in Seq(Row) /\ Len(<< >>) = 0 /\ 0 < BatchRows
        BY EmptySeq, WriterAssumption
    <2>2. QED
        BY <2>1 DEF Init, Types, TypeOK, Phases
<1>2. ASSUME NEW w \in Writers
      PROVE  WriterInv(w)
    BY DEF Init, WriterInv, AbsentIsNew, HasDirectory, HoldsAllRows, CountsOffers, Expects,
           IsStored, IsLinked, IsDescribed, IsInvisible, AtWork, Live, Finishing,
           StoredPhases, LinkedPhases, DescribedPhases
<1>3. DestinationInv /\ OutcomeInv
    BY DEF Init, DestinationInv, OutcomeInv, Live, Finishing
<1>4. QED
    BY <1>1, <1>2, <1>3 DEF IInv

LEMMA OpenKeeps ==
    ASSUME IInv, NEW w \in Writers, Open(w)
    PROVE  IInv'
<1>1. phase[w] = "absent"
    BY DEF Open
<1>2. CASE dest # NoDirectory
    <2>1. Close(w, "error") /\ parent' = parent
        BY <1>2 DEF Open
    <2>2. QED
        BY <1>1, <2>1, CloseKeeps
<1>3. CASE dest = NoDirectory
    <2>1. /\ phase' = [phase EXCEPT ![w] = "open"]
          /\ temp' = [temp EXCEPT ![w] = EmptyDirectory]
          /\ parent' = CreatedParent
          /\ UNCHANGED <<result, offers, samples, accepted, districts, failed, buffer,
                         expected, dest, renamed>>
        BY <1>3 DEF Open
    <2>2. /\ phase'[w] = "open"
          /\ temp'[w] = EmptyDirectory
        BY <2>1 DEF IInv, Types, TypeOK
    <2>3. Types'
        BY <2>1, <2>2 DEF IInv, Types, TypeOK, Phases, Live, CreatedParent
    <2>4. /\ AbsentIsNew(w)
          /\ IsInvisible(w)
          /\ CountsOffers(w)
        BY DEF IInv, WriterInv
    <2>5. HasDirectory(w)'
        <3>1. << >> \in Seq(Row)
            BY EmptySeq
        <3>2. QED
            BY <2>2, <3>1 DEF HasDirectory, EmptyDirectory, UnwrittenFile, File
    <2>6. HoldsAllRows(w)'
        <3>1. ASSUME NEW t \in Tables
              PROVE  Held(w, t)' = << >>
            <4>1. buffer'[w][t] = << >> /\ temp'[w].tables[t].rows = << >>
                BY <1>1, <2>1, <2>2, <2>4 DEF AbsentIsNew, EmptyDirectory, UnwrittenFile
            <4>2. << >> \o << >> = << >>
                BY EmptySeq, ConcatEmptySeq
            <4>3. QED
                BY <4>1, <4>2 DEF Held
        <3>2. AsPushed(<< >>, w)
            BY <1>1, <2>4, NoRowsPushed DEF AbsentIsNew
        <3>3. QED
            BY <2>1, <3>1, <3>2 DEF HoldsAllRows, AsPushed
    <2>7. WriterInv(w)'
        BY <1>1, <2>1, <2>2, <2>4, <2>5, <2>6
           DEF WriterInv, AbsentIsNew, CountsOffers, Expects, IsStored, IsLinked,
               IsDescribed, IsInvisible, Finishing, StoredPhases, LinkedPhases,
               DescribedPhases
    <2>8. \A v \in Writers \ {w} : Untouched(v)
        BY <2>1 DEF Untouched, IInv, Types, TypeOK
    <2>9. QED
        BY <1>1, <2>1, <2>2, <2>3, <2>7, <2>8, StepOfOne
<1>4. QED
    BY <1>2, <1>3


LEMMA RowsAreTyped ==
    ASSUME Types, NEW w \in Writers, NEW row \in Rows(w)
    PROVE  row \in Row
<1>1. samples[w] \in Nat /\ accepted[w] \in Nat /\ Repetitions \subseteq Nat
    BY WriterAssumption DEF Types, TypeOK
<1>2. PICK gap \in {0, 1}, skip \in {0, 1}, r \in Repetitions, d \in DistrictSets :
         row = [sample_offset |-> samples[w] + gap, repetitions |-> r,
                accepted_index |-> accepted[w] + skip, districts |-> d]
    BY DEF Rows
<1>3. QED
    BY <1>1, <1>2 DEF Row

\* What every push does, whether all of the tables take the row or not.
LEMMA OfferKeeps ==
    ASSUME IInv, NEW w \in Writers, NEW row \in Row, NEW reached \in SUBSET Tables,
           Offer(w), districts' = [districts EXCEPT ![w] = row.districts],
           PushTo(w, reached, row),
           failed' \in [Writers -> BOOLEAN],
           samples' \in [Writers -> Nat], accepted' \in [Writers -> Nat],
           \A v \in Writers \ {w} : /\ failed'[v] = failed[v]
                                     /\ samples'[v] = samples[v]
                                     /\ accepted'[v] = accepted[v],
           HoldsAllRows(w)', CountsOffers(w)'
    PROVE  IInv'
<1>1. /\ phase[w] = "open" /\ phase' = phase
      /\ offers' = [offers EXCEPT ![w] = @ + 1]
      /\ UNCHANGED <<result, expected, dest, renamed, parent>>
    BY DEF Offer
<1>2. Types /\ WriterInv(w) /\ HasDirectory(w)
    BY DEF IInv, WriterInv
<1>3. /\ buffer' \in [Writers -> [Tables -> Seq(Row)]]
      /\ \A t \in Tables : Len(buffer'[w][t]) < BatchRows
      /\ DOMAIN temp' = Writers
      /\ DOMAIN temp'[w] = {"tables", "manifest"}
      /\ temp'[w].tables \in [Tables -> File]
      /\ \A v \in Writers \ {w} : buffer'[v] = buffer[v] /\ temp'[v] = temp[v]
    BY <1>1, <1>2, PushToAppends
<1>4. offers' \in [Writers -> Nat] /\ districts' \in [Writers -> DistrictSets \cup {None}]
    BY <1>1, <1>2 DEF Types, TypeOK, Row
<1>5. Types'
    <2>1. ASSUME NEW v \in Writers
          PROVE  /\ offers'[v] \in Nat
                 /\ \A t \in Tables : buffer'[v][t] \in Seq(Row) /\ Len(buffer'[v][t]) < BatchRows
                 /\ temp'[v] # NoDirectory => phase'[v] \in Live \cup {"killed"}
        <3>1. CASE v = w
            BY <1>1, <1>3, <1>4, <3>1 DEF Live
        <3>2. CASE v # w
            BY <1>1, <1>2, <1>3, <1>4, <3>2 DEF Types, TypeOK, Live
        <3>3. QED
            BY <3>1, <3>2
    <2>2. QED
        BY <1>1, <1>2, <1>3, <1>4, <2>1 DEF Types, TypeOK
<1>6. WriterInv(w)'
    BY <1>1, <1>2, <1>3
       DEF WriterInv, AbsentIsNew, HasDirectory, Expects, IsStored, IsLinked, IsDescribed,
           IsInvisible, Finishing, StoredPhases, LinkedPhases, DescribedPhases
<1>7. \A v \in Writers \ {w} : Untouched(v)
    BY <1>1, <1>2, <1>3 DEF Untouched, Types, TypeOK
<1>8. QED
    BY <1>1, <1>5, <1>6, <1>7, StepOfOne

LEMMA PushKeeps ==
    ASSUME IInv, NEW w \in Writers, NEW row \in Row, Push(w, row)
    PROVE  IInv'
<1>1. /\ Offer(w) /\ Acceptable(w, row)
      /\ districts' = [districts EXCEPT ![w] = row.districts]
      /\ PushTo(w, Tables, row)
      /\ samples' = [samples EXCEPT ![w] = @ + row.repetitions]
      /\ accepted' = [accepted EXCEPT ![w] = @ + 1]
      /\ failed' = failed
    BY DEF Push
<1>2. Types /\ WriterInv(w) /\ HasDirectory(w) /\ row \in Row /\ phase[w] = "open"
    BY <1>1 DEF IInv, WriterInv, Offer
<1>3. /\ samples'[w] = samples[w] + row.repetitions /\ accepted'[w] = accepted[w] + 1
      /\ offers'[w] = offers[w] + 1 /\ districts'[w] = row.districts
      /\ samples' \in [Writers -> Nat] /\ accepted' \in [Writers -> Nat]
    BY <1>1, <1>2 DEF Types, TypeOK, Row, Offer
<1>4. /\ ~failed[w]
      /\ row.accepted_index = accepted[w] /\ row.sample_offset = samples[w]
      /\ districts[w] \in {None, row.districts}
    BY <1>1 DEF Acceptable
<1>5. HoldsAllRows(w)'
    <2> SUFFICES ASSUME NEW t \in Tables
                 PROVE  AsPushed(Held(w, t), w)'
        BY DEF HoldsAllRows
    <2> DEFINE rows == Held(w, t)
               longer == Append(rows, row)
    <2>1. Held(w, t)' = longer
        BY <1>1, <1>2, PushToAppends
    <2>2. AsPushed(rows, w)
        BY <1>2, <1>4 DEF WriterInv, HoldsAllRows, AtWork, Live
    <2>3. /\ longer \in Seq(Row)
          /\ Len(longer) = Len(rows) + 1
          /\ Destination!Contiguous(longer)
          /\ Destination!SamplesOf(longer) = row.sample_offset + row.repetitions
        BY <1>2, <1>4, <2>2, AppendContinues DEF AsPushed
    <2>4. \A i \in DOMAIN longer : longer[i].districts = row.districts
        <3>1. ASSUME NEW i \in DOMAIN longer
              PROVE  longer[i].districts = row.districts
            <4>1. /\ DOMAIN longer = 1 .. Len(rows) + 1 /\ DOMAIN rows = 1 .. Len(rows)
                  /\ Len(rows) \in Nat
                  /\ longer[Len(rows) + 1] = row
                  /\ \A j \in 1 .. Len(rows) : longer[j] = rows[j] /\ rows[j] \in Row
                BY <1>2, <2>2, AppendProperties, LenProperties DEF AsPushed
            <4>2. CASE i \in 1 .. Len(rows)
                <5>1. longer[i] = rows[i] /\ rows[i].districts = districts[w]
                    BY <2>2, <4>1, <4>2 DEF AsPushed
                <5>2. districts[w] # None
                    BY <4>1, <4>2, <5>1, WriterAssumption DEF Row
                <5>3. QED
                    BY <1>4, <5>1, <5>2
            <4>3. CASE i = Len(rows) + 1
                BY <4>1, <4>3
            <4>4. QED
                BY <4>1, <4>2, <4>3
        <3>2. QED
            BY <3>1
    <2> HIDE DEF longer, rows
    <2>5. QED
        BY <1>3, <1>4, <2>1, <2>2, <2>3, <2>4 DEF AsPushed
<1>6. CountsOffers(w)'
    BY <1>2, <1>3, <1>4 DEF WriterInv, CountsOffers
<1>7. failed' \in [Writers -> BOOLEAN]
    BY <1>1, <1>2 DEF Types, TypeOK
<1>8. \A v \in Writers \ {w} : /\ failed'[v] = failed[v]
                                 /\ samples'[v] = samples[v]
                                 /\ accepted'[v] = accepted[v]
    BY <1>1, <1>2 DEF Types, TypeOK
<1>9. QED
    BY <1>1, <1>2, <1>3, <1>5, <1>6, <1>7, <1>8, OfferKeeps

LEMMA PushFailsMidwayKeeps ==
    ASSUME IInv, NEW w \in Writers, NEW row \in Row, NEW reached \in SUBSET Tables,
           PushFailsMidway(w, row, reached)
    PROVE  IInv'
<1>1. /\ Offer(w)
      /\ districts' = [districts EXCEPT ![w] = row.districts]
      /\ PushTo(w, reached, row)
      /\ failed' = [failed EXCEPT ![w] = TRUE]
      /\ samples' = samples /\ accepted' = accepted
    BY DEF PushFailsMidway
<1>2. Types /\ row \in Row
    BY DEF IInv
<1>3. /\ failed' \in [Writers -> BOOLEAN] /\ failed'[w]
      /\ samples' \in [Writers -> Nat] /\ accepted' \in [Writers -> Nat]
      /\ \A v \in Writers \ {w} : /\ failed'[v] = failed[v]
                                    /\ samples'[v] = samples[v]
                                    /\ accepted'[v] = accepted[v]
    BY <1>1, <1>2 DEF Types, TypeOK
<1>4. HoldsAllRows(w)' /\ CountsOffers(w)'
    BY <1>3 DEF HoldsAllRows, CountsOffers
<1>5. QED
    BY <1>1, <1>2, <1>3, <1>4, OfferKeeps

LEMMA PushRejectedKeeps ==
    ASSUME IInv, NEW w \in Writers, NEW row \in Row, PushRejected(w, row)
    PROVE  IInv'
<1>1. /\ phase[w] = "open" /\ phase' = phase
      /\ offers' = [offers EXCEPT ![w] = @ + 1]
      /\ failed' = [failed EXCEPT ![w] = TRUE]
      /\ UNCHANGED <<result, expected, dest, renamed, parent, samples, accepted, districts, buffer,
                     temp>>
    BY DEF PushRejected, Offer
<1>2. Types /\ WriterInv(w)
    BY DEF IInv
<1>3. Types' /\ failed'[w]
    BY <1>1, <1>2 DEF Types, TypeOK
<1>4. WriterInv(w)'
    BY <1>1, <1>2, <1>3
       DEF WriterInv, AbsentIsNew, HasDirectory, HoldsAllRows, CountsOffers, Expects,
           IsStored, IsLinked, IsDescribed, IsInvisible, Finishing, StoredPhases,
           LinkedPhases, DescribedPhases
<1>5. \A v \in Writers \ {w} : Untouched(v)
    BY <1>1, <1>2 DEF Untouched, Types, TypeOK
<1>6. QED
    BY <1>1, <1>3, <1>4, <1>5, StepOfOne


LEMMA FinishKeeps ==
    ASSUME IInv, NEW w \in Writers, NEW summary, Finish(w, summary)
    PROVE  IInv'
<1>1. phase[w] = "open"
    BY DEF Finish
<1>2. CASE ~Finishable(w, summary)
    BY <1>1, <1>2, CloseKeeps DEF Finish
<1>3. CASE Finishable(w, summary)
    <2>1. /\ phase' = [phase EXCEPT ![w] = "tables"]
          /\ expected' = [expected EXCEPT ![w] = summary]
          /\ UNCHANGED <<result, offers, samples, accepted, districts, failed, buffer,
                         temp, dest, renamed, parent>>
        BY <1>3 DEF Finish
    <2>2. ~failed[w] /\ summary.samples = samples[w] /\ summary.accepted = accepted[w]
        BY <1>3 DEF Finishable
    <2>3. Types /\ WriterInv(w)
        BY DEF IInv
    <2>4. phase'[w] = "tables" /\ expected'[w] = summary
        BY <2>1, <2>3 DEF Types, TypeOK
    <2>5. Types'
        BY <1>1, <2>1, <2>3 DEF Types, TypeOK, Phases, Live, Finishing
    <2>6. HoldsAllRows(w)'
        BY <1>1, <2>1, <2>2, <2>3
           DEF WriterInv, HoldsAllRows, Held, AsPushed, AtWork, Live
    <2>7. WriterInv(w)'
        BY <1>1, <2>1, <2>2, <2>3, <2>4, <2>6
           DEF WriterInv, AbsentIsNew, HasDirectory, CountsOffers, Expects, IsStored,
               IsLinked, IsDescribed, IsInvisible, AtWork, Live, StoredPhases,
               LinkedPhases, DescribedPhases
    <2>8. \A v \in Writers \ {w} : Untouched(v)
        BY <2>1, <2>3 DEF Untouched, Types, TypeOK
    <2>9. QED
        BY <1>1, <2>1, <2>4, <2>5, <2>7, <2>8, StepOfOne DEF Live, Finishing
<1>4. QED
    BY <1>2, <1>3

LEMMA FinishTablesKeeps ==
    ASSUME IInv, NEW w \in Writers, FinishTables(w)
    PROVE  IInv'
<1>1. /\ phase[w] = "tables" /\ phase' = [phase EXCEPT ![w] = "directories"]
      /\ buffer' = [buffer EXCEPT ![w] = [t \in Tables |-> << >>]]
      /\ temp' = [temp EXCEPT ![w].tables =
                     [t \in Tables |-> [Extended(@[t], buffer[w][t]) EXCEPT
                                          !.closed = TRUE, !.synced = TRUE]]]
      /\ UNCHANGED <<offers, samples, accepted, districts, failed, expected, result, dest,
                     renamed, parent>>
    BY DEF FinishTables, Advance
<1>2. Types /\ WriterInv(w)
    BY DEF IInv
<1>3. DOMAIN temp[w] = {"tables", "manifest"} /\ temp[w].tables \in [Tables -> File]
    BY <1>1, <1>2 DEF WriterInv, HasDirectory, AtWork, Live, Finishing
<1>4. /\ phase'[w] = "directories"
      /\ \A t \in Tables : buffer'[w][t] = << >>
      /\ \A v \in Writers \ {w} : phase'[v] = phase[v] /\ buffer'[v] = buffer[v]
                                 /\ temp'[v] = temp[v]
      /\ DOMAIN temp' = Writers /\ DOMAIN temp'[w] = {"tables", "manifest"}
      /\ temp'[w].tables = [t \in Tables |-> [Extended(temp[w].tables[t], buffer[w][t]) EXCEPT
                                               !.closed = TRUE, !.synced = TRUE]]
    BY <1>1, <1>2, <1>3 DEF Types, TypeOK
<1>5. ASSUME NEW t \in Tables
      PROVE  /\ temp'[w].tables[t] \in File
             /\ temp'[w].tables[t].rows = Held(w, t)
             /\ temp'[w].tables[t].closed /\ temp'[w].tables[t].synced
             /\ Held(w, t)' = Held(w, t)
    <2>1. temp[w].tables[t] \in File /\ buffer[w][t] \in Seq(Row)
        BY <1>2, <1>3 DEF Types
    <2>2. /\ Extended(temp[w].tables[t], buffer[w][t]) \in File
          /\ Extended(temp[w].tables[t], buffer[w][t]).rows = Held(w, t)
        BY <2>1, ExtendedFile DEF Held
    <2>3. /\ temp'[w].tables[t] \in File
          /\ temp'[w].tables[t].rows = Held(w, t)
          /\ temp'[w].tables[t].closed /\ temp'[w].tables[t].synced
        <3>1. PICK file \in File : file = Extended(temp[w].tables[t], buffer[w][t])
            BY <2>2
        <3>2. temp'[w].tables[t] = [file EXCEPT !.closed = TRUE, !.synced = TRUE]
            BY <1>4, <3>1
        <3>3. QED
            BY <2>2, <3>1, <3>2 DEF File
    <2>4. Held(w, t) \in Seq(Row)
        BY <2>2 DEF File
    <2>5. QED
        BY <1>4, <2>3, <2>4, ConcatEmptySeq DEF Held
<1>6. temp'[w].tables \in [Tables -> File]
    BY <1>4, <1>5
<1>7. Types'
    <2>1. << >> \in Seq(Row) /\ Len(<< >>) = 0 /\ 0 < BatchRows
        BY EmptySeq, WriterAssumption
    <2>2. buffer' \in [Writers -> [Tables -> Seq(Row)]]
        BY <1>1, <1>2, <2>1 DEF Types
    <2>3. ASSUME NEW v \in Writers
          PROVE  /\ \A t \in Tables : buffer'[v][t] \in Seq(Row) /\ Len(buffer'[v][t]) < BatchRows
                 /\ temp'[v] # NoDirectory => phase'[v] \in Live \cup {"killed"}
        BY <1>2, <1>4, <2>1 DEF Types, TypeOK, Live, Finishing
    <2>4. QED
        BY <1>1, <1>2, <1>4, <2>2, <2>3 DEF Types, TypeOK, Phases, Live, Finishing
<1>8. HoldsAllRows(w)'
    BY <1>1, <1>2, <1>5
       DEF WriterInv, HoldsAllRows, AsPushed, AtWork, Live, Finishing
<1>9. WriterInv(w)'
    BY <1>1, <1>2, <1>4, <1>5, <1>6, <1>8
       DEF WriterInv, AbsentIsNew, HasDirectory, CountsOffers, Expects, IsStored,
           IsLinked, IsDescribed, IsInvisible, Finishing, StoredPhases, LinkedPhases,
           DescribedPhases
<1>10. \A v \in Writers \ {w} : Untouched(v)
    BY <1>1, <1>4 DEF Untouched
<1>11. QED
    BY <1>1, <1>4, <1>7, <1>9, <1>10, StepOfOne DEF Live, Finishing


\* A later stage of finish only marks the files or writes the manifest.
LEMMA StageKeeps ==
    ASSUME IInv, NEW w \in Writers, NEW from \in StoredPhases, NEW to \in LinkedPhases,
           Advance(w, from, to),
           UNCHANGED <<result, buffer, dest, renamed, parent>>,
           DOMAIN temp' = Writers, DOMAIN temp'[w] = {"tables", "manifest"},
           \A v \in Writers \ {w} : temp'[v] = temp[v],
           temp'[w].tables \in [Tables -> File],
           \A t \in Tables : /\ temp'[w].tables[t].rows = temp[w].tables[t].rows
                             /\ temp'[w].tables[t].closed = temp[w].tables[t].closed
                             /\ temp'[w].tables[t].synced = temp[w].tables[t].synced,
           IsLinked(w)', IsDescribed(w)'
    PROVE  IInv'
<1>1. /\ phase[w] = from /\ phase' = [phase EXCEPT ![w] = to]
      /\ UNCHANGED <<offers, samples, accepted, districts, failed, expected>>
    BY DEF Advance
<1>2. Types /\ WriterInv(w)
    BY DEF IInv
<1>3. phase'[w] = to
    BY <1>1, <1>2 DEF Types, TypeOK
<1>4. Types'
    BY <1>1, <1>2, <1>3 DEF Types, TypeOK, Phases, Live, Finishing, StoredPhases, LinkedPhases
<1>5. HoldsAllRows(w)'
    <2> SUFFICES ASSUME NEW t \in Tables
                 PROVE  AsPushed(Held(w, t), w)'
        BY DEF HoldsAllRows
    <2>1. AsPushed(Held(w, t), w)
        BY <1>1, <1>2 DEF WriterInv, HoldsAllRows, Expects, AtWork, Live, Finishing,
                          StoredPhases
    <2>2. Held(w, t)' = Held(w, t)
        BY DEF Held
    <2>3. QED
        BY <1>1, <2>1, <2>2 DEF AsPushed
<1>6. WriterInv(w)'
    BY <1>1, <1>2, <1>3, <1>5
       DEF WriterInv, AbsentIsNew, HasDirectory, CountsOffers, Expects, IsStored,
           IsInvisible, Finishing, StoredPhases, LinkedPhases
<1>7. \A v \in Writers \ {w} : Untouched(v)
    BY <1>1, <1>2 DEF Untouched, Types, TypeOK
<1>8. QED
    BY <1>1, <1>3, <1>4, <1>6, <1>7, StepOfOne
       DEF StoredPhases, LinkedPhases, Live, Finishing

\* What a writer between the tables and the publication knows of its directory.
LEMMA DirectoryOfStage ==
    ASSUME IInv, NEW w \in Writers, phase[w] \in StoredPhases
    PROVE  /\ Types
           /\ DOMAIN temp[w] = {"tables", "manifest"}
           /\ temp[w].tables \in [Tables -> File]
           /\ \A t \in Tables :
                 /\ AsPushed(temp[w].tables[t].rows, w)
                 /\ temp[w].tables[t].closed /\ temp[w].tables[t].synced
           /\ ~failed[w]
           /\ expected[w].samples = samples[w] /\ expected[w].accepted = accepted[w]
<1>1. /\ Types
      /\ DOMAIN temp[w] = {"tables", "manifest"}
      /\ temp[w].tables \in [Tables -> File]
      /\ ~failed[w]
      /\ expected[w].samples = samples[w] /\ expected[w].accepted = accepted[w]
    BY DEF IInv, WriterInv, HasDirectory, Expects, AtWork, Live, Finishing, StoredPhases
<1>2. ASSUME NEW t \in Tables
      PROVE  /\ AsPushed(temp[w].tables[t].rows, w)
             /\ temp[w].tables[t].closed /\ temp[w].tables[t].synced
    <2>1. /\ AsPushed(Held(w, t), w)
          /\ buffer[w][t] = << >>
          /\ temp[w].tables[t].closed /\ temp[w].tables[t].synced
        BY <1>1 DEF IInv, WriterInv, HoldsAllRows, IsStored, AtWork, Live, Finishing,
                    StoredPhases
    <2>2. Held(w, t) = temp[w].tables[t].rows
        BY <1>1, <2>1, ConcatEmptySeq DEF Held, File
    <2>3. QED
        BY <2>1, <2>2
<1>3. QED
    BY <1>1, <1>2

\* A sync of a directory marks some of the files in it and changes nothing else.
LEMMA LinkedFiles ==
    ASSUME NEW files \in [Tables -> File], NEW some \in SUBSET Tables,
           NEW marked, marked = Linked(files, some)
    PROVE  /\ marked \in [Tables -> File]
           /\ \A t \in Tables :
                 /\ marked[t].rows = files[t].rows
                 /\ marked[t].closed = files[t].closed
                 /\ marked[t].synced = files[t].synced
                 /\ t \in some \/ files[t].linked => marked[t].linked
<1>1. ASSUME NEW u \in Tables
      PROVE  /\ marked[u] \in File
             /\ marked[u].rows = files[u].rows
             /\ marked[u].closed = files[u].closed
             /\ marked[u].synced = files[u].synced
             /\ u \in some \/ files[u].linked => marked[u].linked
    <2>1. PICK file \in File : file = files[u]
        OBVIOUS
    <2>2. CASE u \in some
        <3>1. marked[u] = [file EXCEPT !.linked = TRUE]
            BY <2>1, <2>2 DEF Linked
        <3>2. QED
            BY <2>1, <2>2, <3>1 DEF File
    <2>3. CASE u \notin some
        <3>1. marked[u] = file
            BY <2>1, <2>3 DEF Linked
        <3>2. QED
            BY <2>1, <2>3, <3>1 DEF File
    <2>4. QED
        BY <2>2, <2>3
<1>2. marked \in [Tables -> File]
    BY <1>1 DEF Linked
<1>3. QED
    BY <1>1, <1>2

LEMMA SyncDirectoriesKeeps ==
    ASSUME IInv, NEW w \in Writers, SyncDirectories(w)
    PROVE  IInv'
<1>1. /\ Advance(w, "directories", "manifest")
      /\ temp' = [temp EXCEPT ![w].tables = Linked(@, Nested)]
      /\ UNCHANGED <<result, buffer, dest, renamed, parent>>
    BY DEF SyncDirectories
<1>2. phase[w] = "directories" /\ phase[w] \in StoredPhases
    BY <1>1 DEF Advance, StoredPhases
<1>3. /\ Types
      /\ DOMAIN temp[w] = {"tables", "manifest"} /\ temp[w].tables \in [Tables -> File]
    BY <1>2, DirectoryOfStage
<1>4. /\ DOMAIN temp' = Writers /\ DOMAIN temp'[w] = {"tables", "manifest"}
      /\ \A v \in Writers \ {w} : temp'[v] = temp[v]
      /\ temp'[w].tables = Linked(temp[w].tables, Nested)
      /\ phase'[w] = "manifest"
    BY <1>1, <1>3 DEF Types, TypeOK, Advance
<1>5. /\ temp'[w].tables \in [Tables -> File]
      /\ \A t \in Tables :
            /\ temp'[w].tables[t].rows = temp[w].tables[t].rows
            /\ temp'[w].tables[t].closed = temp[w].tables[t].closed
            /\ temp'[w].tables[t].synced = temp[w].tables[t].synced
            /\ t \in Nested => temp'[w].tables[t].linked
    BY <1>3, <1>4, LinkedFiles, WriterAssumption
<1>6. IsLinked(w)' /\ IsDescribed(w)'
    BY <1>4, <1>5, WriterAssumption DEF IsLinked, IsDescribed, DescribedPhases, LinkedPhases
<1>7. "directories" \in StoredPhases /\ "manifest" \in LinkedPhases
    BY DEF StoredPhases, LinkedPhases
<1>8. QED
    BY <1>1, <1>4, <1>5, <1>6, <1>7, StageKeeps

LEMMA WriteManifestKeeps ==
    ASSUME IInv, NEW w \in Writers, WriteManifest(w)
    PROVE  IInv'
<1> DEFINE written == [summary |-> expected[w],
                       districts |-> districts[w],
                       checksums |-> [t \in Tables |-> temp[w].tables[t].rows],
                       synced |-> TRUE,
                       linked |-> FALSE]
<1>1. /\ Advance(w, "manifest", "temp")
      /\ temp' = [temp EXCEPT ![w].manifest = written]
      /\ UNCHANGED <<result, buffer, dest, renamed, parent>>
    BY DEF WriteManifest
<1>2. phase[w] = "manifest" /\ phase[w] \in StoredPhases
    BY <1>1 DEF Advance, StoredPhases
<1>3. /\ Types
      /\ DOMAIN temp[w] = {"tables", "manifest"} /\ temp[w].tables \in [Tables -> File]
      /\ expected[w].samples = samples[w] /\ expected[w].accepted = accepted[w]
    BY <1>2, DirectoryOfStage
<1>4. /\ DOMAIN written = {"summary", "districts", "checksums", "synced", "linked"}
      /\ written.summary = expected[w] /\ written.districts = districts[w]
      /\ written.checksums = [t \in Tables |-> temp[w].tables[t].rows]
      /\ written.synced
    OBVIOUS
<1> HIDE DEF written
<1>5. /\ DOMAIN temp' = Writers /\ DOMAIN temp'[w] = {"tables", "manifest"}
      /\ \A v \in Writers \ {w} : temp'[v] = temp[v]
      /\ temp'[w].tables = temp[w].tables
      /\ temp'[w].manifest = written
      /\ phase'[w] = "temp"
    BY <1>1, <1>3 DEF Types, TypeOK, Advance
<1>6. IsLinked(w)'
    BY <1>2, <1>5 DEF IInv, WriterInv, IsLinked, LinkedPhases
<1>7. IsDescribed(w)'
    BY <1>1, <1>3, <1>4, <1>5 DEF IsDescribed, Describes, Advance
<1>8. "manifest" \in StoredPhases /\ "temp" \in LinkedPhases
    BY DEF StoredPhases, LinkedPhases
<1>9. QED
    BY <1>1, <1>3, <1>5, <1>6, <1>7, <1>8, StageKeeps


LEMMA SyncTempKeeps ==
    ASSUME IInv, NEW w \in Writers, SyncTemp(w)
    PROVE  IInv'
<1>1. /\ Advance(w, "temp", "publish")
      /\ temp' = [temp EXCEPT ![w].manifest.linked = TRUE,
                              ![w].tables = Linked(@, Tables \ Nested)]
      /\ UNCHANGED <<result, buffer, dest, renamed, parent>>
    BY DEF SyncTemp
<1>2. phase[w] = "temp" /\ phase[w] \in StoredPhases
    BY <1>1 DEF Advance, StoredPhases
<1>3. /\ Types
      /\ DOMAIN temp[w] = {"tables", "manifest"} /\ temp[w].tables \in [Tables -> File]
    BY <1>2, DirectoryOfStage
<1>4. /\ DOMAIN temp' = Writers /\ DOMAIN temp'[w] = {"tables", "manifest"}
      /\ \A v \in Writers \ {w} : temp'[v] = temp[v]
      /\ temp'[w].manifest = [temp[w].manifest EXCEPT !.linked = TRUE]
      /\ temp'[w].tables = Linked(temp[w].tables, Tables \ Nested)
      /\ phase'[w] = "publish"
    BY <1>1, <1>3 DEF Types, TypeOK, Advance
<1>5. /\ temp'[w].tables \in [Tables -> File]
      /\ \A t \in Tables :
            /\ temp'[w].tables[t].rows = temp[w].tables[t].rows
            /\ temp'[w].tables[t].closed = temp[w].tables[t].closed
            /\ temp'[w].tables[t].synced = temp[w].tables[t].synced
            /\ t \in Tables \ Nested \/ temp[w].tables[t].linked => temp'[w].tables[t].linked
    <2>1. Tables \ Nested \in SUBSET Tables
        OBVIOUS
    <2>2. QED
        BY <1>3, <1>4, <2>1, LinkedFiles
<1>6. Describes(temp[w].manifest, temp[w].tables, w)
    BY <1>2 DEF IInv, WriterInv, IsDescribed, DescribedPhases
<1>7. Describes(temp[w].manifest, temp[w].tables, w)' /\ temp'[w].manifest.linked
    <2>1. PICK m : m = temp[w].manifest
        OBVIOUS
    <2>2. /\ DOMAIN m = {"summary", "districts", "checksums", "synced", "linked"}
          /\ temp'[w].manifest = [m EXCEPT !.linked = TRUE]
        BY <1>4, <1>6, <2>1 DEF Describes
    <2>3. /\ DOMAIN temp'[w].manifest = DOMAIN m
          /\ temp'[w].manifest.summary = m.summary
          /\ temp'[w].manifest.districts = m.districts
          /\ temp'[w].manifest.checksums = m.checksums
          /\ temp'[w].manifest.synced = m.synced
          /\ temp'[w].manifest.linked
        BY <2>2
    <2>4. m.checksums = [t \in Tables |-> temp'[w].tables[t].rows]
        BY <1>5, <1>6, <2>1 DEF Describes
    <2>5. QED
        BY <1>1, <1>6, <2>1, <2>2, <2>3, <2>4 DEF Describes, Advance
<1>8. \A t \in Nested : temp[w].tables[t].linked
    BY <1>2 DEF IInv, WriterInv, IsLinked, LinkedPhases
<1>9. IsLinked(w)' /\ IsDescribed(w)'
    BY <1>4, <1>5, <1>7, <1>8, WriterAssumption DEF IsLinked, IsDescribed
<1>10. "temp" \in StoredPhases /\ "publish" \in LinkedPhases
    BY DEF StoredPhases, LinkedPhases
<1>11. QED
    BY <1>1, <1>4, <1>5, <1>9, <1>10, StageKeeps


LEMMA PublishKeeps ==
    ASSUME IInv, NEW w \in Writers, Publish(w)
    PROVE  IInv'
<1>1. phase[w] = "publish"
    BY DEF Publish, Advance
<1>2. CASE dest # NoDirectory
    BY <1>1, <1>2, CloseKeeps DEF Publish
<1>3. CASE dest = NoDirectory
    <2>1. /\ phase' = [phase EXCEPT ![w] = "parent"]
          /\ dest' = [owner |-> w, tables |-> temp[w].tables, manifest |-> temp[w].manifest]
          /\ temp' = [temp EXCEPT ![w] = NoDirectory]
          /\ renamed' = FALSE
          /\ UNCHANGED <<offers, samples, accepted, districts, failed, expected, result,
                         buffer, parent>>
        BY <1>3 DEF Publish, Advance
    <2>2. Types /\ WriterInv(w) /\ phase[w] \in StoredPhases
        BY <1>1 DEF IInv, StoredPhases
    <2>3. phase'[w] = "parent" /\ temp'[w] = NoDirectory
        BY <2>1, <2>2 DEF Types, TypeOK
    <2>4. Types'
        BY <2>1, <2>2, <2>3 DEF Types, TypeOK, Phases, Live, Finishing
    <2>5. \A v \in Writers \ {w} : Untouched(v)
        BY <2>1, <2>2 DEF Untouched, Types, TypeOK
    <2>6. WriterInv(w)'
        BY <1>1, <2>1, <2>2, <2>3
           DEF WriterInv, AbsentIsNew, HasDirectory, HoldsAllRows, CountsOffers, Expects,
               IsStored, IsLinked, IsDescribed, IsInvisible, AtWork, Live, Finishing,
               StoredPhases, LinkedPhases, DescribedPhases
    <2>7. \A v \in Writers : WriterInv(v)'
        BY <2>5, <2>6, OthersKeep DEF IInv
    <2>8. DestinationInv'
        <3>1. /\ dest' # NoDirectory
              /\ dest'.owner = w
              /\ dest'.tables = temp[w].tables /\ dest'.manifest = temp[w].manifest
            BY <2>1 DEF NoDirectory
        <3>2. /\ temp[w].tables \in [Tables -> File]
              /\ ~failed[w]
              /\ \A t \in Tables :
                    /\ AsPushed(temp[w].tables[t].rows, w)
                    /\ temp[w].tables[t].closed /\ temp[w].tables[t].synced
            BY <2>2, DirectoryOfStage
        <3>3. /\ \A t \in Tables : temp[w].tables[t].linked
              /\ temp[w].manifest.linked
              /\ Describes(temp[w].manifest, temp[w].tables, w)
            BY <1>1, <2>2 DEF WriterInv, IsLinked, IsDescribed, DescribedPhases
        <3>4. QED
            BY <2>1, <2>3, <3>1, <3>2, <3>3 DEF DestinationInv, AsPushed, Describes
    <2>9. OutcomeInv'
        <3>1. result[w] = "none" /\ parent # "missing"
            BY <1>1, <2>2 DEF WriterInv, IsInvisible, IInv, OutcomeInv, Live, Finishing
        <3>2. \A v \in Writers \ {w} : phase'[v] # "parent"
            BY <1>3, <2>5 DEF IInv, OutcomeInv, Untouched
        <3>3. dest' # NoDirectory /\ dest'.owner = w
            BY <2>1 DEF NoDirectory
        <3>4. QED
            BY <2>1, <3>1, <3>2, <3>3 DEF OutcomeInv
    <2>10. QED
        BY <2>4, <2>7, <2>8, <2>9 DEF IInv
<1>4. QED
    BY <1>2, <1>3

LEMMA SyncParentKeeps ==
    ASSUME IInv, NEW w \in Writers, SyncParent(w)
    PROVE  IInv'
<1>1. /\ phase[w] = "parent" /\ phase' = [phase EXCEPT ![w] = "closed"]
      /\ result' = [result EXCEPT ![w] = "ok"]
      /\ renamed' = TRUE
      /\ UNCHANGED <<offers, samples, accepted, districts, failed, expected, buffer, temp,
                     dest, parent>>
    BY DEF SyncParent, Advance
<1>2. Types /\ WriterInv(w) /\ dest # NoDirectory
    BY <1>1 DEF IInv, OutcomeInv
<1>3. phase'[w] = "closed" /\ result'[w] = "ok"
    BY <1>1, <1>2 DEF Types, TypeOK
<1>4. \A v \in Writers \ {w} : Untouched(v)
    BY <1>1, <1>2 DEF Untouched, Types, TypeOK
<1>5. Types'
    BY <1>1, <1>2, <1>3 DEF Types, TypeOK, Phases, WriterInv, HasDirectory
<1>6. WriterInv(w)'
    BY <1>1, <1>2, <1>3
       DEF WriterInv, AbsentIsNew, HasDirectory, HoldsAllRows, CountsOffers, Expects,
           IsStored, IsLinked, IsDescribed, IsInvisible, AtWork, Live, Finishing,
           StoredPhases, LinkedPhases, DescribedPhases
<1>7. \A v \in Writers : WriterInv(v)'
    BY <1>4, <1>6, OthersKeep DEF IInv
<1>8. DestinationInv'
    <2>1. /\ dest.owner \in Writers
          /\ phase'[dest.owner] \in {"parent", "closed", "killed"}
        BY <1>2, <1>3, <1>4 DEF IInv, DestinationInv, Untouched
    <2>2. QED
        BY <1>1, <1>2, <2>1 DEF IInv, DestinationInv, AsPushed, Describes
<1>9. OutcomeInv'
    <2>1. \A v \in Writers : phase'[v] \in Live => phase[v] \in Live /\ phase'[v] = phase[v]
        BY <1>3, <1>4 DEF Untouched, Live, Finishing
    <2>2. phase'[w] # "parent"
        BY <1>3
    <2>3. QED
        BY <1>1, <1>4, <2>1, <2>2 DEF IInv, OutcomeInv, Untouched
<1>10. QED
    BY <1>5, <1>7, <1>8, <1>9 DEF IInv

LEMMA KillKeeps ==
    ASSUME IInv, NEW w \in Writers, Kill(w)
    PROVE  IInv'
<1>1. /\ phase[w] \in Live /\ phase' = [phase EXCEPT ![w] = "killed"]
      /\ UNCHANGED <<result, offers, samples, accepted, districts, failed, buffer, expected,
                     temp, dest, renamed, parent>>
    BY DEF Kill
<1>2. Types /\ WriterInv(w)
    BY DEF IInv
<1>3. phase'[w] = "killed" /\ phase[w] # "closed"
    BY <1>1, <1>2 DEF Types, TypeOK, Live, Finishing
<1>4. Types'
    BY <1>1, <1>2, <1>3 DEF Types, TypeOK, Phases
<1>5. WriterInv(w)'
    BY <1>1, <1>2, <1>3
       DEF WriterInv, AbsentIsNew, HasDirectory, HoldsAllRows, CountsOffers, Expects,
           IsStored, IsLinked, IsDescribed, IsInvisible, AtWork, Live, Finishing,
           StoredPhases, LinkedPhases, DescribedPhases
<1>6. \A v \in Writers \ {w} : Untouched(v)
    BY <1>1, <1>2 DEF Untouched, Types, TypeOK
<1>7. QED
    BY <1>1, <1>3, <1>4, <1>5, <1>6, StepOfOne

\* Everything under the output path is durable.
LEMMA NothingIsLost ==
    ASSUME DestinationInv, dest # NoDirectory, NEW lost \in SUBSET Tables
    PROVE  Surviving(dest, lost) = dest
<1>1. PICK o, tables, manifest :
         dest = [owner |-> o, tables |-> tables, manifest |-> manifest]
    BY DEF DestinationInv
<1>2. /\ tables \in [Tables -> File]
      /\ \A t \in Tables : tables[t].synced /\ tables[t].linked
      /\ manifest.synced /\ manifest.linked
    BY <1>1 DEF DestinationInv, Describes
<1>3. tables = [t \in Tables |->
                   IF t \in lost /\ ~(tables[t].synced /\ tables[t].linked)
                   THEN UnwrittenFile ELSE tables[t]]
    BY <1>2
<1>4. manifest = IF manifest # NoManifest /\ ~(manifest.synced /\ manifest.linked)
                 THEN NoManifest ELSE manifest
    BY <1>2
<1>5. Surviving(dest, lost) = [dest EXCEPT !.tables = tables, !.manifest = manifest]
    BY <1>1, <1>3, <1>4 DEF Surviving
<1>6. QED
    BY <1>1, <1>5

LEMMA PowerLossKeeps ==
    ASSUME IInv, NEW lost \in SUBSET Tables, NEW undone \in BOOLEAN,
           NEW swept \in BOOLEAN, PowerLoss(lost, undone, swept)
    PROVE  IInv'
<1>1. /\ phase' = [w \in Writers |-> IF phase[w] \in Live THEN "killed" ELSE phase[w]]
      /\ dest' \in {NoDirectory, dest}
      /\ parent' \in {"missing", "durable"}
      /\ dest' # NoDirectory /\ parent # "missing" => parent' = "durable"
      /\ renamed' = (dest' # NoDirectory)
      /\ UNCHANGED <<result, offers, samples, accepted, districts, failed, buffer, expected,
                     temp>>
    BY NothingIsLost DEF PowerLoss, IInv
<1>2. Types
    BY DEF IInv
<1>3. Types'
    BY <1>1, <1>2 DEF Types, TypeOK, Phases, Live, Finishing
<1>4. ASSUME NEW w \in Writers
      PROVE  WriterInv(w)'
    <2>1. WriterInv(w) /\ phase'[w] = IF phase[w] \in Live THEN "killed" ELSE phase[w]
        BY <1>1 DEF IInv
    <2>2. phase'[w] \notin Live
        BY <2>1 DEF Live, Finishing
    <2>3. QED
        BY <1>1, <2>1, <2>2
           DEF WriterInv, AbsentIsNew, HasDirectory, HoldsAllRows, CountsOffers, Expects,
               IsStored, IsLinked, IsDescribed, IsInvisible, AtWork, Live, Finishing,
               StoredPhases, LinkedPhases, DescribedPhases
<1>5. DestinationInv'
    <2> SUFFICES ASSUME dest' # NoDirectory
                 PROVE  DestinationInv'
        BY DEF DestinationInv
    <2>1. dest' = dest /\ dest # NoDirectory /\ dest.owner \in Writers
        BY <1>1 DEF IInv, DestinationInv
    <2>2. phase'[dest.owner] \in {"parent", "closed", "killed"}
        BY <1>1, <2>1 DEF IInv, DestinationInv
    <2>3. QED
        BY <1>1, <2>1, <2>2 DEF IInv, DestinationInv, AsPushed, Describes
<1>6. OutcomeInv'
    <2>1. \A w \in Writers : phase'[w] \notin Live /\ phase'[w] # "parent"
        BY <1>1 DEF IInv, Types, TypeOK, Phases, Live, Finishing
    <2>2. QED
        BY <1>1, <2>1 DEF IInv, OutcomeInv
<1>7. QED
    BY <1>3, <1>4, <1>5, <1>6 DEF IInv


LEMMA NextKeeps ==
    ASSUME IInv, [Next]_vars
    PROVE  IInv'
<1>1. CASE UNCHANGED vars
    <2>1. \A w \in Writers : Untouched(w)
        BY <1>1 DEF vars, writerVars, Untouched
    <2>2. \A w \in Writers : WriterInv(w)'
        BY <2>1, OthersKeep DEF IInv
    <2>3. Types' /\ DestinationInv' /\ OutcomeInv'
        BY <1>1 DEF vars, writerVars, IInv, Types, TypeOK, DestinationInv, OutcomeInv,
                    AsPushed, Describes
    <2>4. QED
        BY <2>2, <2>3 DEF IInv
<1>2. ASSUME NEW w \in Writers, OpenFails(w) \/ FinishFails(w) \/ Drop(w)
      PROVE  IInv'
    <2>1. /\ \E outcome \in {"error", "dropped"} : Close(w, outcome)
          /\ parent' \in {parent, CreatedParent}
        BY <1>2 DEF OpenFails, FinishFails, Drop
    <2>2. phase[w] # "closed"
        BY <1>2 DEF OpenFails, FinishFails, Drop, Finishing
    <2>3. QED
        BY <2>1, <2>2, CloseKeeps
<1>3. ASSUME NEW w \in Writers, NEW row \in Rows(w),
             \/ Push(w, row) \/ PushRejected(w, row)
             \/ \E reached \in SUBSET Tables : PushFailsMidway(w, row, reached)
      PROVE  IInv'
    <2>1. row \in Row
        BY RowsAreTyped DEF IInv
    <2>2. QED
        BY <1>3, <2>1, PushKeeps, PushRejectedKeeps, PushFailsMidwayKeeps
<1>4. QED
    BY <1>1, <1>2, <1>3, OpenKeeps, FinishKeeps, FinishTablesKeeps, SyncDirectoriesKeeps,
       WriteManifestKeeps, SyncTempKeeps, PublishKeeps, SyncParentKeeps, KillKeeps,
       PowerLossKeeps DEF Next

LEMMA Invariance == Spec => []IInv
<1>1. Init => IInv
    BY InitKeeps
<1>2. IInv /\ [Next]_vars => IInv'
    BY NextKeeps
<1>3. QED
    BY <1>1, <1>2, PTL DEF Spec

-----------------------------------------------------------------------------
(* The theorems *)

\* Every variable has its type, and no buffer is left full.
THEOREM TypesHold == Spec => []TypeOK
<1>1. IInv => TypeOK
    BY DEF IInv, Types
<1>2. QED
    BY <1>1, Invariance, PTL

\* Whatever fails, whoever is killed and wherever the power is lost, a
\* directory under the output path is intact and has one row for each push
\* call of its writer.
THEOREM PublishedRunsAreWhole == Spec => []PublishedIsWhole
<1>1. IInv => PublishedIsWhole
    <2> SUFFICES ASSUME IInv, dest # NoDirectory
                 PROVE  /\ Intact(dest)
                        /\ \A t \in Tables :
                              LET rows == dest.tables[t].rows
                              IN /\ Destination!Contiguous(rows)
                                 /\ Len(rows) = offers[dest.owner]
                                 /\ \A i \in DOMAIN rows :
                                       rows[i].districts = dest.manifest.districts
        BY DEF PublishedIsWhole
    <2>1. Describes(dest.manifest, dest.tables, dest.owner)
        BY DEF IInv, DestinationInv
    <2>2. Intact(dest)
        BY <2>1 DEF IInv, DestinationInv, Intact, Describes, NoManifest
    <2>3. accepted[dest.owner] = offers[dest.owner]
        BY DEF IInv, DestinationInv, WriterInv, CountsOffers
    <2>4. QED
        BY <2>1, <2>2, <2>3 DEF IInv, DestinationInv, AsPushed, Describes
<1>2. QED
    BY <1>1, Invariance, PTL

\* What a reader finds, and what the callers have been told: the state that
\* PublishedRun describes.
Shown ==
    IF dest = NoDirectory THEN << >>
    ELSE [rows |-> dest.tables[CHOOSE t \in Tables : TRUE].rows,
          districts |-> dest.manifest.districts,
          summary |-> dest.manifest.summary]

Told == Promised

\* A step that leaves the output path alone tells nobody of a success.
LEMMA UnseenSteps ==
    ASSUME IInv, dest' = dest, parent' \in {parent, CreatedParent},
           \A w \in Writers : \/ result'[w] = result[w]
                              \/ phase[w] # "closed" /\ result'[w] # "ok"
    PROVE  UNCHANGED <<Shown, Told>>
<1>1. \A w \in Writers : (result'[w] = "ok") <=> (result[w] = "ok")
    BY DEF IInv, WriterInv, IsInvisible
<1>2. dest # NoDirectory => dest.owner \in Writers /\ parent' = parent
    BY CreatedParentIsThere DEF IInv, DestinationInv, OutcomeInv
<1>3. QED
    BY <1>1, <1>2 DEF Shown, Told, Promised

LEMMA CloseIsUnseen ==
    ASSUME IInv, NEW w \in Writers, NEW outcome \in {"error", "dropped"},
           phase[w] # "closed", Close(w, outcome), parent' \in {parent, CreatedParent}
    PROVE  UNCHANGED <<Shown, Told>>
<1>1. dest' = dest /\ result' = [result EXCEPT ![w] = outcome]
    BY DEF Close
<1>2. \A v \in Writers : \/ result'[v] = result[v]
                         \/ phase[v] # "closed" /\ result'[v] # "ok"
    BY <1>1 DEF IInv, Types, TypeOK
<1>3. QED
    BY <1>1, <1>2, UnseenSteps

\* The rename is the publication of a complete run.
LEMMA PublishRefines ==
    ASSUME IInv, NEW w \in Writers, Publish(w)
    PROVE  Destination!Publish \/ UNCHANGED <<Shown, Told>>
<1>1. IInv'
    BY PublishKeeps
<1>2. CASE dest # NoDirectory
    BY <1>2, CloseIsUnseen DEF Publish
<1>3. CASE dest = NoDirectory
    <2>1. dest' # NoDirectory /\ dest'.owner = w /\ result' = result
        BY <1>3 DEF Publish, NoDirectory
    <2>2. Shown = << >> /\ Shown' # << >> /\ Told' = Told
        <3>1. result[w] # "ok"
            BY <1>3 DEF Publish, Advance, IInv, WriterInv, IsInvisible
        <3>2. QED
            BY <1>3, <2>1, <3>1 DEF Shown, Told, Promised
    <2>3. Destination!Complete(Shown')
        <3>1. PICK t \in Tables : t = CHOOSE u \in Tables : TRUE
            BY WriterAssumption
        <3>2. /\ AsPushed(dest.tables[t].rows, dest.owner)'
              /\ Describes(dest.manifest, dest.tables, dest.owner)'
            BY <1>1, <2>1 DEF IInv, DestinationInv
        <3>3. /\ Shown'.rows = dest'.tables[t].rows
              /\ Shown'.districts = dest'.manifest.districts
              /\ Shown'.summary = dest'.manifest.summary
            BY <2>1, <3>1 DEF Shown
        <3>4. QED
            BY <3>2, <3>3 DEF AsPushed, Describes, Destination!Complete
    <2>4. QED
        BY <2>2, <2>3 DEF Destination!Publish, Destination!NoRun, Shown, Told
<1>4. QED
    BY <1>2, <1>3


LEMMA SyncParentRefines ==
    ASSUME IInv, NEW w \in Writers, SyncParent(w)
    PROVE  Destination!Acknowledge \/ UNCHANGED <<Shown, Told>>
<1>1. /\ dest # NoDirectory /\ dest.owner = w /\ dest' = dest
      /\ result'[w] = "ok" /\ result[w] # "ok" /\ parent' = parent
    BY DEF SyncParent, Advance, IInv, OutcomeInv, Types, TypeOK, WriterInv, IsInvisible
<1>2. Shown # << >> /\ Shown' = Shown /\ ~Told /\ (Told' <=> parent = "durable")
    BY <1>1 DEF Shown, Told, Promised
<1>3. QED
    BY <1>2 DEF Destination!Acknowledge, Destination!NoRun, Shown, Told, Promised

\* A power loss undoes a rename of which nobody was told, or takes a parent
\* that was not there before, or changes nothing that a reader could see; what
\* it leaves of an acknowledged run is there for good.
LEMMA PowerLossRefines ==
    ASSUME IInv, NEW lost \in SUBSET Tables, NEW undone \in BOOLEAN,
           NEW swept \in BOOLEAN, PowerLoss(lost, undone, swept)
    PROVE  Destination!Undo \/ Destination!Acknowledge \/ UNCHANGED <<Shown, Told>>
<1>1. /\ result' = result
      /\ dest' \in {NoDirectory, dest}
      /\ dest' # dest => parent = "created" \/ ~renamed
      /\ dest' # NoDirectory /\ parent # "missing" => parent' = "durable"
    BY NothingIsLost DEF PowerLoss, IInv
<1>2. CASE dest' = dest
    <2>1. CASE dest = NoDirectory
        BY <1>2, <2>1 DEF Shown, Told, Promised
    <2>2. CASE dest # NoDirectory
        <3>1. parent' = "durable"
            BY <1>1, <1>2, <2>2 DEF IInv, OutcomeInv
        <3>2. Shown # << >> /\ Shown' = Shown /\ (Told => Told')
            BY <1>1, <1>2, <2>2, <3>1 DEF Shown, Told, Promised
        <3>3. Told' \in BOOLEAN /\ Told \in BOOLEAN
            BY DEF Told, Promised
        <3>4. QED
            BY <3>2, <3>3 DEF Destination!Acknowledge, Destination!NoRun, Shown, Told
    <2>3. QED
        BY <2>1, <2>2
<1>3. CASE dest' # dest
    <2>1. dest' = NoDirectory
        BY <1>1, <1>3
    <2>2. ~Told /\ ~Told' /\ Shown' = << >>
        BY <1>1, <1>3, <2>1 DEF IInv, OutcomeInv, Told, Promised, Shown
    <2>3. QED
        BY <2>2 DEF Destination!Undo, Destination!NoRun, Shown, Told, Promised
<1>4. QED
    BY <1>2, <1>3

LEMMA StepRefines ==
    ASSUME IInv, [Next]_vars
    PROVE  Destination!Next \/ UNCHANGED <<Shown, Told>>
<1>1. CASE UNCHANGED vars
    BY <1>1 DEF vars, writerVars, Shown, Told, Promised
<1>2. ASSUME NEW w \in Writers,
             OpenFails(w) \/ FinishFails(w) \/ Drop(w)
      PROVE  UNCHANGED <<Shown, Told>>
    <2>1. /\ \E outcome \in {"error", "dropped"} : Close(w, outcome)
          /\ parent' \in {parent, CreatedParent}
        BY <1>2 DEF OpenFails, FinishFails, Drop
    <2>2. phase[w] # "closed"
        BY <1>2 DEF OpenFails, FinishFails, Drop, Finishing
    <2>3. QED
        BY <2>1, <2>2, CloseIsUnseen
<1>3. ASSUME NEW w \in Writers,
             \/ Open(w)
             \/ \E summary \in Summaries(w) : Finish(w, summary)
      PROVE  UNCHANGED <<Shown, Told>>
    <2>1. CASE /\ \E outcome \in {"error", "dropped"} : Close(w, outcome)
               /\ parent' = parent
        <3>1. phase[w] # "closed"
            BY <1>3 DEF Open, Finish
        <3>2. QED
            BY <2>1, <3>1, CloseIsUnseen
    <2>2. CASE dest' = dest /\ result' = result /\ parent' \in {parent, CreatedParent}
        BY <2>2, UnseenSteps
    <2>3. QED
        BY <1>3, <2>1, <2>2 DEF Open, Finish
<1>4. ASSUME NEW w \in Writers,
             \/ \E row \in Rows(w) : Push(w, row) \/ PushRejected(w, row)
             \/ \E row \in Rows(w), reached \in SUBSET Tables : PushFailsMidway(w, row, reached)
             \/ FinishTables(w) \/ SyncDirectories(w) \/ WriteManifest(w) \/ SyncTemp(w)
             \/ Kill(w)
      PROVE  UNCHANGED <<Shown, Told>>
    <2>1. dest' = dest /\ result' = result /\ parent' = parent
        BY <1>4 DEF Push, PushRejected, PushFailsMidway, Offer, FinishTables,
                    SyncDirectories, WriteManifest, SyncTemp, Kill
    <2>2. QED
        BY <2>1, UnseenSteps
<1>5. QED
    BY <1>1, <1>2, <1>3, <1>4, PublishRefines, SyncParentRefines, PowerLossRefines
       DEF Next, Destination!Next

\* RunWriter implements PublishedRun: a run appears under the output path at
\* once and complete, is never replaced, and is there for good once its finish
\* has returned, if its parent directory was on the disk before.
THEOREM PublicationIsAtomic == Spec => PublishesAtomically
<1>1. Init => Destination!Init
    BY DEF Init, Destination!Init, Destination!NoRun, Promised
<1>2. IInv /\ [Next]_vars => Destination!Next \/ UNCHANGED <<Shown, Told>>
    BY StepRefines
<1>3. QED
    BY <1>1, <1>2, Invariance, PTL DEF Spec, PublishesAtomically, Destination!Spec, Shown, Told

=============================================================================

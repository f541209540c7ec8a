------------------------ MODULE EnsembleReaderProofs ------------------------
(***************************************************************************)
(* Proofs about EnsembleReader.  A read hands out what the tables hold     *)
(* that the opened manifest names, wherever batches begin and however      *)
(* often rows are repeated; refusals have reasons; and the frames a reader *)
(* keeps are one set.                                                      *)
(*                                                                         *)
(* The first part is about the operators the reader is made of: flattened  *)
(* sequences, sums of repetitions, and the checks of frames.  The second   *)
(* says what each operation does, and the third that the inductive         *)
(* invariant IInv is kept.                                                 *)
(***************************************************************************)
EXTENDS EnsembleReader, SequenceTheorems, FiniteSetTheorems, WellFoundedInduction, TLAPS

Tables == Seq(Rows)
Manifests == [summary : {Summary}, sums : [StoredTables -> Tables]]
Hows == {"frames", "raw", "read", "samples"}

\* The types of the directory, of the opened manifest and of the count of calls.
TypesHold ==
    /\ stored \in [manifest : Manifests, tables : [StoredTables -> Tables], writes : Nat]
    /\ opened \in Manifests \cup {NoManifest}
    /\ read.number \in Nat

\* The samples through the first n rows, as the last of these states them.
EndOf(rows, n) == IF n = 0 THEN 0 ELSE rows[n].sample_offset + rows[n].repetitions

\* The first n rows of a table follow each other without a gap.
Continues(rows, n) ==
    \A i \in 1 .. n : /\ rows[i].accepted_index = i - 1
                      /\ rows[i].sample_offset = EndOf(rows, i - 1)
                      /\ rows[i].repetitions > 0

\* The tables a call reads, as the opened manifest names them.
SumsRead(m, how) == [t \in Selected(m, how) |-> opened.sums[t]]

HeadTable == opened.sums[Head(TablesOf[read.metric])]

BatchFields ==
    {"status", "number", "metric", "how", "batch", "given", "rows", "part", "offset",
     "accepted", "sampleStart", "row", "remaining"}

\* What a call by batches holds is of the tables the opened manifest names, and what it has
\* read of them are the same frames, without a gap.
BatchesHold ==
    read.status = "running" =>
        /\ opened \in Manifests
        /\ BatchFields \subseteq DOMAIN read
        /\ read.metric \in StoredMetrics /\ read.how \in Hows /\ read.batch \in Nat \ {0}
        /\ read.rows = SumsRead(read.metric, read.how)
        /\ read.accepted \in 0 .. Summary.accepted
        /\ \A t \in Selected(read.metric, read.how) :
              /\ Len(opened.sums[t]) = Summary.accepted
              /\ \A i \in 1 .. read.accepted : FrameOf(opened.sums[t][i]) = FrameOf(HeadTable[i])
        /\ read.offset = EndOf(HeadTable, read.accepted)
        /\ Continues(HeadTable, read.accepted)

(***************************************************************************)
(* Flattened sequences                                                     *)
(***************************************************************************)

\* A set of numbers that is not empty has a least one.
LEMMA LeastExists ==
    ASSUME NEW T \in SUBSET Nat, T # {}
    PROVE  \E n \in T : \A m \in T : ~(m < n)
<1>1. PICK n \in T : \A m \in T : ~(<<m, n>> \in OpToRel(<, Nat))
    BY NatLessThanWellFounded, WFMin
<1>2. QED
    BY <1>1 DEF OpToRel

\* f has the first blocks of ss concatenated, for each number of blocks up to n.
IsFlattening(f, ss, n) == f = [i \in 1 .. n |-> IF i = 1 THEN ss[i] ELSE f[i - 1] \o ss[i]]

HasFlattening(ss, n) == \E f : IsFlattening(f, ss, n)

\* What flattens n blocks can be extended by a further one.
LEMMA FlatteningsGoOn ==
    ASSUME NEW ss, NEW n \in Nat \ {0}, HasFlattening(ss, n)
    PROVE  HasFlattening(ss, n + 1)
<1>0. PICK f : f = [i \in 1 .. n |-> IF i = 1 THEN ss[i] ELSE f[i - 1] \o ss[i]]
    BY DEF HasFlattening, IsFlattening
<1> DEFINE g == [i \in 1 .. (n + 1) |-> IF i = n + 1 THEN f[n] \o ss[n + 1] ELSE f[i]]
<1>1. n + 1 - 1 = n /\ n + 1 # 1 /\ n \in 1 .. n
    OBVIOUS
<1>2. ASSUME NEW i \in 1 .. (n + 1)
      PROVE  g[i] = IF i = 1 THEN ss[i] ELSE g[i - 1] \o ss[i]
    <2>1. CASE i = n + 1
        <3>0. n \in 1 .. (n + 1) /\ n + 1 \in 1 .. (n + 1) /\ n # n + 1
            OBVIOUS
        <3>1. g[n] = f[n] /\ g[n + 1] = f[n] \o ss[n + 1]
            BY <3>0, Zenon
        <3> HIDE DEF g
        <3>2. g[n + 1] = IF n + 1 = 1 THEN ss[n + 1] ELSE g[n + 1 - 1] \o ss[n + 1]
            BY <1>1, <3>1, Zenon
        <3>3. QED
            BY <2>1, <3>2
    <2>2. CASE i \in 1 .. n
        <3>1. f[i] = IF i = 1 THEN ss[i] ELSE f[i - 1] \o ss[i]
            BY <1>0, <2>2
        <3>2. g[i] = f[i] /\ (i # 1 => g[i - 1] = f[i - 1])
            BY <1>1, <2>2
        <3>3. QED
            BY <3>1, <3>2
    <2>3. QED
        BY <2>1, <2>2
<1>3. g = [i \in 1 .. (n + 1) |-> IF i = 1 THEN ss[i] ELSE g[i - 1] \o ss[i]]
    <2>1. [i \in 1 .. (n + 1) |-> g[i]]
            = [i \in 1 .. (n + 1) |-> IF i = 1 THEN ss[i] ELSE g[i - 1] \o ss[i]]
        BY <1>2
    <2>2. g = [i \in 1 .. (n + 1) |-> g[i]]
        OBVIOUS
    <2> HIDE DEF g
    <2>3. QED
        BY <2>1, <2>2
<1> HIDE DEF g
<1>4. QED
    BY <1>3 DEF HasFlattening, IsFlattening

\* Any number of blocks can be flattened.
LEMMA FlatteningsExist ==
    ASSUME NEW ss, NEW n \in Nat \ {0}
    PROVE  HasFlattening(ss, n)
<1> DEFINE without == {m \in Nat \ {0} : ~HasFlattening(ss, m)}
<1>1. without = {}
    <2> SUFFICES ASSUME without # {}
                 PROVE  FALSE
        OBVIOUS
    <2>1. without \subseteq Nat
        OBVIOUS
    <2>2. PICK m \in without : \A k \in without : ~(k < m)
        <3> HIDE DEF without
        <3>1. QED
            BY <2>1, LeastExists
    <2>3. m \in Nat \ {0} /\ ~HasFlattening(ss, m)
        OBVIOUS
    <2>4. m # 1
        <3>1. [i \in 1 .. 1 |-> ss[1]]
                = [i \in 1 .. 1 |-> IF i = 1 THEN ss[i] ELSE [k \in 1 .. 1 |-> ss[1]][i - 1] \o ss[i]]
            OBVIOUS
        <3>2. HasFlattening(ss, 1)
            BY <3>1 DEF HasFlattening, IsFlattening
        <3>3. QED
            BY <2>3, <3>2
    <2>5. m - 1 \in Nat \ {0} /\ m - 1 + 1 = m /\ m - 1 < m
        BY <2>3, <2>4
    <2>6. HasFlattening(ss, m - 1)
        BY <2>2, <2>5
    <2>7. HasFlattening(ss, m - 1 + 1)
        BY <2>5, <2>6, FlatteningsGoOn
    <2>8. QED
        BY <2>3, <2>5, <2>7
<1>2. QED
    BY <1>1

\* The flattening of a sequence that is not empty, beginning by beginning.
Beginnings(ss) == CHOOSE f : IsFlattening(f, ss, Len(ss))

\* FlattenSeq is the last of the beginnings.
LEMMA FlattenedByBeginnings ==
    ASSUME NEW S, NEW ss \in Seq(S), ss # <<>>
    PROVE  /\ FlattenSeq(ss) = Beginnings(ss)[Len(ss)]
           /\ Beginnings(ss)[1] = ss[1]
           /\ \A i \in 2 .. Len(ss) : Beginnings(ss)[i] = Beginnings(ss)[i - 1] \o ss[i]
<1>1. Len(ss) \in Nat \ {0}
    OBVIOUS
<1>2. HasFlattening(ss, Len(ss))
    BY <1>1, FlatteningsExist
<1>3. IsFlattening(Beginnings(ss), ss, Len(ss))
    BY <1>2 DEF HasFlattening, Beginnings
<1>4. FlattenSeq(ss) = Beginnings(ss)[Len(ss)]
    BY <1>1 DEF FlattenSeq, Beginnings, IsFlattening
<1> DEFINE f == Beginnings(ss)
<1>5. f = [i \in 1 .. Len(ss) |-> IF i = 1 THEN ss[i] ELSE f[i - 1] \o ss[i]]
    BY <1>3 DEF IsFlattening
<1> HIDE DEF f
<1>6. \A i \in 1 .. Len(ss) : f[i] = IF i = 1 THEN ss[i] ELSE f[i - 1] \o ss[i]
    BY <1>5
<1>7. f[1] = ss[1]
    BY <1>1, <1>6
<1>8. ASSUME NEW i \in 2 .. Len(ss)
      PROVE  f[i] = f[i - 1] \o ss[i]
    <2>1. i \in 1 .. Len(ss) /\ i # 1
        BY <1>1
    <2>2. QED
        BY <1>6, <2>1, Zenon
<1>9. QED
    BY <1>4, <1>7, <1>8 DEF f

\* Where the blocks of a sequence end: e[i] elements are in the first i of them.
EndsAt(e, ss) ==
    /\ e[0] = 0
    /\ \A i \in 0 .. Len(ss) : e[i] \in Nat
    /\ \A i \in 1 .. Len(ss) : e[i] = e[i - 1] + Len(ss[i])

\* Ends grow.
LEMMA EndsGrow ==
    ASSUME NEW e, NEW ss, EndsAt(e, ss), \A i \in 1 .. Len(ss) : Len(ss[i]) \in Nat,
           NEW m \in 1 .. Len(ss), NEW i \in 1 .. m, Len(ss) \in Nat
    PROVE  e[i] <= e[m]
<1> DEFINE less == {n \in 1 .. Len(ss) : i <= n /\ ~(e[i] <= e[n])}
<1>0. /\ \A n \in 0 .. Len(ss) : e[n] \in Nat
      /\ \A n \in 1 .. Len(ss) : e[n] = e[n - 1] + Len(ss[n])
    BY DEF EndsAt
<1>1. less = {}
    <2> SUFFICES ASSUME less # {}
                 PROVE  FALSE
        OBVIOUS
    <2>1. PICK n \in less : \A k \in less : ~(k < n)
        <3>1. less \subseteq Nat
            OBVIOUS
        <3> HIDE DEF less
        <3>2. QED
            BY <3>1, LeastExists
    <2>2. n \in 1 .. Len(ss) /\ i <= n /\ ~(e[i] <= e[n]) /\ i \in 1 .. Len(ss)
        OBVIOUS
    <2>3. n # i /\ n - 1 \in 1 .. Len(ss) /\ i <= n - 1 /\ n - 1 < n
        BY <1>0, <2>2
    <2>4. n - 1 \notin less
        <3> HIDE DEF less
        <3>1. QED
            BY <2>1, <2>3
    <2>5. e[i] <= e[n - 1]
        BY <2>3, <2>4
    <2>6. e[n] = e[n - 1] + Len(ss[n]) /\ Len(ss[n]) \in Nat /\ e[n - 1] \in Nat /\ e[i] \in Nat
        BY <1>0, <2>2, <2>3
    <2>7. QED
        BY <2>2, <2>5, <2>6
<1>2. QED
    BY <1>1

\* FlattenedBlocks, when there are blocks.
LEMMA BlocksAreConcatenated ==
    ASSUME NEW X, NEW ss \in Seq(Seq(X)), ss # <<>>, NEW e, EndsAt(e, ss)
    PROVE  /\ FlattenSeq(ss) \in Seq(X) /\ Len(FlattenSeq(ss)) = e[Len(ss)]
           /\ \A i \in 1 .. Len(ss) : \A k \in 1 .. Len(ss[i]) :
                 FlattenSeq(ss)[e[i - 1] + k] = ss[i][k]
<1> DEFINE f == Beginnings(ss)
           Right(n) == /\ f[n] \in Seq(X) /\ Len(f[n]) = e[n]
                       /\ \A i \in 1 .. n : \A k \in 1 .. Len(ss[i]) : f[n][e[i - 1] + k] = ss[i][k]
           wrong == {n \in 1 .. Len(ss) : ~Right(n)}
<1>1. /\ f[1] = ss[1] /\ \A i \in 2 .. Len(ss) : f[i] = f[i - 1] \o ss[i]
      /\ Len(ss) \in Nat \ {0} /\ \A i \in 1 .. Len(ss) : ss[i] \in Seq(X)
    <2>1. /\ Beginnings(ss)[1] = ss[1]
          /\ \A i \in 2 .. Len(ss) : Beginnings(ss)[i] = Beginnings(ss)[i - 1] \o ss[i]
        BY FlattenedByBeginnings, Zenon
    <2>2. Len(ss) \in Nat \ {0} /\ \A i \in 1 .. Len(ss) : ss[i] \in Seq(X)
        OBVIOUS
    <2>3. QED
        BY <2>1, <2>2, Zenon DEF f
<1>2. /\ e[0] = 0
      /\ \A i \in 0 .. Len(ss) : e[i] \in Nat
      /\ \A i \in 1 .. Len(ss) : e[i] = e[i - 1] + Len(ss[i])
    BY DEF EndsAt
<1> HIDE DEF f
<1>3. wrong = {}
    <2> SUFFICES ASSUME wrong # {}
                 PROVE  FALSE
        OBVIOUS
    <2>1. PICK n \in wrong : \A m \in wrong : ~(m < n)
        <3>1. wrong \subseteq Nat
            OBVIOUS
        <3> HIDE DEF wrong
        <3>2. QED
            BY <3>1, LeastExists
    <2>2. n \in 1 .. Len(ss) /\ ~Right(n)
        OBVIOUS
    <2>3. CASE n = 1
        <3>1. f[1] \in Seq(X) /\ Len(f[1]) = e[1] /\ e[1 - 1] = 0
            BY <1>1, <1>2
        <3>2. ASSUME NEW i \in 1 .. 1, NEW k \in 1 .. Len(ss[i])
              PROVE  f[1][e[i - 1] + k] = ss[i][k]
            <4>1. i = 1 /\ e[i - 1] = 0 /\ 0 + k = k
                BY <1>2
            <4>2. QED
                BY <1>1, <4>1
        <3>3. Right(1)
            BY <3>1, <3>2
        <3> HIDE DEF Right
        <3>4. QED
            BY <2>2, <2>3, <3>3
    <2>4. CASE n # 1
        <3>1. n \in 2 .. Len(ss) /\ n - 1 \in 1 .. Len(ss) /\ n - 1 < n
            BY <1>1, <2>2, <2>4
        <3>2. Right(n - 1)
            <4> HIDE DEF Right
            <4>1. QED
                BY <2>1, <3>1
        <3>3. /\ f[n] = f[n - 1] \o ss[n] /\ f[n - 1] \in Seq(X) /\ ss[n] \in Seq(X)
              /\ Len(f[n - 1]) = e[n - 1] /\ e[n] = e[n - 1] + Len(ss[n])
            BY <1>1, <1>2, <3>1, <3>2
        <3>4. /\ f[n] \in Seq(X) /\ Len(f[n]) = e[n]
              /\ \A j \in 1 .. e[n - 1] : f[n][j] = f[n - 1][j]
              /\ \A k \in 1 .. Len(ss[n]) : f[n][e[n - 1] + k] = ss[n][k]
            <4> DEFINE a == f[n - 1]
                       b == ss[n]
            <4>1. a \in Seq(X) /\ b \in Seq(X) /\ f[n] = a \o b /\ Len(a) = e[n - 1]
                BY <3>3
            <4> HIDE DEF a, b, wrong, Right
            <4>2. /\ a \o b \in Seq(X) /\ Len(a \o b) = Len(a) + Len(b)
                  /\ \A j \in 1 .. Len(a) : (a \o b)[j] = a[j]
                  /\ \A k \in 1 .. Len(b) : (a \o b)[Len(a) + k] = b[k]
                <5>1. a \in Seq(X) /\ b \in Seq(X)
                    BY <4>1
                <5>2. QED
                    BY <5>1
            <4>3. /\ f[n] \in Seq(X) /\ Len(f[n]) = e[n - 1] + Len(b)
                  /\ \A j \in 1 .. e[n - 1] : f[n][j] = a[j]
                  /\ \A k \in 1 .. Len(b) : f[n][e[n - 1] + k] = b[k]
                BY <4>1, <4>2, Zenon
            <4>4. QED
                BY <3>3, <4>3 DEF a, b
        <3>5. ASSUME NEW i \in 1 .. n, NEW k \in 1 .. Len(ss[i])
              PROVE  f[n][e[i - 1] + k] = ss[i][k]
            <4>1. CASE i = n
                BY <3>4, <4>1
            <4>2. CASE i # n
                <5>1. i \in 1 .. n - 1 /\ i \in 1 .. Len(ss) /\ i - 1 \in 0 .. Len(ss)
                    <6>1. Len(ss) \in Nat /\ n \in 1 .. Len(ss)
                        BY <1>1, <2>2
                    <6> HIDE DEF wrong
                    <6>2. QED
                        BY <4>2, <6>1
                <5>2. f[n - 1][e[i - 1] + k] = ss[i][k]
                    BY <3>2, <5>1
                <5> HIDE DEF wrong, Right
                <5>3. e[i] = e[i - 1] + Len(ss[i]) /\ e[i - 1] \in Nat /\ e[i] \in Nat
                    <6>1. i \in 0 .. Len(ss)
                        BY <1>1, <5>1
                    <6>2. QED
                        BY <1>2, <5>1, <6>1
                <5>4. Len(ss[i]) \in Nat
                    BY <1>1, <5>1
                <5>5. e[i] <= e[n - 1] /\ e[n - 1] \in Nat
                    <6>1. \A l \in 1 .. Len(ss) : Len(ss[l]) \in Nat
                        BY <1>1
                    <6>2. i \in 1 .. n - 1 /\ n - 1 \in 1 .. Len(ss) /\ Len(ss) \in Nat
                          /\ n - 1 \in 0 .. Len(ss)
                        BY <1>1, <3>1, <5>1
                    <6>3. e[i] <= e[n - 1]
                        BY <6>1, <6>2, EndsGrow
                    <6>4. QED
                        BY <1>2, <6>2, <6>3
                <5>6. e[i - 1] + k \in 1 .. e[n - 1]
                    BY <5>3, <5>4, <5>5
                <5>7. QED
                    BY <3>4, <5>2, <5>6
            <4>3. QED
                BY <4>1, <4>2
        <3>6. Right(n)
            BY <3>4, <3>5
        <3> HIDE DEF Right
        <3>7. QED
            BY <2>2, <3>6
    <2>5. QED
        BY <2>3, <2>4
<1>4. Right(Len(ss))
    <2> HIDE DEF Right
    <2>1. Len(ss) \in 1 .. Len(ss)
        BY <1>1
    <2>2. QED
        BY <1>3, <2>1
<1>5. FlattenSeq(ss) = f[Len(ss)]
    BY FlattenedByBeginnings DEF f
<1>6. QED
    BY <1>4, <1>5

\* Flattening blocks of one set puts each element of each block in its place.
LEMMA FlattenedBlocks ==
    ASSUME NEW X, NEW ss \in Seq(Seq(X)), NEW e, EndsAt(e, ss)
    PROVE  /\ FlattenSeq(ss) \in Seq(X) /\ Len(FlattenSeq(ss)) = e[Len(ss)]
           /\ \A i \in 1 .. Len(ss) : \A k \in 1 .. Len(ss[i]) :
                 FlattenSeq(ss)[e[i - 1] + k] = ss[i][k]
<1>1. CASE ss = <<>>
    <2>1. FlattenSeq(ss) = <<>> /\ Len(ss) = 0
        BY <1>1 DEF FlattenSeq
    <2>2. e[0] = 0 /\ <<>> \in Seq(X) /\ Len(<<>>) = 0 /\ 1 .. 0 = {}
        BY DEF EndsAt
    <2>3. QED
        BY <2>1, <2>2, Zenon
<1>2. CASE ss # <<>>
    BY <1>2, BlocksAreConcatenated
<1>3. QED
    BY <1>1, <1>2

\* What the flattening of n blocks, with these ends, is.
FlatWith(ss, X, n, e) ==
    /\ FlattenSeq(ss) \in Seq(X) /\ Len(FlattenSeq(ss)) = e[n]
    /\ \A i \in 1 .. n : \A k \in 1 .. Len(ss[i]) : FlattenSeq(ss)[e[i - 1] + k] = ss[i][k]

\* The same, as one operator of the blocks and their ends.
LEMMA FlattenedParts ==
    ASSUME NEW X, NEW n, NEW ss \in Seq(Seq(X)), Len(ss) = n, NEW e, EndsAt(e, ss)
    PROVE  FlatWith(ss, X, n, e)
<1>1. FlattenSeq(ss) \in Seq(X)
    BY FlattenedBlocks
<1>2. Len(FlattenSeq(ss)) = e[Len(ss)]
    BY FlattenedBlocks
<1>3. \A i \in 1 .. Len(ss) : \A k \in 1 .. Len(ss[i]) : FlattenSeq(ss)[e[i - 1] + k] = ss[i][k]
    BY FlattenedBlocks
<1>4. QED
    BY <1>1, <1>2, <1>3, Zenon DEF FlatWith

\* A single block is its own flattening.
LEMMA FlattenedOne ==
    ASSUME NEW X, NEW x \in Seq(X)
    PROVE  FlattenSeq(<<x>>) = x
<1>1. <<x>> \in Seq(Seq(X)) /\ <<x>> # <<>> /\ Len(<<x>>) = 1 /\ <<x>>[1] = x
    OBVIOUS
<1>2. QED
    BY <1>1, FlattenedByBeginnings

\* The flattening of blocks of one set is a sequence of that set.
LEMMA BeginningsAreSequences ==
    ASSUME NEW X, NEW ss \in Seq(Seq(X)), ss # <<>>
    PROVE  \A n \in 1 .. Len(ss) : Beginnings(ss)[n] \in Seq(X)
<1> DEFINE f == Beginnings(ss)
           wrong == {n \in 1 .. Len(ss) : f[n] \notin Seq(X)}
<1>1. f[1] = ss[1] /\ \A i \in 2 .. Len(ss) : f[i] = f[i - 1] \o ss[i]
    BY FlattenedByBeginnings, Zenon
<1>2. \A i \in 1 .. Len(ss) : ss[i] \in Seq(X)
    OBVIOUS
<1> HIDE DEF f
<1>3. wrong = {}
    <2> SUFFICES ASSUME wrong # {}
                 PROVE  FALSE
        OBVIOUS
    <2>1. PICK n \in wrong : \A m \in wrong : ~(m < n)
        <3>1. wrong \subseteq Nat
            OBVIOUS
        <3> HIDE DEF wrong
        <3>2. QED
            BY <3>1, LeastExists
    <2>2. n \in 1 .. Len(ss) /\ f[n] \notin Seq(X)
        OBVIOUS
    <2>3. n # 1
        BY <1>1, <1>2, <2>2
    <2>4. n \in 2 .. Len(ss) /\ n - 1 \in 1 .. Len(ss) /\ n - 1 < n
        BY <2>2, <2>3
    <2>5. f[n - 1] \in Seq(X)
        BY <2>1, <2>4
    <2>6. f[n] = f[n - 1] \o ss[n] /\ ss[n] \in Seq(X)
        BY <1>1, <1>2, <2>2, <2>4
    <2> HIDE DEF wrong
    <2>7. QED
        BY <2>2, <2>5, <2>6
<1>4. QED
    BY <1>3 DEF f

\* A further block is appended to the elements of those before it.
LEMMA FlattenedAppend ==
    ASSUME NEW X, NEW ss \in Seq(Seq(X)), NEW x \in Seq(X)
    PROVE  FlattenSeq(Append(ss, x)) = FlattenSeq(ss) \o x /\ FlattenSeq(ss) \in Seq(X)
<1>1. CASE ss = <<>>
    <2>1. FlattenSeq(ss) = <<>> /\ Append(ss, x) = <<x>> /\ <<>> \o x = x
        BY <1>1 DEF FlattenSeq
    <2>2. QED
        BY <2>1, FlattenedOne
<1>2. CASE ss # <<>>
    <2> DEFINE more == Append(ss, x)
               n == Len(ss)
               f == Beginnings(ss)
               g == Beginnings(more)
               differ == {i \in 1 .. n : f[i] # g[i]}
    <2>1. /\ more \in Seq(Seq(X)) /\ more # <<>> /\ Len(more) = n + 1 /\ n \in Nat \ {0}
          /\ \A i \in 1 .. n : more[i] = ss[i]
          /\ more[n + 1] = x
        <3>1. n \in Nat \ {0}
            BY <1>2
        <3>2. more \in Seq(Seq(X)) /\ Len(more) = n + 1
            OBVIOUS
        <3>5. more # <<>>
            <4> HIDE DEF more, n
            <4>1. QED
                BY <3>1, <3>2
        <3>3. (\A i \in 1 .. n : more[i] = ss[i]) /\ more[n + 1] = x
            OBVIOUS
        <3> HIDE DEF more, n
        <3>4. QED
            BY <3>1, <3>2, <3>3, <3>5
    <2> HIDE DEF more
    <2>2. f[1] = ss[1] /\ (\A i \in 2 .. n : f[i] = f[i - 1] \o ss[i]) /\ FlattenSeq(ss) = f[n]
        BY <1>2, FlattenedByBeginnings
    <2>3. /\ g[1] = more[1] /\ (\A i \in 2 .. n + 1 : g[i] = g[i - 1] \o more[i])
          /\ FlattenSeq(more) = g[n + 1]
        BY <2>1, FlattenedByBeginnings
    <2>4. FlattenSeq(ss) \in Seq(X)
        BY <1>2, <2>1, <2>2, BeginningsAreSequences
    <2> HIDE DEF f, g, n
    <2>5. differ = {}
        <3> SUFFICES ASSUME differ # {}
                     PROVE  FALSE
            OBVIOUS
        <3>1. PICK i \in differ : \A m \in differ : ~(m < i)
            <4>1. differ \subseteq Nat
                BY <2>1
            <4> HIDE DEF differ
            <4>2. QED
                BY <4>1, LeastExists
        <3>2. i \in 1 .. n /\ f[i] # g[i]
            OBVIOUS
        <3>3. i # 1
            BY <2>1, <2>2, <2>3, <3>2
        <3>4. i \in 2 .. n /\ i \in 2 .. n + 1 /\ i - 1 \in 1 .. n /\ i - 1 < i
            BY <2>1, <3>2, <3>3
        <3>5. f[i - 1] = g[i - 1]
            BY <3>1, <3>4
        <3>6. f[i] = f[i - 1] \o ss[i] /\ g[i] = g[i - 1] \o more[i] /\ more[i] = ss[i]
            BY <2>1, <2>2, <2>3, <3>2, <3>4
        <3> HIDE DEF differ
        <3>7. QED
            BY <3>2, <3>5, <3>6, Zenon
    <2>6. f[n] = g[n]
        BY <2>1, <2>5
    <2>7. n + 1 \in 2 .. n + 1 /\ n + 1 - 1 = n
        BY <2>1
    <2>8. g[n + 1] = g[n] \o x
        <3>1. ASSUME NEW i \in 2 .. n + 1
              PROVE  g[i] = g[i - 1] \o more[i]
            BY <2>3, Zenon
        <3>2. PICK k \in 2 .. n + 1 : k = n + 1
            BY <2>7
        <3>3. g[k] = g[k - 1] \o more[k]
            BY <3>1, <3>2, Zenon
        <3>4. k - 1 = n /\ more[k] = x
            BY <2>1, <2>7, <3>2
        <3>5. QED
            BY <3>2, <3>3, <3>4, Zenon
    <2>9. QED
        BY <2>2, <2>3, <2>4, <2>6, <2>8, Zenon DEF more
<1>3. QED
    BY <1>1, <1>2

\* Every place lies in one of consecutive intervals.
LEMMA PlacesHaveAnInterval ==
    ASSUME NEW n \in Nat, NEW e, e[0] = 0, \A i \in 0 .. n : e[i] \in Int,
           NEW s \in Nat \ {0}, s <= e[n]
    PROVE  \E i \in 1 .. n : e[i - 1] < s /\ s <= e[i]
<1> DEFINE reach == {i \in 1 .. n : s <= e[i]}
<1>1. n \in reach
    OBVIOUS
<1>2. PICK i \in reach : \A m \in reach : ~(m < i)
    <2>1. reach \subseteq Nat /\ reach # {}
        BY <1>1
    <2> HIDE DEF reach
    <2>2. QED
        BY <2>1, LeastExists
<1>3. i \in 1 .. n /\ s <= e[i]
    OBVIOUS
<1>4. e[i - 1] < s
    <2>1. CASE i = 1
        BY <2>1
    <2>2. CASE i # 1
        <3>1. i - 1 \in 1 .. n /\ i - 1 \in 0 .. n /\ i - 1 < i
            BY <1>3, <2>2
        <3>2. ~(s <= e[i - 1])
            BY <1>2, <3>1
        <3>3. e[i - 1] \in Int
            BY <3>1
        <3>4. QED
            BY <3>2, <3>3
    <2>3. QED
        BY <2>1, <2>2
<1>5. QED
    BY <1>3, <1>4

(***************************************************************************)
(* Tables and streams                                                      *)
(***************************************************************************)

\* The tables of a metric are stored tables, the first of them among those it selects.
LEMMA TablesOfMetric ==
    ASSUME NEW m \in StoredMetrics, NEW how
    PROVE  /\ TablesOf[m] \in Seq(StoredTables) /\ TablesOf[m] # <<>>
           /\ Selected(m, how) \subseteq StoredTables
           /\ Head(TablesOf[m]) \in Selected(m, how)
<1>1. TablesOf[m] \in Seq(StoredTables) /\ TablesOf[m] # <<>>
    BY ReaderAssumption
<1>2. Head(TablesOf[m]) = TablesOf[m][1] /\ 1 \in DOMAIN TablesOf[m]
    BY <1>1
<1>3. ToSet(TablesOf[m]) \subseteq StoredTables /\ Head(TablesOf[m]) \in ToSet(TablesOf[m])
    BY <1>2 DEF StoredTables, ToSet
<1>4. QED
    BY <1>1, <1>3 DEF Selected

\* before sums up the repetitions of the rows, through the n-th.
Recurrence(rows, before) ==
    before = [i \in 1 .. (Len(rows) + 1) |->
                IF i = 1 THEN 0 ELSE before[i - 1] + rows[i - 1].repetitions]

HasSums(rows, n) ==
    \E before : before = [i \in 1 .. n |->
                           IF i = 1 THEN 0 ELSE before[i - 1] + rows[i - 1].repetitions]

\* Sums of repetitions can be extended by a further row.
LEMMA SumsGoOn ==
    ASSUME NEW S, NEW rows \in Seq(S), NEW n \in 1 .. Len(rows), HasSums(rows, n)
    PROVE  HasSums(rows, n + 1)
<1>0. PICK before : before = [i \in 1 .. n |->
                       IF i = 1 THEN 0 ELSE before[i - 1] + rows[i - 1].repetitions]
    BY DEF HasSums
<1> DEFINE more == [i \in 1 .. (n + 1) |->
                      IF i = n + 1 THEN before[n] + rows[n].repetitions ELSE before[i]]
<1>1. n \in Nat \ {0} /\ n + 1 - 1 = n
    OBVIOUS
<1>2. ASSUME NEW i \in 1 .. (n + 1)
      PROVE  more[i] = IF i = 1 THEN 0 ELSE more[i - 1] + rows[i - 1].repetitions
    <2>1. CASE i = n + 1
        <3>1. more[i - 1] = before[n] /\ more[i] = before[n] + rows[n].repetitions
            BY <1>1, <2>1
        <3>2. QED
            BY <1>1, <2>1, <3>1
    <2>2. CASE i \in 1 .. n
        <3>1. before[i] = IF i = 1 THEN 0 ELSE before[i - 1] + rows[i - 1].repetitions
            BY <1>0, <2>2
        <3>2. more[i] = before[i] /\ (i # 1 => more[i - 1] = before[i - 1])
            BY <1>1, <2>2
        <3>3. QED
            BY <3>1, <3>2
    <2>3. QED
        BY <2>1, <2>2
<1>3. more = [i \in 1 .. (n + 1) |-> IF i = 1 THEN 0 ELSE more[i - 1] + rows[i - 1].repetitions]
    <2>1. [i \in 1 .. (n + 1) |-> more[i]]
            = [i \in 1 .. (n + 1) |-> IF i = 1 THEN 0 ELSE more[i - 1] + rows[i - 1].repetitions]
        BY <1>2
    <2>2. more = [i \in 1 .. (n + 1) |-> more[i]]
        OBVIOUS
    <2> HIDE DEF more
    <2>3. QED
        BY <2>1, <2>2
<1> HIDE DEF more
<1>4. QED
    BY <1>3 DEF HasSums

\* The sums of a table exist: a table for which they did not would have a shortest beginning
\* without them.
LEMMA SumsExist ==
    ASSUME NEW S, NEW rows \in Seq(S)
    PROVE  Recurrence(rows, SamplesBefore(rows))
<1> DEFINE without == {n \in 1 .. (Len(rows) + 1) : ~HasSums(rows, n)}
<1>0. Len(rows) \in Nat
    OBVIOUS
<1>1. without = {}
    <2> SUFFICES ASSUME without # {}
                 PROVE  FALSE
        OBVIOUS
    <2>1. without \subseteq Nat
        OBVIOUS
    <2>2. PICK n \in without : \A m \in without : ~(m < n)
        <3> HIDE DEF without
        <3>1. QED
            BY <2>1, LeastExists
    <2>3. \A m \in without : ~(m < n)
        BY <2>2
    <2>4. n \in 1 .. (Len(rows) + 1) /\ ~HasSums(rows, n)
        OBVIOUS
    <2>5. n # 1
        <3>1. [i \in 1 .. 1 |-> 0]
                = [i \in 1 .. 1 |-> IF i = 1 THEN 0
                                    ELSE [k \in 1 .. 1 |-> 0][i - 1] + rows[i - 1].repetitions]
            OBVIOUS
        <3>2. HasSums(rows, 1)
            BY <3>1 DEF HasSums
        <3>3. QED
            BY <2>4, <3>2
    <2>6. n - 1 \in 1 .. Len(rows) /\ n - 1 \in 1 .. (Len(rows) + 1) /\ n - 1 + 1 = n /\ n - 1 < n
        BY <1>0, <2>4, <2>5
    <2>7. HasSums(rows, n - 1)
        <3>1. QED
            BY <2>3, <2>4, <2>6
    <2>8. HasSums(rows, n - 1 + 1)
        BY <2>6, <2>7, SumsGoOn
    <2>9. QED
        BY <2>4, <2>6, <2>8
<1>2. HasSums(rows, Len(rows) + 1)
    <2>1. Len(rows) + 1 \in 1 .. (Len(rows) + 1)
        BY <1>0
    <2>2. QED
        BY <1>1, <2>1
<1>3. QED
    BY <1>2 DEF HasSums, SamplesBefore, Recurrence

\* SamplesBefore is what its recurrence says, at each row and at the end.
LEMMA RepetitionsAddUp ==
    ASSUME NEW S, NEW rows \in Seq(S)
    PROVE  /\ SamplesBefore(rows)[1] = 0
           /\ \A i \in 1 .. Len(rows) :
                SamplesBefore(rows)[i + 1] = SamplesBefore(rows)[i] + rows[i].repetitions
<1>0. Len(rows) \in Nat
    OBVIOUS
<1> DEFINE before == SamplesBefore(rows)
<1>1. before = [i \in 1 .. (Len(rows) + 1) |->
                  IF i = 1 THEN 0 ELSE before[i - 1] + rows[i - 1].repetitions]
    BY SumsExist DEF Recurrence
<1> HIDE DEF before
<1>2. \A i \in 1 .. (Len(rows) + 1) :
         before[i] = IF i = 1 THEN 0 ELSE before[i - 1] + rows[i - 1].repetitions
    BY <1>1
<1>3. before[1] = 0
    BY <1>0, <1>2
<1>4. ASSUME NEW i \in 1 .. Len(rows)
      PROVE  before[i + 1] = before[i] + rows[i].repetitions
    <2>1. i + 1 \in 1 .. (Len(rows) + 1) /\ i + 1 # 1 /\ i + 1 - 1 = i
        BY <1>0
    <2>2. QED
        BY <1>2, <2>1
<1>5. QED
    BY <1>3, <1>4 DEF before

\* The offset, the repetitions and the index of a row are numbers.
LEMMA RowsHaveTypes ==
    ASSUME NEW rows \in Tables, NEW i \in 1 .. Len(rows)
    PROVE  /\ rows[i].sample_offset \in Int /\ rows[i].repetitions \in Int
           /\ rows[i].accepted_index \in Int
<1>1. rows[i] \in Rows
    BY DEF Tables
<1>2. QED
    BY <1>1 DEF Rows

\* The rows n + 1 to n + k of a table, as a batch has them.
Part(rows, n, k) == [i \in 1 .. k |-> FrameOf(rows[n + i])]

\* Wherever a batch begins, its frames continue those before it in a stream.
LEMMA StreamsContinue ==
    ASSUME NEW rows \in Tables, IsStream(rows),
           NEW n \in 0 .. Len(rows), NEW k \in Nat, n + k <= Len(rows)
    PROVE  ValidFrames(Part(rows, n, k), EndOf(rows, n), n)
<1> DEFINE frames == Part(rows, n, k)
<1>0. Len(rows) \in Nat /\ DOMAIN rows = 1 .. Len(rows)
    BY DEF Tables
<1>1. \A i \in 1 .. Len(rows) :
        /\ rows[i].accepted_index = i - 1
        /\ rows[i].sample_offset = SamplesBefore(rows)[i]
        /\ rows[i].repetitions > 0
    BY <1>0 DEF IsStream
<1>2. /\ SamplesBefore(rows)[1] = 0
      /\ \A i \in 1 .. Len(rows) :
            SamplesBefore(rows)[i + 1] = rows[i].sample_offset + rows[i].repetitions
    BY <1>1, RepetitionsAddUp DEF Tables
<1>3. ASSUME NEW i \in 1 .. k
      PROVE  /\ n + i \in 1 .. Len(rows)
             /\ frames[i].accepted_index = n + i - 1
             /\ frames[i].sample_offset = SamplesBefore(rows)[n + i]
             /\ frames[i].repetitions = rows[n + i].repetitions
             /\ frames[i].repetitions > 0
    <2>1. n + i \in 1 .. Len(rows)
        BY <1>0
    <2>2. frames[i] = FrameOf(rows[n + i])
        BY DEF Part
    <2>3. QED
        BY <1>1, <2>1, <2>2 DEF FrameOf
<1>4. DOMAIN frames = 1 .. k /\ Len(frames) = k
    BY DEF Part
<1> HIDE DEF frames
<1> SUFFICES ASSUME frames # <<>>
             PROVE  /\ frames[1].sample_offset = EndOf(rows, n) /\ frames[1].accepted_index = n
                    /\ \A i \in DOMAIN frames : frames[i].repetitions > 0
                    /\ \A i \in 2 .. Len(frames) :
                         /\ frames[i].sample_offset
                              = frames[i - 1].sample_offset + frames[i - 1].repetitions
                         /\ frames[i].accepted_index = frames[i - 1].accepted_index + 1
    BY DEF ValidFrames, frames
<1>5. 1 \in 1 .. k
    <2>1. k # 0
        BY DEF frames, Part
    <2>2. QED
        BY <2>1
<1>6. frames[1].sample_offset = EndOf(rows, n)
    <2>1. frames[1].sample_offset = SamplesBefore(rows)[n + 1]
        BY <1>3, <1>5
    <2>2. CASE n = 0
        BY <1>2, <2>1, <2>2 DEF EndOf
    <2>3. CASE n # 0
        <3>1. n \in 1 .. Len(rows)
            BY <1>0, <2>3
        <3>2. SamplesBefore(rows)[n + 1] = rows[n].sample_offset + rows[n].repetitions
            BY <1>2, <3>1
        <3>3. QED
            BY <2>1, <2>3, <3>2 DEF EndOf
    <2>4. QED
        BY <2>2, <2>3
<1>7. frames[1].accepted_index = n
    BY <1>3, <1>5
<1>8. ASSUME NEW i \in 2 .. Len(frames)
      PROVE  /\ frames[i].sample_offset
                  = frames[i - 1].sample_offset + frames[i - 1].repetitions
             /\ frames[i].accepted_index = frames[i - 1].accepted_index + 1
    <2>1. i \in 1 .. k /\ i - 1 \in 1 .. k /\ n + (i - 1) + 1 = n + i
        BY <1>4
    <2>2. n + (i - 1) \in 1 .. Len(rows) /\ n + i \in 1 .. Len(rows)
        BY <1>3, <2>1
    <2>3. SamplesBefore(rows)[n + i]
            = rows[n + (i - 1)].sample_offset + rows[n + (i - 1)].repetitions
        BY <1>2, <2>1, <2>2
    <2>4. rows[n + (i - 1)].sample_offset = SamplesBefore(rows)[n + (i - 1)]
        BY <1>1, <2>2
    <2>5. /\ frames[i].sample_offset = SamplesBefore(rows)[n + i]
          /\ frames[i - 1].sample_offset = SamplesBefore(rows)[n + (i - 1)]
          /\ frames[i - 1].repetitions = rows[n + (i - 1)].repetitions
          /\ frames[i].accepted_index = n + i - 1
          /\ frames[i - 1].accepted_index = n + (i - 1) - 1
        BY <1>3, <2>1
    <2>6. QED
        BY <2>1, <2>3, <2>4, <2>5
<1>9. QED
    BY <1>3, <1>4, <1>6, <1>7, <1>8

\* The offset after a batch is the end of its last row.
LEMMA OffsetsFollow ==
    ASSUME NEW rows \in Tables, NEW n \in 0 .. Len(rows), NEW k \in Nat, n + k <= Len(rows)
    PROVE  OffsetAfter(Part(rows, n, k), EndOf(rows, n)) = EndOf(rows, n + k)
<1> DEFINE frames == Part(rows, n, k)
<1>1. DOMAIN frames = 1 .. k /\ Len(frames) = k
    BY DEF Part
<1>2. CASE k = 0
    <2>1. frames = <<>>
        BY <1>2 DEF Part
    <2>2. QED
        BY <1>2, <2>1 DEF OffsetAfter
<1>3. CASE k # 0
    <2>1. k \in 1 .. k /\ n + k # 0 /\ frames # <<>>
        BY <1>1, <1>3
    <2>2. Last(frames) = FrameOf(rows[n + k])
        BY <1>1, <2>1 DEF Part, Last
    <2> HIDE DEF frames
    <2>3. OffsetAfter(frames, EndOf(rows, n))
            = Last(frames).sample_offset + Last(frames).repetitions
        BY <2>1 DEF OffsetAfter
    <2>4. QED
        BY <2>1, <2>2, <2>3 DEF FrameOf, EndOf, frames
<1>4. QED
    BY <1>2, <1>3

\* The end of a stream is the number of samples the manifest states.
LEMMA StreamsEnd ==
    ASSUME NEW rows \in Tables, IsStream(rows), Len(rows) # 0
    PROVE  EndOf(rows, Len(rows)) = opened.summary.samples
<1>1. Len(rows) \in 1 .. Len(rows) /\ DOMAIN rows = 1 .. Len(rows)
    BY DEF Tables
<1>2. SamplesBefore(rows)[Len(rows) + 1]
        = SamplesBefore(rows)[Len(rows)] + rows[Len(rows)].repetitions
    BY <1>1, RepetitionsAddUp DEF Tables
<1>3. QED
    BY <1>1, <1>2 DEF IsStream, EndOf

\* A manifest has the summary, and a table for each name.
LEMMA ManifestsAreTyped ==
    ASSUME NEW manifest \in Manifests
    PROVE  /\ manifest.summary = Summary
           /\ \A t \in StoredTables : manifest.sums[t] \in Tables
           /\ manifest.sums \in [StoredTables -> Tables]
BY DEF Manifests

\* The manifest states at least one accepted frame, and a number of samples.
LEMMA SummaryIsTyped == Summary.accepted \in Nat \ {0} /\ Summary.samples \in Nat
BY ReaderAssumption

\* The frames of a stream pass the check of a whole table.
LEMMA WholeStreamsAreValid ==
    ASSUME NEW rows \in Tables, IsStream(rows), opened \in Manifests
    PROVE  ValidTable(FramesOf(rows))
<1>1. Len(rows) = opened.summary.accepted /\ Len(rows) \in Nat \ {0} /\ DOMAIN rows = 1 .. Len(rows)
    BY ManifestsAreTyped, SummaryIsTyped DEF IsStream, Tables
<1>2. FramesOf(rows) = Part(rows, 0, Len(rows))
    <2>1. \A i \in 1 .. Len(rows) : 0 + i = i
        BY <1>1
    <2>2. QED
        BY <1>1, <2>1 DEF FramesOf, Part
<1>3. 0 \in 0 .. Len(rows) /\ Len(rows) \in Nat /\ 0 + Len(rows) = Len(rows) /\ 0 + Len(rows) <= Len(rows)
    BY <1>1
<1>4. ValidFrames(FramesOf(rows), 0, 0)
    BY <1>2, <1>3, StreamsContinue DEF EndOf
<1>5. OffsetAfter(FramesOf(rows), 0) = opened.summary.samples
    <2>1. OffsetAfter(Part(rows, 0, Len(rows)), EndOf(rows, 0)) = EndOf(rows, Len(rows))
        BY <1>3, OffsetsFollow
    <2>2. QED
        BY <1>1, <1>2, <2>1, StreamsEnd DEF EndOf
<1>6. Len(FramesOf(rows)) = opened.summary.accepted
    BY <1>1 DEF FramesOf
<1>7. QED
    BY <1>4, <1>5, <1>6 DEF ValidTable, TotalsAgree

(***************************************************************************)
(* Reading everything                                                      *)
(***************************************************************************)

\* All that a reader checks of the tables it reads together.
IsSound(m, how) ==
    /\ \A t \in Selected(m, how) :
          /\ stored.tables[t] = opened.sums[t]
          /\ Len(opened.sums[t]) = Summary.accepted
          /\ FramesOf(opened.sums[t]) = FramesOf(opened.sums[Head(TablesOf[m])])
    /\ ValidTable(FramesOf(opened.sums[Head(TablesOf[m])]))

\* The rows a caller gets, once or as often as they are repeated.
Repeated(rows, m, how) ==
    [i \in DOMAIN rows[Head(TablesOf[m])] |->
       [k \in 1 .. (IF how = "samples" THEN rows[Head(TablesOf[m])][i].repetitions ELSE 1) |->
          Value(rows, m, how, i)]]

\* A read returns the frames it has kept.
ReadsFrames(m, how) ==
    /\ how = "frames" /\ known # NoFrames
    /\ read' = Called(m, how, 0, "returned", <<known>>)
    /\ known' = known

\* A read returns the rows of sound tables, and keeps their frames.
ReadsSound(m, how) ==
    /\ how = "frames" => known = NoFrames
    /\ IsSound(m, how)
    /\ known' = FramesOf(opened.sums[Head(TablesOf[m])])
    /\ SameFrames(known')
    /\ read' = Called(m, how, 0, "returned", <<FlattenSeq(Repeated(SumsRead(m, how), m, how))>>)

\* A read is refused, for a reason.
Refuses(m, how, batch) ==
    /\ read' = Called(m, how, batch, "raised", <<>>)
    /\ known' = known
    /\ MayNotStart(read') \/ IsUnsound(read')

\* A read of everything goes one of these three ways.
LEMMA ReadAllOutcomes ==
    ASSUME TypesHold, NEW m \in StoredMetrics, NEW how \in Hows, NEW large \in BOOLEAN,
           ReadAll(m, how, large)
    PROVE  /\ opened \in Manifests /\ UNCHANGED <<stored, opened>>
           /\ ReadsFrames(m, how) \/ ReadsSound(m, how) \/ Refuses(m, how, 0)
<1> DEFINE head == Head(TablesOf[m])
           rows == [t \in Selected(m, how) |-> stored.tables[t]]
           frames == FramesOf(stored.tables[head])
           cached == how = "frames" /\ known # NoFrames
           sound == /\ \A t \in Selected(m, how) : Verified(t) /\ RowCountAgrees(t)
                    /\ Affordable(m, how, 0, large)
                    /\ PrefixesAgree(rows, m, how)
                    /\ ValidTable(frames)
                    /\ SameFrames(frames)
           Times(i) == [k \in 1..(IF how = "samples" THEN frames[i].repetitions ELSE 1) |->
                          Value(rows, m, how, i)]
<1>1. opened \in Manifests /\ UNCHANGED <<stored, opened>>
    BY DEF TypesHold, ReadAll, CanCall
<1>2. IF cached THEN read' = Called(m, how, 0, "returned", <<known>>) /\ UNCHANGED known
      ELSE IF sound
      THEN /\ known' = frames
           /\ read' = Called(m, how, 0, "returned", <<FlattenSeq([i \in DOMAIN frames |-> Times(i)])>>)
      ELSE read' = Called(m, how, 0, "raised", <<>>) /\ UNCHANGED known
    BY DEF ReadAll, FramesOf
<1>3. /\ Selected(m, how) \subseteq StoredTables /\ head \in Selected(m, how)
      /\ \A t \in StoredTables : opened.sums[t] \in Tables
      /\ opened.summary = Summary
    BY <1>1, TablesOfMetric, ManifestsAreTyped
<1> HIDE DEF cached, sound
<1>4. CASE cached
    BY <1>1, <1>2, <1>4 DEF ReadsFrames, cached
<1>5. CASE ~cached /\ sound
    <2>1. \A t \in Selected(m, how) : stored.tables[t] = opened.sums[t]
                                    /\ Len(opened.sums[t]) = Summary.accepted
        BY <1>3, <1>5 DEF sound, Verified, RowCountAgrees
    <2>2. frames = FramesOf(opened.sums[head]) /\ rows = SumsRead(m, how)
        BY <1>3, <2>1 DEF SumsRead
    <2>3. \A t \in Selected(m, how) : FramesOf(opened.sums[t]) = FramesOf(opened.sums[head])
        <3> SUFFICES ASSUME NEW t \in Selected(m, how)
                     PROVE  FramesOf(opened.sums[t]) = FramesOf(opened.sums[head])
            OBVIOUS
        <3>1. /\ rows[t] = opened.sums[t] /\ rows[head] = opened.sums[head]
              /\ DOMAIN opened.sums[t] = DOMAIN opened.sums[head]
            BY <1>3, <2>1 DEF Tables
        <3>2. \A i \in DOMAIN rows[t] : FrameOf(rows[t][i]) = FrameOf(rows[head][i])
            BY <1>3, <1>5 DEF sound, PrefixesAgree
        <3>3. QED
            BY <3>1, <3>2 DEF FramesOf
    <2>4. IsSound(m, how)
        BY <1>5, <2>1, <2>2, <2>3 DEF IsSound, sound
    <2>5. \A i \in DOMAIN frames :
             Times(i) = [k \in 1 .. (IF how = "samples" THEN opened.sums[head][i].repetitions ELSE 1) |->
                           Value(rows, m, how, i)]
        BY <2>2 DEF FramesOf, FrameOf
    <2>6. [i \in DOMAIN frames |-> Times(i)] = Repeated(SumsRead(m, how), m, how)
        <3>1. DOMAIN frames = DOMAIN opened.sums[head] /\ SumsRead(m, how)[head] = opened.sums[head]
            BY <1>3, <2>2 DEF FramesOf, SumsRead
        <3>2. QED
            BY <2>2, <2>5, <3>1 DEF Repeated
    <2>7. known' = frames /\ SameFrames(frames)
        BY <1>2, <1>5 DEF sound
    <2>8. read' = Called(m, how, 0, "returned", <<FlattenSeq(Repeated(SumsRead(m, how), m, how))>>)
        BY <1>2, <1>5, <2>6
    <2>9. QED
        BY <1>1, <1>5, <2>2, <2>4, <2>7, <2>8 DEF ReadsSound, cached
<1>6. CASE ~cached /\ ~sound
    <2>1. read' = Called(m, how, 0, "raised", <<>>) /\ known' = known
        BY <1>2, <1>6
    <2>2. read'.metric = m /\ read'.how = how /\ read'.batch = 0
        BY <2>1 DEF Called
    <2> SUFFICES ASSUME ~MayNotStart(read'), ~IsUnsound(read')
                 PROVE  FALSE
        BY <1>1, <2>1 DEF Refuses
    <2>3. /\ Affordable(m, how, 0, large)
          /\ \A t \in Selected(m, how) : stored.tables[t] = opened.sums[t]
          /\ \A t \in Selected(m, how) : known \in {NoFrames, FramesOf(opened.sums[t])}
        BY <1>1, <2>2 DEF MayNotStart, Affordable
    <2>4. /\ \A t \in Selected(m, how) : IsStream(opened.sums[t])
          /\ \A t, u \in Selected(m, how) : FramesOf(opened.sums[t]) = FramesOf(opened.sums[u])
        BY <2>2 DEF IsUnsound
    <2>5. \A t \in Selected(m, how) : Verified(t) /\ RowCountAgrees(t)
        BY <2>3, <2>4 DEF Verified, RowCountAgrees, IsStream
    <2>6. PrefixesAgree(rows, m, how)
        BY <2>3, <2>4 DEF PrefixesAgree, FramesOf
    <2>7. frames = FramesOf(opened.sums[head])
        BY <1>3, <2>3
    <2>8. ValidTable(frames)
        BY <1>1, <1>3, <2>4, <2>7, WholeStreamsAreValid
    <2>9. SameFrames(frames)
        BY <1>3, <2>3, <2>7 DEF SameFrames
    <2>10. QED
        BY <1>6, <2>3, <2>5, <2>6, <2>8, <2>9 DEF sound
<1>7. QED
    BY <1>4, <1>5, <1>6

(***************************************************************************)
(* Reading by batches                                                      *)
(***************************************************************************)

\* The frame of a row.
LEMMA FrameValue ==
    ASSUME NEW rows, NEW m, NEW i
    PROVE  Value(rows, m, "frames", i) = FrameOf(rows[Head(TablesOf[m])][i])
BY Zenon DEF Value

\* The values of a row with its frame.
LEMMA RawValue ==
    ASSUME NEW rows, NEW m, NEW i
    PROVE  Value(rows, m, "raw", i)
             = <<FrameOf(rows[Head(TablesOf[m])][i]),
                 [k \in DOMAIN TablesOf[m] |-> rows[TablesOf[m][k]][i].value]>>
<1>1. "raw" # "frames"
    OBVIOUS
<1>2. QED
    BY <1>1, Zenon DEF Value

\* The values of a row without its frame.
LEMMA ScoreValue ==
    ASSUME NEW rows, NEW m, NEW i, NEW how, how # "frames", how # "raw"
    PROVE  Value(rows, m, how, i) = [k \in DOMAIN TablesOf[m] |-> rows[TablesOf[m][k]][i].value]
BY Zenon DEF Value

\* A row's value depends on that row of the selected tables alone.
LEMMA ValuesAreOfRows ==
    ASSUME NEW m \in StoredMetrics, NEW how, NEW rows, NEW next, NEW i, NEW j,
           \A t \in Selected(m, how) : next[t][i] = rows[t][j]
    PROVE  Value(next, m, how, i) = Value(rows, m, how, j)
<1>1. next[Head(TablesOf[m])][i] = rows[Head(TablesOf[m])][j]
    BY TablesOfMetric
<1>2. CASE how = "frames"
    BY <1>1, <1>2, FrameValue
<1>3. CASE how # "frames"
    <2>1. \A k \in DOMAIN TablesOf[m] : TablesOf[m][k] \in Selected(m, how)
        BY <1>3 DEF Selected, ToSet
    <2>2. [k \in DOMAIN TablesOf[m] |-> next[TablesOf[m][k]][i].value]
            = [k \in DOMAIN TablesOf[m] |-> rows[TablesOf[m][k]][j].value]
        BY <2>1
    <2>3. CASE how = "raw"
        BY <1>1, <2>2, <2>3, RawValue
    <2>4. CASE how # "raw"
        BY <1>3, <2>2, <2>4, ScoreValue
    <2>5. QED
        BY <2>3, <2>4
<1>4. QED
    BY <1>2, <1>3

\* The rows of the next part, as they are given or kept to be repeated.
PartGiven(n) == [i \in 1 .. n |-> Value(read.rows, read.metric, read.how, read.accepted + i)]

PartKept(n) ==
    [i \in 1 .. n |-> [value |-> Value(read.rows, read.metric, read.how, read.accepted + i),
                       repetitions |-> HeadTable[read.accepted + i].repetitions]]

\* What a call that goes on keeps.
SameCall ==
    /\ read'.status = "running" /\ BatchFields \subseteq DOMAIN read'
    /\ read'.number = read.number /\ read'.metric = read.metric /\ read'.how = read.how
    /\ read'.batch = read.batch /\ read'.rows = read.rows

\* The next rows of all tables have the same frames, which follow those before them.
PartContinues(n) ==
    /\ \A t \in Selected(read.metric, read.how) : \A i \in 1 .. read.accepted + n :
          FrameOf(opened.sums[t][i]) = FrameOf(HeadTable[i])
    /\ Continues(HeadTable, read.accepted + n)

\* A part is read: it is given at once or kept for samples.
ReadsPart(n) ==
    /\ SameCall
    /\ PartContinues(n)
    /\ read'.accepted = read.accepted + n
    /\ read'.offset = EndOf(HeadTable, read.accepted + n)
    /\ read'.sampleStart = read.sampleStart
    /\ read'.row = 1
    /\ read.how = "samples" =>
          /\ read'.given = read.given /\ read'.part = PartKept(n)
          /\ read'.remaining = HeadTable[read.accepted + 1].repetitions
    /\ read.how # "samples" =>
          read'.given = Append(read.given, PartGiven(n)) /\ read'.part = read.part

\* Frames that pass the check after the first n rows of a stream continue it.
LEMMA PartsContinue ==
    ASSUME NEW rows \in Tables, NEW n \in 0 .. Len(rows), NEW k \in Nat, n + k <= Len(rows),
           Continues(rows, n), ValidFrames(Part(rows, n, k), EndOf(rows, n), n)
    PROVE  Continues(rows, n + k)
<1> DEFINE frames == Part(rows, n, k)
<1>1. DOMAIN frames = 1 .. k /\ Len(frames) = k /\ Len(rows) \in Nat
    BY DEF Part, Tables
<1>2. \A i \in 1 .. k : /\ n + i \in 1 .. Len(rows) /\ n + i - 1 = n + (i - 1)
                        /\ frames[i].accepted_index = rows[n + i].accepted_index
                        /\ frames[i].sample_offset = rows[n + i].sample_offset
                        /\ frames[i].repetitions = rows[n + i].repetitions
    BY <1>1 DEF Part, FrameOf
<1> SUFFICES ASSUME k # 0
             PROVE  Continues(rows, n + k)
    OBVIOUS
<1>3. frames # <<>> /\ 1 \in 1 .. k
    BY <1>1
<1> HIDE DEF frames
<1>4. /\ frames[1].sample_offset = EndOf(rows, n) /\ frames[1].accepted_index = n
      /\ \A i \in 1 .. k : frames[i].repetitions > 0
      /\ \A i \in 2 .. k : /\ frames[i].sample_offset
                                = frames[i - 1].sample_offset + frames[i - 1].repetitions
                           /\ frames[i].accepted_index = frames[i - 1].accepted_index + 1
    BY <1>1, <1>3 DEF ValidFrames, frames
<1> DEFINE gaps == {i \in 1 .. k : rows[n + i].accepted_index # n + i - 1}
<1>5. gaps = {}
    <2> SUFFICES ASSUME gaps # {}
                 PROVE  FALSE
        OBVIOUS
    <2>1. PICK i \in gaps : \A m \in gaps : ~(m < i)
        <3>1. gaps \subseteq Nat
            OBVIOUS
        <3> HIDE DEF gaps
        <3>2. QED
            BY <3>1, LeastExists
    <2>2. i \in 1 .. k /\ rows[n + i].accepted_index # n + i - 1
        OBVIOUS
    <2>3. i # 1
        BY <1>2, <1>3, <1>4, <2>2
    <2>4. i \in 2 .. k /\ i - 1 \in 1 .. k /\ i - 1 < i
        BY <2>2, <2>3
    <2>5. rows[n + (i - 1)].accepted_index = n + (i - 1) - 1
        BY <2>1, <2>4
    <2>6. rows[n + i].accepted_index = rows[n + (i - 1)].accepted_index + 1
        BY <1>2, <1>4, <2>2, <2>4
    <2>7. QED
        BY <2>2, <2>4, <2>5, <2>6
<1>6. ASSUME NEW i \in 1 .. n + k
      PROVE  /\ rows[i].accepted_index = i - 1
             /\ rows[i].sample_offset = EndOf(rows, i - 1)
             /\ rows[i].repetitions > 0
    <2>1. CASE i \in 1 .. n
        BY <2>1 DEF Continues
    <2>2. CASE i \notin 1 .. n
        <3>1. PICK j \in 1 .. k : i = n + j
            <4>1. i - n \in 1 .. k /\ i = n + (i - n)
                BY <2>2
            <4>2. QED
                BY <4>1
        <3>2. rows[i].accepted_index = i - 1 /\ rows[i].repetitions > 0
            <4>1. j \notin gaps
                BY <1>5
            <4>2. rows[n + j].accepted_index = n + j - 1
                BY <4>1
            <4>3. rows[n + j].repetitions > 0
                BY <1>2, <1>4
            <4>4. QED
                BY <3>1, <4>2, <4>3
        <3>3. rows[i].sample_offset = EndOf(rows, i - 1)
            <4>1. CASE j = 1
                BY <1>2, <1>4, <3>1, <4>1
            <4>2. CASE j # 1
                <5>1. j \in 2 .. k /\ j - 1 \in 1 .. k /\ i - 1 = n + (j - 1) /\ i - 1 # 0
                    BY <3>1, <4>2
                <5>2. rows[i].sample_offset = rows[i - 1].sample_offset + rows[i - 1].repetitions
                    <6>1. frames[j].sample_offset
                            = frames[j - 1].sample_offset + frames[j - 1].repetitions
                        BY <1>4, <5>1
                    <6>2. /\ frames[j].sample_offset = rows[n + j].sample_offset
                          /\ frames[j - 1].sample_offset = rows[n + (j - 1)].sample_offset
                          /\ frames[j - 1].repetitions = rows[n + (j - 1)].repetitions
                        BY <1>2, <5>1
                    <6>3. QED
                        BY <3>1, <5>1, <6>1, <6>2
                <5>3. QED
                    BY <5>1, <5>2 DEF EndOf
            <4>3. QED
                BY <4>1, <4>2
        <3>4. QED
            BY <3>2, <3>3
    <2>3. QED
        BY <2>1, <2>2
<1>7. QED
    BY <1>6 DEF Continues

\* What BatchesHold says of a call in its course, with the types of its tables.
LEMMA BatchFacts ==
    ASSUME TypesHold, BatchesHold, read.status = "running"
    PROVE  /\ opened.summary = Summary /\ opened.sums \in [StoredTables -> Tables]
           /\ Head(TablesOf[read.metric]) \in Selected(read.metric, read.how)
           /\ \A t \in Selected(read.metric, read.how) :
                /\ opened.sums[t] \in Tables /\ DOMAIN opened.sums[t] = 1 .. Summary.accepted
                /\ read.rows[t] = opened.sums[t]
           /\ DOMAIN read.rows = Selected(read.metric, read.how)
           /\ HeadTable \in Tables /\ Len(HeadTable) = Summary.accepted
           /\ read.accepted \in Nat /\ read.number \in Nat
<1>1. /\ opened \in Manifests /\ read.metric \in StoredMetrics
      /\ read.rows = SumsRead(read.metric, read.how)
      /\ read.accepted \in 0 .. Summary.accepted
      /\ \A t \in Selected(read.metric, read.how) : Len(opened.sums[t]) = Summary.accepted
    BY DEF BatchesHold
<1>2. /\ opened.summary = Summary /\ opened.sums \in [StoredTables -> Tables]
      /\ \A t \in StoredTables : opened.sums[t] \in Tables
    BY <1>1, ManifestsAreTyped
<1>3. /\ Selected(read.metric, read.how) \subseteq StoredTables
      /\ Head(TablesOf[read.metric]) \in Selected(read.metric, read.how)
    BY <1>1, TablesOfMetric
<1>4. ASSUME NEW t \in Selected(read.metric, read.how)
      PROVE  /\ opened.sums[t] \in Tables /\ DOMAIN opened.sums[t] = 1 .. Summary.accepted
             /\ read.rows[t] = opened.sums[t]
    <2>1. opened.sums[t] \in Tables /\ Len(opened.sums[t]) = Summary.accepted
        BY <1>1, <1>2, <1>3
    <2>2. DOMAIN opened.sums[t] = 1 .. Len(opened.sums[t])
        BY <2>1 DEF Tables
    <2>3. read.rows[t] = opened.sums[t]
        BY <1>1 DEF SumsRead
    <2>4. QED
        BY <2>1, <2>2, <2>3
<1>5. DOMAIN read.rows = Selected(read.metric, read.how)
    BY <1>1 DEF SumsRead
<1>6. read.accepted \in Nat /\ read.number \in Nat
    BY <1>1, SummaryIsTyped DEF TypesHold
<1>7. QED
    BY <1>1, <1>2, <1>3, <1>4, <1>5, <1>6 DEF HeadTable

\* Reading a part goes on with the next rows, or raises, and raises only of unsound tables.
LEMMA NextPartOutcomes ==
    ASSUME TypesHold, BatchesHold, NEW n \in 1 .. Summary.accepted, NextPart(n)
    PROVE  /\ read.status = "running" /\ read.row > Len(read.part) /\ n \in 1 .. read.batch
           /\ read.accepted + n <= Summary.accepted
           /\ UNCHANGED <<stored, opened, known>>
           /\ \/ read' = [read EXCEPT !.status = "raised"] /\ IsUnsound(read')
              \/ ReadsPart(n)
<1> DEFINE m == read.metric
           how == read.how
           a == read.accepted
           next == [t \in DOMAIN read.rows |-> SubSeq(read.rows[t], a + 1, a + n)]
           frames == [i \in 1..n |-> FrameOf(next[Head(TablesOf[m])][i])]
           values == [i \in 1..n |-> Value(next, m, how, i)]
           moved == [read EXCEPT !.offset = OffsetAfter(frames, @), !.accepted = @ + n]
           taken == IF how = "samples"
                    THEN [moved EXCEPT !.part = [i \in 1..n |-> [value |-> values[i],
                                                                 repetitions |-> frames[i].repetitions]],
                                       !.row = 1, !.remaining = frames[1].repetitions]
                    ELSE [moved EXCEPT !.given = Append(@, values), !.row = 1]
<1>1. /\ read.status = "running" /\ read.row > Len(read.part) /\ n \in 1 .. read.batch
      /\ a + n <= opened.summary.accepted
      /\ IF ~(PrefixesAgree(next, m, how) /\ ValidFrames(frames, read.offset, a))
         THEN read' = [read EXCEPT !.status = "raised"]
         ELSE read' = taken
      /\ UNCHANGED <<stored, opened, known>>
    BY DEF NextPart, Raise
<1>2. /\ BatchFields \subseteq DOMAIN read /\ m \in StoredMetrics /\ how \in Hows
      /\ read.offset = EndOf(HeadTable, a) /\ Continues(HeadTable, a)
      /\ \A t \in Selected(m, how) : \A i \in 1 .. a :
            FrameOf(opened.sums[t][i]) = FrameOf(HeadTable[i])
    BY <1>1 DEF BatchesHold
<1>3. /\ opened.summary = Summary
      /\ Head(TablesOf[m]) \in Selected(m, how)
      /\ \A t \in Selected(m, how) :
           /\ opened.sums[t] \in Tables /\ DOMAIN opened.sums[t] = 1 .. Summary.accepted
           /\ read.rows[t] = opened.sums[t]
      /\ DOMAIN read.rows = Selected(m, how)
      /\ HeadTable \in Tables /\ Len(HeadTable) = Summary.accepted
      /\ a \in Nat
    BY <1>1, BatchFacts
<1>4. n \in Nat \ {0} /\ a + n <= Summary.accepted /\ a \in 0 .. Len(HeadTable)
    <2>1. n \in Nat \ {0}
        BY SummaryIsTyped
    <2>2. a + n <= Summary.accepted
        BY <1>1, <1>3
    <2>3. a \in 0 .. Summary.accepted
        BY <1>1 DEF BatchesHold
    <2>4. QED
        BY <1>3, <2>1, <2>2, <2>3
<1>5. ASSUME NEW t \in Selected(m, how), NEW i \in 1 .. n
      PROVE  next[t][i] = opened.sums[t][a + i] /\ DOMAIN next[t] = 1 .. n
    <2>1. next[t] = SubSeq(opened.sums[t], a + 1, a + n)
        BY <1>3
    <2> DEFINE table == opened.sums[t]
    <2>2. table \in Seq(Rows) /\ Len(table) = Summary.accepted
        BY <1>3, SummaryIsTyped DEF Tables
    <2> HIDE DEF table
    <2>3. SubSeq(table, a + 1, a + n)[i] = table[a + i]
          /\ DOMAIN SubSeq(table, a + 1, a + n) = 1 .. n
        <3>1. a \in Nat /\ n \in Nat \ {0} /\ a + n <= Len(table) /\ Len(table) \in Nat
            BY <1>3, <1>4, <2>2
        <3> HIDE DEF a
        <3>4. /\ a + 1 \in Int /\ a + n \in Int /\ a + 1 <= a + n
              /\ (a + n) - (a + 1) + 1 = n /\ (a + 1) + i - 1 = a + i
              /\ \A k \in (a + 1) .. (a + n) : k \in 1 .. Len(table)
            BY <3>1
        <3>5. \A k \in (a + 1) .. (a + n) : table[k] \in Rows
            BY <2>2, <3>4
        <3>2. /\ SubSeq(table, a + 1, a + n) \in Seq(Rows)
              /\ Len(SubSeq(table, a + 1, a + n)) = (a + n) - (a + 1) + 1
              /\ \A k \in 1 .. ((a + n) - (a + 1) + 1) :
                    SubSeq(table, a + 1, a + n)[k] = table[(a + 1) + k - 1]
            BY <3>4, <3>5, SubSeqProperties
        <3>3. QED
            BY <3>2, <3>4
    <2>4. QED
        BY <2>1, <2>3 DEF table
<1>6. frames = Part(HeadTable, a, n)
    BY <1>3, <1>5 DEF Part, HeadTable
<1>7. values = PartGiven(n)
    <2>1. ASSUME NEW i \in 1 .. n
          PROVE  Value(next, m, how, i) = Value(read.rows, m, how, a + i)
        <3>1. \A t \in Selected(m, how) : next[t][i] = read.rows[t][a + i]
            BY <1>3, <1>5
        <3> HIDE DEF next, a, m, how
        <3>2. m \in StoredMetrics
            BY <1>2
        <3>3. QED
            BY <3>1, <3>2, ValuesAreOfRows
    <2>2. QED
        BY <2>1 DEF PartGiven
<1>8. CASE PrefixesAgree(next, m, how) /\ ValidFrames(frames, read.offset, a)
    <2>1. read' = taken
        BY <1>1, <1>8
    <2>2. OffsetAfter(frames, read.offset) = EndOf(HeadTable, a + n)
        BY <1>2, <1>3, <1>4, <1>6, OffsetsFollow
    <2>3. Continues(HeadTable, a + n)
        BY <1>2, <1>3, <1>4, <1>6, <1>8, PartsContinue
    <2>4. ASSUME NEW t \in Selected(m, how), NEW i \in 1 .. a + n
          PROVE  FrameOf(opened.sums[t][i]) = FrameOf(HeadTable[i])
        <3>1. CASE i \in 1 .. a
            BY <1>2, <3>1
        <3>2. CASE i \notin 1 .. a
            <4>1. PICK j \in 1 .. n : i = a + j
                <5>1. i - a \in 1 .. n /\ i = a + (i - a)
                    BY <1>3, <1>4, <3>2
                <5>2. QED
                    BY <5>1
            <4>2. FrameOf(next[t][j]) = FrameOf(next[Head(TablesOf[m])][j])
                BY <1>3, <1>5, <1>8 DEF PrefixesAgree
            <4>3. next[t][j] = opened.sums[t][i] /\ next[Head(TablesOf[m])][j] = HeadTable[i]
                BY <1>3, <1>5, <4>1 DEF HeadTable
            <4>4. QED
                BY <4>2, <4>3
        <3>3. QED
            BY <3>1, <3>2
    <2>5. PartContinues(n)
        BY <2>3, <2>4 DEF PartContinues
    <2>10. ASSUME NEW i \in 1 .. n
           PROVE  /\ frames[i].repetitions = HeadTable[a + i].repetitions
                  /\ values[i] = Value(read.rows, m, how, a + i)
        <3> HIDE DEF frames, values
        <3>1. frames[i] = FrameOf(HeadTable[a + i])
            BY <1>6 DEF Part
        <3>2. values[i] = Value(read.rows, m, how, a + i)
            BY <1>7 DEF PartGiven
        <3>3. QED
            BY <3>1, <3>2 DEF FrameOf
    <2>6. [i \in 1..n |-> [value |-> values[i], repetitions |-> frames[i].repetitions]] = PartKept(n)
        <3> HIDE DEF frames, values
        <3>1. QED
            BY <2>10 DEF PartKept
    <2>7. frames[1].repetitions = HeadTable[a + 1].repetitions
        <3>1. 1 \in 1 .. n
            BY <1>4
        <3>2. QED
            BY <2>10, <3>1
    <2> HIDE DEF values, frames, next, a, how, m
    <2>8. ReadsPart(n)
        <3>1. moved = [read EXCEPT !.offset = EndOf(HeadTable, a + n), !.accepted = a + n]
            BY <2>2 DEF a
        <3> HIDE DEF moved
        <3>2. CASE how = "samples"
            <4>1. read' = [moved EXCEPT !.part = PartKept(n), !.row = 1,
                                        !.remaining = HeadTable[a + 1].repetitions]
                BY <2>1, <2>6, <2>7, <3>2
            <4>2. QED
                BY <1>1, <1>2, <2>5, <3>1, <3>2, <4>1 DEF ReadsPart, SameCall, BatchFields, a, how
        <3>3. CASE how # "samples"
            <4>1. read' = [moved EXCEPT !.given = Append(read.given, PartGiven(n)), !.row = 1]
                <5>1. moved.given = read.given
                    BY <1>2, <3>1 DEF BatchFields
                <5>2. read' = [moved EXCEPT !.given = Append(@, values), !.row = 1]
                    BY <2>1, <3>3
                <5>3. QED
                    BY <1>7, <5>1, <5>2
            <4>2. QED
                BY <1>1, <1>2, <2>5, <3>1, <3>3, <4>1 DEF ReadsPart, SameCall, BatchFields, a, how
        <3>4. QED
            BY <3>2, <3>3
    <2>9. QED
        BY <1>1, <1>4, <2>8 DEF a
<1>9. CASE ~(PrefixesAgree(next, m, how) /\ ValidFrames(frames, read.offset, a))
    <2>1. read' = [read EXCEPT !.status = "raised"]
        BY <1>1, <1>9
    <2>2. read'.metric = m /\ read'.how = how
        BY <1>2, <2>1 DEF BatchFields
    <2> SUFFICES ASSUME ~IsUnsound(read')
                 PROVE  FALSE
        BY <1>1, <1>4, <2>1
    <2>3. /\ \A t \in Selected(m, how) : IsStream(opened.sums[t])
          /\ \A t, u \in Selected(m, how) : FramesOf(opened.sums[t]) = FramesOf(opened.sums[u])
        BY <2>2 DEF IsUnsound
    <2>4. PrefixesAgree(next, m, how)
        <3> SUFFICES ASSUME NEW t \in Selected(m, how), NEW u \in Selected(m, how),
                            NEW i \in DOMAIN next[t]
                     PROVE  FrameOf(next[t][i]) = FrameOf(next[u][i])
            BY DEF PrefixesAgree
        <3>1. 1 \in 1 .. n
            BY <1>4
        <3>2. i \in 1 .. n
            BY <1>5, <3>1
        <3>3. next[t][i] = opened.sums[t][a + i] /\ next[u][i] = opened.sums[u][a + i]
            BY <1>5, <3>2
        <3>4. a + i \in DOMAIN opened.sums[t] /\ a + i \in DOMAIN opened.sums[u]
            BY <1>3, <1>4, <3>2
        <3>5. FramesOf(opened.sums[t])[a + i] = FramesOf(opened.sums[u])[a + i]
            BY <2>3
        <3>6. QED
            BY <3>3, <3>4, <3>5 DEF FramesOf
    <2>5. ValidFrames(frames, read.offset, a)
        <3>1. IsStream(HeadTable)
            BY <1>3, <2>3 DEF HeadTable
        <3>2. QED
            BY <1>2, <1>3, <1>4, <1>6, <3>1, StreamsContinue
    <2>6. QED
        BY <1>9, <2>4, <2>5
<1>10. QED
    BY <1>8, <1>9

\* A call by batches begins with nothing read.
StartsBatches(m, how, batch) ==
    /\ \A t \in Selected(m, how) : Len(opened.sums[t]) = Summary.accepted
    /\ read' = [status |-> "running", number |-> read.number + 1, metric |-> m, how |-> how,
                batch |-> batch, given |-> <<>>, rows |-> SumsRead(m, how),
                part |-> <<>>, offset |-> 0, accepted |-> 0, sampleStart |-> 0,
                row |-> 1, remaining |-> 0]
    /\ known' = known

\* A call by batches begins, with tables that are what the manifest names, or is refused for a
\* reason.
LEMMA StartBatchesOutcomes ==
    ASSUME TypesHold, NEW m \in StoredMetrics, NEW how \in Hows, NEW batch \in BatchSizes,
           NEW large \in BOOLEAN, StartBatches(m, how, batch, large)
    PROVE  /\ opened \in Manifests /\ UNCHANGED <<stored, opened, known>>
           /\ StartsBatches(m, how, batch) \/ Refuses(m, how, batch)
<1> DEFINE sound == /\ \A t \in Selected(m, how) : Verified(t) /\ RowCountAgrees(t)
                    /\ Affordable(m, how, batch, large)
           held == [t \in Selected(m, how) |-> stored.tables[t]]
<1>1. opened \in Manifests /\ UNCHANGED <<stored, opened, known>>
    BY DEF TypesHold, StartBatches, CanCall
<1>2. read' = IF sound
              THEN [status |-> "running", number |-> read.number + 1, metric |-> m, how |-> how,
                    batch |-> batch, given |-> <<>>, rows |-> held,
                    part |-> <<>>, offset |-> 0, accepted |-> 0, sampleStart |-> 0,
                    row |-> 1, remaining |-> 0]
              ELSE Called(m, how, batch, "raised", <<>>)
    BY DEF StartBatches
<1>3. opened.summary = Summary
    BY <1>1, ManifestsAreTyped
<1> HIDE DEF sound, held
<1>4. CASE sound
    <2>1. \A t \in Selected(m, how) :
             stored.tables[t] = opened.sums[t] /\ Len(opened.sums[t]) = Summary.accepted
        BY <1>3, <1>4 DEF sound, Verified, RowCountAgrees
    <2>2. held = SumsRead(m, how)
        BY <2>1 DEF held, SumsRead
    <2>3. QED
        BY <1>1, <1>2, <1>4, <2>1, <2>2 DEF StartsBatches
<1>5. CASE ~sound
    <2>1. read' = Called(m, how, batch, "raised", <<>>)
        BY <1>2, <1>5
    <2>2. read'.metric = m /\ read'.how = how /\ read'.batch = batch
        BY <2>1 DEF Called
    <2> SUFFICES ASSUME ~MayNotStart(read'), ~IsUnsound(read')
                 PROVE  FALSE
        BY <1>1, <2>1 DEF Refuses
    <2>3. /\ Affordable(m, how, batch, large)
          /\ \A t \in Selected(m, how) : stored.tables[t] = opened.sums[t]
        BY <2>2 DEF MayNotStart, Affordable
    <2>4. \A t \in Selected(m, how) : IsStream(opened.sums[t])
        BY <2>2 DEF IsUnsound
    <2>5. \A t \in Selected(m, how) : Verified(t) /\ RowCountAgrees(t)
        BY <2>3, <2>4 DEF Verified, RowCountAgrees, IsStream
    <2>6. QED
        BY <1>5, <2>3, <2>5 DEF sound
<1>6. QED
    BY <1>4, <1>5

\* A call by batches ends if the samples are as many as the manifest states, and raises otherwise,
\* of a table that is not a stream.
LEMMA EndBatchesOutcomes ==
    ASSUME TypesHold, BatchesHold, EndBatches
    PROVE  /\ read.status = "running" /\ read.row > Len(read.part)
           /\ read.accepted = Summary.accepted /\ UNCHANGED <<stored, opened, known>>
           /\ \/ /\ read' = [read EXCEPT !.status = "returned"]
                 /\ read.offset = Summary.samples
              \/ read' = [read EXCEPT !.status = "raised"] /\ IsUnsound(read')
<1>1. /\ read.status = "running" /\ read.row > Len(read.part)
      /\ read.accepted = opened.summary.accepted /\ UNCHANGED <<stored, opened, known>>
      /\ IF TotalsAgree(read.offset, read.accepted)
         THEN read' = [read EXCEPT !.status = "returned"]
         ELSE read' = [read EXCEPT !.status = "raised"]
    BY DEF EndBatches, Raise
<1>2. opened.summary = Summary
    BY <1>1, BatchFacts
<1>3. CASE TotalsAgree(read.offset, read.accepted)
    BY <1>1, <1>2, <1>3 DEF TotalsAgree
<1>4. CASE ~TotalsAgree(read.offset, read.accepted)
    <2>1. read' = [read EXCEPT !.status = "raised"]
        BY <1>1, <1>4
    <2>2. read'.metric = read.metric /\ read'.how = read.how
        BY <1>1, <2>1 DEF BatchesHold, BatchFields
    <2> SUFFICES ASSUME ~IsUnsound(read')
                 PROVE  FALSE
        BY <1>1, <1>2, <2>1
    <2>3. /\ Head(TablesOf[read.metric]) \in Selected(read.metric, read.how)
          /\ HeadTable \in Tables /\ Len(HeadTable) = Summary.accepted
        BY <1>1, BatchFacts
    <2>4. IsStream(HeadTable)
        BY <2>2, <2>3 DEF IsUnsound, HeadTable
    <2>5. EndOf(HeadTable, Len(HeadTable)) = Summary.samples
        BY <1>2, <2>3, <2>4, SummaryIsTyped, StreamsEnd
    <2>6. read.offset = Summary.samples
        BY <1>1, <1>2, <2>3, <2>5 DEF BatchesHold
    <2>7. QED
        BY <1>1, <1>2, <1>4, <2>6 DEF TotalsAgree
<1>5. QED
    BY <1>3, <1>4

\* The rows a filled batch has.
NextRows(f) == [k \in DOMAIN f.rows |-> read.part[f.rows[k]].value]

\* Filling a batch changes what is given, the row and what remains of it, and nothing else.
LEMMA NextSamplesOutcome ==
    ASSUME BatchesHold, NextSamples
    PROVE  LET room == Room(read.batch, read.offset, read.sampleStart)
               f == Filled(read.part, read.row, read.remaining, room)
           IN /\ read.status = "running" /\ read.row <= Len(read.part)
              /\ UNCHANGED <<stored, opened, known>>
              /\ SameCall
              /\ read'.accepted = read.accepted /\ read'.offset = read.offset
              /\ read'.part = read.part
              /\ read'.given = Append(read.given, NextRows(f))
              /\ read'.sampleStart = read.sampleStart + room
              /\ read'.row = f.row /\ read'.remaining = f.remaining
<1> DEFINE room == Room(read.batch, read.offset, read.sampleStart)
           f == Filled(read.part, read.row, read.remaining, room)
<1>1. /\ read.status = "running" /\ read.row <= Len(read.part)
      /\ UNCHANGED <<stored, opened, known>>
      /\ read' = [read EXCEPT !.given = Append(@, NextRows(f)), !.sampleStart = @ + room,
                              !.row = f.row, !.remaining = f.remaining]
    BY DEF NextSamples, NextRows
<1>2. BatchFields \subseteq DOMAIN read
    BY <1>1 DEF BatchesHold
<1> HIDE DEF room, f
<1>3. /\ SameCall
      /\ read'.accepted = read.accepted /\ read'.offset = read.offset
      /\ read'.part = read.part
      /\ read'.given = Append(read.given, NextRows(f))
      /\ read'.sampleStart = read.sampleStart + room
      /\ read'.row = f.row /\ read'.remaining = f.remaining
    BY <1>1, <1>2 DEF SameCall, BatchFields
<1>4. QED
    BY <1>1, <1>3 DEF room, f

\* Every step keeps the types.
LEMMA ReaderTypes ==
    ASSUME TypesHold, BatchesHold, [Next]_vars
    PROVE  TypesHold'
<1>0. stored.manifest \in Manifests
    BY DEF TypesHold
<1>1. CASE OpenResult
    BY <1>0, <1>1 DEF OpenResult, TypesHold, NoRead
<1>2. ASSUME NEW m \in StoredMetrics, NEW how \in Hows, NEW large \in BOOLEAN,
             ReadAll(m, how, large)
      PROVE  TypesHold'
    <2>1. UNCHANGED <<stored, opened>> /\ read'.number = read.number + 1
        BY <1>2, ReadAllOutcomes DEF ReadsFrames, ReadsSound, Refuses, Called
    <2>2. QED
        BY <2>1 DEF TypesHold
<1>3. ASSUME NEW m \in StoredMetrics, NEW how \in Hows, NEW large \in BOOLEAN,
             NEW batch \in BatchSizes, StartBatches(m, how, batch, large)
      PROVE  TypesHold'
    <2>1. UNCHANGED <<stored, opened>> /\ read'.number = read.number + 1
        BY <1>3, StartBatchesOutcomes DEF StartsBatches, Refuses, Called
    <2>2. QED
        BY <2>1 DEF TypesHold
<1>4. ASSUME NEW n \in 1 .. Summary.accepted, NextPart(n)
      PROVE  TypesHold'
    <2>1. UNCHANGED <<stored, opened>> /\ read'.number = read.number
        BY <1>4, NextPartOutcomes DEF ReadsPart, SameCall, BatchesHold, BatchFields
    <2>2. QED
        BY <2>1 DEF TypesHold
<1>5. CASE NextSamples
    <2>1. UNCHANGED <<stored, opened>> /\ read'.number = read.number
        BY <1>5, NextSamplesOutcome DEF SameCall
    <2>2. QED
        BY <2>1 DEF TypesHold
<1>6. CASE EndBatches
    <2>1. UNCHANGED <<stored, opened>> /\ read'.number = read.number
        BY <1>6, EndBatchesOutcomes DEF BatchesHold, BatchFields
    <2>2. QED
        BY <2>1 DEF TypesHold
<1>7. ASSUME NEW tables, NEW rows \in OtherRows, NEW recorded \in BOOLEAN,
             OtherWrites(tables, rows, recorded)
      PROVE  TypesHold'
    <2> DEFINE After(held) == [t \in StoredTables |-> IF t \in tables THEN rows ELSE held[t]]
               sums == After(stored.manifest.sums)
               held == After(stored.tables)
    <2>1. rows \in Tables
        BY ReaderAssumption DEF Tables
    <2>2. sums \in [StoredTables -> Tables] /\ held \in [StoredTables -> Tables]
        BY <1>0, <2>1 DEF TypesHold, Manifests
    <2>3. /\ stored' = [manifest |-> IF recorded THEN [stored.manifest EXCEPT !.sums = After(@)]
                                     ELSE stored.manifest,
                        tables |-> held, writes |-> stored.writes + 1]
          /\ UNCHANGED <<opened, read>>
        BY <1>7 DEF OtherWrites
    <2> HIDE DEF held
    <2>4. [stored.manifest EXCEPT !.sums = After(@)] = [stored.manifest EXCEPT !.sums = sums]
        BY <1>0 DEF Manifests
    <2> HIDE DEF sums
    <2>5. [stored.manifest EXCEPT !.sums = sums] \in Manifests
        BY <1>0, <2>2 DEF Manifests
    <2>6. stored'.manifest \in Manifests
        BY <1>0, <2>3, <2>4, <2>5
    <2>7. QED
        <3>1. stored.writes + 1 \in Nat
            BY DEF TypesHold
        <3>2. stored' \in [manifest : Manifests, tables : [StoredTables -> Tables], writes : Nat]
            BY <2>2, <2>3, <2>6, <3>1
        <3>3. QED
            BY <2>3, <3>2 DEF TypesHold
<1>8. CASE UNCHANGED vars
    BY <1>8 DEF vars, TypesHold
<1>9. QED
    BY <1>1, <1>2, <1>3, <1>4, <1>5, <1>6, <1>7, <1>8 DEF Next, Hows

\* A call that goes on, of what it had read or of more, holds what it should.
LEMMA SameCallHolds ==
    ASSUME BatchesHold, read.status = "running", SameCall, opened' = opened,
           NEW n \in Nat, read'.accepted = n, n <= Summary.accepted,
           read'.offset = EndOf(HeadTable, n), Continues(HeadTable, n),
           \A t \in Selected(read.metric, read.how) : \A i \in 1 .. n :
             FrameOf(opened.sums[t][i]) = FrameOf(HeadTable[i])
    PROVE  BatchesHold'
<1>1. HeadTable' = HeadTable
    BY DEF HeadTable, SameCall
<1>2. SumsRead(read.metric, read.how)' = SumsRead(read.metric, read.how)
    BY DEF SumsRead, SameCall
<1>3. /\ opened \in Manifests
      /\ read.metric \in StoredMetrics /\ read.how \in Hows /\ read.batch \in Nat \ {0}
      /\ read.rows = SumsRead(read.metric, read.how)
      /\ \A t \in Selected(read.metric, read.how) : Len(opened.sums[t]) = Summary.accepted
    BY DEF BatchesHold
<1>4. n \in 0 .. Summary.accepted
    BY SummaryIsTyped
<1>5. /\ opened' \in Manifests /\ BatchFields \subseteq DOMAIN read'
      /\ read'.metric \in StoredMetrics /\ read'.how \in Hows /\ read'.batch \in Nat \ {0}
      /\ read'.rows = SumsRead(read.metric, read.how)'
      /\ read'.accepted \in 0 .. Summary.accepted
    BY <1>2, <1>3, <1>4 DEF SameCall
<1>6. /\ \A t \in Selected(read'.metric, read'.how) :
           /\ Len(opened'.sums[t]) = Summary.accepted
           /\ \A i \in 1 .. read'.accepted : FrameOf(opened'.sums[t][i]) = FrameOf(HeadTable'[i])
      /\ read'.offset = EndOf(HeadTable', read'.accepted)
      /\ Continues(HeadTable', read'.accepted)
    BY <1>1, <1>3 DEF SameCall
<1>7. QED
    BY <1>5, <1>6 DEF BatchesHold

\* Every step keeps what a call by batches holds.
LEMMA BatchesAreKept ==
    ASSUME TypesHold, BatchesHold, [Next]_vars
    PROVE  BatchesHold'
<1>1. CASE OpenResult
    BY <1>1 DEF OpenResult, NoRead, BatchesHold
<1>2. ASSUME NEW m \in StoredMetrics, NEW how \in Hows, NEW large \in BOOLEAN,
             ReadAll(m, how, large)
      PROVE  BatchesHold'
    <2>1. read'.status # "running"
        BY <1>2, ReadAllOutcomes DEF ReadsFrames, ReadsSound, Refuses, Called
    <2>2. QED
        BY <2>1 DEF BatchesHold
<1>3. ASSUME NEW m \in StoredMetrics, NEW how \in Hows, NEW large \in BOOLEAN,
             NEW batch \in BatchSizes, StartBatches(m, how, batch, large)
      PROVE  BatchesHold'
    <2>1. opened \in Manifests /\ opened' = opened
        BY <1>3, StartBatchesOutcomes
    <2>2. CASE Refuses(m, how, batch)
        BY <2>2 DEF Refuses, Called, BatchesHold
    <2>3. CASE StartsBatches(m, how, batch)
        <3>1. /\ read'.metric = m /\ read'.how = how /\ read'.batch = batch /\ read'.accepted = 0
              /\ read'.offset = 0 /\ read'.rows = SumsRead(m, how)
              /\ BatchFields \subseteq DOMAIN read'
              /\ \A t \in Selected(m, how) : Len(opened.sums[t]) = Summary.accepted
            BY <2>3 DEF StartsBatches, BatchFields
        <3>2. read'.rows = SumsRead(read.metric, read.how)'
            BY <2>1, <3>1 DEF SumsRead
        <3>3. batch \in Nat \ {0} /\ 0 \in 0 .. Summary.accepted
            BY ReaderAssumption
        <3>4. /\ \A t \in Selected(read'.metric, read'.how) :
                   /\ Len(opened'.sums[t]) = Summary.accepted
                   /\ \A i \in 1 .. read'.accepted : FrameOf(opened'.sums[t][i]) = FrameOf(HeadTable'[i])
              /\ read'.offset = EndOf(HeadTable', read'.accepted)
              /\ Continues(HeadTable', read'.accepted)
            BY <2>1, <3>1 DEF EndOf, Continues
        <3>5. QED
            BY <2>1, <3>1, <3>2, <3>3, <3>4 DEF BatchesHold
    <2>4. QED
        BY <1>3, <2>2, <2>3, StartBatchesOutcomes
<1>4. ASSUME NEW n \in 1 .. Summary.accepted, NextPart(n)
      PROVE  BatchesHold'
    <2>1. /\ read.status = "running" /\ opened' = opened /\ read.accepted + n <= Summary.accepted
          /\ read.accepted \in Nat
        BY <1>4, NextPartOutcomes, BatchFacts
    <2>2. CASE read' = [read EXCEPT !.status = "raised"]
        <3>1. read'.status # "running"
            BY <2>1, <2>2 DEF BatchesHold, BatchFields
        <3>2. QED
            BY <3>1 DEF BatchesHold
    <2>3. CASE ReadsPart(n)
        <3>1. /\ SameCall /\ PartContinues(n) /\ read'.accepted = read.accepted + n
              /\ read'.offset = EndOf(HeadTable, read.accepted + n)
            BY <2>3 DEF ReadsPart
        <3>2. read.accepted + n \in Nat
            BY <2>1
        <3>3. QED
            BY <2>1, <3>1, <3>2, SameCallHolds DEF PartContinues
    <2>4. QED
        BY <1>4, <2>2, <2>3, NextPartOutcomes
<1>5. CASE NextSamples
    <2>1. /\ read.status = "running" /\ opened' = opened /\ SameCall
          /\ read'.accepted = read.accepted /\ read'.offset = read.offset
        BY <1>5, NextSamplesOutcome
    <2>2. /\ read.accepted \in Nat /\ read.accepted <= Summary.accepted
          /\ read.offset = EndOf(HeadTable, read.accepted) /\ Continues(HeadTable, read.accepted)
          /\ \A t \in Selected(read.metric, read.how) : \A i \in 1 .. read.accepted :
               FrameOf(opened.sums[t][i]) = FrameOf(HeadTable[i])
        BY <2>1, SummaryIsTyped DEF BatchesHold
    <2>3. QED
        BY <2>1, <2>2, SameCallHolds
<1>6. CASE EndBatches
    <2>1. read.status = "running" /\ "status" \in DOMAIN read
        BY <1>6, EndBatchesOutcomes DEF BatchesHold, BatchFields
    <2>2. read'.status # "running"
        BY <1>6, <2>1, EndBatchesOutcomes
    <2>3. QED
        BY <2>2 DEF BatchesHold
<1>7. ASSUME opened' = opened, read' = read
      PROVE  BatchesHold'
    BY <1>7 DEF BatchesHold, SumsRead, HeadTable
<1>8. CASE UNCHANGED vars
    BY <1>7, <1>8 DEF vars
<1>9. ASSUME NEW tables, NEW rows, NEW recorded, OtherWrites(tables, rows, recorded)
      PROVE  BatchesHold'
    BY <1>7, <1>9 DEF OtherWrites
<1>10. QED
    BY <1>1, <1>2, <1>3, <1>4, <1>5, <1>6, <1>8, <1>9 DEF Next, Hows

\* The initial states satisfy the invariant.
LEMMA ReaderInit ==
    ASSUME Init
    PROVE  TypesHold /\ BatchesHold
<1>1. StoredRows \in Tables
    BY ReaderAssumption DEF Tables
<1>2. [t \in StoredTables |-> StoredRows] \in [StoredTables -> Tables]
    BY <1>1
<1>3. stored \in [manifest : Manifests, tables : [StoredTables -> Tables], writes : Nat]
    BY <1>2 DEF Init, Manifests
<1>4. opened = NoManifest /\ read.number = 0 /\ read.status # "running"
    BY DEF Init, NoRead
<1>5. QED
    BY <1>3, <1>4 DEF TypesHold, BatchesHold

\* A call by batches only ever holds frames that follow each other without a gap and that all its
\* tables share, at the offset its last row states, whatever other programs write meanwhile.
THEOREM BatchesAreOfTheirTables == Spec => [](TypesHold /\ BatchesHold)
<1>1. Init => TypesHold /\ BatchesHold
    BY ReaderInit
<1>2. TypesHold /\ BatchesHold /\ [Next]_vars => (TypesHold /\ BatchesHold)'
    BY ReaderTypes, BatchesAreKept
<1>3. QED
    BY <1>1, <1>2, PTL DEF Spec

\* OneSetOfFrames and RefusalsAreJustified, of one step.
OneSetKept ==
    /\ known # NoFrames /\ read' # NoRead => known' = known
    /\ read' # read /\ read'.status = "returned" /\ read'.batch = 0 /\ read'.how # "frames" =>
         known' = FramesOf(opened.sums[Head(TablesOf[read'.metric])])

RefusalJustified ==
    read' # read /\ read'.status = "raised" =>
      (read'.number # read.number /\ MayNotStart(read')) \/ IsUnsound(read')

\* Every step satisfies both.
LEMMA StepsKeepOneSet ==
    ASSUME TypesHold, BatchesHold, [Next]_vars
    PROVE  OneSetKept /\ RefusalJustified
<1>1. CASE OpenResult
    BY <1>1 DEF OpenResult, NoRead, OneSetKept, RefusalJustified
<1>2. ASSUME NEW m \in StoredMetrics, NEW how \in Hows, NEW large \in BOOLEAN,
             ReadAll(m, how, large)
      PROVE  OneSetKept /\ RefusalJustified
    <2>1. CASE ReadsFrames(m, how)
        BY <2>1 DEF ReadsFrames, Called, OneSetKept, RefusalJustified
    <2>2. CASE ReadsSound(m, how)
        <3>1. /\ read'.status = "returned" /\ read'.metric = m
              /\ known' = FramesOf(opened.sums[Head(TablesOf[m])])
              /\ known \in {NoFrames, known'}
            BY <2>2 DEF ReadsSound, SameFrames, Called
        <3>2. QED
            BY <3>1 DEF OneSetKept, RefusalJustified
    <2>3. CASE Refuses(m, how, 0)
        <3>1. read'.status = "raised" /\ read'.number = read.number + 1
              /\ (MayNotStart(read') \/ IsUnsound(read')) /\ known' = known
            BY <2>3 DEF Refuses, Called
        <3>2. read.number + 1 # read.number
            BY DEF TypesHold
        <3>3. QED
            BY <3>1, <3>2 DEF OneSetKept, RefusalJustified
    <2>4. QED
        BY <1>2, <2>1, <2>2, <2>3, ReadAllOutcomes
<1>3. ASSUME NEW m \in StoredMetrics, NEW how \in Hows, NEW large \in BOOLEAN,
             NEW batch \in BatchSizes, StartBatches(m, how, batch, large)
      PROVE  OneSetKept /\ RefusalJustified
    <2>1. CASE StartsBatches(m, how, batch)
        <3>1. read'.status = "running" /\ known' = known
            BY <2>1 DEF StartsBatches
        <3>2. QED
            BY <3>1 DEF OneSetKept, RefusalJustified
    <2>2. CASE Refuses(m, how, batch)
        <3>1. read'.status = "raised" /\ read'.number = read.number + 1
              /\ (MayNotStart(read') \/ IsUnsound(read')) /\ known' = known
            BY <2>2 DEF Refuses, Called
        <3>2. read.number + 1 # read.number
            BY DEF TypesHold
        <3>3. QED
            BY <3>1, <3>2 DEF OneSetKept, RefusalJustified
    <2>3. QED
        BY <1>3, <2>1, <2>2, StartBatchesOutcomes
<1>4. ASSUME NEW n \in 1 .. Summary.accepted, NextPart(n)
      PROVE  OneSetKept /\ RefusalJustified
    <2>1. known' = known /\ read.status = "running"
        BY <1>4, NextPartOutcomes
    <2>2. CASE read' = [read EXCEPT !.status = "raised"] /\ IsUnsound(read')
        <3>1. read'.status = "raised"
            BY <2>1, <2>2 DEF BatchesHold, BatchFields
        <3>2. QED
            BY <2>1, <2>2, <3>1 DEF OneSetKept, RefusalJustified
    <2>3. CASE ReadsPart(n)
        BY <2>1, <2>3 DEF ReadsPart, SameCall, OneSetKept, RefusalJustified
    <2>4. QED
        BY <1>4, <2>2, <2>3, NextPartOutcomes
<1>5. CASE NextSamples
    <2>1. known' = known /\ read'.status = "running"
        BY <1>5, NextSamplesOutcome DEF SameCall
    <2>2. QED
        BY <2>1 DEF OneSetKept, RefusalJustified
<1>6. CASE EndBatches
    <2>1. known' = known /\ read.status = "running"
        BY <1>6, EndBatchesOutcomes
    <2>2. BatchFields \subseteq DOMAIN read /\ read.batch # 0
        BY <2>1 DEF BatchesHold
    <2>3. CASE read' = [read EXCEPT !.status = "returned"]
        <3>1. read'.status = "returned" /\ read'.batch # 0
            BY <2>2, <2>3 DEF BatchFields
        <3>2. QED
            BY <2>1, <3>1 DEF OneSetKept, RefusalJustified
    <2>4. CASE read' = [read EXCEPT !.status = "raised"] /\ IsUnsound(read')
        <3>1. read'.status = "raised"
            BY <2>2, <2>4 DEF BatchFields
        <3>2. QED
            BY <2>1, <2>4, <3>1 DEF OneSetKept, RefusalJustified
    <2>5. QED
        BY <1>6, <2>3, <2>4, EndBatchesOutcomes
<1>7. ASSUME read' = read, known' = known
      PROVE  OneSetKept /\ RefusalJustified
    BY <1>7 DEF OneSetKept, RefusalJustified
<1>8. CASE UNCHANGED vars
    BY <1>7, <1>8 DEF vars
<1>9. ASSUME NEW tables, NEW rows, NEW recorded, OtherWrites(tables, rows, recorded)
      PROVE  OneSetKept /\ RefusalJustified
    BY <1>7, <1>9 DEF OtherWrites
<1>10. QED
    BY <1>1, <1>2, <1>3, <1>4, <1>5, <1>6, <1>8, <1>9 DEF Next, Hows

\* The frames a reader keeps are never replaced, and every table returned as a whole has them.
THEOREM FramesAreKept == Spec => OneSetOfFrames
<1>1. TypesHold /\ BatchesHold /\ [Next]_vars => [OneSetKept]_vars
    BY StepsKeepOneSet
<1>2. QED
    BY <1>1, BatchesAreOfTheirTables, PTL DEF Spec, OneSetOfFrames, OneSetKept

\* A read raises only if it is too large, its tables are not what the manifest names or have other
\* frames than those kept, or the tables the manifest names are themselves unsound.
THEOREM RefusalsHaveReasons == Spec => RefusalsAreJustified
<1>1. TypesHold /\ BatchesHold /\ [Next]_vars => [RefusalJustified]_vars
    BY StepsKeepOneSet
<1>2. QED
    BY <1>1, BatchesAreOfTheirTables, PTL DEF Spec, RefusalsAreJustified, RefusalJustified

(***************************************************************************)
(* Whole streams                                                           *)
(***************************************************************************)

\* Rows that follow each other, and end where the manifest says, are a stream.
LEMMA ContinuingRowsAreAStream ==
    ASSUME NEW S, NEW rows \in Seq(S), opened.summary = Summary, Len(rows) = Summary.accepted,
           \A i \in 1 .. Len(rows) : rows[i].sample_offset \in Int /\ rows[i].repetitions \in Int,
           Continues(rows, Len(rows)), EndOf(rows, Len(rows)) = Summary.samples
    PROVE  IsStream(rows)
<1> DEFINE before == SamplesBefore(rows)
           wrong == {i \in 1 .. Len(rows) + 1 : before[i] # EndOf(rows, i - 1)}
<1>0. Len(rows) \in Nat \ {0} /\ DOMAIN rows = 1 .. Len(rows)
    BY SummaryIsTyped
<1>1. before[1] = 0 /\ \A i \in 1 .. Len(rows) : before[i + 1] = before[i] + rows[i].repetitions
    BY RepetitionsAddUp
<1> HIDE DEF before
<1>2. wrong = {}
    <2> SUFFICES ASSUME wrong # {}
                 PROVE  FALSE
        OBVIOUS
    <2>1. PICK i \in wrong : \A j \in wrong : ~(j < i)
        <3>1. wrong \subseteq Nat
            BY <1>0
        <3> HIDE DEF wrong
        <3>2. QED
            BY <3>1, LeastExists
    <2>2. i \in 1 .. Len(rows) + 1 /\ before[i] # EndOf(rows, i - 1)
        OBVIOUS
    <2>3. i # 1
        BY <1>1, <2>2 DEF EndOf
    <2>4. i - 1 \in 1 .. Len(rows) /\ i - 1 \in 1 .. Len(rows) + 1 /\ i - 1 < i /\ i - 1 + 1 = i
          /\ i - 1 # 0
        BY <1>0, <2>2, <2>3
    <2>5. before[i - 1] = EndOf(rows, i - 1 - 1)
        BY <2>1, <2>4
    <2>6. before[i] = before[i - 1] + rows[i - 1].repetitions
        BY <1>1, <2>4
    <2>7. rows[i - 1].sample_offset = EndOf(rows, i - 1 - 1)
        BY <2>4 DEF Continues
    <2>8. EndOf(rows, i - 1) = rows[i - 1].sample_offset + rows[i - 1].repetitions
        BY <2>4 DEF EndOf
    <2>9. QED
        BY <2>2, <2>5, <2>6, <2>7, <2>8
<1>3. \A i \in 1 .. Len(rows) + 1 : before[i] = EndOf(rows, i - 1)
    BY <1>2
<1>4. before[Len(rows) + 1] = Summary.samples
    <2>1. Len(rows) + 1 \in 1 .. Len(rows) + 1 /\ Len(rows) + 1 - 1 = Len(rows)
        BY <1>0
    <2>2. QED
        BY <1>3, <2>1
<1>5. \A i \in DOMAIN rows : /\ rows[i].accepted_index = i - 1
                            /\ rows[i].sample_offset = before[i]
                            /\ rows[i].repetitions > 0
    <2> SUFFICES ASSUME NEW i \in 1 .. Len(rows)
                 PROVE  /\ rows[i].accepted_index = i - 1
                        /\ rows[i].sample_offset = before[i]
                        /\ rows[i].repetitions > 0
        BY <1>0
    <2>1. before[i] = EndOf(rows, i - 1)
        BY <1>0, <1>3
    <2>2. QED
        BY <2>1 DEF Continues
<1>6. QED
    BY <1>4, <1>5 DEF IsStream, before

\* Frames that are valid as a whole, and the rows they are of.
LEMMA ValidTablesAreWhole ==
    ASSUME NEW rows \in Tables, opened \in Manifests, ValidTable(FramesOf(rows))
    PROVE  /\ Len(rows) = Summary.accepted /\ DOMAIN rows = 1 .. Summary.accepted
           /\ Continues(rows, Len(rows)) /\ EndOf(rows, Len(rows)) = Summary.samples
<1>1. opened.summary = Summary
    BY ManifestsAreTyped
<1>2. Len(rows) \in Nat /\ DOMAIN rows = 1 .. Len(rows)
    BY DEF Tables
<1>3. Len(rows) = Summary.accepted
    BY <1>1, <1>2 DEF ValidTable, FramesOf
<1>4. FramesOf(rows) = Part(rows, 0, Len(rows))
    <2>1. \A i \in 1 .. Len(rows) : 0 + i = i
        BY <1>2
    <2>2. QED
        BY <1>2, <2>1 DEF FramesOf, Part
<1>5. 0 \in 0 .. Len(rows) /\ 0 + Len(rows) = Len(rows) /\ 0 + Len(rows) <= Len(rows)
    BY <1>2
<1>6. ValidFrames(Part(rows, 0, Len(rows)), EndOf(rows, 0), 0) /\ Continues(rows, 0)
    BY <1>4 DEF ValidTable, EndOf, Continues
<1>7. Continues(rows, Len(rows))
    <2>1. Continues(rows, 0 + Len(rows))
        BY <1>2, <1>5, <1>6, PartsContinue
    <2>2. QED
        BY <1>5, <2>1
<1>8. EndOf(rows, Len(rows)) = Summary.samples
    <2>1. OffsetAfter(Part(rows, 0, Len(rows)), EndOf(rows, 0)) = EndOf(rows, 0 + Len(rows))
        BY <1>2, <1>5, OffsetsFollow
    <2>2. OffsetAfter(FramesOf(rows), 0) = Summary.samples
        BY <1>1 DEF ValidTable, TotalsAgree
    <2>3. QED
        BY <1>4, <1>5, <2>1, <2>2 DEF EndOf
<1>9. QED
    BY <1>2, <1>3, <1>7, <1>8

\* Tables with the frames of a whole stream are streams, and so are those frames.
LEMMA WholeTablesAreStreams ==
    ASSUME NEW rows \in Tables, NEW others \in Tables, opened.summary = Summary,
           Len(rows) = Summary.accepted, Len(others) = Summary.accepted,
           Continues(rows, Summary.accepted), EndOf(rows, Summary.accepted) = Summary.samples,
           \A i \in 1 .. Summary.accepted : FrameOf(others[i]) = FrameOf(rows[i])
    PROVE  IsStream(others) /\ IsStream(FramesOf(others))
<1>1. Summary.accepted \in Nat \ {0}
    BY SummaryIsTyped
<1>2. ASSUME NEW i \in 1 .. Summary.accepted
      PROVE  /\ others[i].sample_offset = rows[i].sample_offset
             /\ others[i].repetitions = rows[i].repetitions
             /\ others[i].accepted_index = rows[i].accepted_index
             /\ rows[i].sample_offset \in Int /\ rows[i].repetitions \in Int
    <2>1. FrameOf(others[i]) = FrameOf(rows[i])
        OBVIOUS
    <2>2. rows[i].sample_offset \in Int /\ rows[i].repetitions \in Int
        BY RowsHaveTypes
    <2>3. QED
        BY <2>1, <2>2 DEF FrameOf
<1> DEFINE frames == FramesOf(others)
<1>3. frames \in Seq({FrameOf(others[i]) : i \in DOMAIN others}) /\ Len(frames) = Summary.accepted
    BY DEF FramesOf, Tables
<1>4. \A i \in 1 .. Summary.accepted : frames[i] = FrameOf(others[i])
    BY DEF FramesOf, Tables
<1>5. ASSUME NEW S, NEW copy \in Seq(S), Len(copy) = Summary.accepted,
             \A i \in 1 .. Summary.accepted :
                /\ copy[i].sample_offset = rows[i].sample_offset
                /\ copy[i].repetitions = rows[i].repetitions
                /\ copy[i].accepted_index = rows[i].accepted_index
      PROVE  IsStream(copy)
    <2>1. \A n \in 0 .. Summary.accepted : EndOf(copy, n) = EndOf(rows, n)
        BY <1>1, <1>5 DEF EndOf
    <2>2. ASSUME NEW i \in 1 .. Summary.accepted
          PROVE  /\ copy[i].accepted_index = i - 1
                 /\ copy[i].sample_offset = EndOf(copy, i - 1)
                 /\ copy[i].repetitions > 0
        <3>1. i - 1 \in 0 .. Summary.accepted
            BY <1>1
        <3>2. QED
            BY <1>5, <2>1, <3>1 DEF Continues
    <2>3. Continues(copy, Len(copy)) /\ EndOf(copy, Len(copy)) = Summary.samples
        BY <1>1, <1>5, <2>1, <2>2 DEF Continues
    <2>4. QED
        BY <1>2, <1>5, <2>3, ContinuingRowsAreAStream
<1>6. IsStream(others)
    BY <1>2, <1>5 DEF Tables
<1> HIDE DEF frames
<1>7. IsStream(frames)
    <2>1. \A i \in 1 .. Summary.accepted :
                /\ frames[i].sample_offset = rows[i].sample_offset
                /\ frames[i].repetitions = rows[i].repetitions
                /\ frames[i].accepted_index = rows[i].accepted_index
        <3> SUFFICES ASSUME NEW i \in 1 .. Summary.accepted
                     PROVE  /\ frames[i].sample_offset = rows[i].sample_offset
                            /\ frames[i].repetitions = rows[i].repetitions
                            /\ frames[i].accepted_index = rows[i].accepted_index
            OBVIOUS
        <3>1. frames[i] = FrameOf(others[i])
            BY <1>4
        <3>2. /\ frames[i].sample_offset = others[i].sample_offset
              /\ frames[i].repetitions = others[i].repetitions
              /\ frames[i].accepted_index = others[i].accepted_index
            BY <3>1 DEF FrameOf
        <3>3. QED
            BY <1>2, <3>2
    <2>2. QED
        BY <1>3, <1>5, <2>1
<1>8. QED
    BY <1>6, <1>7 DEF frames

\* Rows that follow each other have ends that grow, each at least where the one before it is.
LEMMA EndsAreOfRepetitions ==
    ASSUME NEW rows \in Tables, NEW n \in 0 .. Len(rows), Continues(rows, n)
    PROVE  /\ \A i \in 1 .. n : /\ EndOf(rows, i) = EndOf(rows, i - 1) + rows[i].repetitions
                                /\ rows[i].repetitions \in Nat \ {0}
           /\ \A i \in 0 .. n : EndOf(rows, i) \in Nat
           /\ \A i, j \in 0 .. n : i <= j => EndOf(rows, i) <= EndOf(rows, j)
<1>0. n \in Nat /\ \A i \in 1 .. n : i \in 1 .. Len(rows)
    BY DEF Tables
<1>1. ASSUME NEW i \in 1 .. n
      PROVE  /\ EndOf(rows, i) = EndOf(rows, i - 1) + rows[i].repetitions
             /\ rows[i].repetitions \in Nat \ {0}
    <2>1. rows[i].repetitions \in Int
        BY <1>0, RowsHaveTypes
    <2>2. QED
        BY <1>0, <2>1 DEF Continues, EndOf
<1> DEFINE wrong == {i \in 0 .. n : EndOf(rows, i) \notin Nat}
<1>2. wrong = {}
    <2> SUFFICES ASSUME wrong # {}
                 PROVE  FALSE
        OBVIOUS
    <2>1. PICK i \in wrong : \A j \in wrong : ~(j < i)
        <3>1. wrong \subseteq Nat
            BY <1>0
        <3> HIDE DEF wrong
        <3>2. QED
            BY <3>1, LeastExists
    <2>2. i \in 0 .. n /\ EndOf(rows, i) \notin Nat
        OBVIOUS
    <2>3. i # 0
        BY <2>2 DEF EndOf
    <2>4. i \in 1 .. n /\ i - 1 \in 0 .. n /\ i - 1 < i
        BY <1>0, <2>2, <2>3
    <2>5. EndOf(rows, i - 1) \in Nat
        BY <2>1, <2>4
    <2>6. QED
        BY <1>1, <2>2, <2>4, <2>5
<1>3. \A i \in 0 .. n : EndOf(rows, i) \in Nat
    BY <1>2
<1>4. ASSUME NEW i \in 0 .. n, NEW j \in 0 .. n, i <= j
      PROVE  EndOf(rows, i) <= EndOf(rows, j)
    <2> DEFINE less == {k \in 0 .. n : i <= k /\ ~(EndOf(rows, i) <= EndOf(rows, k))}
    <2> SUFFICES ASSUME less # {}
                 PROVE  FALSE
        BY <1>4
    <2>1. PICK k \in less : \A l \in less : ~(l < k)
        <3>1. less \subseteq Nat
            BY <1>0
        <3> HIDE DEF less
        <3>2. QED
            BY <3>1, LeastExists
    <2>2. k \in 0 .. n /\ i <= k /\ ~(EndOf(rows, i) <= EndOf(rows, k))
        OBVIOUS
    <2>3. k # i
        BY <1>3, <2>2
    <2>4. k \in 1 .. n /\ k - 1 \in 0 .. n /\ k - 1 < k /\ i <= k - 1
        BY <1>0, <2>2, <2>3
    <2>5. EndOf(rows, i) <= EndOf(rows, k - 1)
        BY <2>1, <2>4
    <2>6. /\ EndOf(rows, k) = EndOf(rows, k - 1) + rows[k].repetitions
          /\ rows[k].repetitions \in Nat
          /\ EndOf(rows, i) \in Nat /\ EndOf(rows, k - 1) \in Nat
        BY <1>1, <1>3, <2>4
    <2>7. QED
        BY <2>2, <2>5, <2>6
<1>5. QED
    BY <1>1, <1>3, <1>4

\* A sequence is the function of its elements.
LEMMA SequencesAreOfTheirElements ==
    ASSUME NEW X, NEW c \in Seq(X), NEW n, Len(c) = n
    PROVE  c = [i \in 1 .. n |-> c[i]]
OBVIOUS

\* A repeated element is a sequence, as long as it is repeated.
LEMMA RunsOfOne ==
    ASSUME NEW X, NEW x \in X, NEW n \in Nat
    PROVE  [k \in 1 .. n |-> x] \in Seq(X) /\ Len([k \in 1 .. n |-> x]) = n
OBVIOUS

\* What a caller gets when everything is read at once: each row once, or as often as it is
\* repeated.
LEMMA RowsAreGivenOnce ==
    ASSUME NEW rows, NEW m \in StoredMetrics, NEW how, how # "samples",
           NEW n \in Nat, DOMAIN rows[Head(TablesOf[m])] = 1 .. n
    PROVE  FlattenSeq(Repeated(rows, m, how)) = [i \in 1 .. n |-> Value(rows, m, how, i)]
<1> DEFINE X == {Value(rows, m, how, i) : i \in 1 .. n}
           ss == Repeated(rows, m, how)
<1>p. PICK e : e = [i \in 0 .. n |-> i]
    OBVIOUS
<1>1. ss = [i \in 1 .. n |-> [k \in 1 .. 1 |-> Value(rows, m, how, i)]]
    BY DEF Repeated
<1>2. \A i \in 1 .. n : /\ ss[i] = [k \in 1 .. 1 |-> Value(rows, m, how, i)]
                        /\ ss[i] \in Seq(X) /\ Len(ss[i]) = 1
    BY <1>1
<1>3. ss \in Seq(Seq(X)) /\ Len(ss) = n
    BY <1>1, <1>2
<1>4. EndsAt(e, ss)
    <2>1. e[0] = 0 /\ \A i \in 0 .. n : e[i] \in Nat
        BY <1>p
    <2>2. ASSUME NEW i \in 1 .. n
          PROVE  e[i] = e[i - 1] + Len(ss[i])
        <3>1. e[i] = i /\ e[i - 1] = i - 1 /\ i - 1 + 1 = i
            BY <1>p
        <3>3. Len(ss[i]) = 1
            BY <1>2
        <3> HIDE DEF ss
        <3>2. QED
            BY <3>1, <3>3
    <2>3. QED
        BY <1>3, <2>1, <2>2 DEF EndsAt
<1> HIDE DEF ss, X
<1>5. /\ FlattenSeq(ss) \in Seq(X) /\ Len(FlattenSeq(ss)) = e[n]
      /\ \A i \in 1 .. n : \A k \in 1 .. Len(ss[i]) : FlattenSeq(ss)[e[i - 1] + k] = ss[i][k]
    <2>1. FlatWith(ss, X, n, e)
        BY <1>3, <1>4, FlattenedParts
    <2>2. QED
        BY <2>1, Zenon DEF FlatWith
<1>6. ASSUME NEW i \in 1 .. n
      PROVE  FlattenSeq(ss)[i] = Value(rows, m, how, i)
    <2>1. e[i - 1] + 1 = i
        BY <1>p
    <2>3. 1 \in 1 .. Len(ss[i]) /\ ss[i][1] = Value(rows, m, how, i)
        <3>1. ss[i] = [k \in 1 .. 1 |-> Value(rows, m, how, i)] /\ Len(ss[i]) = 1
            BY <1>2
        <3>2. 1 \in 1 .. 1
            OBVIOUS
        <3>3. QED
            BY <3>1, <3>2, Zenon
    <2>2. QED
        BY <1>5, <2>1, <2>3
<1>7. Len(FlattenSeq(ss)) = n
    BY <1>5, <1>p
<1>8. DOMAIN FlattenSeq(ss) = 1 .. n
    BY <1>5, <1>7
<1>9. FlattenSeq(ss) = [i \in 1 .. n |-> FlattenSeq(ss)[i]]
    BY <1>5, <1>8
<1>10. QED
    BY <1>6, <1>9 DEF ss

\* Each of the first n rows of a table, as often as it is repeated and in its place.
GivenAgain(given, rows, m, n, head) ==
    /\ given \in Seq({Value(rows, m, "samples", i) : i \in 1 .. n})
    /\ Len(given) = EndOf(head, n)
    /\ \A s \in 1 .. Len(given) : \E i \in 1 .. n :
          /\ EndOf(head, i - 1) < s /\ s <= EndOf(head, i)
          /\ given[s] = Value(rows, m, "samples", i)

\* Flattening the rows as often as they are repeated puts each in the places of its samples.
LEMMA RowsAreGivenAgain ==
    ASSUME NEW rows, NEW m \in StoredMetrics, NEW n \in Nat,
           NEW head \in Tables, rows[Head(TablesOf[m])] = head, Len(head) = n, Continues(head, n)
    PROVE  GivenAgain(FlattenSeq(Repeated(rows, m, "samples")), rows, m, n, head)
<1> DEFINE X == {Value(rows, m, "samples", i) : i \in 1 .. n}
           ss == Repeated(rows, m, "samples")
           given == FlattenSeq(ss)
<1>0. DOMAIN head = 1 .. n
    BY DEF Tables
<1>p. PICK e : e = [i \in 0 .. n |-> EndOf(head, i)]
    OBVIOUS
<1>1. ss = [i \in 1 .. n |-> [k \in 1 .. head[i].repetitions |-> Value(rows, m, "samples", i)]]
    BY <1>0 DEF Repeated
<1>e. /\ \A i \in 1 .. n : /\ EndOf(head, i) = EndOf(head, i - 1) + head[i].repetitions
                           /\ head[i].repetitions \in Nat \ {0}
      /\ \A i \in 0 .. n : EndOf(head, i) \in Nat
    BY EndsAreOfRepetitions
<1>2. ASSUME NEW i \in 1 .. n
      PROVE  /\ ss[i] = [k \in 1 .. head[i].repetitions |-> Value(rows, m, "samples", i)]
             /\ ss[i] \in Seq(X) /\ Len(ss[i]) = head[i].repetitions
    <2>1. ss[i] = [k \in 1 .. head[i].repetitions |-> Value(rows, m, "samples", i)]
        BY <1>1
    <2>2. Value(rows, m, "samples", i) \in X
        OBVIOUS
    <2>4. head[i].repetitions \in Nat
        BY <1>e
    <2> HIDE DEF X, ss, given
    <2>3. QED
        BY <2>1, <2>2, <2>4, RunsOfOne
<1>3. ss \in Seq(Seq(X)) /\ Len(ss) = n
    BY <1>1, <1>2
<1>4. EndsAt(e, ss)
    <2>1. e[0] = 0 /\ \A i \in 0 .. n : e[i] \in Nat
        BY <1>e, <1>p DEF EndOf
    <2>2. ASSUME NEW i \in 1 .. n
          PROVE  e[i] = e[i - 1] + Len(ss[i])
        <3>1. e[i] = EndOf(head, i) /\ e[i - 1] = EndOf(head, i - 1)
            BY <1>p
        <3>2. QED
            BY <1>2, <1>e, <3>1
    <2>3. QED
        BY <1>3, <2>1, <2>2 DEF EndsAt
<1> HIDE DEF ss, X
<1>5. /\ FlattenSeq(ss) \in Seq(X) /\ Len(FlattenSeq(ss)) = e[n]
      /\ \A i \in 1 .. n : \A k \in 1 .. Len(ss[i]) : FlattenSeq(ss)[e[i - 1] + k] = ss[i][k]
    <2>1. FlatWith(ss, X, n, e)
        BY <1>3, <1>4, FlattenedParts
    <2>2. QED
        BY <2>1, Zenon DEF FlatWith
<1>6. Len(given) = EndOf(head, n)
    BY <1>5, <1>p
<1>7. ASSUME NEW s \in 1 .. Len(given)
      PROVE  \E i \in 1 .. n : /\ EndOf(head, i - 1) < s /\ s <= EndOf(head, i)
                              /\ given[s] = Value(rows, m, "samples", i)
    <2>0. e[0] = 0 /\ (\A i \in 0 .. n : e[i] \in Nat) /\ e[n] = EndOf(head, n)
        BY <1>e, <1>p DEF EndOf
    <2>1. e[0] = 0 /\ (\A i \in 0 .. n : e[i] \in Int) /\ s \in Nat \ {0} /\ s <= e[n]
        <3> HIDE DEF given
        <3>1. s \in 1 .. e[n] /\ e[n] \in Nat
            BY <1>6, <2>0
        <3>2. QED
            BY <2>0, <3>1
    <2>2. PICK i \in 1 .. n : e[i - 1] < s /\ s <= e[i]
        <3>1. QED
            BY <2>1, PlacesHaveAnInterval
    <2>3. e[i - 1] = EndOf(head, i - 1) /\ e[i] = EndOf(head, i)
        BY <1>p
    <2>4. PICK k \in 1 .. Len(ss[i]) : s = e[i - 1] + k
        <3>1. /\ EndOf(head, i - 1) \in Nat /\ head[i].repetitions \in Nat
              /\ EndOf(head, i) = EndOf(head, i - 1) + head[i].repetitions
              /\ Len(ss[i]) = head[i].repetitions
            <4>1. i - 1 \in 0 .. n
                OBVIOUS
            <4> HIDE DEF given
            <4>2. QED
                BY <1>e, <1>2, <4>1
        <3>2. s - e[i - 1] \in 1 .. Len(ss[i]) /\ s = e[i - 1] + (s - e[i - 1])
            BY <2>1, <2>2, <2>3, <3>1
        <3>3. QED
            BY <3>2
    <2>5. given[s] = ss[i][k]
        BY <1>5, <2>4
    <2>6. ss[i][k] = Value(rows, m, "samples", i)
        BY <1>2
    <2>7. QED
        BY <2>2, <2>3, <2>5, <2>6
<1>8. GivenAgain(given, rows, m, n, head)
    BY <1>5, <1>6, <1>7 DEF GivenAgain, X
<1>9. QED
    BY <1>8 DEF ss

(***************************************************************************)
(* Filling batches of samples                                              *)
(***************************************************************************)

\* What is left of a row's repetitions.
LeftOf(part, row, remaining, i) == IF i = row THEN remaining ELSE part[i].repetitions

\* What is left of a part: its rows from row on, each as often as it remains.
Blocks(part, row, remaining) ==
    [i \in 1 .. (Len(part) + 1 - row) |->
       [k \in 1 .. LeftOf(part, row, remaining, row - 1 + i) |-> row - 1 + i]]

\* How many of what is left are in its first rows.
LeftEnds(part, row, remaining, e) ==
    /\ e[0] = 0
    /\ \A i \in 0 .. (Len(part) + 1 - row) : e[i] \in Nat
    /\ \A i \in 1 .. (Len(part) + 1 - row) :
         e[i] = e[i - 1] + LeftOf(part, row, remaining, row - 1 + i)

\* The rows of what is left, one by one.
IsLeft(all, n, row, e) ==
    /\ all \in Seq(Nat) /\ Len(all) = e[n]
    /\ \A q \in 1 .. e[n] : \A j \in 1 .. n : all[q] = row - 1 + j <=> e[j - 1] < q /\ q <= e[j]
    /\ \A q \in 1 .. e[n] : \E j \in 1 .. n : e[j - 1] < q /\ q <= e[j]

\* What is left of a part, flattened, has each row within its ends.
LEMMA LeftRows ==
    ASSUME NEW part, NEW row \in Nat \ {0}, NEW remaining, NEW e, NEW n \in Nat \ {0},
           n = Len(part) + 1 - row, LeftEnds(part, row, remaining, e),
           \A i \in 1 .. n : LeftOf(part, row, remaining, row - 1 + i) \in Nat
    PROVE  IsLeft(FlattenSeq(Blocks(part, row, remaining)), n, row, e)
<1> DEFINE ss == Blocks(part, row, remaining)
           all == FlattenSeq(ss)
<1>1. ss = [i \in 1 .. n |-> [k \in 1 .. LeftOf(part, row, remaining, row - 1 + i) |-> row - 1 + i]]
    BY DEF Blocks
<1>2. ASSUME NEW i \in 1 .. n
      PROVE  /\ ss[i] = [k \in 1 .. LeftOf(part, row, remaining, row - 1 + i) |-> row - 1 + i]
             /\ ss[i] \in Seq(Nat) /\ Len(ss[i]) = LeftOf(part, row, remaining, row - 1 + i)
    <2>1. ss[i] = [k \in 1 .. LeftOf(part, row, remaining, row - 1 + i) |-> row - 1 + i]
        BY <1>1
    <2>2. row - 1 + i \in Nat
        OBVIOUS
    <2>3. LeftOf(part, row, remaining, row - 1 + i) \in Nat
        BY Zenon
    <2> HIDE DEF ss
    <2>4. QED
        BY <2>1, <2>2, <2>3, RunsOfOne
<1>3. ss \in Seq(Seq(Nat)) /\ Len(ss) = n
    <2>1. ss = [i \in 1 .. n |-> ss[i]]
        BY <1>1
    <2>2. \A i \in 1 .. n : ss[i] \in Seq(Nat)
        BY <1>2
    <2> HIDE DEF ss
    <2>3. QED
        BY <2>1, <2>2
<1>4. /\ e[0] = 0
      /\ \A i \in 0 .. n : e[i] \in Nat
      /\ \A i \in 1 .. n : e[i] = e[i - 1] + LeftOf(part, row, remaining, row - 1 + i)
    BY DEF LeftEnds
<1> HIDE DEF ss
<1>5. EndsAt(e, ss)
    BY <1>2, <1>3, <1>4 DEF EndsAt
<1>6. FlatWith(ss, Nat, n, e)
    BY <1>3, <1>5, FlattenedParts
<1>7. /\ all \in Seq(Nat) /\ Len(all) = e[n]
      /\ \A i \in 1 .. n : \A k \in 1 .. Len(ss[i]) : all[e[i - 1] + k] = ss[i][k]
    BY <1>6, Zenon DEF FlatWith
<1> HIDE DEF all
<1>8. ASSUME NEW q \in 1 .. e[n], NEW j \in 1 .. n, e[j - 1] < q, q <= e[j]
      PROVE  all[q] = row - 1 + j
    <2>1. /\ e[j - 1] \in Nat /\ e[j] \in Nat /\ e[n] \in Nat
          /\ e[j] = e[j - 1] + LeftOf(part, row, remaining, row - 1 + j)
          /\ LeftOf(part, row, remaining, row - 1 + j) \in Nat
          /\ Len(ss[j]) = LeftOf(part, row, remaining, row - 1 + j)
        <3>1. j - 1 \in 0 .. n /\ j \in 0 .. n /\ n \in 0 .. n
            OBVIOUS
        <3>2. QED
            BY <1>2, <1>4, <3>1
    <2>2. PICK k \in 1 .. Len(ss[j]) : q = e[j - 1] + k
        <3>1. q - e[j - 1] \in 1 .. Len(ss[j]) /\ q = e[j - 1] + (q - e[j - 1])
            BY <1>8, <2>1
        <3>2. QED
            BY <3>1
    <2>3. all[q] = ss[j][k]
        BY <1>7, <2>2
    <2>4. ss[j][k] = row - 1 + j
        BY <1>2, <2>1
    <2>5. QED
        BY <2>3, <2>4
<1>9. ASSUME NEW q \in 1 .. e[n]
      PROVE  \E j \in 1 .. n : e[j - 1] < q /\ q <= e[j]
    <2>1. e[0] = 0 /\ (\A i \in 0 .. n : e[i] \in Int) /\ n \in Nat
        BY <1>4
    <2>2. q \in Nat \ {0} /\ q <= e[n]
        <3>1. e[n] \in Nat
            BY <1>4
        <3>2. QED
            BY <3>1
    <2>3. QED
        BY <2>1, <2>2, PlacesHaveAnInterval
<1>10. ASSUME NEW q \in 1 .. e[n], NEW j \in 1 .. n, all[q] = row - 1 + j
       PROVE  e[j - 1] < q /\ q <= e[j]
    <2>1. PICK i \in 1 .. n : e[i - 1] < q /\ q <= e[i]
        BY <1>9
    <2>2. all[q] = row - 1 + i
        BY <1>8, <2>1
    <2>3. i = j
        BY <1>10, <2>2
    <2>4. QED
        BY <2>1, <2>3
<1>11. QED
    <2>1. \A q \in 1 .. e[n] : \A j \in 1 .. n : all[q] = row - 1 + j <=> e[j - 1] < q /\ q <= e[j]
        BY <1>8, <1>10
    <2>2. IsLeft(all, n, row, e)
        BY <1>7, <1>9, <2>1 DEF IsLeft
    <2>3. QED
        BY <2>2 DEF all, ss

\* The first elements of a sequence, and the others.
LEMMA SliceProperties ==
    ASSUME NEW S, NEW s \in Seq(S), NEW m \in Nat \ {0}, NEW n \in Nat, n <= Len(s), m <= n + 1
    PROVE  /\ SubSeq(s, m, n) \in Seq(S) /\ Len(SubSeq(s, m, n)) = n + 1 - m
           /\ DOMAIN SubSeq(s, m, n) = 1 .. (n + 1 - m)
           /\ \A i \in 1 .. (n + 1 - m) : SubSeq(s, m, n)[i] = s[m + i - 1]
<1>1. \A i \in m .. n : s[i] \in S
    OBVIOUS
<1>2. m \in Int /\ n \in Int /\ n - m + 1 = n + 1 - m
    OBVIOUS
<1>3. /\ SubSeq(s, m, n) \in Seq(S)
      /\ Len(SubSeq(s, m, n)) = IF m <= n THEN n - m + 1 ELSE 0
      /\ \A i \in 1 .. n - m + 1 : SubSeq(s, m, n)[i] = s[m + i - 1]
    BY <1>1, <1>2, SubSeqProperties
<1>4. Len(SubSeq(s, m, n)) = n + 1 - m
    BY <1>3
<1>5. DOMAIN SubSeq(s, m, n) = 1 .. Len(SubSeq(s, m, n))
    BY <1>3
<1>6. QED
    BY <1>2, <1>3, <1>4, <1>5

\* A batch that is filled has the next rows, and leaves off within a row or after the last one.
GoesOn(part, row, room, n, e, f) ==
    /\ DOMAIN f.rows = 1 .. room
    /\ \A k \in 1 .. room : \E j \in 1 .. n : f.rows[k] = row - 1 + j /\ e[j - 1] < k /\ k <= e[j]
    /\ \/ room = e[n] /\ f.row = Len(part) + 1 /\ f.remaining = 0
       \/ \E j \in 1 .. n : /\ f.row = row - 1 + j /\ e[j - 1] <= room /\ room < e[j]
                           /\ f.remaining = e[j] - room

\* Filled takes the next rows and leaves off where GoesOn says.
LEMMA FilledGoesOn ==
    ASSUME NEW part, NEW row \in Nat \ {0}, NEW remaining, NEW e, NEW n \in Nat \ {0},
           n = Len(part) + 1 - row, LeftEnds(part, row, remaining, e),
           \A i \in 1 .. n : LeftOf(part, row, remaining, row - 1 + i) \in Nat,
           NEW room \in 1 .. e[n]
    PROVE  GoesOn(part, row, room, n, e, Filled(part, row, remaining, room))
<1> DEFINE all == FlattenSeq(Blocks(part, row, remaining))
           filled == SubSeq(all, 1, room)
           rest == SubSeq(all, room + 1, Len(all))
           f == [rows |-> filled,
                 row |-> IF rest = <<>> THEN Len(part) + 1 ELSE Head(rest),
                 remaining |-> IF rest = <<>> THEN 0
                               ELSE Cardinality({k \in DOMAIN rest : rest[k] = Head(rest)})]
<1>1. Filled(part, row, remaining, room) = f
    BY DEF Filled, Blocks, LeftOf
<1>2. IsLeft(all, n, row, e)
    BY LeftRows
<1> HIDE DEF all
<1>3. /\ all \in Seq(Nat) /\ Len(all) = e[n]
      /\ \A q \in 1 .. e[n] : \A j \in 1 .. n : all[q] = row - 1 + j <=> e[j - 1] < q /\ q <= e[j]
      /\ \A q \in 1 .. e[n] : \E j \in 1 .. n : e[j - 1] < q /\ q <= e[j]
    BY <1>2 DEF IsLeft
<1>4. \A i \in 0 .. n : e[i] \in Nat
    BY DEF LeftEnds
<1>5. e[n] \in Nat /\ room \in Nat \ {0} /\ room <= e[n]
    <2>1. n \in 0 .. n
        OBVIOUS
    <2>2. e[n] \in Nat
        BY <1>4, <2>1
    <2>3. QED
        BY <2>2
<1>6. DOMAIN filled = 1 .. room /\ \A k \in 1 .. room : filled[k] = all[k]
    <2>1. 1 \in Nat \ {0} /\ room \in Nat /\ room <= Len(all) /\ 1 <= room + 1
          /\ room + 1 - 1 = room /\ \A k \in 1 .. room : 1 + k - 1 = k
        BY <1>3, <1>5
    <2>2. /\ DOMAIN SubSeq(all, 1, room) = 1 .. (room + 1 - 1)
          /\ \A k \in 1 .. (room + 1 - 1) : SubSeq(all, 1, room)[k] = all[1 + k - 1]
        BY <1>3, <2>1, SliceProperties
    <2>3. QED
        BY <2>1, <2>2
<1>7. /\ rest \in Seq(Nat) /\ Len(rest) = e[n] - room /\ DOMAIN rest = 1 .. (e[n] - room)
      /\ \A k \in 1 .. (e[n] - room) : rest[k] = all[room + k]
    <2>1. room + 1 \in Nat \ {0} /\ Len(all) \in Nat /\ Len(all) <= Len(all)
          /\ room + 1 <= Len(all) + 1
          /\ Len(all) + 1 - (room + 1) = e[n] - room
          /\ \A k \in 1 .. (e[n] - room) : room + 1 + k - 1 = room + k
        BY <1>3, <1>5
    <2>2. /\ rest \in Seq(Nat) /\ Len(rest) = Len(all) + 1 - (room + 1)
          /\ DOMAIN rest = 1 .. (Len(all) + 1 - (room + 1))
          /\ \A k \in 1 .. (Len(all) + 1 - (room + 1)) : rest[k] = all[room + 1 + k - 1]
        <3>1. PICK m \in Nat \ {0} : m = room + 1
            BY <2>1
        <3>2. /\ SubSeq(all, m, Len(all)) \in Seq(Nat)
              /\ Len(SubSeq(all, m, Len(all))) = Len(all) + 1 - m
              /\ DOMAIN SubSeq(all, m, Len(all)) = 1 .. (Len(all) + 1 - m)
              /\ \A k \in 1 .. (Len(all) + 1 - m) : SubSeq(all, m, Len(all))[k] = all[m + k - 1]
            <4>1. Len(all) \in Nat /\ Len(all) <= Len(all) /\ m <= Len(all) + 1 /\ all \in Seq(Nat)
                BY <1>3, <2>1, <3>1
            <4>2. QED
                BY <4>1, SliceProperties
        <3>3. QED
            BY <3>1, <3>2, Zenon
    <2> HIDE DEF rest
    <2>3. QED
        BY <2>1, <2>2
<1> HIDE DEF filled, rest
<1>8. ASSUME NEW k \in 1 .. room
      PROVE  \E j \in 1 .. n : filled[k] = row - 1 + j /\ e[j - 1] < k /\ k <= e[j]
    <2>1. k \in 1 .. e[n]
        BY <1>5
    <2>2. PICK j \in 1 .. n : e[j - 1] < k /\ k <= e[j]
        BY <1>3, <2>1
    <2>3. all[k] = row - 1 + j
        BY <1>3, <2>1, <2>2
    <2>4. QED
        BY <1>6, <2>2, <2>3
<1>9. CASE room = e[n]
    <2>1. rest = <<>>
        BY <1>5, <1>7, <1>9
    <2>2. f.row = Len(part) + 1 /\ f.remaining = 0 /\ f.rows = filled
        BY <2>1
    <2>3. QED
        BY <1>1, <1>6, <1>8, <1>9, <2>2 DEF GoesOn
<1>10. CASE room # e[n]
    <2>1. room + 1 \in 1 .. e[n] /\ 1 \in 1 .. (e[n] - room)
        BY <1>5, <1>10
    <2>2. rest # <<>> /\ Head(rest) = rest[1] /\ rest[1] = all[room + 1]
        BY <1>7, <2>1
    <2>3. PICK j \in 1 .. n : e[j - 1] < room + 1 /\ room + 1 <= e[j]
        BY <1>3, <2>1
    <2>4. Head(rest) = row - 1 + j
        BY <1>3, <2>1, <2>2, <2>3
    <2>5. e[j] \in Nat /\ e[j - 1] \in Nat
        <3>1. j \in 0 .. n /\ j - 1 \in 0 .. n
            OBVIOUS
        <3>2. QED
            BY <1>4, <3>1
    <2>6. e[j - 1] <= room /\ room < e[j]
        BY <1>5, <2>3, <2>5
    <2>7. {k \in DOMAIN rest : rest[k] = Head(rest)} = 1 .. (e[j] - room)
        <3>1. e[j] <= e[n]
            <4>1. e[j] \in 1 .. e[j] /\ (e[j] <= e[n] \/ e[n] < e[j])
                BY <1>5, <2>5, <2>6
            <4>2. SUFFICES ASSUME e[n] < e[j]
                           PROVE  FALSE
                BY <4>1
            <4>3. \A i \in 1 .. n : e[i] = e[i - 1] + LeftOf(part, row, remaining, row - 1 + i)
                BY DEF LeftEnds
            <4> DEFINE less == {i \in 1 .. n : j <= i /\ e[i] < e[j]}
            <4>4. n \in less
                BY <4>2
            <4>5. PICK i \in less : \A l \in less : ~(l < i)
                <5>1. less \subseteq Nat /\ less # {}
                    BY <4>4
                <5> HIDE DEF less
                <5>2. QED
                    BY <5>1, LeastExists
            <4>6. i \in 1 .. n /\ j <= i /\ e[i] < e[j]
                OBVIOUS
            <4>7. i # j
                BY <2>5, <4>6
            <4>8. i - 1 \in 1 .. n /\ j <= i - 1 /\ i - 1 < i /\ i - 1 \in 0 .. n /\ i \in 0 .. n
                BY <4>6, <4>7
            <4>9. ~(e[i - 1] < e[j])
                BY <4>5, <4>8
            <4>10. LeftOf(part, row, remaining, row - 1 + i) \in Nat
                BY <4>6, Zenon
            <4>11. e[i] = e[i - 1] + LeftOf(part, row, remaining, row - 1 + i)
                   /\ e[i - 1] \in Nat /\ e[i] \in Nat
                BY <1>4, <4>3, <4>6, <4>8
            <4>12. QED
                BY <2>5, <4>6, <4>9, <4>10, <4>11
        <3>2. ASSUME NEW k \in 1 .. (e[n] - room)
              PROVE  rest[k] = Head(rest) <=> k \in 1 .. (e[j] - room)
            <4>1. room + k \in 1 .. e[n]
                BY <1>5
            <4>2. all[room + k] = row - 1 + j <=> e[j - 1] < room + k /\ room + k <= e[j]
                BY <1>3, <4>1
            <4>3. e[j - 1] < room + k /\ (room + k <= e[j] <=> k <= e[j] - room)
                BY <1>5, <2>5, <2>6
            <4>4. k \in 1 .. (e[j] - room) <=> k <= e[j] - room
                BY <1>5, <2>5
            <4>5. QED
                BY <1>7, <2>4, <4>2, <4>3, <4>4
        <3>3. \A k \in 1 .. (e[j] - room) : k \in 1 .. (e[n] - room)
            BY <1>5, <2>5, <3>1
        <3>4. QED
            BY <1>7, <3>2, <3>3
    <2>8. Cardinality(1 .. (e[j] - room)) = e[j] - room
        <3>1. 1 \in Int /\ e[j] - room \in Int /\ ~(1 > e[j] - room)
            BY <1>5, <2>5, <2>6
        <3>2. Cardinality(1 .. (e[j] - room)) = IF 1 > e[j] - room THEN 0 ELSE e[j] - room - 1 + 1
            BY <3>1, FS_Interval
        <3>3. QED
            BY <1>5, <2>5, <3>1, <3>2
    <2>9. f.row = row - 1 + j /\ f.remaining = e[j] - room /\ f.rows = filled
        BY <2>2, <2>4, <2>7, <2>8
    <2> HIDE DEF f
    <2>10. QED
        BY <1>1, <1>6, <1>8, <2>6, <2>9 DEF GoesOn
<1>11. QED
    BY <1>9, <1>10

(***************************************************************************)
(* What is handed out                                                      *)
(***************************************************************************)

\* The frames were read with an earlier table.
Remembered(call) == call.how = "frames" /\ call.batch = 0

\* Each row that has been given is the one in its place, and batches are of the size asked for.
HandsOut(call) ==
    /\ \A s \in DOMAIN FlattenSeq(call.given) :
         /\ call.how = "samples" =>
              \E i \in Samples(s, opened.sums[Head(TablesOf[call.metric])]) :
                 FlattenSeq(call.given)[s]
                   = Value(SumsRead(call.metric, call.how), call.metric, call.how, i)
         /\ call.how # "samples" =>
              FlattenSeq(call.given)[s]
                = Value(SumsRead(call.metric, call.how), call.metric, call.how, s)
    /\ call.batch > 0 => \A k \in DOMAIN call.given : Len(call.given[k]) \in 1 .. call.batch

\* A call that has returned has given all, of streams.
IsWhole(call) ==
    /\ Len(FlattenSeq(call.given)) = IF call.how = "samples" THEN opened.summary.samples
                                     ELSE opened.summary.accepted
    /\ Remembered(call) => FlattenSeq(call.given) = known /\ IsStream(known)
    /\ ~Remembered(call) =>
         HandsOut(call) /\ \A t \in Selected(call.metric, call.how) : IsStream(opened.sums[t])

\* The frames a reader keeps are those of a whole stream.
FramesHold ==
    known # NoFrames =>
        /\ opened \in Manifests
        /\ \E t \in StoredTables : known = FramesOf(opened.sums[t])
        /\ ValidTable(known)

\* The values of the rows of a metric.
Given(m, how) == {Value(SumsRead(m, how), m, how, i) : i \in 1 .. Summary.accepted}

\* Batches are not empty and not larger than asked for.
GivenHold ==
    read.status = "running" =>
        /\ read.given \in Seq(Seq(Given(read.metric, read.how)))
        /\ \A k \in DOMAIN read.given : Len(read.given[k]) \in 1 .. read.batch

\* A row for each frame: what has been given is what has been read.
RowsHold ==
    read.status = "running" /\ read.how # "samples" =>
        /\ read.part = <<>> /\ read.row = 1
        /\ FlattenSeq(read.given)
             = [i \in 1 .. read.accepted |-> Value(read.rows, read.metric, read.how, i)]

\* Samples in the places their rows have.
Placed(given, last) ==
    \A s \in 1 .. Len(given) : \E i \in 1 .. last :
        /\ EndOf(HeadTable, i - 1) < s /\ s <= EndOf(HeadTable, i)
        /\ given[s] = Value(read.rows, read.metric, read.how, i)

\* The part a call has read and not yet given follows what it has given.
PartHolds(count) ==
    LET before == read.accepted - count
    IN /\ Len(read.part) = count
       /\ read.part = [i \in 1 .. count |->
                        [value |-> Value(read.rows, read.metric, read.how, before + i),
                         repetitions |-> HeadTable[before + i].repetitions]]
       /\ read.row \in 1 .. (count + 1)
       /\ read.row <= count =>
            /\ read.remaining \in 1 .. HeadTable[before + read.row].repetitions
            /\ read.sampleStart = EndOf(HeadTable, before + read.row) - read.remaining
       /\ read.row > count => read.sampleStart = EndOf(HeadTable, read.accepted)

\* A row for each sample: what has been given is in its place, and the part goes on from there.
SamplesHold ==
    read.status = "running" /\ read.how = "samples" =>
        /\ \E count \in 0 .. read.accepted : PartHolds(count)
        /\ Len(FlattenSeq(read.given)) = read.sampleStart
        /\ Placed(FlattenSeq(read.given), read.accepted)

\* A call that has returned is whole.
ReturnsHold == read.status = "returned" => IsWhole(read)

\* The inductive invariant.
IInv ==
    /\ TypesHold /\ BatchesHold
    /\ FramesHold /\ GivenHold /\ RowsHold /\ SamplesHold /\ ReturnsHold

\* Nothing flattens to nothing.
LEMMA NothingFlattened == FlattenSeq(<<>>) = <<>> /\ Len(<<>>) = 0
BY DEF FlattenSeq

\* What a call that is in its course has given is what it should.
LEMMA RunningHandsOut ==
    ASSUME IInv, read.status = "running"
    PROVE  HandsOut(read) /\ ~Remembered(read)
<1>1. /\ read.batch \in Nat \ {0} /\ read.rows = SumsRead(read.metric, read.how)
      /\ Continues(HeadTable, read.accepted)
    BY DEF IInv, BatchesHold
<1>2. /\ HeadTable \in Tables /\ Len(HeadTable) = Summary.accepted /\ read.accepted \in Nat
      /\ read.accepted <= Summary.accepted
    BY BatchFacts, SummaryIsTyped DEF IInv, BatchesHold
<1>3. /\ read.given \in Seq(Seq(Given(read.metric, read.how)))
      /\ \A k \in DOMAIN read.given : Len(read.given[k]) \in 1 .. read.batch
    BY DEF IInv, GivenHold
<1> DEFINE given == FlattenSeq(read.given)
<1>4. CASE read.how # "samples"
    <2>1. given = [i \in 1 .. read.accepted |-> Value(read.rows, read.metric, read.how, i)]
        BY <1>4 DEF IInv, RowsHold
    <2> HIDE DEF given
    <2>2. \A s \in DOMAIN given : given[s] = Value(read.rows, read.metric, read.how, s)
        BY <2>1
    <2>3. QED
        BY <1>1, <1>3, <1>4, <2>2 DEF HandsOut, Remembered, given
<1>5. CASE read.how = "samples"
    <2>1. Placed(given, read.accepted)
        BY <1>5 DEF IInv, SamplesHold
    <2>2. given \in Seq(Given(read.metric, read.how))
        <3>1. <<>> \in Seq(Given(read.metric, read.how))
            OBVIOUS
        <3>2. CASE read.given = <<>>
            BY <3>1, <3>2, NothingFlattened
        <3>3. CASE read.given # <<>>
            <4>1. Append(read.given, <<>>) \in Seq(Seq(Given(read.metric, read.how)))
                BY <1>3
            <4>2. QED
                BY <1>3, <3>1, FlattenedAppend
        <3>4. QED
            BY <3>2, <3>3
    <2>3. DOMAIN given = 1 .. Len(given)
        BY <2>2
    <2> HIDE DEF given
    <2>4. ASSUME NEW s \in DOMAIN given
          PROVE  \E i \in Samples(s, HeadTable) : given[s] = Value(read.rows, read.metric, read.how, i)
        <3>1. PICK i \in 1 .. read.accepted :
                    /\ EndOf(HeadTable, i - 1) < s /\ s <= EndOf(HeadTable, i)
                    /\ given[s] = Value(read.rows, read.metric, read.how, i)
            BY <2>1, <2>3 DEF Placed
        <3>2. i \in DOMAIN HeadTable /\ i # 0
            BY <1>2, SummaryIsTyped DEF Tables
        <3>3. HeadTable[i].sample_offset = EndOf(HeadTable, i - 1)
            BY <1>1 DEF Continues
        <3>4. i \in Samples(s, HeadTable)
            BY <3>1, <3>2, <3>3 DEF Samples, EndOf
        <3>5. QED
            BY <3>1, <3>4
    <2>5. QED
        BY <1>1, <1>3, <1>5, <2>4 DEF HandsOut, Remembered, given, HeadTable
<1>6. QED
    BY <1>4, <1>5

\* The invariant implies ReadsAreWhole.
LEMMA WholeReadsAreWhole ==
    ASSUME IInv
    PROVE  ReadsAreWhole
<1> DEFINE given == FlattenSeq(read.given)
           first == opened.sums[Head(TablesOf[read.metric])]
           rows == [t \in Selected(read.metric, read.how) |-> opened.sums[t]]
<1>1. rows = SumsRead(read.metric, read.how) /\ DOMAIN rows = Selected(read.metric, read.how)
    BY DEF SumsRead
<1>2. CASE read.status = "running"
    <2>1. HandsOut(read) /\ ~Remembered(read) /\ read.status # "returned"
        BY <1>2, RunningHandsOut
    <2> HIDE DEF rows
    <2>2. QED
        BY <1>1, <2>1 DEF ReadsAreWhole, HandsOut, Remembered, rows
<1>3. CASE read.status = "returned"
    <2>1. IsWhole(read)
        BY <1>3 DEF IInv, ReturnsHold
    <2>2. CASE Remembered(read)
        BY <2>1, <2>2 DEF ReadsAreWhole, IsWhole, Remembered
    <2>3. CASE ~Remembered(read)
        <3>1. HandsOut(read) /\ \A t \in Selected(read.metric, read.how) : IsStream(opened.sums[t])
            BY <2>1, <2>3 DEF IsWhole
        <3>2. \A t \in DOMAIN rows : IsStream(rows[t])
            BY <3>1
        <3> HIDE DEF rows
        <3>3. QED
            BY <1>1, <1>3, <2>1, <2>3, <3>1, <3>2 DEF ReadsAreWhole, IsWhole, HandsOut, Remembered, rows
    <2>4. QED
        BY <2>2, <2>3
<1>4. QED
    BY <1>2, <1>3 DEF ReadsAreWhole

\* What the invariant says of calls and of the frames a reader keeps.
ReadsHold == FramesHold /\ GivenHold /\ RowsHold /\ SamplesHold /\ ReturnsHold

\* Steps that change neither the reader nor its call keep what was given.
LEMMA SameReadHolds ==
    ASSUME ReadsHold, opened' = opened, read' = read, known' = known
    PROVE  ReadsHold'
<1>1. FramesHold'
    BY DEF ReadsHold, FramesHold, ValidTable, TotalsAgree
<1>2. GivenHold'
    BY DEF ReadsHold, GivenHold, Given, SumsRead
<1>3. RowsHold'
    BY DEF ReadsHold, RowsHold
<1>4. SamplesHold'
    BY DEF ReadsHold, SamplesHold, PartHolds, Placed, HeadTable
<1>5. ReturnsHold'
    BY DEF ReadsHold, ReturnsHold, IsWhole, HandsOut, SumsRead, IsStream
<1>6. QED
    BY <1>1, <1>2, <1>3, <1>4, <1>5 DEF ReadsHold

\* Steps that keep the frames and the manifest keep FramesHold.
LEMMA FramesStayValid ==
    ASSUME FramesHold, opened' = opened, known' = known
    PROVE  FramesHold'
BY DEF FramesHold, ValidTable, TotalsAgree

\* The frames of a whole stream are a stream.
LEMMA ValidFramesAreStreams ==
    ASSUME NEW rows \in Tables, opened \in Manifests, ValidTable(FramesOf(rows))
    PROVE  /\ IsStream(rows) /\ IsStream(FramesOf(rows))
           /\ FramesOf(rows) \in Seq({FrameOf(rows[i]) : i \in DOMAIN rows})
           /\ Len(FramesOf(rows)) = opened.summary.accepted
<1>1. opened.summary = Summary
    BY ManifestsAreTyped
<1>2. /\ Len(rows) = Summary.accepted /\ Continues(rows, Summary.accepted)
      /\ EndOf(rows, Summary.accepted) = Summary.samples
    BY ValidTablesAreWhole
<1>3. IsStream(rows) /\ IsStream(FramesOf(rows))
    BY <1>1, <1>2, WholeTablesAreStreams
<1>4. FramesOf(rows) \in Seq({FrameOf(rows[i]) : i \in DOMAIN rows}) /\ Len(FramesOf(rows)) = Len(rows)
    BY DEF FramesOf, Tables
<1>5. QED
    BY <1>1, <1>2, <1>3, <1>4

\* A read of everything gives the whole of its tables, or what the reader kept.
LEMMA ReadAllReadsWhole ==
    ASSUME IInv, NEW m \in StoredMetrics, NEW how \in Hows, NEW large \in BOOLEAN,
           ReadAll(m, how, large)
    PROVE  ReadsHold'
<1>1. opened \in Manifests /\ opened' = opened
    BY ReadAllOutcomes DEF IInv
<1>2. read'.status # "running" =>
        GivenHold' /\ RowsHold' /\ SamplesHold'
    BY DEF GivenHold, RowsHold, SamplesHold
<1>3. CASE ReadsFrames(m, how)
    <2>1. /\ read'.status = "returned" /\ read'.how = "frames" /\ read'.batch = 0
          /\ read'.given = <<known>> /\ known' = known /\ known # NoFrames
        BY <1>3 DEF ReadsFrames, Called
    <2>2. PICK t \in StoredTables : known = FramesOf(opened.sums[t])
        BY <2>1 DEF IInv, FramesHold
    <2>3. opened.sums[t] \in Tables /\ ValidTable(FramesOf(opened.sums[t]))
        BY <1>1, <2>1, <2>2, ManifestsAreTyped DEF IInv, FramesHold
    <2>4. /\ IsStream(known) /\ Len(known) = opened.summary.accepted
          /\ known \in Seq({FrameOf(opened.sums[t][i]) : i \in DOMAIN opened.sums[t]})
        BY <1>1, <2>2, <2>3, ValidFramesAreStreams
    <2>5. FlattenSeq(read'.given) = known
        BY <2>1, <2>4, FlattenedOne
    <2>6. IsStream(known)'
        BY <1>1, <2>1, <2>4 DEF IsStream
    <2>7. IsWhole(read)'
        <3>1. Remembered(read')
            BY <2>1 DEF Remembered
        <3>2. QED
            BY <1>1, <2>1, <2>4, <2>5, <2>6, <3>1 DEF IsWhole
    <2>8. FramesHold'
        BY <1>1, <2>1, FramesStayValid DEF IInv
    <2>9. QED
        BY <1>2, <2>1, <2>7, <2>8 DEF ReadsHold, ReturnsHold
<1>4. CASE ReadsSound(m, how)
    <2> DEFINE head == opened.sums[Head(TablesOf[m])]
               rows == SumsRead(m, how)
               given == FlattenSeq(Repeated(rows, m, how))
    <2>1. /\ read'.status = "returned" /\ read'.how = how /\ read'.batch = 0 /\ read'.metric = m
          /\ read'.given = <<given>> /\ known' = FramesOf(head)
        BY <1>4 DEF ReadsSound, Called
    <2>2. /\ Selected(m, how) \subseteq StoredTables /\ Head(TablesOf[m]) \in Selected(m, how)
          /\ opened.summary = Summary /\ \A t \in StoredTables : opened.sums[t] \in Tables
        BY <1>1, TablesOfMetric, ManifestsAreTyped
    <2>3. /\ ValidTable(FramesOf(head))
          /\ \A t \in Selected(m, how) : /\ Len(opened.sums[t]) = Summary.accepted
                                         /\ FramesOf(opened.sums[t]) = FramesOf(head)
        BY <1>4 DEF ReadsSound, IsSound
    <2>4. /\ head \in Tables /\ Len(head) = Summary.accepted /\ DOMAIN head = 1 .. Summary.accepted
          /\ Continues(head, Summary.accepted) /\ EndOf(head, Summary.accepted) = Summary.samples
        BY <1>1, <2>2, <2>3, ValidTablesAreWhole
    <2>5. /\ IsStream(FramesOf(head)) /\ Len(FramesOf(head)) = Summary.accepted
          /\ FramesOf(head) \in Seq({FrameOf(head[i]) : i \in DOMAIN head})
        BY <1>1, <2>2, <2>3, <2>4, ValidFramesAreStreams
    <2>6. \A t \in Selected(m, how) : IsStream(opened.sums[t])
        BY <1>1, <2>2, <2>3, ValidFramesAreStreams
    <2>7. FramesHold'
        BY <1>1, <2>1, <2>2, <2>3 DEF FramesHold, ValidTable, TotalsAgree
    <2>8. rows[Head(TablesOf[m])] = head
        BY <2>2 DEF SumsRead
    <2>9. Summary.accepted \in Nat
        BY SummaryIsTyped
    <2> HIDE DEF rows, given, head
    <2>10. IsStream(known)' /\ \A t \in Selected(m, how) : IsStream(opened.sums[t])'
        BY <1>1, <2>1, <2>5, <2>6 DEF IsStream
    <2>11. CASE how # "samples"
        <3>1. given = [i \in 1 .. Summary.accepted |-> Value(rows, m, how, i)]
            BY <2>4, <2>8, <2>9, <2>11, RowsAreGivenOnce DEF given
        <3>2. given \in Seq({Value(rows, m, how, i) : i \in 1 .. Summary.accepted})
              /\ Len(given) = Summary.accepted /\ DOMAIN given = 1 .. Summary.accepted
            BY <2>9, <3>1
        <3>3. FlattenSeq(read'.given) = given
            BY <2>1, <3>2, FlattenedOne
        <3>4. CASE how = "frames"
            <4>1. \A i \in 1 .. Summary.accepted : given[i] = FrameOf(head[i])
                BY <2>8, <3>1, <3>4, FrameValue
            <4>2. given = FramesOf(head)
                BY <2>4, <3>1, <4>1 DEF FramesOf
            <4>3. Remembered(read')
                BY <2>1, <3>4 DEF Remembered
            <4>4. IsWhole(read)'
                BY <1>1, <2>1, <2>2, <2>10, <2>11, <3>2, <3>3, <4>2, <4>3 DEF IsWhole
            <4>5. QED
                BY <1>2, <2>1, <2>7, <4>4 DEF ReadsHold, ReturnsHold
        <3>5. CASE how # "frames"
            <4>1. SumsRead(m, how)' = rows
                BY <1>1 DEF SumsRead, rows
            <4>2. HandsOut(read)'
                <5>1. \A s \in DOMAIN given : given[s] = Value(rows, m, how, s)
                    BY <3>1
                <5>2. ~(read'.batch > 0)
                    BY <2>1
                <5>3. QED
                    BY <2>1, <2>11, <3>3, <4>1, <5>1, <5>2 DEF HandsOut
            <4>3. ~Remembered(read')
                BY <2>1, <3>5 DEF Remembered
            <4>4. IsWhole(read)'
                BY <1>1, <2>1, <2>2, <2>10, <2>11, <3>2, <3>3, <4>2, <4>3 DEF IsWhole
            <4>5. QED
                BY <1>2, <2>1, <2>7, <4>4 DEF ReadsHold, ReturnsHold
        <3>6. QED
            BY <3>4, <3>5
    <2>12. CASE how = "samples"
        <3>1. /\ given \in Seq({Value(rows, m, "samples", i) : i \in 1 .. Summary.accepted})
              /\ Len(given) = EndOf(head, Summary.accepted)
              /\ \A s \in 1 .. Len(given) : \E i \in 1 .. Summary.accepted :
                    /\ EndOf(head, i - 1) < s /\ s <= EndOf(head, i)
                    /\ given[s] = Value(rows, m, "samples", i)
            <4>1. given = FlattenSeq(Repeated(rows, m, "samples"))
                BY <2>12 DEF given
            <4>2. GivenAgain(FlattenSeq(Repeated(rows, m, "samples")), rows, m, Summary.accepted, head)
                BY <2>4, <2>8, <2>9, RowsAreGivenAgain
            <4>3. QED
                BY <4>1, <4>2, Zenon DEF GivenAgain
        <3>2. FlattenSeq(read'.given) = given
            BY <2>1, <3>1, FlattenedOne
        <3>3. SumsRead(m, how)' = rows
            BY <1>1 DEF SumsRead, rows
        <3>4. ASSUME NEW s \in DOMAIN given
              PROVE  \E i \in Samples(s, head) : given[s] = Value(rows, m, "samples", i)
            <4>1. s \in 1 .. Len(given)
                BY <3>1
            <4>2. PICK i \in 1 .. Summary.accepted :
                    /\ EndOf(head, i - 1) < s /\ s <= EndOf(head, i)
                    /\ given[s] = Value(rows, m, "samples", i)
                BY <3>1, <4>1
            <4>3. i \in DOMAIN head /\ i # 0 /\ head[i].sample_offset = EndOf(head, i - 1)
                BY <2>4 DEF Continues
            <4>4. i \in Samples(s, head)
                BY <4>2, <4>3 DEF Samples, EndOf
            <4>5. QED
                BY <4>2, <4>4
        <3>5. HandsOut(read)'
            <4>1. ~(read'.batch > 0)
                BY <2>1
            <4>2. opened'.sums[Head(TablesOf[read'.metric])] = head
                BY <1>1, <2>1 DEF head
            <4>3. QED
                BY <2>1, <2>12, <3>2, <3>3, <3>4, <4>1, <4>2 DEF HandsOut
        <3>6. ~Remembered(read')
            BY <2>1, <2>12 DEF Remembered
        <3>7. IsWhole(read)'
            BY <1>1, <2>1, <2>2, <2>4, <2>10, <2>12, <3>1, <3>2, <3>5, <3>6 DEF IsWhole
        <3>8. QED
            BY <1>2, <2>1, <2>7, <3>7 DEF ReadsHold, ReturnsHold
    <2>13. QED
        BY <2>11, <2>12
<1>5. CASE Refuses(m, how, 0)
    <2>1. read'.status = "raised" /\ known' = known
        BY <1>5 DEF Refuses, Called
    <2>2. FramesHold'
        BY <1>1, <2>1, FramesStayValid DEF IInv
    <2>3. QED
        BY <1>2, <2>1, <2>2 DEF ReadsHold, ReturnsHold
<1>6. QED
    BY <1>3, <1>4, <1>5, ReadAllOutcomes DEF IInv

\* A call by batches begins with nothing given, or is refused.
LEMMA StartBatchesReadsWhole ==
    ASSUME IInv, NEW m \in StoredMetrics, NEW how \in Hows, NEW batch \in BatchSizes,
           NEW large \in BOOLEAN, StartBatches(m, how, batch, large)
    PROVE  ReadsHold'
<1>1. opened' = opened /\ known' = known
    BY StartBatchesOutcomes DEF IInv
<1>2. FramesHold'
    BY <1>1, FramesStayValid DEF IInv
<1>3. CASE StartsBatches(m, how, batch)
    <2>1. /\ read'.status = "running" /\ read'.how = how /\ read'.metric = m /\ read'.given = <<>>
          /\ read'.part = <<>> /\ read'.row = 1 /\ read'.accepted = 0 /\ read'.sampleStart = 0
        BY <1>3 DEF StartsBatches
    <2>2. FlattenSeq(read'.given) = <<>> /\ Len(FlattenSeq(read'.given)) = 0 /\ Len(read'.part) = 0
        BY <2>1, NothingFlattened
    <2>3. GivenHold'
        BY <2>1 DEF GivenHold
    <2>4. RowsHold'
        <3>1. 1 .. 0 = {}
            OBVIOUS
        <3>2. [i \in 1 .. 0 |-> Value(read'.rows, read'.metric, read'.how, i)] = <<>>
            BY <3>1
        <3>3. QED
            BY <2>1, <2>2, <3>2 DEF RowsHold
    <2>5. SamplesHold'
        <3>1. PartHolds(0)'
            <4>1. [i \in 1 .. 0 |->
                        [value |-> Value(read'.rows, read'.metric, read'.how, 0 - 0 + i),
                         repetitions |-> HeadTable'[0 - 0 + i].repetitions]] = <<>>
                OBVIOUS
            <4>2. ~(1 <= 0) /\ 1 \in 1 .. (0 + 1)
                OBVIOUS
            <4>3. EndOf(HeadTable', 0) = 0
                BY DEF EndOf
            <4>4. QED
                BY <2>1, <2>2, <4>1, <4>2, <4>3 DEF PartHolds
        <3>2. 0 \in 0 .. read'.accepted
            BY <2>1
        <3>3. Placed(FlattenSeq(read.given), read.accepted)'
            BY <2>2 DEF Placed
        <3>4. QED
            BY <2>1, <2>2, <3>1, <3>2, <3>3 DEF SamplesHold
    <2>6. QED
        BY <1>2, <2>1, <2>3, <2>4, <2>5 DEF ReadsHold, ReturnsHold
<1>4. CASE Refuses(m, how, batch)
    <2>1. read'.status = "raised"
        BY <1>4 DEF Refuses, Called
    <2>2. QED
        BY <1>2, <2>1 DEF ReadsHold, GivenHold, RowsHold, SamplesHold, ReturnsHold
<1>5. QED
    BY <1>3, <1>4, StartBatchesOutcomes DEF IInv

\* A call that has raised holds nothing.
LEMMA RaisedHoldsNothing ==
    ASSUME BatchesHold, read.status = "running", FramesHold, opened' = opened, known' = known,
           read' = [read EXCEPT !.status = "raised"]
    PROVE  ReadsHold'
<1>1. read'.status = "raised"
    BY DEF BatchesHold, BatchFields
<1>2. FramesHold'
    BY FramesStayValid
<1>3. QED
    BY <1>1, <1>2 DEF ReadsHold, GivenHold, RowsHold, SamplesHold, ReturnsHold

\* The batches given go on with one that is not empty and not too large.
LEMMA GivenGoesOn ==
    ASSUME GivenHold, read.status = "running", SameCall, opened' = opened,
           NEW x \in Seq(Given(read.metric, read.how)), read'.given = Append(read.given, x),
           Len(x) \in 1 .. read.batch
    PROVE  /\ GivenHold'
           /\ FlattenSeq(read'.given) = FlattenSeq(read.given) \o x
           /\ FlattenSeq(read.given) \in Seq(Given(read.metric, read.how))
<1>1. /\ read.given \in Seq(Seq(Given(read.metric, read.how)))
      /\ \A k \in DOMAIN read.given : Len(read.given[k]) \in 1 .. read.batch
    BY DEF GivenHold
<1>2. Given(read.metric, read.how)' = Given(read.metric, read.how)
    BY DEF SameCall, Given, SumsRead
<1>3. /\ FlattenSeq(read'.given) = FlattenSeq(read.given) \o x
      /\ FlattenSeq(read.given) \in Seq(Given(read.metric, read.how))
    BY <1>1, FlattenedAppend
<1> DEFINE G == Given(read.metric, read.how)
           old == read.given
           b == read.batch
<1>4. old \in Seq(Seq(G)) /\ (\A k \in DOMAIN old : Len(old[k]) \in 1 .. b) /\ x \in Seq(G)
      /\ Len(x) \in 1 .. b
    BY <1>1
<1> HIDE DEF G, old, b
<1>5. Append(old, x) \in Seq(Seq(G)) /\ \A k \in DOMAIN Append(old, x) : Len(Append(old, x)[k]) \in 1 .. b
    <2>1. /\ Append(old, x) \in Seq(Seq(G)) /\ DOMAIN Append(old, x) = 1 .. Len(old) + 1
          /\ DOMAIN old = 1 .. Len(old) /\ Len(old) \in Nat
          /\ \A k \in 1 .. Len(old) : Append(old, x)[k] = old[k]
          /\ Append(old, x)[Len(old) + 1] = x
        BY <1>4
    <2>2. QED
        BY <1>4, <2>1
<1>6. read'.given \in Seq(Seq(G)) /\ \A k \in DOMAIN read'.given : Len(read'.given[k]) \in 1 .. b
    BY <1>5 DEF old
<1>7. GivenHold'
    BY <1>2, <1>6 DEF GivenHold, SameCall, G, b
<1>8. QED
    BY <1>3, <1>7

\* What is given, batches put together, is a sequence of rows of the tables.
LEMMA GivenIsASequence ==
    ASSUME GivenHold, read.status = "running"
    PROVE  FlattenSeq(read.given) \in Seq(Given(read.metric, read.how))
<1>1. read.given \in Seq(Seq(Given(read.metric, read.how)))
    BY DEF GivenHold
<1>2. <<>> \in Seq(Given(read.metric, read.how))
    OBVIOUS
<1>3. QED
    BY <1>1, <1>2, FlattenedAppend

\* Batches that are not added to stay what they were.
LEMMA GivenStays ==
    ASSUME GivenHold, read.status = "running", SameCall, opened' = opened, read'.given = read.given
    PROVE  GivenHold'
<1>1. Given(read.metric, read.how)' = Given(read.metric, read.how)
    BY DEF SameCall, Given, SumsRead
<1>2. QED
    BY <1>1 DEF GivenHold, SameCall

\* A further part gives the next rows, or keeps them to be repeated.
LEMMA NextPartReadsWhole ==
    ASSUME IInv, NEW n \in 1 .. Summary.accepted, NextPart(n)
    PROVE  ReadsHold'
<1>1. /\ read.status = "running" /\ read.row > Len(read.part) /\ n \in 1 .. read.batch
      /\ read.accepted + n <= Summary.accepted /\ UNCHANGED <<stored, opened, known>>
      /\ read.accepted \in Nat /\ n \in Nat \ {0}
      /\ HeadTable \in Tables /\ Len(HeadTable) = Summary.accepted
    BY NextPartOutcomes, BatchFacts, SummaryIsTyped DEF IInv
<1>2. CASE read' = [read EXCEPT !.status = "raised"]
    BY <1>1, <1>2, RaisedHoldsNothing DEF IInv
<1>3. CASE ReadsPart(n)
    <2>1. /\ SameCall /\ PartContinues(n) /\ read'.accepted = read.accepted + n
          /\ read'.sampleStart = read.sampleStart /\ read'.row = 1
        BY <1>3 DEF ReadsPart
    <2>2. HeadTable' = HeadTable /\ read'.status = "running"
        BY <1>1, <2>1 DEF HeadTable, SameCall
    <2>3. FramesHold'
        BY <1>1, FramesStayValid DEF IInv
    <2>4. read.rows = SumsRead(read.metric, read.how)
        BY <1>1 DEF IInv, BatchesHold
    <2>5. CASE read.how # "samples"
        <3>1. read'.given = Append(read.given, PartGiven(n)) /\ read'.part = read.part
            BY <1>3, <2>5 DEF ReadsPart
        <3>2. PartGiven(n) \in Seq(Given(read.metric, read.how)) /\ Len(PartGiven(n)) = n
            <4>1. \A i \in 1 .. n : read.accepted + i \in 1 .. Summary.accepted
                BY <1>1, SummaryIsTyped
            <4>2. \A i \in 1 .. n : Value(read.rows, read.metric, read.how, read.accepted + i)
                                      \in Given(read.metric, read.how)
                BY <2>4, <4>1 DEF Given
            <4>3. QED
                BY <1>1, <4>2 DEF PartGiven
        <3>3. GivenHold' /\ FlattenSeq(read'.given) = FlattenSeq(read.given) \o PartGiven(n)
            BY <1>1, <2>1, <3>1, <3>2, GivenGoesOn DEF IInv
        <3>4. /\ read.part = <<>> /\ read.row = 1
              /\ FlattenSeq(read.given)
                   = [i \in 1 .. read.accepted |-> Value(read.rows, read.metric, read.how, i)]
            BY <1>1, <2>5 DEF IInv, RowsHold
        <3>5. FlattenSeq(read.given) \o PartGiven(n)
                = [i \in 1 .. (read.accepted + n) |-> Value(read.rows, read.metric, read.how, i)]
            <4> DEFINE V(i) == Value(read.rows, read.metric, read.how, i)
                       a == read.accepted
                       X == {V(i) : i \in 1 .. (a + n)}
                       s == [i \in 1 .. a |-> V(i)]
                       t == [i \in 1 .. n |-> V(a + i)]
            <4>1. a \in Nat /\ n \in Nat
                BY <1>1
            <4> HIDE DEF a, V
            <4>2. s \in Seq(X) /\ t \in Seq(X) /\ Len(s) = a /\ Len(t) = n
                  /\ (\A i \in 1 .. a : s[i] = V(i)) /\ (\A i \in 1 .. n : t[i] = V(a + i))
                <5>1. (\A i \in 1 .. a : i \in 1 .. (a + n)) /\ (\A i \in 1 .. n : a + i \in 1 .. (a + n))
                    BY <4>1
                <5>2. (\A i \in 1 .. a : V(i) \in X) /\ (\A i \in 1 .. n : V(a + i) \in X)
                    BY <5>1
                <5> HIDE DEF X
                <5>3. QED
                    BY <4>1, <5>2
            <4> HIDE DEF s, t, X
            <4>3. /\ s \o t \in Seq(X) /\ Len(s \o t) = a + n
                  /\ \A i \in 1 .. a : (s \o t)[i] = s[i]
                  /\ \A i \in 1 .. n : (s \o t)[a + i] = t[i]
                BY <4>2
            <4>4. ASSUME NEW i \in 1 .. (a + n)
                  PROVE  (s \o t)[i] = V(i)
                <5>1. CASE i <= a
                    <6>1. i \in 1 .. a
                        BY <4>1, <5>1
                    <6>2. (s \o t)[i] = s[i] /\ s[i] = V(i)
                        BY <4>2, <4>3, <6>1
                    <6>3. QED
                        BY <6>2, Zenon
                <5>2. CASE ~(i <= a)
                    <6>1. PICK j \in 1 .. n : i = a + j
                        <7>1. i - a \in 1 .. n /\ i = a + (i - a)
                            BY <4>1, <5>2
                        <7>2. QED
                            BY <7>1
                    <6>2. (s \o t)[a + j] = t[j]
                        BY <4>3
                    <6>3. t[j] = V(a + j)
                        BY <4>2
                    <6>4. QED
                        BY <6>1, <6>2, <6>3, Zenon
                <5>3. QED
                    BY <5>1, <5>2
            <4>5. s \o t = [i \in 1 .. (a + n) |-> V(i)]
                <5>1. s \o t \in Seq(X) /\ Len(s \o t) = a + n
                    BY <4>3
                <5>2. s \o t = [i \in 1 .. (a + n) |-> (s \o t)[i]]
                    BY <5>1, SequencesAreOfTheirElements, Zenon
                <5>3. [i \in 1 .. (a + n) |-> (s \o t)[i]] = [i \in 1 .. (a + n) |-> V(i)]
                    BY <4>4, Zenon
                <5>4. QED
                    BY <5>2, <5>3, Zenon
            <4>6. FlattenSeq(read.given) = s /\ PartGiven(n) = t
                BY <3>4 DEF s, t, V, a, PartGiven
            <4>7. QED
                BY <4>5, <4>6, Zenon DEF V, a
        <3>6. RowsHold'
            BY <2>1, <3>1, <3>3, <3>4, <3>5 DEF RowsHold, SameCall
        <3>7. SamplesHold' /\ ReturnsHold'
            BY <2>1, <2>2, <2>5 DEF SamplesHold, ReturnsHold, SameCall
        <3>8. QED
            BY <2>3, <3>3, <3>6, <3>7 DEF ReadsHold
    <2>6. CASE read.how = "samples"
        <3>1. /\ read'.given = read.given /\ read'.part = PartKept(n)
              /\ read'.remaining = HeadTable[read.accepted + 1].repetitions
            BY <1>3, <2>6 DEF ReadsPart
        <3>2. GivenHold'
            BY <1>1, <2>1, <3>1, GivenStays DEF IInv
        <3>3. RowsHold' /\ ReturnsHold'
            BY <2>1, <2>2, <2>6 DEF RowsHold, ReturnsHold, SameCall
        <3>4. PICK count \in 0 .. read.accepted : PartHolds(count)
            BY <1>1, <2>6 DEF IInv, SamplesHold
        <3>5. read.sampleStart = EndOf(HeadTable, read.accepted)
            BY <1>1, <3>4 DEF PartHolds
        <3>6. PartHolds(n)'
            <4>1. read'.accepted - n = read.accepted
                BY <1>1, <2>1
            <4>2. PartKept(n) = [i \in 1 .. n |->
                        [value |-> Value(read'.rows, read'.metric, read'.how, read.accepted + i),
                         repetitions |-> HeadTable'[read.accepted + i].repetitions]]
                BY <2>1, <2>2 DEF PartKept, SameCall
            <4>3. Len(PartKept(n)) = n
                BY <1>1 DEF PartKept
            <4>4. /\ EndOf(HeadTable, read.accepted + 1)
                        = EndOf(HeadTable, read.accepted) + HeadTable[read.accepted + 1].repetitions
                  /\ HeadTable[read.accepted + 1].repetitions \in Nat \ {0}
                  /\ EndOf(HeadTable, read.accepted) \in Nat
                <5>1. /\ read.accepted + n \in 0 .. Len(HeadTable)
                      /\ Continues(HeadTable, read.accepted + n)
                    BY <1>1, <2>1 DEF PartContinues
                <5>2. PICK l \in 0 .. Len(HeadTable) : l = read.accepted + n
                    BY <5>1
                <5>3. /\ \A i \in 1 .. l : /\ EndOf(HeadTable, i) = EndOf(HeadTable, i - 1) + HeadTable[i].repetitions
                                           /\ HeadTable[i].repetitions \in Nat \ {0}
                      /\ \A i \in 0 .. l : EndOf(HeadTable, i) \in Nat
                    BY <1>1, <5>1, <5>2, EndsAreOfRepetitions
                <5>4. PICK i \in 1 .. l : i = read.accepted + 1
                    BY <1>1, <5>2
                <5>5. i - 1 = read.accepted /\ i - 1 \in 0 .. l
                    BY <1>1, <5>2, <5>4
                <5>6. QED
                    BY <5>3, <5>4, <5>5
            <4>5. 1 \in 1 .. (n + 1) /\ 1 <= n /\ ~(1 > n)
                BY <1>1
            <4>6. /\ read'.remaining \in 1 .. HeadTable'[read.accepted + 1].repetitions
                  /\ read'.sampleStart = EndOf(HeadTable', read.accepted + 1) - read'.remaining
                BY <2>1, <2>2, <3>1, <3>5, <4>4
            <4>7. QED
                BY <2>1, <3>1, <4>1, <4>2, <4>3, <4>5, <4>6 DEF PartHolds
        <3>7. Len(FlattenSeq(read'.given)) = read'.sampleStart
            BY <1>1, <2>1, <2>6, <3>1 DEF IInv, SamplesHold
        <3>8. Placed(FlattenSeq(read.given), read.accepted)'
            <4>1. Placed(FlattenSeq(read.given), read.accepted)
                BY <1>1, <2>6 DEF IInv, SamplesHold
            <4>2. \A i \in 1 .. read.accepted : i \in 1 .. read'.accepted
                BY <1>1, <2>1
            <4>3. QED
                BY <2>1, <2>2, <3>1, <4>1, <4>2 DEF Placed, SameCall
        <3>9. SamplesHold'
            <4>1. n \in 0 .. read'.accepted
                BY <1>1, <2>1
            <4>2. QED
                BY <3>6, <3>7, <3>8, <4>1 DEF SamplesHold
        <3>10. QED
            BY <2>3, <3>2, <3>3, <3>9 DEF ReadsHold
    <2>7. QED
        BY <2>5, <2>6
<1>4. QED
    BY <1>2, <1>3, NextPartOutcomes DEF IInv

\* Where the rows of a part that are left end, seen from the samples given so far.
LeftEnd(first, start, j) == IF j = 0 THEN 0 ELSE EndOf(HeadTable, first + j) - start

\* The n rows of a part that are left come after the first so many of the table.
LeftInOrder(count, n, first, e) ==
    /\ n \in Nat \ {0} /\ first \in Nat /\ first + n = read.accepted
    /\ Len(read.part) = count /\ n = Len(read.part) + 1 - read.row
    /\ read.row \in Nat \ {0} /\ read.sampleStart \in Nat
    /\ EndOf(HeadTable, first) <= read.sampleStart
    /\ EndOf(HeadTable, first) \in Nat
    /\ LeftEnds(read.part, read.row, read.remaining, e)
    /\ \A i \in 1 .. n :
         /\ LeftOf(read.part, read.row, read.remaining, read.row - 1 + i) \in Nat
         /\ LeftOf(read.part, read.row, read.remaining, read.row - 1 + i)
              <= HeadTable[first + i].repetitions
         /\ HeadTable[first + i].repetitions \in Nat
         /\ read.part[read.row - 1 + i].value
              = Value(read.rows, read.metric, read.how, first + i)
    /\ e[n] = read.offset - read.sampleStart /\ read.offset \in Nat
    /\ \A j \in 1 .. n : e[j] = EndOf(HeadTable, first + j) - read.sampleStart
    /\ \A j \in 0 .. n : EndOf(HeadTable, first + j) \in Nat
    /\ e[0] = 0 /\ e[1] \in Nat \ {0} /\ e[1] <= e[n]

\* What is left of a part is in order, ends where its rows do, and fills what the samples lack.
LEMMA LeftOfPart ==
    ASSUME IInv, read.status = "running", read.how = "samples",
           NEW count \in 0 .. read.accepted, PartHolds(count), read.row <= Len(read.part),
           NEW n, n = count + 1 - read.row, NEW first, first = read.accepted - count + read.row - 1,
           NEW e, e = [j \in 0 .. n |-> LeftEnd(first, read.sampleStart, j)]
    PROVE  LeftInOrder(count, n, first, e)
<1> DEFINE a == read.accepted
           before == a - count
           row == read.row
           H == HeadTable
           start == read.sampleStart
<1>1. /\ a \in Nat /\ a <= Summary.accepted /\ H \in Tables /\ Len(H) = Summary.accepted
      /\ Continues(H, a) /\ read.offset = EndOf(H, a)
    BY BatchFacts, SummaryIsTyped DEF IInv, BatchesHold
<1>2. /\ Len(read.part) = count
      /\ read.part = [i \in 1 .. count |->
                        [value |-> Value(read.rows, read.metric, read.how, before + i),
                         repetitions |-> H[before + i].repetitions]]
      /\ row \in 1 .. (count + 1) /\ row <= count
      /\ read.remaining \in 1 .. H[before + row].repetitions
      /\ start = EndOf(H, before + row) - read.remaining
    BY DEF PartHolds
<1>3. /\ \A i \in 1 .. a : /\ EndOf(H, i) = EndOf(H, i - 1) + H[i].repetitions
                           /\ H[i].repetitions \in Nat \ {0}
      /\ \A i \in 0 .. a : EndOf(H, i) \in Nat
      /\ \A i, j \in 0 .. a : i <= j => EndOf(H, i) <= EndOf(H, j)
    <2>1. a \in 0 .. Len(H)
        BY <1>1, SummaryIsTyped
    <2>2. QED
        BY <1>1, <2>1, EndsAreOfRepetitions
<1>d. /\ n = count + 1 - row /\ before = a - count /\ count \in 0 .. a
      /\ first = a - count + row - 1
    OBVIOUS
<1> HIDE DEF a, row, H, start, before
<1>4. /\ n \in Nat \ {0} /\ first \in Nat /\ first + n = a /\ row \in Nat \ {0}
      /\ n = count + 1 - row /\ first = before + row - 1 /\ before \in Nat /\ before + count = a
      /\ before + row = first + 1 /\ first + 1 \in 1 .. a /\ first \in 0 .. a
      /\ first + 1 - 1 = first
    <2>1. a \in Nat /\ row \in Nat \ {0} /\ row <= count /\ count \in Nat /\ count <= a
        BY <1>1, <1>2, <1>d
    <2>2. QED
        BY <1>d, <2>1
<1>5. /\ EndOf(H, first + 1) = EndOf(H, first) + H[first + 1].repetitions
      /\ EndOf(H, first) \in Nat /\ H[first + 1].repetitions \in Nat
      /\ EndOf(H, first + 1) \in Nat
    <2>1. PICK i \in 1 .. a : i = first + 1
        BY <1>4
    <2>2. i - 1 = first /\ i \in 0 .. a
        BY <1>1, <1>4, <2>1
    <2>3. EndOf(H, i) = EndOf(H, i - 1) + H[i].repetitions
          /\ H[i].repetitions \in Nat /\ EndOf(H, i) \in Nat
        BY <1>3, <2>2
    <2>4. EndOf(H, first) \in Nat
        BY <1>3, <1>4
    <2>5. QED
        BY <2>1, <2>2, <2>3, <2>4
<1>6. /\ read.remaining \in 1 .. H[first + 1].repetitions
      /\ start = EndOf(H, first + 1) - read.remaining
    BY <1>2, <1>4
<1>7. start \in Nat /\ EndOf(H, first) <= start
    BY <1>5, <1>6
<1>8. ASSUME NEW i \in 1 .. n
      PROVE  /\ first + i \in 1 .. a /\ first + i - 1 \in 0 .. a /\ first + i - 1 = first + (i - 1)
             /\ row - 1 + i \in 1 .. count /\ before + (row - 1 + i) = first + i
             /\ read.part[row - 1 + i].value = Value(read.rows, read.metric, read.how, first + i)
             /\ read.part[row - 1 + i].repetitions = H[first + i].repetitions
             /\ H[first + i].repetitions \in Nat
             /\ EndOf(H, first + i) = EndOf(H, first + (i - 1)) + H[first + i].repetitions
    <2>1. /\ first + i \in 1 .. a /\ first + i - 1 \in 0 .. a /\ first + i - 1 = first + (i - 1)
          /\ row - 1 + i \in 1 .. count /\ before + (row - 1 + i) = first + i
        <3>1. a \in Nat /\ row \in Nat \ {0} /\ count \in Nat /\ before \in Nat /\ first \in Nat
              /\ n \in Nat /\ first + n = a /\ n = count + 1 - row /\ first = before + row - 1
            <4>1. a \in Nat
                BY <1>1
            <4>2. count \in Nat
                BY <1>d, <4>1
            <4>3. QED
                BY <1>4, <4>1, <4>2
        <3>2. QED
            BY <3>1
    <2>2. PICK l \in 1 .. a : l = first + i
        BY <2>1
    <2>3. PICK q \in 1 .. count : q = row - 1 + i
        BY <2>1
    <2>4. /\ read.part[q].value = Value(read.rows, read.metric, read.how, before + q)
          /\ read.part[q].repetitions = H[before + q].repetitions
        BY <1>2
    <2>5. EndOf(H, l) = EndOf(H, l - 1) + H[l].repetitions /\ H[l].repetitions \in Nat
        BY <1>3
    <2>6. before + q = first + i /\ l - 1 = first + (i - 1)
        BY <2>1, <2>2, <2>3
    <2>7. /\ read.part[row - 1 + i].value = Value(read.rows, read.metric, read.how, first + i)
          /\ read.part[row - 1 + i].repetitions = H[first + i].repetitions
        BY <2>3, <2>4, <2>6, Zenon
    <2>8. H[first + i].repetitions \in Nat
          /\ EndOf(H, first + i) = EndOf(H, first + (i - 1)) + H[first + i].repetitions
        BY <2>2, <2>5, <2>6
    <2>9. QED
        BY <2>1, <2>7, <2>8
<1>9. ASSUME NEW i \in 1 .. n
      PROVE  /\ LeftOf(read.part, row, read.remaining, row - 1 + i) \in Nat
             /\ LeftOf(read.part, row, read.remaining, row - 1 + i) <= H[first + i].repetitions
    <2>1. CASE i = 1
        <3>1. row - 1 + i = row
            BY <1>4, <2>1
        <3>2. LeftOf(read.part, row, read.remaining, row - 1 + i) = read.remaining
            BY <3>1 DEF LeftOf
        <3>3. QED
            BY <1>5, <1>6, <2>1, <3>2
    <2>2. CASE i # 1
        <3>1. row - 1 + i # row
            BY <1>4, <2>2
        <3>2. LeftOf(read.part, row, read.remaining, row - 1 + i) = read.part[row - 1 + i].repetitions
            BY <3>1 DEF LeftOf
        <3>3. QED
            BY <1>8, <3>2
    <2>3. QED
        BY <2>1, <2>2
<1>10. /\ e[0] = 0
       /\ \A j \in 1 .. n : e[j] = EndOf(H, first + j) - start
    <2>1. 0 \in 0 .. n /\ \A j \in 1 .. n : j \in 0 .. n /\ j # 0
        BY <1>4
    <2>2. \A j \in 0 .. n : e[j] = LeftEnd(first, start, j)
        BY DEF start
    <2>3. QED
        BY <2>1, <2>2 DEF LeftEnd, H
<1>11. \A j \in 0 .. n : EndOf(H, first + j) \in Nat
    <2>1. \A j \in 0 .. n : first + j \in 0 .. a
        BY <1>1, <1>4
    <2>2. QED
        BY <1>3, <2>1
<1>12. ASSUME NEW i \in 1 .. n
       PROVE  /\ e[i] = e[i - 1] + LeftOf(read.part, row, read.remaining, row - 1 + i)
              /\ e[i] \in Nat /\ e[1] <= e[i] /\ e[1] \in Nat \ {0}
    <2>1. 1 \in 1 .. n /\ e[1] = EndOf(H, first + 1) - start /\ e[1] = read.remaining
          /\ e[1] \in Nat \ {0}
        <3>1. 1 \in 1 .. n
            BY <1>4
        <3>2. e[1] = EndOf(H, first + 1) - start
            BY <1>10, <3>1
        <3>3. EndOf(H, first + 1) - start = read.remaining /\ read.remaining \in Nat \ {0}
            BY <1>5, <1>6
        <3>4. QED
            BY <3>1, <3>2, <3>3
    <2>2. CASE i = 1
        <3>1. row - 1 + i = row /\ i - 1 = 0
            BY <1>4, <2>2
        <3>2. LeftOf(read.part, row, read.remaining, row - 1 + i) = read.remaining
            BY <3>1 DEF LeftOf
        <3>3. QED
            BY <1>10, <2>1, <2>2, <3>1, <3>2
    <2>3. CASE i # 1
        <3>1. row - 1 + i # row /\ i - 1 \in 1 .. n
            BY <1>4, <2>3
        <3>2. LeftOf(read.part, row, read.remaining, row - 1 + i) = H[first + i].repetitions
            BY <1>8, <3>1 DEF LeftOf
        <3>3. e[i] = EndOf(H, first + i) - start /\ e[i - 1] = EndOf(H, first + (i - 1)) - start
            BY <1>10, <3>1
        <3>4. /\ EndOf(H, first + i) = EndOf(H, first + (i - 1)) + H[first + i].repetitions
              /\ H[first + i].repetitions \in Nat
            BY <1>8
        <3>5. EndOf(H, first + (i - 1)) \in Nat /\ EndOf(H, first + i) \in Nat
            <4>1. i - 1 \in 0 .. n /\ i \in 0 .. n
                BY <3>1
            <4>2. QED
                BY <1>11, <4>1
        <3>6. EndOf(H, first + 1) <= EndOf(H, first + i)
            <4>1. first + i \in 0 .. a /\ first + 1 \in 0 .. a /\ first + 1 <= first + i
                BY <1>1, <1>4
            <4>2. QED
                BY <1>3, <4>1
        <3>7. PICK x \in Nat, y \in Nat, z \in Nat, r \in Nat :
                /\ x = EndOf(H, first + 1) /\ y = EndOf(H, first + (i - 1)) /\ z = EndOf(H, first + i)
                /\ r = H[first + i].repetitions
            <4>1. EndOf(H, first + 1) \in Nat
                BY <1>11, <2>1
            <4>2. QED
                BY <3>4, <3>5, <4>1
        <3>8. start \in Nat
            BY <1>5, <1>7
        <3>9. z = y + r /\ x <= z /\ e[i] = z - start /\ e[i - 1] = y - start /\ e[1] = x - start
            BY <2>1, <3>3, <3>4, <3>6, <3>7
        <3>10. e[i] = e[i - 1] + r /\ e[1] <= e[i] /\ e[i] \in Int
            BY <3>8, <3>9
        <3>11. e[i] \in Nat
            BY <2>1, <3>10
        <3>12. QED
            BY <2>1, <3>2, <3>7, <3>10, <3>11
    <2>4. QED
        BY <2>2, <2>3
<1>13. LeftEnds(read.part, row, read.remaining, e)
    <2>1. Len(read.part) + 1 - row = n
        BY <1>2, <1>4
    <2>2. \A i \in 0 .. n : e[i] \in Nat
        <3>1. \A i \in 0 .. n : i = 0 \/ i \in 1 .. n
            BY <1>4
        <3>2. e[0] \in Nat
            BY <1>10
        <3>3. \A i \in 1 .. n : e[i] \in Nat
            BY <1>12
        <3>4. QED
            BY <3>1, <3>2, <3>3
    <2>3. \A i \in 1 .. n : e[i] = e[i - 1] + LeftOf(read.part, row, read.remaining, row - 1 + i)
        BY <1>12
    <2>4. QED
        BY <1>10, <2>1, <2>2, <2>3 DEF LeftEnds
<1>14. e[n] = read.offset - start /\ read.offset \in Nat /\ e[1] <= e[n] /\ e[1] \in Nat \ {0}
    <2>1. n \in 1 .. n /\ a \in 0 .. a
        BY <1>1, <1>4
    <2>2. QED
        BY <1>1, <1>3, <1>4, <1>10, <1>12, <2>1
<1>15. n = Len(read.part) + 1 - row
    BY <1>2, <1>4
<1>16. QED
    BY <1>2, <1>4, <1>5, <1>7, <1>8, <1>9, <1>10, <1>11, <1>13, <1>14, <1>15
       DEF LeftInOrder, a, row, H, start

\* A further batch of samples gives each sample the row it is of.
LEMMA NextSamplesReadsWhole ==
    ASSUME IInv, NextSamples
    PROVE  ReadsHold'
<1> DEFINE room == Room(read.batch, read.offset, read.sampleStart)
           f == Filled(read.part, read.row, read.remaining, room)
           x == NextRows(f)
           given == FlattenSeq(read.given)
           start == read.sampleStart
<1>1. /\ read.status = "running" /\ read.row <= Len(read.part)
      /\ UNCHANGED <<stored, opened, known>>
      /\ SameCall
      /\ read'.accepted = read.accepted /\ read'.offset = read.offset
      /\ read'.part = read.part
      /\ read'.given = Append(read.given, x)
      /\ read'.sampleStart = start + room
      /\ read'.row = f.row /\ read'.remaining = f.remaining
    BY NextSamplesOutcome DEF IInv
<1>2. read.how = "samples"
    <2> SUFFICES ASSUME read.how # "samples"
                 PROVE  FALSE
        OBVIOUS
    <2>1. read.part = <<>> /\ read.row = 1
        BY <1>1 DEF IInv, RowsHold
    <2>2. ~(1 <= Len(<<>>))
        OBVIOUS
    <2>3. QED
        BY <1>1, <2>1, <2>2
<1>3. PICK count \in 0 .. read.accepted : PartHolds(count)
    BY <1>1, <1>2 DEF IInv, SamplesHold
<1>4. PICK n : n = count + 1 - read.row
    OBVIOUS
<1>5. PICK first : first = read.accepted - count + read.row - 1
    OBVIOUS
<1>6. PICK e : e = [j \in 0 .. n |-> LeftEnd(first, read.sampleStart, j)]
    OBVIOUS
<1>7. /\ n \in Nat \ {0} /\ first \in Nat /\ first + n = read.accepted
      /\ Len(read.part) = count /\ n = Len(read.part) + 1 - read.row
      /\ read.row \in Nat \ {0} /\ start \in Nat
      /\ EndOf(HeadTable, first) <= start /\ EndOf(HeadTable, first) \in Nat
      /\ LeftEnds(read.part, read.row, read.remaining, e)
      /\ \A i \in 1 .. n :
           /\ LeftOf(read.part, read.row, read.remaining, read.row - 1 + i) \in Nat
           /\ LeftOf(read.part, read.row, read.remaining, read.row - 1 + i)
                <= HeadTable[first + i].repetitions
           /\ HeadTable[first + i].repetitions \in Nat
           /\ read.part[read.row - 1 + i].value
                = Value(read.rows, read.metric, read.how, first + i)
      /\ e[n] = read.offset - start /\ read.offset \in Nat
      /\ \A j \in 1 .. n : e[j] = EndOf(HeadTable, first + j) - start
      /\ \A j \in 0 .. n : EndOf(HeadTable, first + j) \in Nat
      /\ e[0] = 0 /\ e[1] \in Nat \ {0} /\ e[1] <= e[n]
    <2>1. LeftInOrder(count, n, first, e)
        BY <1>1, <1>2, <1>3, <1>4, <1>5, <1>6, LeftOfPart
    <2>2. QED
        BY <2>1 DEF LeftInOrder
<1>8. /\ read.batch \in Nat \ {0} /\ read.rows = SumsRead(read.metric, read.how)
      /\ read.accepted \in Nat /\ read.accepted <= Summary.accepted
      /\ read.offset = EndOf(HeadTable, read.accepted)
    BY <1>1, SummaryIsTyped DEF IInv, BatchesHold
<1>9. room \in 1 .. e[n] /\ room <= read.batch /\ room \in Nat \ {0} /\ e[n] \in Nat
    BY <1>7, <1>8 DEF Room, Least
<1> HIDE DEF room
<1>10. GoesOn(read.part, read.row, room, n, e, f)
    BY <1>7, <1>9, FilledGoesOn
<1> HIDE DEF f
<1>11. /\ DOMAIN f.rows = 1 .. room
       /\ \A k \in 1 .. room : \E j \in 1 .. n :
             f.rows[k] = read.row - 1 + j /\ e[j - 1] < k /\ k <= e[j]
       /\ \/ room = e[n] /\ f.row = Len(read.part) + 1 /\ f.remaining = 0
          \/ \E j \in 1 .. n : /\ f.row = read.row - 1 + j /\ e[j - 1] <= room /\ room < e[j]
                              /\ f.remaining = e[j] - room
    BY <1>10 DEF GoesOn
\* Each row of the batch is one of those left, in its place.
<1>12. ASSUME NEW k \in 1 .. room
       PROVE  \E i \in 1 .. read.accepted :
                 /\ x[k] = Value(read.rows, read.metric, read.how, i)
                 /\ EndOf(HeadTable, i - 1) < start + k /\ start + k <= EndOf(HeadTable, i)
    <2>1. PICK j \in 1 .. n : f.rows[k] = read.row - 1 + j /\ e[j - 1] < k /\ k <= e[j]
        BY <1>11
    <2>2. x[k] = read.part[f.rows[k]].value
        BY <1>11 DEF NextRows
    <2>3. x[k] = Value(read.rows, read.metric, read.how, first + j)
        BY <1>7, <2>1, <2>2
    <2>4. PICK i \in 1 .. read.accepted : i = first + j
        <3>1. first + j \in 1 .. read.accepted
            BY <1>7
        <3>2. QED
            BY <3>1
    <2>5. start + k <= EndOf(HeadTable, i)
        <3>1. e[j] = EndOf(HeadTable, first + j) - start
            BY <1>7
        <3>2. EndOf(HeadTable, first + j) \in Nat /\ start \in Nat
            <4>1. j \in 0 .. n
                BY <1>7
            <4>2. QED
                BY <1>7, <4>1
        <3>3. QED
            BY <2>1, <2>4, <3>1, <3>2
    <2>6. EndOf(HeadTable, i - 1) < start + k
        <3>1. CASE j = 1
            <4>1. i - 1 = first
                BY <1>7, <2>4, <3>1
            <4>2. QED
                BY <1>7, <4>1
        <3>2. CASE j # 1
            <4>1. j - 1 \in 1 .. n /\ j - 1 \in 0 .. n /\ i - 1 = first + (j - 1)
                BY <1>7, <2>4, <3>2
            <4>2. e[j - 1] = EndOf(HeadTable, first + (j - 1)) - start
                  /\ EndOf(HeadTable, first + (j - 1)) \in Nat /\ start \in Nat
                BY <1>7, <4>1
            <4>3. QED
                BY <2>1, <4>1, <4>2
        <3>3. QED
            BY <3>1, <3>2
    <2>7. QED
        BY <2>3, <2>4, <2>5, <2>6
<1>13. x \in Seq(Given(read.metric, read.how)) /\ Len(x) = room
    <2>1. x = [k \in 1 .. room |-> x[k]]
        BY <1>11 DEF NextRows
    <2>2. \A i \in 1 .. read.accepted :
             Value(read.rows, read.metric, read.how, i) \in Given(read.metric, read.how)
        <3>1. \A i \in 1 .. read.accepted : i \in 1 .. Summary.accepted
            BY <1>8, SummaryIsTyped
        <3>2. QED
            BY <1>8, <3>1 DEF Given
    <2> HIDE DEF x
    <2>3. \A k \in 1 .. room : x[k] \in Given(read.metric, read.how)
        BY <1>12, <2>2
    <2>4. QED
        BY <1>9, <2>1, <2>3
<1> HIDE DEF x
<1>14. /\ GivenHold' /\ FlattenSeq(read'.given) = given \o x
       /\ given \in Seq(Given(read.metric, read.how))
    <2>1. Len(x) \in 1 .. read.batch
        BY <1>8, <1>9, <1>13
    <2>2. QED
        BY <1>1, <1>13, <2>1, GivenGoesOn DEF IInv
<1>15. Len(given) = start /\ Placed(given, read.accepted)
    BY <1>1, <1>2 DEF IInv, SamplesHold
<1> HIDE DEF given, start
<1>16. /\ Len(given \o x) = start + room
       /\ \A s \in 1 .. start : (given \o x)[s] = given[s]
       /\ \A k \in 1 .. room : (given \o x)[start + k] = x[k]
    <2> DEFINE G == Given(read.metric, read.how)
    <2>1. given \in Seq(G) /\ x \in Seq(G) /\ Len(given) = start /\ Len(x) = room
        BY <1>13, <1>14, <1>15
    <2> HIDE DEF G
    <2>2. QED
        BY <2>1
<1>17. HeadTable' = HeadTable
    BY <1>1 DEF HeadTable, SameCall
<1>18. Placed(FlattenSeq(read.given), read.accepted)'
    <2> SUFFICES ASSUME NEW s \in 1 .. (start + room)
                 PROVE  \E i \in 1 .. read.accepted :
                          /\ EndOf(HeadTable, i - 1) < s /\ s <= EndOf(HeadTable, i)
                          /\ (given \o x)[s] = Value(read.rows, read.metric, read.how, i)
        BY <1>1, <1>14, <1>16, <1>17 DEF Placed, SameCall
    <2>1. CASE s \in 1 .. start
        <3>1. PICK i \in 1 .. read.accepted :
                 /\ EndOf(HeadTable, i - 1) < s /\ s <= EndOf(HeadTable, i)
                 /\ given[s] = Value(read.rows, read.metric, read.how, i)
            BY <1>15, <2>1 DEF Placed
        <3>2. QED
            BY <1>16, <2>1, <3>1
    <2>2. CASE s \notin 1 .. start
        <3>1. PICK k \in 1 .. room : s = start + k
            <4>1. s - start \in 1 .. room /\ s = start + (s - start)
                BY <1>7, <1>9, <2>2
            <4>2. QED
                BY <4>1
        <3>2. PICK i \in 1 .. read.accepted :
                 /\ x[k] = Value(read.rows, read.metric, read.how, i)
                 /\ EndOf(HeadTable, i - 1) < start + k /\ start + k <= EndOf(HeadTable, i)
            BY <1>12
        <3>3. (given \o x)[s] = x[k]
            BY <1>16, <3>1
        <3>4. QED
            BY <3>1, <3>2, <3>3
    <2>3. QED
        BY <2>1, <2>2
\* The part is left off where the batch ends.
<1>19. PartHolds(count)'
    <2> DEFINE before == read.accepted - count
    <2>1. /\ Len(read.part) = count
          /\ read.part = [i \in 1 .. count |->
                            [value |-> Value(read.rows, read.metric, read.how, before + i),
                             repetitions |-> HeadTable[before + i].repetitions]]
        BY <1>3 DEF PartHolds
    <2>2. count \in Nat /\ read.row \in Nat \ {0} /\ n = count + 1 - read.row /\ before + read.row - 1 = first
        BY <1>4, <1>5, <1>7, <1>8
    <2>3. /\ read'.row \in 1 .. (count + 1)
          /\ read'.row <= count =>
               /\ read'.remaining \in 1 .. HeadTable[before + read'.row].repetitions
               /\ read'.sampleStart = EndOf(HeadTable, before + read'.row) - read'.remaining
          /\ read'.row > count => read'.sampleStart = EndOf(HeadTable, read.accepted)
        <3>1. CASE room = e[n] /\ f.row = Len(read.part) + 1
            <4>1. read'.row = count + 1 /\ ~(count + 1 <= count) /\ count + 1 \in 1 .. (count + 1)
                BY <1>1, <1>7, <2>2, <3>1
            <4>2. read'.sampleStart = EndOf(HeadTable, read.accepted)
                BY <1>1, <1>7, <1>8, <3>1
            <4>3. QED
                BY <4>1, <4>2
        <3>2. ASSUME NEW j \in 1 .. n, f.row = read.row - 1 + j, e[j - 1] <= room, room < e[j],
                     f.remaining = e[j] - room
              PROVE  /\ read'.row \in 1 .. count /\ ~(read'.row > count)
                     /\ read'.remaining \in 1 .. HeadTable[before + read'.row].repetitions
                     /\ read'.sampleStart = EndOf(HeadTable, before + read'.row) - read'.remaining
            <4>1. read'.row = read.row - 1 + j /\ read'.row \in 1 .. count /\ ~(read'.row > count)
                BY <1>1, <2>2, <3>2
            <4>2. before + read'.row = first + j
                <5>1. read.accepted \in Nat /\ count \in Nat /\ read.row \in Nat /\ j \in Int
                    BY <1>7, <1>8, <2>2
                <5>2. before \in Int
                    BY <5>1
                <5>3. before + read.row - 1 = first
                    BY <2>2
                <5> HIDE DEF before
                <5>4. read'.row = read.row - 1 + j
                    BY <4>1
                <5>5. before + (read.row - 1 + j) = before + read.row - 1 + j
                    BY <5>1, <5>2
                <5>6. QED
                    BY <5>3, <5>4, <5>5
            <4>3. e[j] = EndOf(HeadTable, first + j) - start /\ EndOf(HeadTable, first + j) \in Nat
                <5>1. j \in 0 .. n
                    BY <1>7
                <5>2. QED
                    BY <1>7, <5>1
            <4>4. e[j] - e[j - 1] <= HeadTable[first + j].repetitions
                  /\ HeadTable[first + j].repetitions \in Nat /\ e[j - 1] \in Nat
                <5>1. /\ \A i \in 0 .. n : e[i] \in Nat
                      /\ \A i \in 1 .. n :
                           e[i] = e[i - 1] + LeftOf(read.part, read.row, read.remaining, read.row - 1 + i)
                    BY <1>7 DEF LeftEnds
                <5>2. e[j] = e[j - 1] + LeftOf(read.part, read.row, read.remaining, read.row - 1 + j)
                    BY <5>1
                <5>3. j - 1 \in 0 .. n
                    BY <1>7
                <5>4. e[j - 1] \in Nat
                    BY <5>1, <5>3
                <5>5. /\ LeftOf(read.part, read.row, read.remaining, read.row - 1 + j) \in Nat
                      /\ LeftOf(read.part, read.row, read.remaining, read.row - 1 + j)
                           <= HeadTable[first + j].repetitions
                      /\ HeadTable[first + j].repetitions \in Nat
                    BY <1>7
                <5>6. QED
                    BY <5>2, <5>4, <5>5
            <4>5. read'.remaining = e[j] - room /\ read'.sampleStart = start + room
                BY <1>1, <3>2
            <4>6. e[j] - room \in 1 .. HeadTable[first + j].repetitions
                <5>1. room \in Nat /\ e[j] \in Int /\ start \in Nat
                    BY <1>7, <1>9, <4>3
                <5>2. e[j] - room >= 1 /\ e[j] - room <= e[j] - e[j - 1]
                    BY <3>2, <4>4, <5>1
                <5>3. QED
                    BY <4>4, <5>1, <5>2
            <4>7. start + room = EndOf(HeadTable, first + j) - (e[j] - room)
                BY <1>7, <1>9, <4>3
            <4>8. QED
                BY <4>1, <4>2, <4>5, <4>6, <4>7
        <3>3. count \in Nat
            BY <2>2
        <3>4. QED
            BY <1>11, <3>1, <3>2, <3>3
    <2>4. read'.part = [i \in 1 .. count |->
                            [value |-> Value(read'.rows, read'.metric, read'.how, before + i),
                             repetitions |-> HeadTable'[before + i].repetitions]]
        BY <1>1, <1>17, <2>1 DEF SameCall
    <2>5. read'.accepted = read.accepted /\ Len(read'.part) = count
        BY <1>1, <2>1
    <2>6. QED
        BY <1>17, <2>3, <2>4, <2>5 DEF PartHolds
<1>20. SamplesHold'
    <2>1. count \in 0 .. read'.accepted /\ Len(FlattenSeq(read'.given)) = read'.sampleStart
        BY <1>1, <1>14, <1>16
    <2>2. QED
        BY <1>18, <1>19, <2>1 DEF SamplesHold
<1>21. FramesHold'
    BY <1>1, FramesStayValid DEF IInv
<1>22. RowsHold' /\ ReturnsHold'
    BY <1>1, <1>2 DEF RowsHold, ReturnsHold, SameCall
<1>23. QED
    BY <1>14, <1>20, <1>21, <1>22 DEF ReadsHold

\* A call that ends has given a row for each frame or each sample.
LEMMA EndBatchesReadsWhole ==
    ASSUME IInv, EndBatches
    PROVE  ReadsHold'
<1>1. /\ read.status = "running" /\ read.row > Len(read.part)
      /\ read.accepted = Summary.accepted /\ UNCHANGED <<stored, opened, known>>
    BY EndBatchesOutcomes DEF IInv
<1>2. CASE read' = [read EXCEPT !.status = "raised"]
    BY <1>1, <1>2, RaisedHoldsNothing DEF IInv
<1>3. CASE read' = [read EXCEPT !.status = "returned"] /\ read.offset = Summary.samples
    <2>1. /\ read'.status = "returned" /\ read'.given = read.given /\ read'.metric = read.metric
          /\ read'.how = read.how /\ read'.batch = read.batch
        BY <1>1, <1>3 DEF IInv, BatchesHold, BatchFields
    <2>2. HandsOut(read) /\ ~Remembered(read)
        BY <1>1, RunningHandsOut
    <2>3. HandsOut(read)' /\ ~Remembered(read')
        <3>1. ~Remembered(read')
            BY <2>1, <2>2 DEF Remembered
        <3>2. SumsRead(read.metric, read.how)' = SumsRead(read.metric, read.how)
            BY <1>1, <2>1 DEF SumsRead
        <3>3. HandsOut(read)'
            BY <1>1, <2>1, <2>2, <3>2 DEF HandsOut
        <3>4. QED
            BY <3>1, <3>3
    <2>4. /\ opened.summary = Summary
          /\ HeadTable \in Tables /\ Len(HeadTable) = Summary.accepted
          /\ \A t \in Selected(read.metric, read.how) : opened.sums[t] \in Tables
        BY <1>1, BatchFacts DEF IInv
    <2>5. /\ Continues(HeadTable, Summary.accepted)
          /\ EndOf(HeadTable, Summary.accepted) = Summary.samples
          /\ \A t \in Selected(read.metric, read.how) :
               /\ Len(opened.sums[t]) = Summary.accepted
               /\ \A i \in 1 .. Summary.accepted : FrameOf(opened.sums[t][i]) = FrameOf(HeadTable[i])
        BY <1>1, <1>3 DEF IInv, BatchesHold
    <2>6. ASSUME NEW t \in Selected(read.metric, read.how)
          PROVE  IsStream(opened.sums[t])
        BY <2>4, <2>5, WholeTablesAreStreams
    <2>7. \A t \in Selected(read'.metric, read'.how) : IsStream(opened.sums[t])'
        BY <1>1, <2>1, <2>6 DEF IsStream
    <2>8. Len(FlattenSeq(read.given)) = IF read.how = "samples" THEN Summary.samples
                                        ELSE Summary.accepted
        <3>1. CASE read.how = "samples"
            <4>1. PICK count \in 0 .. read.accepted : PartHolds(count)
                BY <1>1, <3>1 DEF IInv, SamplesHold
            <4>2. read.sampleStart = EndOf(HeadTable, read.accepted)
                BY <1>1, <4>1 DEF PartHolds
            <4>3. QED
                BY <1>1, <2>5, <3>1, <4>2 DEF IInv, SamplesHold
        <3>2. CASE read.how # "samples"
            <4>1. FlattenSeq(read.given)
                    = [i \in 1 .. Summary.accepted |-> Value(read.rows, read.metric, read.how, i)]
                BY <1>1, <3>2 DEF IInv, RowsHold
            <4>2. Summary.accepted \in Nat
                BY SummaryIsTyped
            <4>3. QED
                BY <3>2, <4>1, <4>2
        <3>3. QED
            BY <3>1, <3>2
    <2>9. IsWhole(read)'
        BY <1>1, <2>1, <2>3, <2>4, <2>7, <2>8 DEF IsWhole
    <2>10. FramesHold'
        BY <1>1, FramesStayValid DEF IInv
    <2>11. QED
        BY <2>1, <2>9, <2>10 DEF ReadsHold, GivenHold, RowsHold, SamplesHold, ReturnsHold
<1>4. QED
    BY <1>2, <1>3, EndBatchesOutcomes DEF IInv

\* Every step keeps the inductive invariant.
LEMMA IInvIsKept ==
    ASSUME IInv, [Next]_vars
    PROVE  IInv'
<1>1. TypesHold' /\ BatchesHold'
    BY ReaderTypes, BatchesAreKept DEF IInv
<1>2. ReadsHold
    BY DEF IInv, ReadsHold
<1>3. ASSUME OpenResult
      PROVE  ReadsHold'
    <2>1. known' = NoFrames /\ read'.status = "none"
        BY <1>3 DEF OpenResult, NoRead
    <2>2. QED
        BY <2>1 DEF ReadsHold, FramesHold, GivenHold, RowsHold, SamplesHold, ReturnsHold
<1>4. ASSUME NEW m \in StoredMetrics, NEW how \in Hows, NEW large \in BOOLEAN,
             ReadAll(m, how, large)
      PROVE  ReadsHold'
    BY <1>4, ReadAllReadsWhole
<1>5. ASSUME NEW m \in StoredMetrics, NEW how \in Hows, NEW large \in BOOLEAN,
             NEW batch \in BatchSizes, StartBatches(m, how, batch, large)
      PROVE  ReadsHold'
    BY <1>5, StartBatchesReadsWhole
<1>6. ASSUME NEW n \in 1 .. Summary.accepted, NextPart(n)
      PROVE  ReadsHold'
    BY <1>6, NextPartReadsWhole
<1>7. ASSUME NextSamples
      PROVE  ReadsHold'
    BY <1>7, NextSamplesReadsWhole
<1>8. ASSUME EndBatches
      PROVE  ReadsHold'
    BY <1>8, EndBatchesReadsWhole
<1>9. ASSUME NEW tables, NEW rows, NEW recorded, OtherWrites(tables, rows, recorded)
      PROVE  ReadsHold'
    <2>1. opened' = opened /\ known' = known /\ read' = read
        BY <1>9 DEF OtherWrites
    <2>2. QED
        BY <1>2, <2>1, SameReadHolds
<1>10. ASSUME UNCHANGED vars
       PROVE  ReadsHold'
    <2>1. opened' = opened /\ known' = known /\ read' = read
        BY <1>10 DEF vars
    <2>2. QED
        BY <1>2, <2>1, SameReadHolds
<1>11. ReadsHold'
    BY <1>3, <1>4, <1>5, <1>6, <1>7, <1>8, <1>9, <1>10 DEF Next, Hows
<1>12. QED
    BY <1>1, <1>11 DEF IInv, ReadsHold

\* Reads hand out gapless beginnings of the stream the opened manifest names, in batches that are
\* not empty and not too large, and return the whole of it: for all tables, batch sizes and writes of
\* others.
THEOREM ReadsGiveTheStream == Spec => []ReadsAreWhole
<1>1. Init => IInv
    <2>1. Init => TypesHold /\ BatchesHold
        BY ReaderInit
    <2>2. Init => known = NoFrames /\ read.status = "none"
        BY DEF Init, NoRead
    <2>3. known = NoFrames /\ read.status = "none" =>
            FramesHold /\ GivenHold /\ RowsHold /\ SamplesHold /\ ReturnsHold
        BY DEF FramesHold, GivenHold, RowsHold, SamplesHold, ReturnsHold
    <2>4. QED
        BY <2>1, <2>2, <2>3 DEF IInv
<1>2. IInv /\ [Next]_vars => IInv'
    BY IInvIsKept
<1>3. IInv => ReadsAreWhole
    BY WholeReadsAreWhole
<1>4. QED
    BY <1>1, <1>2, <1>3, PTL DEF Spec

=============================================================================

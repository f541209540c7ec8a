------------------------ MODULE CensusClientProofs ------------------------
(***************************************************************************)
(* For any calls, counties, limits and answers: retries are justified,     *)
(* results are complete, and block estimates are shares.                   *)
(*                                                                         *)
(* The requests of a call are not fixed from the start, since the list of  *)
(* counties decides which blocks are asked for.  The argument rests on     *)
(* their being settled once they have been made.                           *)
(***************************************************************************)
EXTENDS CensusClient, FiniteSetTheorems, WellFoundedInduction, TLAPS

(***************************************************************************)
(* Sequences of anything                                                   *)
(***************************************************************************)

IsSequence(s) == Len(s) \in Nat /\ s = [i \in 1 .. Len(s) |-> s[i]]

LEMMA Sequences ==
    ASSUME NEW S, NEW s \in Seq(S)
    PROVE  IsSequence(s)
<1>1. Len(s) \in Nat /\ s \in [1 .. Len(s) -> S]
    OBVIOUS
<1>2. s = [i \in 1 .. Len(s) |-> s[i]]
    BY <1>1
<1>3. QED
    BY <1>1, <1>2 DEF IsSequence

LEMMA EmptySequence == IsSequence(<< >>) /\ Len(<< >>) = 0
BY DEF IsSequence

LEMMA Listed ==
    ASSUME NEW n \in Nat, NEW s, s = [i \in 1 .. n |-> s[i]]
    PROVE  IsSequence(s) /\ Len(s) = n
<1> DEFINE S == {s[i] : i \in 1 .. n}
<1>1. s \in [1 .. n -> S]
    OBVIOUS
<1> HIDE DEF S
<1>2. s \in Seq(S) /\ Len(s) = n
    BY <1>1
<1>3. QED
    BY <1>2 DEF IsSequence

LEMMA Extended ==
    ASSUME NEW s, IsSequence(s), NEW x
    PROVE  /\ IsSequence(Append(s, x))
           /\ Len(Append(s, x)) = Len(s) + 1
           /\ Append(s, x)[Len(s) + 1] = x
           /\ \A i \in 1 .. Len(s) : Append(s, x)[i] = s[i]
<1> DEFINE S == {s[i] : i \in 1 .. Len(s)} \cup {x}
<1>1. s \in Seq(S) /\ x \in S
    BY DEF IsSequence
<1> HIDE DEF S
<1>2. IsSequence(Append(s, x))
    <2>1. Append(s, x) \in Seq(S)
        BY <1>1
    <2>2. QED
        BY <2>1, Sequences
<1>3. /\ Len(Append(s, x)) = Len(s) + 1
      /\ Append(s, x)[Len(s) + 1] = x
      /\ \A i \in 1 .. Len(s) : Append(s, x)[i] = s[i]
    BY <1>1
<1>4. QED
    BY <1>2, <1>3

LEMMA Joined ==
    ASSUME NEW s, IsSequence(s), NEW t, IsSequence(t)
    PROVE  /\ IsSequence(s \o t)
           /\ Len(s \o t) = Len(s) + Len(t)
           /\ \A i \in 1 .. Len(s) : (s \o t)[i] = s[i]
           /\ \A i \in Len(s) + 1 .. Len(s) + Len(t) : (s \o t)[i] = t[i - Len(s)]
<1> DEFINE S == {s[i] : i \in 1 .. Len(s)} \cup {t[i] : i \in 1 .. Len(t)}
<1>1. s \in Seq(S) /\ t \in Seq(S)
    BY DEF IsSequence
<1> HIDE DEF S
<1>2. s \o t \in Seq(S)
    BY <1>1
<1>3. IsSequence(s \o t)
    BY <1>2, Sequences
<1>4. /\ Len(s \o t) = Len(s) + Len(t)
      /\ \A i \in 1 .. Len(s) : (s \o t)[i] = s[i]
      /\ \A i \in Len(s) + 1 .. Len(s) + Len(t) : (s \o t)[i] = t[i - Len(s)]
    BY <1>1
<1>5. QED
    BY <1>3, <1>4

(***************************************************************************)
(* Waits                                                                   *)
(***************************************************************************)

\* A set of naturals that is not empty has a least element.
LEMMA LeastOf ==
    ASSUME NEW S, S \subseteq Nat, S # {}
    PROVE  \E n \in S : \A m \in S : n <= m
<1>1. PICK n \in S : \A m \in S : ~(<<m, n>> \in OpToRel(<, Nat))
    BY NatLessThanWellFounded, WFMin
<1>2. \A m \in S : ~(m < n)
    BY <1>1 DEF OpToRel
<1>3. QED
    BY <1>2

BackoffTo(n, b) == b = [i \in 0 .. n |-> IF i = 0 THEN BaseDelay ELSE 2 * b[i - 1]]

LEMMA BackoffGoesOn ==
    ASSUME NEW n \in Nat, NEW b, BackoffTo(n, b)
    PROVE  \E c : BackoffTo(n + 1, c)
<1> DEFINE c == [i \in 0 .. n + 1 |-> IF i = n + 1 THEN 2 * b[n] ELSE b[i]]
<1>1. ASSUME NEW i \in 0 .. n + 1
      PROVE  c[i] = IF i = 0 THEN BaseDelay ELSE 2 * c[i - 1]
    <2>1. CASE i = n + 1
        BY <2>1
    <2>2. CASE i # n + 1
        BY <2>2 DEF BackoffTo
    <2>3. QED
        BY <2>1, <2>2
<1>2. c = [i \in 0 .. n + 1 |-> c[i]]
    OBVIOUS
<1> HIDE DEF c
<1>3. QED
    BY <1>1, <1>2 DEF BackoffTo

LEMMA BackoffExists == BackoffTo(MaxAttempts, Backoff)
<1> DEFINE Has(n) == \E b : BackoffTo(n, b)
           without == {n \in Nat : ~Has(n)}
<1>1. Has(0)
    <2>1. BackoffTo(0, [i \in 0 .. 0 |-> BaseDelay])
        BY DEF BackoffTo
    <2>2. QED
        BY <2>1
<1>2. \A n \in Nat : Has(n) => Has(n + 1)
    BY BackoffGoesOn
<1> HIDE DEF Has
<1>3. without = {}
    <2> SUFFICES ASSUME without # {}
                 PROVE  FALSE
        OBVIOUS
    <2>1. PICK n \in without : \A m \in without : n <= m
        <3>1. without \subseteq Nat
            OBVIOUS
        <3> HIDE DEF without
        <3>2. QED
            BY <3>1, LeastOf
    <2>2. n \in Nat \ {0} /\ ~Has(n)
        BY <1>1
    <2>3. n - 1 \in Nat /\ n - 1 + 1 = n /\ Has(n - 1)
        BY <2>1, <2>2
    <2>4. QED
        BY <1>2, <2>2, <2>3
<1>4. Has(MaxAttempts)
    BY <1>3, RetryAssumption
<1>5. QED
    BY <1>4 DEF Has, Backoff, BackoffTo

LEMMA BackoffGrows ==
    /\ \A i \in 0 .. MaxAttempts : Backoff[i] \in Nat
    /\ \A i, j \in 0 .. MaxAttempts : i <= j => Backoff[i] <= Backoff[j]
<1>1. /\ Backoff[0] = BaseDelay
      /\ \A i \in 1 .. MaxAttempts : Backoff[i] = 2 * Backoff[i - 1]
    <2>1. \A i \in 0 .. MaxAttempts : Backoff[i] = IF i = 0 THEN BaseDelay ELSE 2 * Backoff[i - 1]
        BY BackoffExists DEF BackoffTo
    <2>2. 0 \in 0 .. MaxAttempts /\ 1 .. MaxAttempts \subseteq 0 .. MaxAttempts
        BY RetryAssumption
    <2>3. QED
        BY <2>1, <2>2
<1> DEFINE Fits(j) == Backoff[j] \in Nat /\ \A i \in 0 .. j : Backoff[i] <= Backoff[j]
           other == {j \in 0 .. MaxAttempts : ~Fits(j)}
<1>2. other = {}
    <2> SUFFICES ASSUME other # {}
                 PROVE  FALSE
        OBVIOUS
    <2>1. PICK n \in other : \A m \in other : n <= m
        <3>1. other \subseteq Nat
            OBVIOUS
        <3> HIDE DEF other
        <3>2. QED
            BY <3>1, LeastOf
    <2>2. Fits(0)
        BY <1>1, RetryAssumption
    <2>3. n \in 1 .. MaxAttempts /\ n - 1 \in 0 .. MaxAttempts /\ ~Fits(n)
        BY <2>2, RetryAssumption
    <2>4. Fits(n - 1)
        BY <2>1, <2>3
    <2>5. Fits(n)
        <3>1. Backoff[n] \in Nat /\ Backoff[n - 1] <= Backoff[n]
            BY <1>1, <2>3, <2>4
        <3>2. ASSUME NEW i \in 0 .. n
              PROVE  Backoff[i] <= Backoff[n]
            <4>1. i = n \/ i \in 0 .. n - 1
                BY <2>3
            <4>2. ASSUME i \in 0 .. n - 1
                  PROVE  Backoff[i] \in Nat /\ Backoff[i] <= Backoff[n - 1]
                <5>1. i \in 0 .. MaxAttempts /\ ~(n <= i)
                    <6>1. n \in 1 .. MaxAttempts
                        BY <2>3
                    <6>2. QED
                        BY <4>2, <6>1, RetryAssumption
                <5>2. i \notin other
                    <6> HIDE DEF other
                    <6>1. QED
                        BY <2>1, <5>1
                <5>3. QED
                    BY <2>4, <4>2, <5>1, <5>2
            <4>3. QED
                BY <2>4, <3>1, <4>1, <4>2
        <3>3. QED
            BY <3>1, <3>2
    <2>6. QED
        BY <2>3, <2>5
<1>3. QED
    BY <1>2

LEMMA DelayIsBounded ==
    ASSUME NEW answer, NEW attempt \in 1 .. MaxAttempts,
           answer.asked \in Nat \cup {Unstated}, ~TooLong(answer)
    PROVE  /\ Delay(answer, attempt) \in Nat
           /\ Delay(answer, attempt) <= LongestDelay
           /\ answer.kind = "429" /\ answer.asked # Unstated => Delay(answer, attempt) = answer.asked
<1>1. attempt - 1 \in 0 .. MaxAttempts /\ MaxAttempts - 1 \in 0 .. MaxAttempts
      /\ attempt - 1 <= MaxAttempts - 1
    BY RetryAssumption
<1>2. Backoff[attempt - 1] \in Nat /\ Backoff[attempt - 1] <= Backoff[MaxAttempts - 1]
      /\ Backoff[MaxAttempts - 1] \in Nat
    BY <1>1, BackoffGrows
<1>3. QED
    BY <1>2, RetryAssumption DEF Delay, TooLong, LongestDelay

(***************************************************************************)
(* Requests                                                                *)
(***************************************************************************)

IsAscending(s) == \A i, j \in DOMAIN s : i < j => s[i] < s[j]

LEMMA AscendingAfterLeast ==
    ASSUME NEW n \in Nat, NEW S, S \subseteq Nat, NEW least \in S,
           \A m \in S : least <= m,
           NEW t \in [1 .. n -> S \ {least}], IsAscending(t)
    PROVE  \E s \in [1 .. n + 1 -> S] : IsAscending(s)
<1> DEFINE s == [i \in 1 .. n + 1 |-> IF i = 1 THEN least ELSE t[i - 1]]
<1>1. s \in [1 .. n + 1 -> S]
    OBVIOUS
<1>2. ASSUME NEW i \in 1 .. n + 1, NEW j \in 1 .. n + 1, i < j
      PROVE  s[i] < s[j]
    <2>1. j - 1 \in 1 .. n /\ s[j] = t[j - 1]
        BY <1>2
    <2>2. CASE i = 1
        <3>1. t[j - 1] \in S /\ t[j - 1] # least
            BY <2>1
        <3>2. s[i] = least /\ least <= t[j - 1] /\ t[j - 1] \in Nat /\ least \in Nat
            BY <2>2, <3>1
        <3> HIDE DEF s
        <3>3. QED
            BY <2>1, <3>1, <3>2
    <2>3. CASE i # 1
        <3>1. i - 1 \in 1 .. n /\ s[i] = t[i - 1] /\ i - 1 < j - 1
            BY <1>2, <2>3
        <3>2. t[i - 1] < t[j - 1]
            BY <2>1, <3>1 DEF IsAscending
        <3> HIDE DEF s
        <3>3. QED
            BY <2>1, <3>1, <3>2
    <2>4. QED
        BY <2>2, <2>3
<1> HIDE DEF s
<1>3. IsAscending(s)
    BY <1>1, <1>2 DEF IsAscending
<1>4. QED
    BY <1>1, <1>3

LEMMA AscendingExists ==
    ASSUME NEW S \in SUBSET Nat, IsFiniteSet(S)
    PROVE  /\ Cardinality(S) \in Nat
           /\ Ascending(S) \in [1 .. Cardinality(S) -> S]
<1> DEFINE Ranked(n) == \A T \in SUBSET Nat : IsFiniteSet(T) /\ Cardinality(T) = n
                            => \E s \in [1 .. n -> T] : IsAscending(s)
           other == {n \in Nat : ~Ranked(n)}
<1>1. Ranked(0)
    <2> SUFFICES ASSUME NEW T \in SUBSET Nat
                 PROVE  \E s \in [1 .. 0 -> T] : IsAscending(s)
        OBVIOUS
    <2>1. << >> \in [1 .. 0 -> T] /\ IsAscending(<< >>)
        BY DEF IsAscending
    <2>2. QED
        BY <2>1
<1>2. ASSUME NEW n \in Nat, Ranked(n)
      PROVE  Ranked(n + 1)
    <2> SUFFICES ASSUME NEW T \in SUBSET Nat, IsFiniteSet(T), Cardinality(T) = n + 1
                 PROVE  \E s \in [1 .. n + 1 -> T] : IsAscending(s)
        OBVIOUS
    <2>1. T # {}
        BY FS_EmptySet
    <2>2. PICK least \in T : \A m \in T : least <= m
        BY <2>1, LeastOf
    <2>3. /\ IsFiniteSet(T \ {least}) /\ T \ {least} \in SUBSET Nat
          /\ Cardinality(T \ {least}) = n
        <3>1. /\ IsFiniteSet(T \ {least})
              /\ Cardinality(T \ {least}) = Cardinality(T) - 1
            BY FS_RemoveElement
        <3>2. QED
            BY <3>1
    <2>4. PICK t \in [1 .. n -> T \ {least}] : IsAscending(t)
        BY <1>2, <2>3
    <2>5. QED
        BY <2>2, <2>4, AscendingAfterLeast
<1> HIDE DEF Ranked
<1>3. other = {}
    <2> SUFFICES ASSUME other # {}
                 PROVE  FALSE
        OBVIOUS
    <2>1. PICK n \in other : \A m \in other : n <= m
        <3>1. other \subseteq Nat
            OBVIOUS
        <3> HIDE DEF other
        <3>2. QED
            BY <3>1, LeastOf
    <2>2. n \in Nat \ {0} /\ ~Ranked(n)
        BY <1>1
    <2>3. n - 1 \in Nat /\ n - 1 + 1 = n /\ Ranked(n - 1)
        BY <2>1, <2>2
    <2>4. QED
        BY <1>2, <2>2, <2>3
<1>4. Cardinality(S) \in Nat
    BY FS_CardinalityType
<1>5. Ranked(Cardinality(S))
    BY <1>3, <1>4
<1>6. PICK s \in [1 .. Cardinality(S) -> S] : IsAscending(s)
    BY <1>5 DEF Ranked
<1>7. QED
    BY <1>4, <1>6 DEF Ascending, IsAscending

CountyRequests(areas) ==
    [i \in DOMAIN Ascending(areas) |-> Request("PL", Ascending(areas)[i], "block")]

BlockRequestsAfter(answered) ==
    IF Len(answered) < Len(RateRequests) THEN RateRequests
    ELSE RateRequests \o CountyRequests(answered[Len(RateRequests)].areas)

\* The requests of a call, as far as its answers decide them.
RequestsAfter(c, answered) ==
    CASE IsACS(c) -> ACSRequests(c) \o (IF Probes(c) THEN <<Probe>> ELSE << >>)
      [] c.op = "census" -> <<Request("PL", c.tables[1], c.geometry)>>
      [] c.op = "block_cvap" -> BlockRequestsAfter(answered)

LEMMA RequestsAreThese == \A c : Requests(c) = RequestsAfter(c, frames)
BY DEF Requests, RequestsAfter, BlockRequests, BlockRequestsAfter, CountyRequests

LEMMA ByOperation ==
    ASSUME NEW c \in Calls, NEW answered
    PROVE  /\ c.op \in {"acs", "acs_full", "cvap"} =>
                 RequestsAfter(c, answered)
                     = ACSRequests(c) \o (IF Probes(c) THEN <<Probe>> ELSE << >>)
           /\ c.op = "census" =>
                 /\ RequestsAfter(c, answered) = <<Request("PL", c.tables[1], c.geometry)>>
                 /\ ~Probes(c)
           /\ c.op = "block_cvap" =>
                 RequestsAfter(c, answered) = BlockRequestsAfter(answered) /\ ~Probes(c)
           /\ c.op \in {"acs", "acs_full", "cvap", "census", "block_cvap"}
<1>1. c.op \in {"acs", "acs_full", "cvap", "census", "block_cvap"}
    BY CallAssumption
<1>2. ASSUME c.op \in {"acs", "acs_full", "cvap"}
      PROVE  RequestsAfter(c, answered)
                 = ACSRequests(c) \o (IF Probes(c) THEN <<Probe>> ELSE << >>)
    <2>1. IsACS(c) /\ c.op # "census" /\ c.op # "block_cvap"
        BY <1>2 DEF IsACS
    <2>2. QED
        BY <2>1, Zenon DEF RequestsAfter
<1>3. ASSUME c.op = "census"
      PROVE  RequestsAfter(c, answered) = <<Request("PL", c.tables[1], c.geometry)>> /\ ~Probes(c)
    <2>1. ~IsACS(c) /\ c.op # "block_cvap"
        BY <1>3 DEF IsACS
    <2>2. RequestsAfter(c, answered) = <<Request("PL", c.tables[1], c.geometry)>>
        BY <1>3, <2>1, Zenon DEF RequestsAfter
    <2>3. QED
        BY <2>1, <2>2 DEF Probes
<1>4. ASSUME c.op = "block_cvap"
      PROVE  RequestsAfter(c, answered) = BlockRequestsAfter(answered) /\ ~Probes(c)
    <2>1. ~IsACS(c) /\ c.op # "census"
        BY <1>4 DEF IsACS
    <2>2. RequestsAfter(c, answered) = BlockRequestsAfter(answered)
        BY <1>4, <2>1, Zenon DEF RequestsAfter
    <2>3. QED
        BY <2>1, <2>2 DEF Probes
<1>5. QED
    BY <1>1, <1>2, <1>3, <1>4

\* Answers whose counties are counties.
Answered(fs) ==
    /\ IsSequence(fs)
    /\ \A i \in 1 .. Len(fs) : fs[i].areas \subseteq Counties

LEMMA ACSRequestsAre ==
    ASSUME NEW c \in Calls
    PROVE  /\ IsSequence(ACSRequests(c))
           /\ Len(ACSRequests(c)) \in Nat
           /\ \A i \in 1 .. Len(ACSRequests(c)) : ACSRequests(c)[i].kind # "probe"
<1>1. Len(c.tables) \in Nat /\ 2 * Len(c.tables) \in Nat
    BY CallAssumption
<1>2. IsSequence(ACSRequests(c)) /\ Len(ACSRequests(c)) = 2 * Len(c.tables)
    <2>1. ACSRequests(c) = [i \in 1 .. 2 * Len(c.tables) |-> ACSRequests(c)[i]]
        BY DEF ACSRequests
    <2>2. QED
        BY <1>1, <2>1, Listed
<1>3. QED
    BY <1>1, <1>2 DEF ACSRequests, Request

LEMMA CountyRequestsAre ==
    ASSUME NEW areas \in SUBSET Counties
    PROVE  /\ IsSequence(CountyRequests(areas))
           /\ Len(CountyRequests(areas)) = Cardinality(areas)
           /\ Cardinality(areas) \in Nat
           /\ \A i \in 1 .. Cardinality(areas) :
                 CountyRequests(areas)[i].kind = "PL" /\ CountyRequests(areas)[i].of \in Counties
<1>1. IsFiniteSet(areas) /\ areas \in SUBSET Nat
    BY EstimateAssumption, FS_Subset
<1>2. Cardinality(areas) \in Nat /\ Ascending(areas) \in [1 .. Cardinality(areas) -> areas]
    BY <1>1, AscendingExists
<1>3. CountyRequests(areas)
          = [i \in 1 .. Cardinality(areas) |-> Request("PL", Ascending(areas)[i], "block")]
    BY <1>2 DEF CountyRequests
<1>4. CountyRequests(areas) = [i \in 1 .. Cardinality(areas) |-> CountyRequests(areas)[i]]
    BY <1>3
<1>5. IsSequence(CountyRequests(areas)) /\ Len(CountyRequests(areas)) = Cardinality(areas)
    BY <1>2, <1>4, Listed
<1>6. QED
    BY <1>2, <1>3, <1>5 DEF Request

LEMMA RateRequestsAre ==
    /\ IsSequence(RateRequests)
    /\ Len(RateRequests) = 5
    /\ \A i \in 1 .. 5 : RateRequests[i].kind # "probe" /\ RateRequests[i].geometry # "block"
<1> DEFINE S == {Request("E", "VAP", "tract"), Request("E", "CVAP", "tract"),
                 Request("E", "VAP", "state"), Request("E", "CVAP", "state"),
                 Request("PL", "NAME", "county")}
<1>1. RateRequests \in Seq(S)
    BY DEF RateRequests
<1>2. Len(RateRequests) = 5
    BY DEF RateRequests
<1>3. IsSequence(RateRequests)
    BY <1>1, Sequences
<1>4. \A r \in S : r.kind # "probe" /\ r.geometry # "block"
    BY DEF Request
<1> HIDE DEF S
<1>5. \A i \in 1 .. Len(RateRequests) : RateRequests[i] \in S
    BY <1>1
<1>6. QED
    BY <1>2, <1>3, <1>4, <1>5

LEMMA BlockRequestsAre ==
    ASSUME NEW fs, Answered(fs)
    PROVE  /\ IsSequence(BlockRequestsAfter(fs))
           /\ Len(BlockRequestsAfter(fs))
                  = IF Len(fs) < 5 THEN 5 ELSE 5 + Cardinality(fs[5].areas)
           /\ Len(fs) >= 5 => Cardinality(fs[5].areas) \in Nat
           /\ \A i \in 1 .. 5 : BlockRequestsAfter(fs)[i] = RateRequests[i]
           /\ \A i \in 1 .. Len(BlockRequestsAfter(fs)) :
                 /\ BlockRequestsAfter(fs)[i].kind # "probe"
                 /\ BlockRequestsAfter(fs)[i].geometry = "block" =>
                       i > 5 /\ BlockRequestsAfter(fs)[i].of \in Counties
<1>1. Len(fs) \in Nat
    BY DEF Answered, IsSequence
<1>2. CASE Len(fs) < 5
    <2>1. BlockRequestsAfter(fs) = RateRequests
        BY <1>2, RateRequestsAre DEF BlockRequestsAfter
    <2>2. ~(Len(fs) >= 5)
        BY <1>1, <1>2
    <2>3. QED
        BY <1>2, <2>1, <2>2, RateRequestsAre
<1>3. CASE ~(Len(fs) < 5)
    <2> DEFINE counties == CountyRequests(fs[5].areas)
               n == Cardinality(fs[5].areas)
               all == RateRequests \o counties
    <2>1. BlockRequestsAfter(fs) = all
        BY <1>3, RateRequestsAre DEF BlockRequestsAfter
    <2>2. 5 \in 1 .. Len(fs) /\ fs[5].areas \in SUBSET Counties
        BY <1>1, <1>3 DEF Answered
    <2>3. /\ IsSequence(counties) /\ Len(counties) = n /\ n \in Nat
          /\ \A i \in 1 .. n : counties[i].kind = "PL" /\ counties[i].of \in Counties
        BY <2>2, CountyRequestsAre
    <2> HIDE DEF counties, n
    <2>4. /\ IsSequence(all) /\ Len(all) = 5 + n
          /\ \A i \in 1 .. 5 : all[i] = RateRequests[i]
          /\ \A i \in 5 + 1 .. 5 + n : all[i] = counties[i - 5]
        <3>1. LET r == RateRequests IN
              /\ IsSequence(all) /\ Len(all) = Len(r) + n
              /\ \A i \in 1 .. Len(r) : all[i] = r[i]
              /\ \A i \in Len(r) + 1 .. Len(r) + n : all[i] = counties[i - Len(r)]
            BY <2>3, RateRequestsAre, Joined
        <3> HIDE DEF all
        <3>2. QED
            BY <3>1, RateRequestsAre
    <2> HIDE DEF all
    <2>5. ASSUME NEW i \in 1 .. Len(all)
          PROVE  /\ all[i].kind # "probe"
                 /\ all[i].geometry = "block" => i > 5 /\ all[i].of \in Counties
        <3>1. CASE i \in 1 .. 5
            BY <2>4, <3>1, RateRequestsAre
        <3>2. CASE i \notin 1 .. 5
            <4>1. i \in 5 + 1 .. 5 + n /\ i - 5 \in 1 .. n
                BY <2>3, <2>4, <3>2
            <4>2. QED
                BY <2>3, <2>4, <4>1
        <3>3. QED
            BY <3>1, <3>2
    <2>6. QED
        BY <1>3, <2>1, <2>3, <2>4, <2>5 DEF n
<1>4. QED
    BY <1>2, <1>3

LEMMA RequestsAfterAre ==
    ASSUME NEW c \in Calls, NEW fs, Answered(fs)
    PROVE  /\ IsSequence(RequestsAfter(c, fs))
           /\ Len(ACSRequests(c)) \in Nat
           /\ Probes(c) => /\ c.op # "block_cvap"
                           /\ Len(RequestsAfter(c, fs)) = Len(ACSRequests(c)) + 1
                           /\ RequestsAfter(c, fs)[Len(ACSRequests(c)) + 1].kind = "probe"
           /\ \A i \in 1 .. Len(RequestsAfter(c, fs)) :
                 RequestsAfter(c, fs)[i].kind = "probe" =>
                     Probes(c) /\ i = Len(ACSRequests(c)) + 1
<1> DEFINE asked == RequestsAfter(c, fs)
           tables == ACSRequests(c)
<1>1. /\ IsSequence(tables) /\ Len(tables) \in Nat
      /\ \A i \in 1 .. Len(tables) : tables[i].kind # "probe"
    BY ACSRequestsAre
<1> HIDE DEF asked, tables
<1>2. ASSUME NEW r
      PROVE  IsSequence(<<r>>) /\ Len(<<r>>) = 1 /\ <<r>>[1] = r
    <2>1. <<r>> \in Seq({r})
        OBVIOUS
    <2>2. QED
        BY <2>1, Sequences
<1>3. CASE c.op \in {"acs", "acs_full", "cvap"} /\ Probes(c)
    <2>1. asked = tables \o <<Probe>>
        BY <1>3, ByOperation DEF asked, tables
    <2>2. /\ IsSequence(asked) /\ Len(asked) = Len(tables) + 1
          /\ \A i \in 1 .. Len(tables) : asked[i] = tables[i]
          /\ \A i \in Len(tables) + 1 .. Len(tables) + 1 : asked[i] = <<Probe>>[i - Len(tables)]
        BY <1>1, <1>2, <2>1, Joined
    <2>3. asked[Len(tables) + 1].kind = "probe"
        <3>1. /\ Len(tables) + 1 \in Len(tables) + 1 .. Len(tables) + 1
              /\ Len(tables) + 1 - Len(tables) = 1
            BY <1>1
        <3>2. asked[Len(tables) + 1] = Probe
            BY <1>2, <2>2, <3>1
        <3>3. QED
            BY <3>2 DEF Probe, Request
    <2>4. ASSUME NEW i \in 1 .. Len(asked), asked[i].kind = "probe"
          PROVE  i = Len(tables) + 1
        <3>1. i \in 1 .. Len(tables) \/ i = Len(tables) + 1
            BY <1>1, <2>2
        <3>2. QED
            BY <1>1, <2>2, <2>4, <3>1
    <2>5. QED
        BY <1>1, <1>3, <2>2, <2>3, <2>4 DEF asked, tables
<1>4. CASE c.op \in {"acs", "acs_full", "cvap"} /\ ~Probes(c)
    <2>1. asked = tables \o << >>
        BY <1>4, ByOperation DEF asked, tables
    <2>2. /\ IsSequence(asked) /\ Len(asked) = Len(tables) + 0
          /\ \A i \in 1 .. Len(tables) : asked[i] = tables[i]
        BY <1>1, <2>1, EmptySequence, Joined
    <2>3. QED
        BY <1>1, <1>4, <2>2 DEF asked, tables
<1>5. CASE c.op = "census"
    <2>1. asked = <<Request("PL", c.tables[1], c.geometry)>> /\ ~Probes(c)
        BY <1>5, ByOperation DEF asked
    <2>2. IsSequence(asked) /\ Len(asked) = 1 /\ asked[1].kind = "PL"
        BY <1>2, <2>1 DEF Request
    <2>3. QED
        BY <1>1, <2>1, <2>2 DEF asked, tables
<1>6. CASE c.op = "block_cvap"
    <2>1. asked = BlockRequestsAfter(fs) /\ ~Probes(c)
        BY <1>6, ByOperation DEF asked
    <2>2. QED
        BY <1>1, <2>1, BlockRequestsAre DEF asked, tables
<1>7. c.op \in {"acs", "acs_full", "cvap", "census", "block_cvap"}
    BY ByOperation
<1>8. QED
    BY <1>3, <1>4, <1>5, <1>6, <1>7

\* The next answer may add requests, but changes none that was made.
LEMMA RequestsAreSettled ==
    ASSUME NEW c \in Calls, NEW fs, Answered(fs), NEW f, f.areas \subseteq Counties,
           Len(fs) < Len(RequestsAfter(c, fs))
    PROVE  /\ Answered(Append(fs, f))
           /\ Len(Append(fs, f)) = Len(fs) + 1
           /\ Len(fs) + 1 <= Len(RequestsAfter(c, Append(fs, f)))
           /\ \A i \in 1 .. Len(fs) + 1 :
                 RequestsAfter(c, Append(fs, f))[i] = RequestsAfter(c, fs)[i]
<1> DEFINE more == Append(fs, f)
<1>1. /\ IsSequence(more) /\ Len(more) = Len(fs) + 1 /\ more[Len(fs) + 1] = f
      /\ \A i \in 1 .. Len(fs) : more[i] = fs[i]
    BY Extended DEF Answered
<1>2. Len(fs) \in Nat
    BY DEF Answered, IsSequence
<1> HIDE DEF more
<1>3. Answered(more)
    <2>1. ASSUME NEW i \in 1 .. Len(fs) + 1
          PROVE  more[i].areas \subseteq Counties
        <3>1. i \in 1 .. Len(fs) \/ i = Len(fs) + 1
            BY <1>2
        <3>2. QED
            BY <1>1, <3>1 DEF Answered
    <2>2. QED
        BY <1>1, <2>1 DEF Answered
<1>4. CASE c.op # "block_cvap"
    <2>1. RequestsAfter(c, more) = RequestsAfter(c, fs)
        BY <1>4, ByOperation
    <2>2. Len(RequestsAfter(c, fs)) \in Nat
        BY RequestsAfterAre DEF IsSequence
    <2>3. QED
        BY <1>1, <1>2, <1>3, <2>1, <2>2 DEF more
<1>5. CASE c.op = "block_cvap"
    <2>1. /\ RequestsAfter(c, fs) = BlockRequestsAfter(fs)
          /\ RequestsAfter(c, more) = BlockRequestsAfter(more)
        BY <1>5, ByOperation
    <2>2. CASE Len(fs) < 5
        <3>1. Len(BlockRequestsAfter(more)) >= 5 /\ 1 .. Len(fs) + 1 \subseteq 1 .. 5
            <4>1. /\ Len(BlockRequestsAfter(more))
                         = IF Len(more) < 5 THEN 5 ELSE 5 + Cardinality(more[5].areas)
                  /\ Len(more) >= 5 => Cardinality(more[5].areas) \in Nat
                BY <1>3, BlockRequestsAre
            <4>2. QED
                BY <1>1, <1>2, <2>2, <4>1
        <3>2. \A i \in 1 .. 5 : /\ BlockRequestsAfter(more)[i] = RateRequests[i]
                                /\ BlockRequestsAfter(fs)[i] = RateRequests[i]
            BY <1>3, BlockRequestsAre
        <3>3. Len(fs) + 1 <= Len(BlockRequestsAfter(more))
            <4>1. Len(BlockRequestsAfter(more)) \in Nat
                BY <1>3, BlockRequestsAre DEF IsSequence
            <4>2. QED
                BY <1>2, <2>2, <3>1, <4>1
        <3>4. QED
            BY <1>1, <1>3, <2>1, <3>1, <3>2, <3>3 DEF more
    <2>3. CASE ~(Len(fs) < 5)
        <3>1. 5 \in 1 .. Len(fs) /\ more[5] = fs[5] /\ ~(Len(more) < 5)
            BY <1>1, <1>2, <2>3
        <3>2. BlockRequestsAfter(more) = BlockRequestsAfter(fs)
            BY <2>3, <3>1, RateRequestsAre DEF BlockRequestsAfter
        <3>3. Len(BlockRequestsAfter(fs)) \in Nat
            BY BlockRequestsAre DEF IsSequence
        <3>4. QED
            BY <1>1, <1>2, <1>3, <2>1, <3>2, <3>3 DEF more
    <2>4. QED
        BY <2>2, <2>3
<1>6. QED
    BY <1>4, <1>5

(***************************************************************************)
(* Answers                                                                 *)
(***************************************************************************)

LEMMA AnswersAre ==
    ASSUME NEW r, NEW answer \in Answers(r)
    PROVE  /\ answer.kind \in {"rows", "none", "junk", "4xx", "5xx", "429"}
           /\ answer.areas \subseteq Counties
           /\ answer.asked \in Nat \cup {Unstated}
           /\ answer.asked # Unstated => answer.kind = "429"
<1>1. CASE \E areas \in SUBSET Counties : answer = Answer("rows", Unstated, areas)
    BY <1>1 DEF Answer
<1>2. CASE \E kind \in {"none", "junk", "4xx", "5xx"} : answer = Answer(kind, Unstated, {})
    BY <1>2 DEF Answer
<1>3. CASE \E asked \in RetryAfters \cup {Unstated} : answer = Answer("429", asked, {})
    BY <1>3, RetryAssumption DEF Answer
<1>4. QED
    BY <1>1, <1>2, <1>3 DEF Answers

LEMMA ReportedAs ==
    ASSUME NEW answer, answer.kind \in {"429", "4xx", "5xx", "junk"}
    PROVE  Reported(answer) \in {"CensusRateLimitError", "HTTPError", "ValueError"}
<1>1. CASE answer.kind = "429"
    <2>1. answer.kind \notin {"4xx", "5xx"} /\ answer.kind # "junk"
        BY <1>1
    <2>2. Reported(answer) = "CensusRateLimitError"
        BY <1>1, <2>1, Zenon DEF Reported
    <2>3. QED
        BY <2>2
<1>2. CASE answer.kind \in {"4xx", "5xx"}
    <2>1. answer.kind # "429" /\ answer.kind # "junk"
        BY <1>2
    <2>2. Reported(answer) = "HTTPError"
        BY <1>2, <2>1, Zenon DEF Reported
    <2>3. QED
        BY <2>2
<1>3. CASE answer.kind = "junk"
    <2>1. answer.kind \notin {"4xx", "5xx"} /\ answer.kind # "429"
        BY <1>3
    <2>2. Reported(answer) = "ValueError"
        BY <1>3, <2>1, Zenon DEF Reported
    <2>3. QED
        BY <2>2
<1>4. QED
    BY <1>1, <1>2, <1>3

\* How a request or a call ends when it does not return.
Errors == {"CensusRateLimitError", "HTTPError", "ValueError"}

\* What Receive does, by the answer it gets.
LEMMA ReceiveCases ==
    ASSUME Receive
    PROVE  \E answer \in Answers(Current) :
              \/ Retried(answer) /\ Wait(answer)
              \/ answer.kind \in {"rows", "none"} /\ Accept(answer)
              \/ \E how \in Errors : Fail(how)
<1>1. PICK answer \in Answers(Current) :
          \/ Retried(answer) /\ Wait(answer)
          \/ answer.kind \in {"rows", "none"} /\ Accept(answer)
          \/ /\ ~Retried(answer)
             /\ answer.kind \notin {"rows", "none"}
             /\ Fail(Reported(answer))
    BY DEF Receive, Requesting
<1>2. CASE answer.kind \in {"rows", "none"} \/ Retried(answer)
    BY <1>1, <1>2
<1>3. CASE answer.kind \notin {"rows", "none"} /\ ~Retried(answer)
    <2>1. Reported(answer) \in Errors
        BY <1>3, AnswersAre, ReportedAs DEF Errors
    <2>2. Fail(Reported(answer))
        BY <1>1, <1>3
    <2>3. QED
        BY <2>1, <2>2
<1>4. QED
    BY <1>2, <1>3

(***************************************************************************)
(* Retries                                                                 *)
(***************************************************************************)

\* Each answer that was waited for was worth it, and the waits add up.
RetryInv ==
    /\ IsSequence(answers)
    /\ Len(answers) < MaxAttempts
    /\ waited \in Nat
    /\ waited <= Len(answers) * LongestDelay
    /\ \A i \in 1 .. Len(answers) :
          /\ answers[i].kind \in {"429", "5xx"}
          /\ answers[i].asked # Unstated =>
                /\ answers[i].asked \in Nat
                /\ answers[i].asked <= MaxRetryAfter /\ answers[i].asked <= waited

LEMMA LongestIsNat == LongestDelay \in Nat
<1>1. MaxAttempts - 1 \in 0 .. MaxAttempts
    BY RetryAssumption
<1>2. QED
    BY <1>1, BackoffGrows, RetryAssumption DEF LongestDelay

LEMMA NoRetries ==
    ASSUME answers' = << >>, waited' = 0
    PROVE  RetryInv'
<1>1. 0 <= 0 * LongestDelay
    BY LongestIsNat
<1>2. QED
    BY <1>1, EmptySequence, RetryAssumption DEF RetryInv

LEMMA WaitKeepsRetries ==
    ASSUME RetryInv, NEW answer \in Answers(Current), Retried(answer), Wait(answer)
    PROVE  RetryInv'
<1> DEFINE n == Len(answers)
           delay == Delay(answer, n + 1)
<1>1. /\ answer.kind \in {"429", "5xx"} /\ n + 1 < MaxAttempts /\ ~TooLong(answer)
      /\ answer.asked \in Nat \cup {Unstated}
      /\ answer.asked # Unstated => answer.kind = "429"
    BY AnswersAre DEF Retried, Transient
<1>2. /\ answers' = Append(answers, answer) /\ waited' = waited + delay
    BY DEF Wait
<1>3. n \in Nat /\ n + 1 \in 1 .. MaxAttempts
    BY <1>1, RetryAssumption DEF RetryInv, IsSequence
<1>4. /\ delay \in Nat /\ delay <= LongestDelay
      /\ answer.asked # Unstated => delay = answer.asked
    BY <1>1, <1>3, DelayIsBounded
<1> HIDE DEF delay
<1>5. /\ IsSequence(answers') /\ Len(answers') = n + 1 /\ answers'[n + 1] = answer
      /\ \A i \in 1 .. n : answers'[i] = answers[i]
    BY <1>2, Extended DEF RetryInv
<1>6. /\ waited' \in Nat /\ waited <= waited' /\ delay <= waited'
      /\ waited' <= (n + 1) * LongestDelay
    <2>1. waited \in Nat /\ waited <= n * LongestDelay
        BY DEF RetryInv
    <2>2. (n + 1) * LongestDelay = n * LongestDelay + LongestDelay /\ n * LongestDelay \in Nat
        BY <1>3, LongestIsNat
    <2>3. QED
        BY <1>2, <1>4, <2>1, <2>2, LongestIsNat
<1>7. ASSUME NEW i \in 1 .. n + 1
      PROVE  /\ answers'[i].kind \in {"429", "5xx"}
             /\ answers'[i].asked # Unstated =>
                   /\ answers'[i].asked \in Nat
                   /\ answers'[i].asked <= MaxRetryAfter /\ answers'[i].asked <= waited'
    <2>1. CASE i = n + 1
        <3>1. answer.asked # Unstated => answer.asked <= MaxRetryAfter /\ answer.asked <= waited'
            BY <1>1, <1>4, <1>6, RetryAssumption DEF TooLong
        <3>2. QED
            BY <1>1, <1>5, <2>1, <3>1
    <2>2. CASE i \in 1 .. n
        <3>1. /\ answers[i].kind \in {"429", "5xx"}
              /\ answers[i].asked # Unstated =>
                    /\ answers[i].asked \in Nat
                    /\ answers[i].asked <= MaxRetryAfter /\ answers[i].asked <= waited
            BY <2>2 DEF RetryInv
        <3>2. QED
            BY <1>5, <1>6, <2>2, <3>1, RetryAssumption DEF RetryInv
    <2>3. QED
        BY <1>3, <2>1, <2>2
<1>8. QED
    BY <1>1, <1>5, <1>6, <1>7 DEF RetryInv

LEMMA RetryStep ==
    ASSUME RetryInv, [Next]_vars
    PROVE  RetryInv'
<1>1. CASE answers' = answers /\ waited' = waited
    BY <1>1 DEF RetryInv
<1>2. CASE Receive
    <2>1. PICK answer \in Answers(Current) :
              \/ Retried(answer) /\ Wait(answer)
              \/ answer.kind \in {"rows", "none"} /\ Accept(answer)
              \/ \E how \in Errors : Fail(how)
        BY <1>2, ReceiveCases
    <2>2. CASE Retried(answer) /\ Wait(answer)
        BY <2>2, WaitKeepsRetries
    <2>3. CASE Accept(answer) \/ \E how \in Errors : Fail(how)
        BY <2>3, NoRetries DEF Accept, Fail, Finish
    <2>4. QED
        BY <2>1, <2>2, <2>3
<1>3. CASE RefuseRequest \/ Return
    BY <1>3, NoRetries DEF RefuseRequest, Return, Fail, Finish
<1>4. QED
    BY <1>1, <1>2, <1>3 DEF Next, Begin, Piece, Wake, vars

\* Every retry is of a failure that may pass, waits as long as the server
\* asked, and no request holds its caller longer than the limits allow.
THEOREM RetriesJustified == Spec => []RetriesAreJustified
<1>1. Init => RetryInv
    <2>1. 0 <= 0 * LongestDelay
        BY LongestIsNat
    <2>2. QED
        BY <2>1, EmptySequence, RetryAssumption DEF Init, RetryInv
<1>2. RetryInv => RetriesAreJustified
    <2> SUFFICES ASSUME RetryInv
                 PROVE  RetriesAreJustified
        OBVIOUS
    <2>1. Len(answers) \in Nat /\ DOMAIN answers = 1 .. Len(answers)
        BY DEF RetryInv, IsSequence
    <2>2. waited <= (MaxAttempts - 1) * LongestDelay
        <3>1. Len(answers) * LongestDelay <= (MaxAttempts - 1) * LongestDelay
            BY <2>1, LongestIsNat, RetryAssumption DEF RetryInv
        <3>2. Len(answers) * LongestDelay \in Nat /\ (MaxAttempts - 1) * LongestDelay \in Nat
            BY <2>1, LongestIsNat, RetryAssumption
        <3>3. QED
            BY <3>1, <3>2 DEF RetryInv
    <2>3. \A i \in 1 .. Len(answers) : /\ answers[i].kind \notin {"rows", "none", "junk", "4xx"}
                                       /\ answers[i].asked # Unstated =>
                                             /\ answers[i].asked <= MaxRetryAfter
                                             /\ answers[i].asked <= waited
        BY DEF RetryInv
    <2>4. QED
        BY <2>1, <2>2, <2>3 DEF RetryInv, RetriesAreJustified
<1>3. QED
    BY <1>1, <1>2, RetryStep, PTL DEF Spec

(***************************************************************************)
(* Calls                                                                   *)
(***************************************************************************)

\* What was asked for and answered so far.
ProgressInv ==
    /\ call \in Calls
    /\ acs \in Published
    /\ Answered(frames)
    /\ Len(frames) <= Len(RequestsAfter(call, frames))
    /\ \A i \in 1 .. Len(frames) : frames[i].request = RequestsAfter(call, frames)[i]

\* The probe is the last request of its call, and the only one a result may lack.
OutcomeInv ==
    /\ stage # "idle" => outcome = "none"
    /\ outcome \in {"none", "returned"} \cup Errors
    /\ outcome = "returned" =>
          /\ Len(frames) >= Len(RequestsAfter(call, frames)) - (IF Probes(call) THEN 1 ELSE 0)
          /\ call.op = "block_cvap" => Estimable
    /\ outcome \in Errors /\ Probes(call) /\ ~Rejected(call) =>
          Len(frames) < Len(ACSRequests(call))

CallInv == ProgressInv /\ OutcomeInv

\* The request in progress is the next one.
LEMMA CurrentIs ==
    ASSUME ProgressInv, Len(frames) < Len(Requests(call))
    PROVE  /\ Len(frames) \in Nat /\ Len(RequestsAfter(call, frames)) \in Nat
           /\ Len(frames) + 1 \in 1 .. Len(RequestsAfter(call, frames))
           /\ Current = RequestsAfter(call, frames)[Len(frames) + 1]
<1>1. Requests(call) = RequestsAfter(call, frames)
    BY RequestsAreThese
<1>2. Len(frames) \in Nat /\ Len(RequestsAfter(call, frames)) \in Nat
    BY RequestsAfterAre DEF ProgressInv, Answered, IsSequence
<1>3. QED
    BY <1>1, <1>2 DEF Current

LEMMA BeginKeeps ==
    ASSUME acs \in Published, Begin
    PROVE  CallInv'
<1>1. /\ call' \in Calls /\ frames' = << >> /\ acs' = acs
      /\ stage' # "idle" => outcome' = "none"
      /\ outcome' \in {"none", "ValueError"} /\ (outcome' = "ValueError" => Rejected(call'))
    BY DEF Begin
<1>2. Answered(frames') /\ Len(frames') = 0
    BY <1>1, EmptySequence DEF Answered
<1>3. Len(RequestsAfter(call', frames')) \in Nat
    BY <1>1, <1>2, RequestsAfterAre DEF IsSequence
<1>4. ProgressInv'
    BY <1>1, <1>2, <1>3 DEF ProgressInv
<1>5. OutcomeInv'
    BY <1>1 DEF OutcomeInv, Errors
<1>6. QED
    BY <1>4, <1>5 DEF CallInv

LEMMA FailKeeps ==
    ASSUME CallInv, stage = "asking", Len(frames) < Len(Requests(call)),
           NEW how \in Errors, Fail(how)
    PROVE  CallInv'
<1>1. /\ call' = call /\ frames' = frames /\ acs' = acs /\ stage' = "idle"
      /\ outcome' = IF Current.kind = "probe" THEN "returned" ELSE how
    BY DEF Fail, Finish, Caught
<1>2. ProgressInv'
    BY <1>1 DEF CallInv, ProgressInv
<1> DEFINE asked == RequestsAfter(call, frames)
           n == Len(frames) + 1
<1>3. n \in 1 .. Len(asked) /\ Len(frames) \in Nat /\ Len(asked) \in Nat /\ Current = asked[n]
    BY CurrentIs DEF CallInv
<1>4. /\ Len(ACSRequests(call)) \in Nat
      /\ Probes(call) => /\ call.op # "block_cvap"
                         /\ Len(asked) = Len(ACSRequests(call)) + 1
                         /\ asked[Len(ACSRequests(call)) + 1].kind = "probe"
      /\ asked[n].kind = "probe" => Probes(call) /\ n = Len(ACSRequests(call)) + 1
    BY <1>3, RequestsAfterAre DEF CallInv, ProgressInv
<1> HIDE DEF asked
<1>5. CASE Current.kind = "probe"
    <2>1. outcome' = "returned" /\ Len(frames) >= Len(asked) - 1 /\ Probes(call)
          /\ call.op # "block_cvap"
        BY <1>1, <1>3, <1>4, <1>5
    <2>2. QED
        BY <1>1, <1>2, <2>1 DEF CallInv, OutcomeInv, asked, Errors
<1>6. CASE Current.kind # "probe"
    <2>1. outcome' = how /\ how \notin {"none", "returned"}
        BY <1>1, <1>6 DEF Errors
    <2>2. Probes(call) => Len(frames) < Len(ACSRequests(call))
        <3> SUFFICES ASSUME Probes(call)
                     PROVE  Len(frames) < Len(ACSRequests(call))
            OBVIOUS
        <3>1. n # Len(ACSRequests(call)) + 1
            BY <1>3, <1>4, <1>6
        <3>2. QED
            BY <1>3, <1>4, <3>1
    <2>3. QED
        BY <1>1, <1>2, <2>1, <2>2 DEF CallInv, OutcomeInv
<1>7. QED
    BY <1>5, <1>6

LEMMA AcceptKeeps ==
    ASSUME CallInv, stage = "asking", Len(frames) < Len(Requests(call)),
           NEW answer \in Answers(Current), Accept(answer)
    PROVE  CallInv'
<1> DEFINE frame == [request |-> Current, kind |-> answer.kind, areas |-> answer.areas]
           before == RequestsAfter(call, frames)
           after == RequestsAfter(call, Append(frames, frame))
           n == Len(frames)
<1>1. /\ frames' = Append(frames, frame) /\ call' = call /\ acs' = acs
      /\ stage' = stage /\ outcome' = outcome
    BY DEF Accept
<1>2. frame.areas \subseteq Counties /\ frame.request = Current
    BY AnswersAre
<1>3. n + 1 \in 1 .. Len(before) /\ n \in Nat /\ Len(before) \in Nat /\ Current = before[n + 1]
    BY CurrentIs DEF CallInv
<1>4. call \in Calls /\ Answered(frames) /\ \A i \in 1 .. n : frames[i].request = before[i]
    BY DEF CallInv, ProgressInv
<1> HIDE DEF frame
<1>5. /\ Answered(Append(frames, frame)) /\ Len(Append(frames, frame)) = n + 1
      /\ n + 1 <= Len(after)
      /\ \A i \in 1 .. n + 1 : after[i] = before[i]
    BY <1>2, <1>3, <1>4, RequestsAreSettled
<1>6. /\ Append(frames, frame)[n + 1] = frame
      /\ \A i \in 1 .. n : Append(frames, frame)[i] = frames[i]
    BY <1>4, Extended DEF Answered
<1> HIDE DEF after, before
<1>7. ASSUME NEW i \in 1 .. n + 1
      PROVE  Append(frames, frame)[i].request = after[i]
    <2>1. i \in 1 .. n \/ i = n + 1
        BY <1>3
    <2>2. QED
        BY <1>2, <1>3, <1>4, <1>5, <1>6, <2>1
<1>8. ProgressInv'
    BY <1>1, <1>4, <1>5, <1>7 DEF CallInv, ProgressInv, after
<1>9. outcome' = "none"
    BY <1>1 DEF CallInv, OutcomeInv
<1>10. QED
    BY <1>8, <1>9 DEF CallInv, OutcomeInv, Errors

LEMMA ReturnKeeps ==
    ASSUME CallInv, Return
    PROVE  CallInv'
<1>1. /\ call' = call /\ frames' = frames /\ acs' = acs /\ stage' = "idle"
      /\ outcome' = IF call.op = "block_cvap" /\ ~Estimable THEN "ValueError" ELSE "returned"
      /\ Len(frames) = Len(RequestsAfter(call, frames))
    BY RequestsAreThese DEF Return, Finish
<1>2. ProgressInv'
    BY <1>1 DEF CallInv, ProgressInv
<1>3. /\ Len(frames) \in Nat
      /\ Probes(call) => call.op # "block_cvap"
    BY RequestsAfterAre DEF CallInv, ProgressInv, Answered, IsSequence
<1>4. Estimable' <=> Estimable
    BY <1>1 DEF Estimable, Usable, Consistent, Tracts
<1>5. OutcomeInv'
    <2>1. CASE call.op = "block_cvap" /\ ~Estimable
        BY <1>1, <1>3, <2>1 DEF OutcomeInv, Errors
    <2>2. CASE ~(call.op = "block_cvap" /\ ~Estimable)
        <3>1. outcome' = "returned"
            BY <1>1, <2>2
        <3>2. /\ Len(frames)
                     >= Len(RequestsAfter(call, frames)) - (IF Probes(call) THEN 1 ELSE 0)
              /\ call.op = "block_cvap" => Estimable'
            BY <1>1, <1>3, <1>4, <2>2
        <3>3. QED
            BY <1>1, <3>1, <3>2 DEF OutcomeInv, Errors
    <2>3. QED
        BY <2>1, <2>2
<1>6. QED
    BY <1>2, <1>5 DEF CallInv

LEMMA CallStep ==
    ASSUME CallInv, [Next]_vars
    PROVE  CallInv'
<1>1. CASE Begin
    BY <1>1, BeginKeeps DEF CallInv, ProgressInv
<1>2. CASE RefuseRequest
    BY <1>2, FailKeeps DEF RefuseRequest, Errors
<1>3. CASE Receive
    <2>1. PICK answer \in Answers(Current) :
              \/ Retried(answer) /\ Wait(answer)
              \/ answer.kind \in {"rows", "none"} /\ Accept(answer)
              \/ \E how \in Errors : Fail(how)
        BY <1>3, ReceiveCases
    <2>2. stage = "asking" /\ Len(frames) < Len(Requests(call))
        BY <1>3 DEF Receive, Requesting
    <2>3. CASE Wait(answer)
        BY <2>2, <2>3 DEF Wait, CallInv, ProgressInv, OutcomeInv, Estimable, Usable, Tracts
    <2>4. CASE Accept(answer)
        BY <2>2, <2>4, AcceptKeeps
    <2>5. CASE \E how \in Errors : Fail(how)
        BY <2>2, <2>5, FailKeeps
    <2>6. QED
        BY <2>1, <2>3, <2>4, <2>5
<1>4. CASE Piece \/ Wake
    BY <1>4 DEF Piece, Requesting, Wake, CallInv, ProgressInv, OutcomeInv, Estimable, Usable,
                Tracts
<1>5. CASE Return
    BY <1>5, ReturnKeeps
<1>6. CASE UNCHANGED vars
    BY <1>6 DEF vars, CallInv, ProgressInv, OutcomeInv, Estimable, Usable, Tracts
<1>7. QED
    BY <1>1, <1>2, <1>3, <1>4, <1>5, <1>6 DEF Next

LEMMA CallInvariant == Spec => []CallInv
<1>1. Init => CallInv
    <2> SUFFICES ASSUME Init
                 PROVE  CallInv
        OBVIOUS
    <2>1. call \in Calls /\ frames = << >> /\ acs \in Published /\ stage = "idle" /\ outcome = "none"
        BY DEF Init
    <2>2. Answered(frames) /\ Len(frames) = 0
        BY <2>1, EmptySequence DEF Answered
    <2>3. Len(RequestsAfter(call, frames)) \in Nat
        BY <2>1, <2>2, RequestsAfterAre DEF IsSequence
    <2>4. QED
        BY <2>1, <2>2, <2>3 DEF CallInv, ProgressInv, OutcomeInv, Errors
<1>2. QED
    BY <1>1, CallStep, PTL DEF Spec

\* A call returns what it asked for in full but for the probe, whose failure
\* costs its caller nothing.
THEOREM ResultsAreComplete == Spec => []ResultIsComplete
<1>1. CallInv => ResultIsComplete
    <2> SUFFICES ASSUME CallInv
                 PROVE  ResultIsComplete
        OBVIOUS
    <2>1. Requests(call) = RequestsAfter(call, frames)
        BY RequestsAreThese
    <2>2. DOMAIN frames = 1 .. Len(frames)
        BY DEF CallInv, ProgressInv, Answered, IsSequence
    <2>3. QED
        BY <2>1, <2>2 DEF CallInv, ProgressInv, OutcomeInv, ResultIsComplete
<1>2. QED
    BY <1>1, CallInvariant, PTL

(***************************************************************************)
(* Block estimates                                                         *)
(***************************************************************************)

\* A share of a whole.
IsRate(rate) == rate[1] \in Nat /\ rate[2] \in Nat \ {0} /\ rate[1] <= rate[2]

LEMMA ShareOf ==
    ASSUME NEW n \in Nat, NEW a \in Nat, NEW b \in Nat, a <= b
    PROVE  0 <= n * a /\ n * a <= n * b
<1>1. PICK d \in Nat : b = a + d
    <2>1. b - a \in Nat /\ b = a + (b - a)
        OBVIOUS
    <2>2. QED
        BY <2>1
<1>2. n * b = n * a + n * d /\ n * a \in Nat /\ n * d \in Nat
    BY <1>1
<1>3. QED
    BY <1>2

LEMMA RatesAreShares ==
    ASSUME acs \in Published, Usable, NEW t
    PROVE  IsRate(RateOf(t))
<1>1. acs.state.vap \in Int /\ acs.state.cvap \in Int
      /\ acs.state.cvap <= acs.state.vap /\ acs.state.cvap >= 0
    BY EstimateAssumption DEF Usable, Consistent
<1>2. IsRate(StateRate)
    BY <1>1 DEF StateRate, IsRate
<1>3. ASSUME t \in DOMAIN Tracts, Tracts[t].vap >= Threshold
      PROVE  IsRate(<<Tracts[t].cvap, Tracts[t].vap>>)
    <2>1. Tracts[t].cvap <= Tracts[t].vap /\ Tracts[t].cvap >= 0
        BY <1>3 DEF Usable, Consistent
    <2>2. Tracts = acs.tracts
        BY <1>3 DEF Tracts
    <2>3. Tracts[t].vap \in Int /\ Tracts[t].cvap \in Int
        BY <1>3, <2>2, EstimateAssumption
    <2>4. QED
        BY <1>3, <2>1, <2>3, EstimateAssumption DEF IsRate
<1>4. QED
    BY <1>2, <1>3 DEF RateOf

\* Every block estimate is a share of the block's people.
THEOREM EstimatesAreSharesOfBlocks == Spec => []EstimatesAreShares
<1>1. CallInv => EstimatesAreShares
    <2> SUFFICES ASSUME CallInv, outcome = "returned", call.op = "block_cvap",
                        NEW b \in DOMAIN Estimates
                 PROVE  LET e == Estimates[b]
                        IN e[2] > 0 /\ 0 <= e[1] /\ e[1] <= BlockVAP[b] * e[2]
        BY DEF EstimatesAreShares
    <2>1. b \in BlocksFetched
        BY DEF Estimates
    <2>2. PICK i \in DOMAIN frames : /\ frames[i].request.geometry = "block"
                                     /\ b \in BlocksIn[frames[i].request.of]
        BY <2>1 DEF BlocksFetched
    <2>3. /\ IsSequence(frames) /\ Answered(frames) /\ i \in 1 .. Len(frames)
          /\ Len(frames) \in Nat /\ acs \in Published
        BY <2>2 DEF CallInv, ProgressInv, Answered, IsSequence
    <2> DEFINE asked == BlockRequestsAfter(frames)
    <2>4. /\ frames[i].request = asked[i] /\ Len(frames) <= Len(asked)
        BY <2>3, ByOperation DEF CallInv, ProgressInv
    <2>5. /\ Len(asked) \in Nat
          /\ Len(asked) = IF Len(frames) < 5 THEN 5 ELSE 5 + Cardinality(frames[5].areas)
          /\ \A j \in 1 .. Len(asked) :
                asked[j].geometry = "block" => j > 5 /\ asked[j].of \in Counties
        BY <2>3, BlockRequestsAre DEF IsSequence
    <2> HIDE DEF asked
    <2>6. i \in 1 .. Len(asked) /\ i > 5 /\ frames[i].request.of \in Counties
        BY <2>2, <2>3, <2>4, <2>5
    <2>7. b \in DOMAIN BlockVAP /\ BlockVAP[b] \in Nat
        BY <2>2, <2>6, EstimateAssumption
    <2>8. Usable
        <3>1. frames[5].areas # {}
            <4>1. frames[5].areas = {} => Cardinality(frames[5].areas) = 0
                BY FS_EmptySet
            <4>2. Cardinality(frames[5].areas) # 0
                BY <2>5, <2>6
            <4>3. QED
                BY <4>1, <4>2
        <3>2. QED
            BY <3>1, RateRequestsAre DEF CallInv, OutcomeInv, Estimable
    <2>9. IsRate(RateOf(TractOf[b]))
        BY <2>3, <2>8, RatesAreShares
    <2>10. Estimates[b] = <<BlockVAP[b] * RateOf(TractOf[b])[1], RateOf(TractOf[b])[2]>>
        BY <2>1 DEF Estimates
    <2>11. QED
        BY <2>7, <2>9, <2>10, ShareOf DEF IsRate
<1>2. QED
    BY <1>1, CallInvariant, PTL

\* For any calls, counties, tracts and answers, a result has every request answered, and block
\* estimates that are shares of their blocks.
THEOREM ResultsStaySound == Spec => []ResultsAreSound
<1>1. ResultIsComplete /\ EstimatesAreShares => ResultsAreSound
    BY DEF ResultsAreSound
<1>2. QED
    BY <1>1, ResultsAreComplete, EstimatesAreSharesOfBlocks, PTL

=============================================================================

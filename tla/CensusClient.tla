---------------------------- MODULE CensusClient ----------------------------
(***************************************************************************)
(* Queries of the Census API (gerrytools/data/uscensus): the retry loop of *)
(* _api.py under the calls of acs.py, census.py and block_cvap.py, each a  *)
(* fixed succession of requests of which any may be answered late, badly,  *)
(* in pieces or not at all.                                                *)
(*                                                                         *)
(* An answer is its kind, the seconds a 429 asks to wait and the counties  *)
(* its rows name.  Numbers of the tables matter to block estimates only;   *)
(* they are those of one race category, since every category is computed   *)
(* alike, and a rate is a pair of numerator and denominator.               *)
(***************************************************************************)
EXTENDS Integers, FiniteSets, Sequences

CONSTANTS
    MaxAttempts,        \* MAX_REQUEST_ATTEMPTS
    BaseDelay,          \* RETRY_BASE_DELAY_SECONDS
    MaxRetryAfter,      \* MAX_RETRY_AFTER_SECONDS
    RetryAfters,        \* seconds that Retry-After headers ask for
    Unstated,           \* no Retry-After header, or one that does not parse
    Counties,           \* counties of the state, by FIPS number
    Calls,              \* calls of the public functions
    ColumnsOf,          \* condensed columns of an ACS table
    VariablesOf,        \* how many variables a request for the table names
    BlocksIn,           \* blocks of a county
    TractOf,            \* tract of a block
    BlockVAP,           \* decennial voting-age population of a block
    Published,          \* what the ACS may hold: rows of tracts and a state row
    Threshold           \* denominator_threshold

ASSUME RetryAssumption ==
    /\ MaxAttempts \in Nat \ {0}
    /\ BaseDelay \in Nat
    /\ MaxRetryAfter \in Nat
    /\ RetryAfters \subseteq Nat
    /\ Unstated \notin Nat

ASSUME CallAssumption ==
    \A c \in Calls :
        /\ c.op \in {"acs", "acs_full", "cvap", "census", "block_cvap"}
        /\ Len(c.tables) \in Nat

ASSUME EstimateAssumption ==
    /\ Threshold \in Nat \ {0}
    /\ IsFiniteSet(Counties) /\ Counties \subseteq Nat
    /\ \A county \in Counties : BlocksIn[county] \subseteq DOMAIN BlockVAP
    /\ \A b \in DOMAIN BlockVAP : BlockVAP[b] \in Nat
    /\ \A held \in Published :
          \A row \in {held.state} \cup {held.tracts[t] : t \in DOMAIN held.tracts} :
              row.vap \in Int /\ row.cvap \in Int

VARIABLES
    call,       \* the call in progress, or the last one
    stage,      \* "idle", "asking" or "waiting"
    answers,    \* to the request in progress, one per attempt
    pieces,     \* of the answer in progress, counted modulo two
    waited,     \* seconds slept for the request in progress
    frames,     \* requests of the call that were answered, with their counties
    warned,     \* the caller was told that counties are missing
    outcome,    \* how the last call ended
    acs         \* what the ACS holds

vars == <<call, stage, answers, pieces, waited, frames, warned, outcome, acs>>

-----------------------------------------------------------------------------
(* The requests of a call *)

IsACS(c) == c.op \in {"acs", "acs_full", "cvap"}

Request(kind, of, geometry) == [kind |-> kind, of |-> of, geometry |-> geometry]

\* _fetch_est_moe, table by table.
ACSRequests(c) ==
    [i \in 1 .. 2 * Len(c.tables) |->
        Request(IF i % 2 = 1 THEN "E" ELSE "M", c.tables[(i + 1) \div 2], c.geometry)]

RateRequests ==
    <<Request("E", "VAP", "tract"), Request("E", "CVAP", "tract"),
      Request("E", "VAP", "state"), Request("E", "CVAP", "state"),
      Request("PL", "NAME", "county")>>

Ascending(numbers) ==
    CHOOSE s \in [1 .. Cardinality(numbers) -> numbers] :
        \A i, j \in DOMAIN s : i < j => s[i] < s[j]

\* block_cvap_estimates learns the counties from its fifth answer.
BlockRequests ==
    IF Len(frames) < Len(RateRequests) THEN RateRequests
    ELSE LET listed == Ascending(frames[Len(RateRequests)].areas)
         IN RateRequests \o [i \in DOMAIN listed |-> Request("PL", listed[i], "block")]

\* _warn_if_partial_acs1_data asks the five-year survey for its counties.
Probe == Request("probe", "GEO_ID", "county")

Probes(c) == IsACS(c) /\ c.survey = "acs1" /\ c.geometry = "county"

Requests(c) ==
    CASE IsACS(c) -> ACSRequests(c) \o (IF Probes(c) THEN <<Probe>> ELSE << >>)
      [] c.op = "census" -> <<Request("PL", c.tables[1], c.geometry)>>
      [] c.op = "block_cvap" -> BlockRequests

Current == Requests(call)[Len(frames) + 1]

\* What a public function refuses before its first request.
Rejected(c) ==
    \/ c.year \notin 2000 .. 2050
    \/ /\ IsACS(c)
       /\ \/ c.survey \notin {"acs1", "acs5"}
          \/ c.tables = << >>
          \/ \E i, j \in DOMAIN c.tables :
                i # j /\ ColumnsOf[c.tables[i]] \cap ColumnsOf[c.tables[j]] # {}
    \/ c.op = "census" /\ c.tableYear # c.year
    \/ c.op = "block_cvap" /\ (c.tableYear # 2020 \/ c.year < 2020)

\* What is refused when a request is put together, earlier answers
\* notwithstanding.
Refused(c, r) ==
    \/ ~c.key
    \/ r.geometry \notin {"state", "county", "tract", "block group", "block"}
    \/ /\ r.kind \in {"E", "M"}
       /\ \/ c.survey = "acs1" /\ r.geometry \in {"tract", "block group"}
          \/ VariablesOf[r.of] + 1 > 50

-----------------------------------------------------------------------------
(* _get_with_retries *)

Answer(kind, asked, areas) == [kind |-> kind, asked |-> asked, areas |-> areas]

\* What may come back: rows, none (204 or a header alone), a payload that is
\* not a table, an error status, or nothing at all ("5xx" stands for both a
\* server error and a transport failure, which keep to one schedule).  The
\* counties of rows are kept where somebody reads them.
Answers(r) ==
    {Answer("rows", Unstated, areas) :
        areas \in IF r.geometry = "county" /\ (frames = << >> \/ r.kind \in {"PL", "probe"})
                  THEN SUBSET Counties \ {{}} ELSE {{}}}
    \cup {Answer(kind, Unstated, {}) : kind \in {"none", "junk", "4xx", "5xx"}}
    \cup {Answer("429", asked, {}) : asked \in RetryAfters \cup {Unstated}}

\* Mistake: every error status is tried again.
AnyErrorIsTransient(answer) == answer.kind \in {"429", "4xx", "5xx"}

Transient(answer) == answer.kind \in {"429", "5xx"}

TooLong(answer) == answer.kind = "429" /\ answer.asked # Unstated /\ answer.asked > MaxRetryAfter

\* Waits double from one attempt to the next.
Backoff[n \in 0 .. MaxAttempts] == IF n = 0 THEN BaseDelay ELSE 2 * Backoff[n - 1]

\* _retry_delay_seconds
Delay(answer, attempt) ==
    IF answer.kind = "429" /\ answer.asked # Unstated
    THEN answer.asked
    ELSE Backoff[attempt - 1]

-----------------------------------------------------------------------------
(* _estimate_block_cvap_from_inputs *)

Consistent(row) == row.cvap <= row.vap /\ row.cvap >= 0

\* An answer without rows is a table without tracts.
Tracts == IF frames[1].kind = "rows" THEN acs.tracts ELSE << >>

\* Mistake: the state row is not checked, since it only serves as a fallback.
UsableTracts == \A t \in DOMAIN Tracts : Consistent(Tracts[t])

\* _tract_cvap_rates and _state_cvap_rates raise on the first row that is not.
Usable ==
    /\ Consistent(acs.state)
    /\ \A t \in DOMAIN Tracts : Consistent(Tracts[t])

StateRate ==
    IF acs.state.vap > 0 THEN <<acs.state.cvap, acs.state.vap>> ELSE <<0, 1>>

\* A tract with few people, or none in the survey, takes the rate of the state.
RateOf(t) ==
    IF t \in DOMAIN Tracts /\ Tracts[t].vap >= Threshold
    THEN <<Tracts[t].cvap, Tracts[t].vap>>
    ELSE StateRate

BlocksFetched ==
    UNION {BlocksIn[frames[i].request.of] :
              i \in {j \in DOMAIN frames : /\ frames[j].request.geometry = "block"
                                           /\ frames[j].kind = "rows"}}

Estimates ==
    [b \in BlocksFetched |->
        LET rate == RateOf(TractOf[b]) IN <<BlockVAP[b] * rate[1], rate[2]>>]

\* Without counties nothing is estimated.  A state without rows has no rate,
\* and a tract in only one of the two tables has no finite one.
Estimable ==
    \/ frames[Len(RateRequests)].areas = {}
    \/ /\ frames[1].kind = frames[2].kind
       /\ frames[3].kind = "rows"
       /\ frames[4].kind = "rows"
       /\ Usable

-----------------------------------------------------------------------------
(* Actions *)

Init ==
    /\ call \in Calls
    /\ stage = "idle"
    /\ answers = << >>
    /\ pieces = 0
    /\ waited = 0
    /\ frames = << >>
    /\ warned = FALSE
    /\ outcome = "none"
    /\ acs \in Published

Begin ==
    /\ stage = "idle"
    /\ call' \in Calls
    /\ stage' = IF Rejected(call') THEN "idle" ELSE "asking"
    /\ outcome' = IF Rejected(call') THEN "ValueError" ELSE "none"
    /\ frames' = << >>
    /\ warned' = FALSE
    /\ UNCHANGED <<answers, pieces, waited, acs>>

Finish(how) ==
    /\ outcome' = how
    /\ stage' = "idle"
    /\ answers' = << >>
    /\ waited' = 0

\* Mistake: the probe forgives transport and server failures only.
CaughtFromHTTP(r, how) == r.kind = "probe" /\ how = "HTTPError"

\* Whatever goes wrong while the probe runs, the data are already there.
Caught(r, how) == r.kind = "probe"

Fail(how) ==
    /\ Finish(IF Caught(Current, how) THEN "returned" ELSE how)
    /\ UNCHANGED <<call, frames, warned, acs>>

RefuseRequest ==
    /\ stage = "asking"
    /\ Len(frames) < Len(Requests(call))
    /\ answers = << >>
    /\ Refused(call, Current)
    /\ Fail("ValueError")
    /\ UNCHANGED pieces

\* Mistake: attempts are not counted.
WaitUncounted(answer) ==
    /\ stage' = "waiting"
    /\ UNCHANGED <<call, answers, waited, frames, warned, outcome, acs>>

Wait(answer) ==
    /\ stage' = "waiting"
    /\ answers' = Append(answers, answer)
    /\ waited' = waited + Delay(answer, Len(answers) + 1)
    /\ UNCHANGED <<call, frames, warned, outcome, acs>>

Accept(answer) ==
    LET frame == [request |-> Current, kind |-> answer.kind, areas |-> answer.areas]
    IN /\ frames' = Append(frames, frame)
       /\ answers' = << >>
       /\ waited' = 0
       /\ warned' = (Current.kind = "probe" /\ ~(answer.areas \subseteq frames[1].areas))
       /\ UNCHANGED <<call, stage, outcome, acs>>

Retried(answer) ==
    /\ Transient(answer)
    /\ Len(answers) + 1 < MaxAttempts
    /\ ~TooLong(answer)

\* How _census_get reports what is not tried again.
Reported(answer) ==
    CASE answer.kind = "429" -> "CensusRateLimitError"
      [] answer.kind \in {"4xx", "5xx"} -> "HTTPError"
      [] answer.kind = "junk" -> "ValueError"

\* client.get is waiting.
Requesting ==
    /\ stage = "asking"
    /\ Len(frames) < Len(Requests(call))
    /\ ~Refused(call, Current)

\* REQUEST_TIMEOUT is for a connect, a read or a write; a piece of the answer
\* that comes in time starts it again, and nothing counts the pieces.
Piece ==
    /\ Requesting
    /\ pieces' = 1 - pieces
    /\ UNCHANGED <<call, stage, answers, waited, frames, warned, outcome, acs>>

\* The last piece, or a wait that has reached its limit.
Receive ==
    /\ Requesting
    /\ pieces' = 0
    /\ \E answer \in Answers(Current) :
          \/ Retried(answer) /\ Wait(answer)
          \/ answer.kind \in {"rows", "none"} /\ Accept(answer)
          \/ /\ ~Retried(answer)
             /\ answer.kind \notin {"rows", "none"}
             /\ Fail(Reported(answer))

Wake ==
    /\ stage = "waiting"
    /\ stage' = "asking"
    /\ UNCHANGED <<call, answers, pieces, waited, frames, warned, outcome, acs>>

Return ==
    /\ stage = "asking"
    /\ Len(frames) = Len(Requests(call))
    /\ Finish(IF call.op = "block_cvap" /\ ~Estimable THEN "ValueError" ELSE "returned")
    /\ UNCHANGED <<call, pieces, frames, warned, acs>>

Next == Begin \/ RefuseRequest \/ Piece \/ Receive \/ Wake \/ Return

\* A sleep ends with its seconds, and each wait of a request within
\* REQUEST_TIMEOUT: with a piece, with the answer or with a timeout.  Nothing
\* says that a request ends.
Fairness == WF_vars(RefuseRequest \/ Piece \/ Receive \/ Wake \/ Return)

Spec == Init /\ [][Next]_vars /\ Fairness

-----------------------------------------------------------------------------
(* Properties *)

LongestDelay ==
    IF Backoff[MaxAttempts - 1] > MaxRetryAfter THEN Backoff[MaxAttempts - 1] ELSE MaxRetryAfter

TypeOK ==
    /\ call \in Calls
    /\ stage \in {"idle", "asking", "waiting"}
    /\ Len(answers) <= MaxAttempts
    /\ pieces \in {0, 1}
    /\ Len(frames) <= Len(Requests(call))
    /\ warned \in BOOLEAN
    /\ outcome \in {"none", "returned", "ValueError", "HTTPError", "CensusRateLimitError"}
    /\ acs \in Published

\* The loop asks again only after a failure that may pass, at most MaxAttempts
\* times in all, and never before the seconds the server asked for; no request
\* holds its caller longer than the two limits allow together.
RetriesAreJustified ==
    /\ Len(answers) < MaxAttempts
    /\ \A i \in DOMAIN answers :
          /\ answers[i].kind \notin {"rows", "none", "junk", "4xx"}
          /\ answers[i].asked # Unstated => answers[i].asked <= MaxRetryAfter
    /\ \A i \in DOMAIN answers : answers[i].asked # Unstated => waited >= answers[i].asked
    /\ waited <= (MaxAttempts - 1) * LongestDelay

\* A call returns only what it asked for in full: every request answered once
\* and in order, each county of the list among them.  The advisory probe alone
\* may fail, and its failure never costs the caller the data.
ResultIsComplete ==
    /\ outcome = "returned" =>
          /\ \A i \in DOMAIN frames : frames[i].request = Requests(call)[i]
          /\ Len(frames) >= Len(Requests(call)) - (IF Probes(call) THEN 1 ELSE 0)
    /\ outcome \notin {"none", "returned"} /\ Probes(call) /\ ~Rejected(call) =>
          Len(frames) < Len(ACSRequests(call))

\* A block estimate is a share of the block's own voting-age population: no
\* rate exceeds one or divides by nothing, wherever the rate came from.
EstimatesAreShares ==
    outcome = "returned" /\ call.op = "block_cvap" =>
        \A b \in DOMAIN Estimates :
            LET e == Estimates[b]
            IN e[2] > 0 /\ 0 <= e[1] /\ e[1] <= BlockVAP[b] * e[2]

\* Invariant.  What a call returns is complete, and what it computes of it is a share.
ResultsAreSound == ResultIsComplete /\ EstimatesAreShares

\* A call ends whatever the server answers and however late, unless the server
\* sends one answer in pieces without end: the timeout bounds each wait for a
\* piece and not the request (README, Findings).
CallsEnd ==
    \/ stage # "idle" ~> stage = "idle"
    \/ <>[][Piece]_vars /\ []<><<Piece>>_vars

=============================================================================

----------------------------- MODULE Formulas -----------------------------
(***************************************************************************)
(* The array formulas of gerrytools.scoring.formulas, for one plan.  p and *)
(* o are the tallies of a party and of its opposition by district; ps and  *)
(* os are sequences of such tallies, one for each election.  Whole parts   *)
(* are one vote, so that fractional tallies occur and are told apart.      *)
(***************************************************************************)
EXTENDS Fractions, Sequences, FiniteSets

Refused == "refused"

LOCAL Districts(p) == DOMAIN p
LOCAL Count(p) == Cardinality(DOMAIN p)

\* district_vote_shares
DistrictVoteShares(p, o) == [d \in Districts(p) |-> Frac(p[d], p[d] + o[d])]

\* district_wins: a tie is nobody's win.
DistrictWins(p, o) == {d \in Districts(p) : p[d] > o[d]}

Seats(p, o) == Cardinality(DistrictWins(p, o))

LOCAL SeatShare(p, o) == Frac(Seats(p, o), Count(p))

OverallVoteShare(p, o) == Frac(SumFunction(p), SumFunction(p) + SumFunction(o))

\* _partisan_shares_and_reference: the statewide share a swing is anchored at.
Reference(p, o, model) ==
  LET shares == DistrictVoteShares(p, o)
      valid == {d \in Districts(p) : shares[d] # NaN}
  IN IF model = "equal" THEN Mean(Restrict(shares, valid)) ELSE OverallVoteShare(p, o)

\* Twice the votes that win a district: a majority of whole votes, half the
\* turnout when a tally is fractional.
TwiceThreshold(p, o, d) ==
  LET total == p[d] + o[d]
  IN IF p[d] % Whole = 0 /\ o[d] % Whole = 0
     THEN 2 * Whole * (total \div (2 * Whole) + 1)
     ELSE total

EfficiencyGap(p, o) ==
  LET TwiceWasted(a, b, d) == 2 * a[d] - (IF a[d] > b[d] THEN TwiceThreshold(p, o, d) ELSE 0)
  IN Frac(SumFunction([d \in Districts(p) |-> TwiceWasted(o, p, d) - TwiceWasted(p, o, d)]),
          2 * (SumFunction(p) + SumFunction(o)))

SimplifiedEfficiencyGap(p, o) ==
  LET v == OverallVoteShare(p, o) IN Minus(Plus(SeatShare(p, o), Half), Plus(v, v))

\* The values in ascending order, the missing ones last (numpy.sort).
LOCAL Ascending(f) ==
  LET Before(x, y) == Less(x, y) \/ (x # NaN /\ y = NaN)
      Below(v) == Cardinality({d \in DOMAIN f : Before(f[d], v)})
      Level(v) == Cardinality({d \in DOMAIN f : f[d] = v})
  IN [r \in 1..Cardinality(DOMAIN f) |->
        CHOOSE v \in Range(f) : Below(v) < r /\ r <= Below(v) + Level(v)]

\* numpy.median: without a value as soon as one entry has none.
Median(f) ==
  LET s == Ascending(f)
      n == Len(s)
  IN IF \E r \in 1..n : s[r] = NaN THEN NaN
     ELSE Divide(Plus(s[(n + 1) \div 2], s[n \div 2 + 1]), 2)

MeanMedian(p, o) ==
  LET shares == DistrictVoteShares(p, o) IN Minus(Median(shares), Mean(shares))

\* The tie tolerance is exact equality here.
PartisanBias(p, o, model) ==
  LET shares == DistrictVoteShares(p, o)
      reference == Reference(p, o, model)
      valid == {d \in Districts(p) : shares[d] # NaN}
      above == {d \in Districts(p) : Less(reference, shares[d])}
      level == {d \in valid : shares[d] = reference}
  IN Minus(Frac(2 * Cardinality(above) + Cardinality(level), 2 * Cardinality(valid)), Half)

\* The mean distance of the seats-votes curve from its reflection.
PartisanGini(p, o, model) ==
  LET descending == LET s == Ascending(DistrictVoteShares(p, o))
                    IN [r \in DOMAIN s |-> s[Len(s) + 1 - r]]
      curve == [r \in DOMAIN descending |->
                  Clamp(Plus(Minus(Reference(p, o, model), descending[r]), Half))]
      Reflected(r) == Minus(Int2Frac(1), curve[Len(curve) + 1 - r])
  IN Mean([r \in DOMAIN curve |-> Abs(Minus(curve[r], Reflected(r)))])

Disproportionality(p, o) == Minus(SeatShare(p, o), OverallVoteShare(p, o))

-----------------------------------------------------------------------------
\* Scores over several elections.

CompetitiveContests(ps, os, margin) ==
  LET Close(x) == Less(Minus(Half, margin), x) /\ Less(x, Plus(Half, margin))
  IN SumFunction([e \in DOMAIN ps |->
       LET shares == DistrictVoteShares(ps[e], os[e])
       IN Cardinality({d \in DOMAIN shares : Close(shares[d])})])

PartyWinsByDistrict(ps, os) ==
  [d \in Districts(ps[1]) |-> Cardinality({e \in DOMAIN ps : d \in DistrictWins(ps[e], os[e])})]

PartyDistricts(ps, os) ==
  Cardinality({d \in Districts(ps[1]) : \A e \in DOMAIN ps : ps[e][d] > os[e][d]})

OppositionPartyDistricts(ps, os) ==
  Cardinality({d \in Districts(ps[1]) : \A e \in DOMAIN ps : os[e][d] > ps[e][d]})

SwingDistricts(ps, os) ==
  Cardinality({d \in Districts(ps[1]) : /\ \E e \in DOMAIN ps : ~(ps[e][d] > os[e][d])
                                        /\ \E e \in DOMAIN ps : ~(os[e][d] > ps[e][d])})

AggregateSeats(ps, os) ==
  Cardinality({c \in (DOMAIN ps) \X Districts(ps[1]) : ps[c[1]][c[2]] > os[c[1]][c[2]]})

MeanSignedSeatVoteGap(ps, os) == Mean([e \in DOMAIN ps |-> Disproportionality(ps[e], os[e])])

MeanAbsoluteSeatVoteGap(ps, os) ==
  Mean([e \in DOMAIN ps |-> Abs(Disproportionality(ps[e], os[e]))])

\* rp, ro and rpop are the regions' votes and populations.
Eguia(p, o, rp, ro, rpop) ==
  Minus(SeatShare(p, o),
        Frac(SumFunction(Restrict(rpop, DistrictWins(rp, ro))), SumFunction(rpop)))

-----------------------------------------------------------------------------
\* Scores of populations: pop, sub and total are tallies by district.

LOCAL Ideal(pop) == Frac(SumFunction(pop), Count(pop))

LOCAL Ratio(x, y) == Frac(x[1] * y[2], x[2] * y[1])

LOCAL RelativeTo(x, ideal, relative) == IF relative THEN Ratio(x, ideal) ELSE x

\* _positive_population_totals
LOCAL IsPopulated(pop) == SumFunction(pop) > 0

PopulationDeviations(pop) ==
  IF IsPopulated(pop)
  THEN [d \in Districts(pop) |-> Ratio(Minus(Int2Frac(pop[d]), Ideal(pop)), Ideal(pop))]
  ELSE Refused

MaxAbsolutePopulationDeviation(pop, relative) ==
  LET off == {Abs(Minus(Int2Frac(pop[d]), Ideal(pop))) : d \in Districts(pop)}
      worst == CHOOSE x \in off : \A y \in off : ~Less(x, y)
  IN IF IsPopulated(pop) THEN RelativeTo(worst, Ideal(pop), relative) ELSE Refused

MaxPopulationDeviation(pop, relative) ==
  LET spread == Max({pop[d] : d \in Districts(pop)}) - Min({pop[d] : d \in Districts(pop)})
  IN IF IsPopulated(pop) THEN RelativeTo(Int2Frac(spread), Ideal(pop), relative) ELSE Refused

LOCAL Exceeds(sub, total) == \E d \in Districts(sub) : sub[d] > total[d]

DemographicShares(sub, total) ==
  IF Exceeds(sub, total) THEN Refused ELSE [d \in Districts(sub) |-> Frac(sub[d], total[d])]

DistrictsAboveThreshold(sub, total, threshold) ==
  IF Exceeds(sub, total) THEN Refused
  ELSE Cardinality({d \in Districts(sub) : Less(threshold, Frac(sub[d], total[d]))})
=============================================================================

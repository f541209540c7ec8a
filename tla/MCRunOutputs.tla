---------------------------- MODULE MCRunOutputs ----------------------------
(***************************************************************************)
(* One spec of each type; values that each check of validate() tells apart *)
(* from its default; runs of a chain and of SMC runs whose file names were  *)
(* chosen so that they share their metadata.                               *)
(***************************************************************************)
EXTENDS RunOutputs

MCSeeds == [recom |-> 3, forest |-> 2, smc |-> 1]

Partial == Dict([objective |-> Text("gingles_partial"), threshold |-> Halves(1),
                 min_pop |-> Text("BVAP"), total_pop |-> Text("VAP")])

Chain == [type |-> "chain",
          given |-> [pop_col |-> Text("POP"), assignment_col |-> Text("CD"), variant |-> Text("A")]]
Bursts == [type |-> "bursts",
           given |-> [pop_col |-> Text("POP"), assignment_col |-> Text("CD"),
                      objective |-> Partial, burst_length |-> Number(5)]]
Tilted == [type |-> "tilted",
           given |-> [pop_col |-> Text("POP"), assignment_col |-> Text("CD"),
                      objective |-> Partial]]
Forest == [type |-> "forest", given |-> [levels |-> List(<<Text("COUNTY")>>), pop_col |-> Text("POP")]]
SMC == [type |-> "smc",
        given |-> [pop_col |-> Text("POP"), n_dists |-> Number(2), n_sims |-> Number(5)]]

MCFresh == {Chain, Bursts, Tilted, Forest, SMC}

Plans(token) == <<"name", <<Text("plans"), token>>>>

Given(s, fields) == [s EXCEPT !.given = fields @@ @]

FollowedRuns ==
    <<Chain, Given(Chain, [sum_cols |-> List(<<Text("BVAP")>>)]),
      Given(SMC, [output_file_name |-> Plans(Ext("jsonl"))]),
      Given(SMC, [output_file_name |-> Plans(Ext("ben")), writer |-> Text("ben")])>>

MCFollowed == {FollowedRuns[i] : i \in DOMAIN FollowedRuns}
MCDocuments == [i \in DOMAIN FollowedRuns |-> Hashed(Full(FollowedRuns[i]))]
MCFiles == UNION {ExpectedFiles(Full(s)) : s \in MCFollowed}
MCEarlier == {f \in MCFiles : f[1] = Text("plans") /\ Len(f) = 2}

Column == List(<<Text("BVAP")>>)

MCAssignments ==
    {<<"writer", Text(w)>> : w \in {"jsonl", "ben", "bendl", "csv", "raw", "xml"}} \cup
    {<<"variant", Text(w)>> : w \in {"R", "AW", "cut-edges-ust", "Z"}} \cup
    {<<"accept_rule", Text(w)>> : w \in {"fixed", "none"}} \cup
    {<<"output_file_name", n>> : n \in {Plans(Ext("jsonl")), Plans(Ext("ben")),
                                        Plans(<<"odd", "v1-b">>), Text("plans/run"), None}} \cup
    {<<"force_print", b>> : b \in {Flag(TRUE), Number(1)}} \cup
    {<<f, v>> : f \in {"n_steps", "n_sims", "burst_length", "n_dists"}, v \in {Number(0), Number(2)}} \cup
    {<<f, v>> : f \in {"pop_tol", "pop_dev", "acceptance_beta"}, v \in {NaN, Number(-1), Halves(1)}} \cup
    {<<f, v>> : f \in {"seq_alpha", "accept_worse_prob"}, v \in {Halves(3), Halves(1)}} \cup
    {<<f, v>> : f \in {"sum_cols", "tally_columns", "levels", "edge_weight_keys"},
                v \in {Column, Empty, Text("BVAP")}} \cup
    {<<"rng_seed", Number(n)>> : n \in {-1, 0, 3}} \cup
    {<<"balance_ub", Number(n)>> : n \in {1, 9}} \cup
    {<<"region_weights", d>> : d \in {Dict([COUNTY |-> Halves(1)]), Dict([COUNTY |-> NaN])}} \cup
    {<<"bendl_graph_order", o>> : o \in {Text("rcm"), <<"key", "GEOID">>, <<"key", "">>}} \cup
    {<<"pop_bounds", List(s)>> : s \in {<<Number(1), Number(2), Number(3)>>,
                                        <<Number(1), Number(3), Number(2)>>, <<Number(1)>>}} \cup
    {<<"updaters", None>>, <<"gamma", NaN>>, <<"target_pop", Number(0)>>, <<"constraint", Dict(<< >>)>>,
     <<"constraints", List(<<PackNodes(NaN)>>)>>, <<"objective", Dict(<< >>)>>,
     <<"objective", Dict([objective |-> Text("gingles_partial"), threshold |-> Halves(2),
                          min_pop |-> Text("BVAP"), total_pop |-> Text("VAP")])>>,
     <<"assignment_col", Text("..")>>}

MCAdditions ==
    {DistrictShareFloor(Text("BVAP"), Column, v) : v \in {Halves(1), Number(2)}} \cup
    {DistrictShareFloor(Text("BVAP"), Empty, Halves(1)),
     GroupHinge(Number(1), Text("BVAP"), None, List(<<Halves(1)>>)),
     GroupHinge(Number(1), Text("BVAP"), None, Empty),
     GroupPower(Number(1), Text("BVAP"), Text("VAP"), Halves(1), Number(0)),
     GroupPower(Number(1), Text("BVAP"), Text("VAP"), Halves(1), Number(1)),
     GroupPower(Number(1), Text("BVAP"), None, Halves(1), Number(1)),
     StatusQuo(Number(1), Text("CD")), StatusQuo(NaN, Text("CD")), Splits(Number(1), Text("")),
     PackNodes(Number(-1)), MaxCoarseNodeSplits(Number(-1)), AllowedExcessDists(Number(0)),
     MaxDiscontinuousTraversalSegments(Number(2))}

Elections(keys) == List(<<Dict([k \in keys |-> Text("votes")])>>)

Deviation(text, count) ==
    [pov_counts_col |-> Text("BVAP"), total_counts_col |-> text, total_count |-> count]

MCTargets ==
    {<<"by_district_abs_deviation", Deviation(t, c) @@ [target_values |-> List(<<Halves(1)>>)]>> :
        t \in {None, Text("VAP")}, c \in {None, Number(5)}} \cup
    {<<"abs_deviation", Deviation(None, Number(5)) @@ [target |-> s, n_target_districts |-> n]>> :
        s \in {Halves(1), Number(2)}, n \in {Number(0), Number(1)}} \cup
    {<<"banded_gingles_partial",
       [lower_threshold |-> Halves(1), upper_threshold |-> u, min_pop |-> Text("BVAP"),
        total_pop |-> Text("VAP")]>> : u \in {Halves(1), Number(1)}} \cup
    {<<"election_wins", [elections |-> Elections(k), target |-> Text(t), aggregation |-> Text("mean")]>> :
        k \in {{"votes_a", "votes_b"}, {"votes_a"}}, t \in {"a", "c"}} \cup
    {<<"polsby_popper", [area_col |-> Text("area"), shared_perim_col |-> Text("shared"),
                         perim_col |-> p, boundary_perim_col |-> b, aggregation |-> Text("min")]>> :
        p \in {None, Text("perim")}, b \in {None, Text("boundary")}}

=============================================================================

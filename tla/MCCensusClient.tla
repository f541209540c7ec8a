-------------------------- MODULE MCCensusClient ---------------------------
(***************************************************************************)
(* Two counties, one call of each public function and of each way a call   *)
(* is refused.                                                             *)
(***************************************************************************)
EXTENDS CensusClient

ACSCall(op, tables, survey, geometry, key) ==
    [op |-> op, tables |-> tables, survey |-> survey, geometry |-> geometry,
     key |-> key, year |-> 2024, tableYear |-> 2024]

PLCall(op, geometry, year, tableYear) ==
    [op |-> op, tables |-> <<"P1">>, survey |-> "acs5", geometry |-> geometry,
     key |-> TRUE, year |-> year, tableYear |-> tableYear]

MCCalls ==
    {ACSCall("acs", <<"VAP", "CVAP">>, "acs1", "county", TRUE),
     ACSCall("acs", <<"VAP", "VAP">>, "acs5", "county", TRUE),
     ACSCall("acs_full", <<"CVAP", "wide">>, "acs5", "state", TRUE),
     ACSCall("cvap", <<"CVAP">>, "acs1", "tract", TRUE),
     ACSCall("cvap", <<"CVAP">>, "acs5", "county", FALSE),
     PLCall("census", "block", 2020, 2020),
     PLCall("census", "block", 2010, 2020),
     PLCall("block_cvap", "block", 2024, 2020)}

MCColumnsOf == [t \in {"VAP", "CVAP", "wide"} |-> {t}]
MCVariablesOf == [t \in {"VAP", "CVAP", "wide"} |-> IF t = "wide" THEN 50 ELSE 30]

\* County 1 has two blocks in one tract, county 3 one block in a tract the
\* survey leaves out.
MCBlocksIn == [c \in {1, 3} |-> IF c = 1 THEN {"b1", "b2"} ELSE {"b3"}]
MCTractOf == [b \in {"b1", "b2", "b3"} |-> IF b = "b3" THEN "t3" ELSE "t1"]
MCBlockVAP == [b \in {"b1", "b2", "b3"} |-> IF b = "b1" THEN 0 ELSE 3]

Row(vap, cvap) == [vap |-> vap, cvap |-> cvap]

\* Tracts below and at the threshold, a row with more citizens than people,
\* and a state without people.
MCPublished ==
    {[tracts |-> [t \in {"t1"} |-> rows[1]], state |-> rows[2]] :
        rows \in {<<Row(1, 0), Row(4, 3)>>, <<Row(2, 1), Row(0, 0)>>,
                  <<Row(2, 3), Row(4, 3)>>, <<Row(2, 1), Row(3, 4)>>}}

MCUnstated == -1

=============================================================================

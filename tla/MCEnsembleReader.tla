-------------------------- MODULE MCEnsembleReader --------------------------
(***************************************************************************)
(* A result of five samples in three frames with two metrics, one of them  *)
(* in two tables.                                                          *)
(***************************************************************************)
EXTENDS EnsembleReader

MCTablesOf == [votes |-> <<"first", "second">>, seats |-> <<"seats">>]

MCValueColumns == [votes |-> 2, seats |-> 1]

MCSummary == [samples |-> 5, accepted |-> 3]

Frames(repetitions) ==
  [i \in DOMAIN repetitions |->
     [sample_offset |-> SumFunctionOnSet(repetitions, 1..(i - 1)), repetitions |-> repetitions[i],
      accepted_index |-> i - 1, value |-> i]]

MCStoredRows == Frames(<<1, 3, 1>>)

\* Other streams, a lost row, a row too many, and frames with one field wrong.
MCOtherRows ==
  {Frames(<<2, 1, 2>>), Frames(<<2, 1, 1>>), Frames(<<1, 3>>), Frames(<<3, 0, 2>>),
   Frames(<<1, 1, 1, 2>>),
   [MCStoredRows EXCEPT ![3].accepted_index = 3], [MCStoredRows EXCEPT ![3].sample_offset = 3]}
===========================================================================

---------------------------- MODULE MCRunWriter ----------------------------
(***************************************************************************)
(* Two writers race for one output path.  Two tables, one of them nested,  *)
(* and a batch of two rows: three rows leave one in the buffers.           *)
(***************************************************************************)
EXTENDS RunWriter

MCDistrictSets == {{1, 2}, {1}}

\* Absent, half present, plausible and implausible for up to three rows.
MCUniqueCounts ==
    {[plans |-> None, districts |-> None], [plans |-> 1, districts |-> None],
     [plans |-> 0, districts |-> 0], [plans |-> 1, districts |-> 2]}

=============================================================================

---------------------------- MODULE PublishedRun ----------------------------
(***************************************************************************)
(* What RunWriter promises about the directory a run is published under:   *)
(* it appears at once and complete, it never changes, and once finish has  *)
(* returned it is there for good.  A power loss before that may undo it.   *)
(***************************************************************************)
EXTENDS Integers, Sequences

VARIABLES
    run,            \* NoRun, or what a reader finds under the output path
    acknowledged    \* has a finish call returned Ok?

NoRun == << >>

\* Each row continues where the one before it stopped.
Contiguous(rows) ==
    \A i \in DOMAIN rows :
        /\ rows[i].accepted_index = i - 1
        /\ rows[i].sample_offset =
              IF i = 1 THEN 0 ELSE rows[i - 1].sample_offset + rows[i - 1].repetitions

SamplesOf(rows) ==
    IF rows = << >> THEN 0
    ELSE rows[Len(rows)].sample_offset + rows[Len(rows)].repetitions

Complete(r) ==
    /\ Contiguous(r.rows)
    /\ \A i \in DOMAIN r.rows : r.rows[i].districts = r.districts
    /\ r.summary.samples = SamplesOf(r.rows)
    /\ r.summary.accepted = Len(r.rows)

Init == run = NoRun /\ acknowledged = FALSE

Publish ==
    /\ run = NoRun
    /\ run' # NoRun
    /\ Complete(run')
    /\ UNCHANGED acknowledged

Acknowledge ==
    /\ run # NoRun
    /\ acknowledged' = TRUE
    /\ UNCHANGED run

Undo ==
    /\ ~acknowledged
    /\ run' = NoRun
    /\ UNCHANGED acknowledged

Next == Publish \/ Acknowledge \/ Undo

Spec == Init /\ [][Next]_<<run, acknowledged>>

=============================================================================

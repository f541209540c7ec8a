----------------------------- MODULE Uniqueness -----------------------------
(***************************************************************************)
(* Label-invariant counts of distinct plans and districts seen by a stream *)
(* (rust/src/scoring/uniqueness.rs).  A SHA-256 digest of a district is    *)
(* its set of nodes, and a plan's digest is the set of its districts'      *)
(* digests: the hashes are taken to be injective.                          *)
(***************************************************************************)
EXTENDS IncrementalMetrics

\* assignment_hashes: the plan as an unlabelled set of node sets.
AssignmentHashes(a) == {Members(a, d) : d \in ObservedDistricts(a)}

\* DistrictMembership::new.  A label without nodes has no entry; here its
\* entry is the empty set.
NewMembership(a) ==
    [nodes |-> [d \in Labels |-> Members(a, d)],
     hashes |-> [d \in Labels |-> Members(a, d)]]

\* Mistake: a district that only loses nodes keeps its old hash.
ApplyToEntered(membership, changes) ==
    LET from(d) == {c.node : c \in {x \in changes.entries : x.old = d}}
        to(d) == {c.node : c \in {x \in changes.entries : x.new = d}}
        nodes == [d \in Labels |-> (membership.nodes[d] \ from(d)) \cup to(d)]
    IN [nodes |-> nodes,
        hashes |-> [d \in Labels |->
                       IF to(d) # {} THEN nodes[d] ELSE membership.hashes[d]]]

\* DistrictMembership::apply: only the districts a change touches are hashed
\* again.
ApplyToMembership(membership, changes) ==
    LET from(d) == {c.node : c \in {x \in changes.entries : x.old = d}}
        to(d) == {c.node : c \in {x \in changes.entries : x.new = d}}
        touched == {c.old : c \in changes.entries} \cup {c.new : c \in changes.entries}
        nodes == [d \in Labels |-> (membership.nodes[d] \ from(d)) \cup to(d)]
    IN [nodes |-> nodes,
        hashes |-> [d \in Labels |->
                       IF d \in touched THEN nodes[d] ELSE membership.hashes[d]]]

MembershipHashes(membership) == {membership.hashes[d] : d \in Labels} \ {{}}

NoMembership == [nodes |-> << >>, hashes |-> << >>]

NewCounts == [plans |-> {}, districts |-> {}, current |-> NoMembership]

ObserveHashes(counts, hashes) ==
    [counts EXCEPT !.plans = @ \cup {hashes}, !.districts = @ \cup hashes]

HasCurrent(counts) == counts.current # NoMembership

\* UniquenessCounts::reset
ResetCounts(counts, a) ==
    ObserveHashes([counts EXCEPT !.current = NewMembership(a)], AssignmentHashes(a))

\* UniquenessCounts::observe_changes
ObserveChanges(counts, changes) ==
    LET membership == ApplyToMembership(counts.current, changes)
    IN ObserveHashes([counts EXCEPT !.current = membership], MembershipHashes(membership))

=============================================================================

----------------------------- MODULE Assignment -----------------------------
(***************************************************************************)
(* VBucketAssignment::balanced (assignment.rs): each member of a group     *)
(* computes, on its own, the contiguous chunk of vBuckets that it owns.    *)
(* resolve_assignment (client.rs) holds it against the bucket's topology.  *)
(***************************************************************************)
EXTENDS Integers

CONSTANTS
  MaxVBuckets,          \* u16::MAX + 1
  None, Error

ASSUME AssignmentAssumption == MaxVBuckets \in Nat \ {0} /\ None # Error

Lesser(a, b) == IF a < b THEN a ELSE b

\* Mutant of Start: the members before this one got no part of the remainder.
Start_base(count, number, total) == (number - 1) * (count \div total)

\* The first vBucket of the member with this one-based number.
Start(count, number, total) ==
  (number - 1) * (count \div total) + Lesser(number - 1, count % total)

\* How many vBuckets it owns.
Size(count, number, total) ==
  count \div total + (IF number - 1 < count % total THEN 1 ELSE 0)

Chunk(count, number, total) ==
  Start(count, number, total) .. (Start(count, number, total) + Size(count, number, total) - 1)

\* The arguments balanced accepts.
Accepted(count, number, total) ==
  /\ count \in 1..MaxVBuckets
  /\ total \in 1..count
  /\ number \in 1..total

Balanced(count, number, total) ==
  IF Accepted(count, number, total) THEN Chunk(count, number, total) ELSE Error

\* A subscription takes an assignment that the topology has a route for.
ResolveAssignment(vbuckets, num_vbuckets) ==
  IF vbuckets = {} \/ ~(vbuckets \subseteq 0..(num_vbuckets - 1)) THEN Error ELSE vbuckets

=============================================================================

-------------------------- MODULE AssignmentGroup ---------------------------
(* The members of one group, each subscribing to its own assignment.       *)
EXTENDS Assignment

CONSTANTS MaxCount      \* the largest number of vBuckets and members tried

ASSUME GroupAssumption == MaxCount \in Nat

VARIABLES
  count, total,         \* vBuckets and members, as the group is configured
  num_vbuckets,         \* vBuckets of the bucket
  owned                 \* by member number

vars == <<count, total, num_vbuckets, owned>>

Init ==
  /\ count \in 0..MaxCount /\ total \in 0..MaxCount /\ num_vbuckets \in 1..MaxCount
  /\ owned = [m \in 1..MaxCount |-> None]

Subscribe(m) ==
  LET assignment == Balanced(count, m, total) IN
  /\ owned[m] = None
  /\ owned' = [owned EXCEPT ![m] =
       IF assignment = Error THEN Error ELSE ResolveAssignment(assignment, num_vbuckets)]
  /\ UNCHANGED <<count, total, num_vbuckets>>

Next == \E m \in 1..MaxCount : Subscribe(m)

Spec == Init /\ [][Next]_vars

----------------------------------------------------------------------------

Subscribed == {m \in 1..MaxCount : owned[m] \notin {None, Error}}

\* No vBucket has two owners, although no member sees another's assignment.
OneOwner ==
  \A m, n \in Subscribed : m # n => owned[m] \cap owned[n] = {}

\* When every member has subscribed, none is idle, and no vBucket is left out unless the
\* group is configured for fewer than the bucket has.
AllOwned ==
  Subscribed = 1..total /\ total > 0 =>
    /\ \A m \in Subscribed : owned[m] # {}
    /\ UNION {owned[m] : m \in Subscribed} = 0..(count - 1)
    /\ count <= num_vbuckets

\* The assignments of a group partition its vBuckets, although each member computes its
\* own: no vBucket has two owners, and once all have subscribed none is without one.
Partitioned == OneOwner /\ AllOwned

=============================================================================

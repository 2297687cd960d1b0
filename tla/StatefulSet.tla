---------------------------- MODULE StatefulSet -----------------------------
(***************************************************************************)
(* StatefulSetMembership::resolve (stateful.rs): a pod finds its part of   *)
(* the vBuckets from the ordinal in its own name.                          *)
(*                                                                         *)
(* A pod name is the name of a set and a suffix: a number, that may be     *)
(* spelled with leading zeros, or text.  All pods have the configuration   *)
(* of one manifest, whatever set they belong to.                           *)
(***************************************************************************)
EXTENDS Assignment, FiniteSets

CONSTANTS
  Sets,                 \* names of StatefulSets
  MaxOrdinal,           \* the greatest number in a pod name
  UsizeMax,             \* usize::MAX
  MaxReplicas, VBucketCounts

VARIABLES
  config,               \* StatefulSetMembershipConfig, without the name of the pod
  owned                 \* for each pod name, what it resolved to, or None

vars == <<config, owned>>

Suffixes == [number : 0..MaxOrdinal, zeros : {0, 1}] \cup {[number |-> None, zeros |-> 0]}
PodNames == [set : Sets, suffix : Suffixes]

Overflows(a, b) == a + b > UsizeMax

Valid(c) ==
  Accepted(c.vbucket_count, 1, c.replicas) /\ ~Overflows(c.start_ordinal, c.replicas)

\* ordinal.to_string() == suffix.
Canonical(suffix) == suffix.zeros = 0

Ordinals(c) == c.start_ordinal..(c.start_ordinal + c.replicas - 1)

Resolve(c, pod) ==
  IF \/ ~Valid(c)
     \/ pod.set # c.stateful_set
     \/ pod.suffix.number = None \/ pod.suffix.number > UsizeMax
     \/ ~Canonical(pod.suffix)
     \/ pod.suffix.number \notin Ordinals(c)
  THEN Error
  ELSE Balanced(c.vbucket_count, pod.suffix.number - c.start_ordinal + 1, c.replicas)

Init ==
  /\ config \in [stateful_set : Sets, replicas : 0..MaxReplicas,
                 start_ordinal : 0..MaxOrdinal, vbucket_count : VBucketCounts]
  /\ owned = [pod \in PodNames |-> None]

Join(pod) ==
  /\ owned[pod] = None
  /\ owned' = [owned EXCEPT ![pod] = Resolve(config, pod)]
  /\ UNCHANGED config

Next == \E pod \in PodNames : Join(pod)

Spec == Init /\ [][Next]_vars

----------------------------------------------------------------------------
Owners == {pod \in PodNames : owned[pod] \notin {None, Error}}

\* No two pods, of this set or of another one, own the same vBucket: an ordinal has one
\* spelling and one set (resolve).
OrdinalsAreDisjoint ==
  \A p, q \in Owners : p # q => owned[p] \cap owned[q] = {}

\* As many pods as there are replicas own something, no more, and then they own every
\* vBucket (resolve, with the first ordinal that the manifest sets).
ReplicasOwnAll ==
  /\ Cardinality(Owners) <= config.replicas
  /\ Cardinality(Owners) = config.replicas /\ Valid(config) =>
       UNION {owned[pod] : pod \in Owners} = 0..(config.vbucket_count - 1)
  /\ Valid(config) /\ config.start_ordinal + config.replicas <= MaxOrdinal + 1 =>
       \A n \in config.start_ordinal..(config.start_ordinal + config.replicas - 1) :
         owned[[set |-> config.stateful_set, suffix |-> [number |-> n, zeros |-> 0]]] # Error

=============================================================================

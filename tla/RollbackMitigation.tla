-------------------------- MODULE RollbackMitigation --------------------------
(***************************************************************************)
(* RollbackMitigator (rollback_mitigation.rs) for one vBucket of a         *)
(* connection generation: the observer asks every copy of the vBucket what *)
(* it has persisted, and an event is held back until all of them have it.  *)
(*                                                                         *)
(* The cluster is external: copies replicate and persist in the            *)
(* background, the active copy fails over to a replica or restarts from    *)
(* its disk, and each of those starts a new history branch.                *)
(***************************************************************************)
EXTENDS Integers, FiniteSets, FiniteSetsExt

CONSTANTS
  Copies,        \* nodes with a copy of the vBucket in the generation's topology
  None,          \* nothing observed
  Failed,        \* an observation that failed
  MaxSeqno,      \* bound on sequence numbers
  MaxBranches,   \* bound on history branches
  MaxRestarts,   \* bound on restarts of a replica
  MaxFailures,   \* bound on failed or late observations
  Stalls         \* maximum_stall may pass

ASSUME BoundsAssumption == MaxSeqno \in Nat /\ MaxBranches \in Nat \ {0}

\* A vBucket of the topology has at least its active copy.
ASSUME CopiesAssumption == Copies # {}

VARIABLES
  active, up, uuid, forks, node_uuid, current, persisted,   \* the cluster
  observations,  \* results of the current cycle
  snapshot,      \* PartitionState: persisted_seqno, and whether last_error is set
  worker,        \* the observer task
  cancel,        \* close() was called
  received,      \* seqno of the last event the stream has read
  delivered,     \* seqno of the last event that was let through
  failed,        \* wait_until_safe returned an error
  failures, restarts

cluster == <<active, up, uuid, forks, node_uuid, current, persisted, restarts>>
observer == <<observations, snapshot, worker, failures>>
delivery == <<cancel, received, delivered, failed>>
vars == <<cluster, observer, delivery>>

\* The branch of the effective checkpoint, which the generation was opened on.
expected_vbucket_uuid == 1

----------------------------------------------------------------------------
(* The cluster.                                                            *)

\* Where a failover or restart left the history before it.
Forks == {forks[b] : b \in 2..uuid}

Write ==
  /\ active \in up
  /\ current[active] < MaxSeqno
  /\ current' = [current EXCEPT ![active] = @ + 1]
  /\ UNCHANGED <<active, up, uuid, forks, node_uuid, persisted, restarts, observer,
                 delivery>>

\* A replica of the same branch gets the next change; one of an older branch first
\* rolls back to what all branches share.
Replicate(n) ==
  /\ n # active /\ {n, active} \subseteq up
  /\ IF node_uuid[n] = uuid
     THEN /\ current[n] < current[active]
          /\ current' = [current EXCEPT ![n] = @ + 1]
          /\ UNCHANGED <<node_uuid, persisted>>
     ELSE /\ node_uuid' = [node_uuid EXCEPT ![n] = uuid]
          /\ current' = [current EXCEPT ![n] = Min({@} \cup Forks)]
          /\ persisted' = [persisted EXCEPT ![n] = Min({@} \cup Forks)]
  /\ UNCHANGED <<active, up, uuid, forks, restarts, observer, delivery>>

Persist(n) ==
  /\ n \in up
  /\ persisted[n] < current[n]
  /\ persisted' = [persisted EXCEPT ![n] = @ + 1]
  /\ UNCHANGED <<active, up, uuid, forks, node_uuid, current, restarts, observer,
                 delivery>>

\* The active node is lost and a replica is promoted with what it has.
Failover(n) ==
  /\ n # active /\ n \in up
  /\ uuid < MaxBranches
  /\ active' = n
  /\ up' = up \ {active}
  /\ uuid' = uuid + 1
  /\ forks' = [forks EXCEPT ![uuid + 1] = current[n]]
  /\ node_uuid' = [node_uuid EXCEPT ![n] = uuid + 1]
  /\ UNCHANGED <<current, persisted, restarts, observer, delivery>>

\* A node restarts with what is on its disk.
Restart(n) ==
  /\ n \in up
  /\ current' = [current EXCEPT ![n] = persisted[n]]
  /\ IF n = active
     THEN /\ uuid < MaxBranches
          /\ uuid' = uuid + 1
          /\ forks' = [forks EXCEPT ![uuid + 1] = persisted[n]]
          /\ node_uuid' = [node_uuid EXCEPT ![n] = uuid + 1]
          /\ UNCHANGED restarts
     ELSE /\ restarts < MaxRestarts
          /\ restarts' = restarts + 1
          /\ UNCHANGED <<uuid, forks, node_uuid>>
  /\ UNCHANGED <<active, up, persisted, observer, delivery>>

----------------------------------------------------------------------------
(* The observer.                                                           *)

Observation(n) ==
  [did_failover |-> node_uuid[n] # expected_vbucket_uuid, vbucket_uuid |-> node_uuid[n],
   persisted_seqno |-> persisted[n], current_seqno |-> current[n]]

\* observe_node: the node answers, on a session that is opened or kept from the last
\* cycle.
ObserveNode(n) ==
  /\ worker = "observing"
  /\ observations[n] = None
  /\ n \in up
  /\ observations' = [observations EXCEPT ![n] = Observation(n)]
  /\ UNCHANGED <<cluster, snapshot, worker, failures, delivery>>

\* The bootstrap, the request or the time for both fails: every target of the node
\* gets an error, and the next cycle opens a new session.
ObserveNodeFails(n) ==
  /\ worker = "observing"
  /\ observations[n] = None
  /\ n \in up => failures < MaxFailures
  /\ failures' = IF n \in up THEN failures + 1 ELSE failures
  /\ observations' = [observations EXCEPT ![n] = Failed]
  /\ UNCHANGED <<cluster, snapshot, worker, delivery>>

\* aggregate_observations: a changed branch first, then missing or failed copies,
\* then the least of what the copies have persisted.
AggregateObservations ==
  LET answers == {observations[n] : n \in Copies} \ {Failed}
      changed == {o \in answers : o.did_failover \/ o.vbucket_uuid # expected_vbucket_uuid}
      invalid == {o \in answers : o.persisted_seqno > o.current_seqno}
  IN IF changed # {} THEN [kind |-> "BranchChanged"]
     ELSE IF invalid # {} \/ \E n \in Copies : observations[n] = Failed
     THEN [kind |-> "Transient"]
     ELSE [kind |-> "Persisted", persisted_seqno |-> Min({o.persisted_seqno : o \in answers})]

\* MitigationSnapshot::apply.
Apply(outcome) ==
  CASE outcome.kind = "BranchChanged" -> [persisted_seqno |-> None, last_error |-> TRUE]
    [] outcome.kind = "Transient" -> [snapshot EXCEPT !.last_error = TRUE]
    [] OTHER ->
       IF snapshot.persisted_seqno # None
          /\ outcome.persisted_seqno < snapshot.persisted_seqno
       THEN [persisted_seqno |-> None, last_error |-> TRUE]
       ELSE [persisted_seqno |-> outcome.persisted_seqno, last_error |-> FALSE]

\* A cycle of run_observer ends: the new snapshot is published.
ObserveCycle ==
  /\ worker = "observing"
  /\ \A n \in Copies : observations[n] # None
  /\ snapshot' = Apply(AggregateObservations)
  /\ observations' = [n \in Copies |-> None]
  /\ worker' = "sleeping"
  /\ UNCHANGED <<cluster, failures, delivery>>

\* poll_interval has passed.
NextCycle ==
  /\ worker = "sleeping"
  /\ ~cancel
  /\ worker' = "observing"
  /\ UNCHANGED <<cluster, observations, snapshot, failures, delivery>>

\* run_observer sees the cancellation, in a cycle or between two.
ObserverStops ==
  /\ worker # "stopped"
  /\ cancel
  /\ worker' = "stopped"
  /\ observations' = [n \in Copies |-> None]
  /\ UNCHANGED <<cluster, snapshot, failures, delivery>>

----------------------------------------------------------------------------
(* Delivery.                                                               *)

\* The stream reads the next event of its branch; the driver holds one at a time.
Receive ==
  /\ uuid = expected_vbucket_uuid /\ active \in up
  /\ received = delivered /\ received < current[active]
  /\ ~failed /\ ~cancel
  /\ received' = received + 1
  /\ UNCHANGED <<cluster, observer, cancel, delivered, failed>>

\* Mutant of Safe: off by one.
Safe_before(seqno) ==
  snapshot.persisted_seqno # None /\ snapshot.persisted_seqno + 1 >= seqno

Safe(seqno) == snapshot.persisted_seqno # None /\ snapshot.persisted_seqno >= seqno

\* wait_until_safe returns and the event goes on to the application.
WaitUntilSafe ==
  /\ received > delivered
  /\ ~failed /\ ~cancel
  /\ Safe(received)
  /\ delivered' = received
  /\ UNCHANGED <<cluster, observer, cancel, received, failed>>

\* The deadline passes, which is terminal for the subscription.
StallExceeded ==
  /\ Stalls
  /\ received > delivered
  /\ ~failed /\ ~cancel
  /\ ~Safe(received)
  /\ failed' = TRUE
  /\ UNCHANGED <<cluster, observer, cancel, received, delivered>>

\* The generation is closed, and close() waits for the observer.
Close ==
  /\ ~cancel
  /\ cancel' = TRUE
  /\ UNCHANGED <<cluster, observer, received, delivered, failed>>

----------------------------------------------------------------------------

Init ==
  /\ active \in Copies /\ up = Copies
  /\ uuid = 1 /\ forks = [b \in 1..MaxBranches |-> 0]
  /\ node_uuid = [n \in Copies |-> 1]
  /\ current = [n \in Copies |-> 0] /\ persisted = [n \in Copies |-> 0]
  /\ observations = [n \in Copies |-> None]
  /\ snapshot = [persisted_seqno |-> None, last_error |-> FALSE]
  /\ worker = "observing"
  /\ cancel = FALSE /\ received = 0 /\ delivered = 0 /\ failed = FALSE
  /\ failures = 0 /\ restarts = 0

Next ==
  \/ Write
  \/ \E n \in Copies :
       \/ Replicate(n) \/ Persist(n) \/ Failover(n) \/ Restart(n)
       \/ ObserveNode(n) \/ ObserveNodeFails(n)
  \/ ObserveCycle \/ NextCycle \/ ObserverStops
  \/ Receive \/ WaitUntilSafe \/ StallExceeded \/ Close

Spec == Init /\ [][Next]_vars

----------------------------------------------------------------------------
(* Properties.                                                             *)

\* Sequence numbers, branches and worker phases are what they should be.
TypeOK ==
  /\ active \in Copies /\ up \subseteq Copies
  /\ uuid \in 1..MaxBranches /\ forks \in [1..MaxBranches -> Nat]
  /\ node_uuid \in [Copies -> 1..uuid]
  /\ current \in [Copies -> Nat] /\ persisted \in [Copies -> Nat]
  /\ observations \in [Copies -> {None, Failed} \cup
       [did_failover: BOOLEAN, vbucket_uuid: Nat, persisted_seqno: Nat, current_seqno: Nat]]
  /\ snapshot \in [persisted_seqno: Nat \cup {None}, last_error: BOOLEAN]
  /\ worker \in {"observing", "sleeping", "stopped"}
  /\ received \in Nat /\ delivered \in Nat /\ delivered <= received
  /\ {cancel, failed} \subseteq BOOLEAN /\ {failures, restarts} \subseteq Nat

\* The change with this number is on the disk of every copy and in every branch.
Survives(seqno) ==
  /\ \A n \in Copies : persisted[n] >= seqno
  /\ \A b \in 2..uuid : forks[b] >= seqno

\* What rollback mitigation is for: an event that was let through is on the disk of
\* every copy and in every later branch, so that no failover and no restart makes the
\* server forget what the application has processed; the same holds of what the
\* published snapshot would let through, however old it is.  The copies are asked one
\* after the other, and sessions fail.
DeliveredSurvives ==
  /\ Survives(delivered)
  /\ snapshot.persisted_seqno # None => Survives(snapshot.persisted_seqno)

=============================================================================

------------------------------- MODULE MCGroup ------------------------------
(***************************************************************************)
(* Small instances of a group of consumers, for TLC.  A behaviour belongs  *)
(* to one scenario, in which the variables of the other components rest:   *)
(*   "static"     AssignmentGroup, with the constants of the               *)
(*                configuration;                                           *)
(*   "ordinals"   StatefulSet with pods of two sets;                       *)
(*   "registry"   CouchbaseMembership with two members;                    *)
(*   "restart"    CouchbaseMembership with two incarnations of one member; *)
(*   "lease"      CouchbaseMembership with one member and a store that     *)
(*                fails repeatedly;                                        *)
(*   "views"      KubernetesMembership: one process and two pods, of three *)
(*                incarnations;                                            *)
(*   "partition"  KubernetesMembership: two processes and their pods;      *)
(*   "closes"     KubernetesMembership: one process and two callers of     *)
(*                close, which may give up.                                *)
(* MCClient adds scenarios for one client and its stores.                  *)
(***************************************************************************)
EXTENDS AssignmentGroup, TLC

CONSTANTS p1, p2, c1, c2, s1, s2

VARIABLES
  scenario,
  \* StatefulSet, whose `owned' is `resolved' here
  config, resolved,
  \* CouchbaseMembership
  registry, op, late, connect, faults,
  \* CouchbaseMembership and KubernetesMembership
  task, published,
  \* KubernetesMembership
  history, watcher, process, call, errors

Ordinals == INSTANCE StatefulSet
              WITH Sets <- {s1, s2}, MaxOrdinal <- 1, UsizeMax <- 2, MaxReplicas <- 2,
                   VBucketCounts <- {2, 3}, owned <- resolved

Registry == INSTANCE CouchbaseMembership
              WITH Processes <- {p1, p2}, MemberId <- p1 :> "a" @@ p2 :> "b",
                   VBucketCount <- 2, HeartbeatInterval <- 1, MonitorInterval <- 1,
                   StaleAfter <- 2, OperationTimeout <- 0, MaxCasAttempts <- 2,
                   FaultKinds <- {"store", "crash"}, MaxFaults <- 1

Restart == INSTANCE CouchbaseMembership
             WITH Processes <- {p1, p2}, MemberId <- p1 :> "a" @@ p2 :> "a",
                  VBucketCount <- 2, HeartbeatInterval <- 1, MonitorInterval <- 1,
                  StaleAfter <- 2, OperationTimeout <- 0, MaxCasAttempts <- 2,
                  FaultKinds <- {"store", "drop", "crash"}, MaxFaults <- 1

Lease == INSTANCE CouchbaseMembership
           WITH Processes <- {p1}, MemberId <- p1 :> "a",
                VBucketCount <- 2, HeartbeatInterval <- 1, MonitorInterval <- 3,
                StaleAfter <- 2, OperationTimeout <- 1, MaxCasAttempts <- 2,
                FaultKinds <- {"store", "drop", "crash"}, MaxFaults <- 4

ReadyPod(n) == [uid |-> n, created |-> 1, ready |-> TRUE, terminating |-> FALSE]

\* Two ready pods created in the same tick, or one of them alone.
TwoPodsOrOne == {<<ReadyPod(1), ReadyPod(2)>>, <<ReadyPod(1), None>>}

Views == INSTANCE KubernetesMembership
           WITH PodNames <- {1, 2}, Uids <- {1, 2, 3}, Consumers <- {1}, Callers <- {},
                VBucketCount <- 3, MaxChanges <- 3, MaxErrors <- 1,
                InitialPods <- TwoPodsOrOne

Partition == INSTANCE KubernetesMembership
               WITH PodNames <- {1, 2}, Uids <- {1, 2}, Consumers <- {1, 2}, Callers <- {},
                    VBucketCount <- 3, MaxChanges <- 2, MaxErrors <- 0,
                    InitialPods <- TwoPodsOrOne

Closes == INSTANCE KubernetesMembership
            WITH PodNames <- {1}, Uids <- {1}, Consumers <- {1}, Callers <- {c1, c2},
                 VBucketCount <- 1, MaxChanges <- 4, MaxErrors <- 2,
                 InitialPods <- {<<None>>}

ordinalVars == <<config, resolved>>
registryVars == <<registry, op, late, connect, faults>>
sharedVars == <<task, published>>
podVars == <<history, watcher, process, call, errors>>

StaticRests == Init /\ count = 0 /\ total = 0 /\ num_vbuckets = 1
OrdinalsRest == config = None /\ resolved = None
RegistryRests == /\ registry = None /\ op = None /\ late = None
                 /\ connect = None /\ faults = None
SharedRest == task = None /\ published = None
PodsRest == /\ history = None /\ watcher = None /\ process = None
            /\ call = None /\ errors = None

GroupInit ==
  \/ scenario = "static" /\ Init /\ OrdinalsRest /\ RegistryRests /\ SharedRest /\ PodsRest
  \/ /\ scenario = "ordinals" /\ Ordinals!Init
     /\ StaticRests /\ RegistryRests /\ SharedRest /\ PodsRest
  \/ /\ \/ scenario = "registry" /\ Registry!Init
        \/ scenario = "restart" /\ Restart!Init
        \/ scenario = "lease" /\ Lease!Init
     /\ StaticRests /\ OrdinalsRest /\ PodsRest
  \/ /\ \/ scenario = "views" /\ Views!Init
        \/ scenario = "partition" /\ Partition!Init
        \/ scenario = "closes" /\ Closes!Init
     /\ StaticRests /\ OrdinalsRest /\ RegistryRests

\* A member is closed, or something fails.
ClosesOrFails == faults' = 0 \/ \A p \in {p1, p2} : connect'[p] # "closing"

GroupNext ==
  \/ /\ scenario = "static" /\ Next
     /\ UNCHANGED <<scenario, ordinalVars, registryVars, sharedVars, podVars>>
  \/ /\ scenario = "ordinals" /\ Ordinals!Next
     /\ UNCHANGED <<scenario, vars, registryVars, sharedVars, podVars>>
  \/ /\ \/ scenario = "registry" /\ Registry!Next /\ ClosesOrFails
        \/ scenario = "restart" /\ Restart!Next
        \/ scenario = "lease" /\ Lease!Next
     /\ UNCHANGED <<scenario, vars, ordinalVars, podVars>>
  \/ /\ \/ scenario = "views" /\ Views!Next
        \/ scenario = "partition" /\ Partition!Next
        \/ scenario = "closes" /\ Closes!Next
     /\ UNCHANGED <<scenario, vars, ordinalVars, registryVars>>

groupVars == <<vars, ordinalVars, registryVars, sharedVars, podVars>>
GroupRests == StaticRests /\ OrdinalsRest /\ RegistryRests /\ SharedRest /\ PodsRest

\* Member IDs are only compared.
Symmetry == Permutations({p1, p2})

-----------------------------------------------------------------------------

\* Members that agree on the group never own the same vBucket.  Pods of a StatefulSet: no
\* two of them, of this set or of another one, and the replicas that the manifest names own
\* every vBucket.  The registry: assignments with the same fence generation, whichever
\* member published them and whenever.  The pod watch: a snapshot is one complete revision
\* of the pods, and processes with the same pods in their snapshots split the vBuckets.
AgreedIsDisjoint ==
  /\ scenario = "ordinals" => Ordinals!OrdinalsAreDisjoint /\ Ordinals!ReplicasOwnAll
  /\ scenario = "registry" => Registry!SameGenerationDisjoint
  /\ scenario = "views" => Views!SnapshotIsView
  /\ scenario = "partition" => Partition!SameViewPartition

\* Members that leave are gone: a process that its owner closed without an error stays
\* removed, although other incarnations of its member write the registry too; a task that
\* cannot renew its entry ends within the stale timeout, a heartbeat and a mutation; and a
\* close that returns reports how the task ended, to every caller that waits for it, unless
\* the call that had taken the task's handle was given up.
LeaversAreGone ==
  /\ scenario = "restart" => Restart!ClosedIsRemoved
  /\ scenario = "lease" => Lease!StopsInTime
  /\ scenario = "closes" => Closes!CloseReports

=============================================================================

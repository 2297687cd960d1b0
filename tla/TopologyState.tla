---------------------------- MODULE TopologyState ----------------------------
(***************************************************************************)
(* Acceptance and publication of bucket topologies (topology.rs, client.rs).*)
(* The health task and the subscription driver each apply configurations   *)
(* the cluster sends them to the shared TopologyState, and publish what    *)
(* they accepted on a watch channel after the lock is released.  The       *)
(* driver reopens its streams when it sees a newer generation.  All        *)
(* configurations are of the client's bucket: one of another bucket is     *)
(* refused before it is compared.                                          *)
(***************************************************************************)
EXTENDS Integers, FiniteSets

CONSTANTS
  Tasks,           \* tasks that apply configurations
  Driver,          \* the one of them that drives the subscription
  Nodes,           \* KV nodes
  VBuckets,        \* vBuckets of the bucket
  None,            \* no endpoint, no pending snapshot
  Unversioned,     \* the cluster may send configurations without a revision
  MaxEpoch,        \* bound on rev_epoch
  MaxRevision,     \* bound on rev
  MaxGeneration    \* bound on the local generation

VARIABLES
  configs,         \* every configuration some node of the cluster may still send
  state,           \* TopologyState: generation and topology
  published,       \* the watch channel
  pending,         \* the snapshot a task has accepted and not published yet
  change,          \* TopologyChange of the last accepted configuration
  subscription     \* the snapshot the open streams were routed by

vars == <<configs, state, published, pending, change, subscription>>

Revisions == [epoch : 0..MaxEpoch, revision : 0..MaxRevision]

\* A node listens at one of two addresses or is not in the cluster; a vBucket has an
\* active node of the cluster.
Topologies ==
  {t \in [revision : Revisions, address : [Nodes -> {None, 1, 2}],
          active : [VBuckets -> Nodes]] :
     \A v \in VBuckets : t.address[t.active[v]] # None}

Members(t) == {n \in Nodes : t.address[n] # None}

\* The active_endpoint of a vBucket.
ActiveEndpoint(t, v) == <<t.active[v], t.address[t.active[v]]>>

IsNewerThan(r, current) ==
  \/ r.epoch > current.epoch
  \/ r.epoch = current.epoch /\ (r.revision = 0 \/ r.revision > current.revision)

\* The TopologyChange of apply(), with the topology it replaced.
Impact(old, new) ==
  [reconnect_nodes |-> {n \in Members(new) : n \notin Members(old)
                                             \/ old.address[n] # new.address[n]},
   rerouted_vbuckets |-> {v \in VBuckets : old.active[v] # new.active[v]},
   from |-> old]

----------------------------------------------------------------------------

\* The cluster changes.  Nodes that have not heard of it keep sending old ones.
ClusterChanges ==
  \E t \in Topologies :
    /\ \A c \in configs :
         \/ t.revision.epoch > c.revision.epoch /\ t.revision.revision > 0
         \/ t.revision.epoch = c.revision.epoch
            /\ t.revision.revision > c.revision.revision
         \/ Unversioned /\ t.revision.revision = 0
            /\ t.revision.epoch = c.revision.epoch
    /\ configs' = configs \cup {t}
    /\ UNCHANGED <<state, published, pending, change, subscription>>

\* TopologyState::apply under the lock: a configuration of a probe, or of a stream of
\* the driver.  A configuration that is not newer changes nothing.
ApplyTopologyCandidate(k) ==
  \E candidate \in configs :
    /\ pending[k] = None
    /\ IsNewerThan(candidate.revision, state.topology.revision)
    /\ state.generation < MaxGeneration
    /\ state' = [generation |-> state.generation + 1, topology |-> candidate]
    /\ change' = Impact(state.topology, candidate)
    /\ pending' = [pending EXCEPT ![k] = state']
    /\ UNCHANGED <<configs, published, subscription>>

\* Mutant of Publish: what is published is read after the lock was released.
Publish_rereads(k) ==
  /\ pending[k] # None
  /\ published' = [generation |-> pending[k].generation, topology |-> state.topology]
  /\ pending' = [pending EXCEPT ![k] = None]
  /\ subscription' = IF k # Driver THEN subscription ELSE published'
  /\ UNCHANGED <<configs, state, change>>

\* The lock is released, and the snapshot is sent.  The driver reopens by its own
\* one, even when the channel has held a newer one meanwhile.
Publish(k) ==
  /\ pending[k] # None
  /\ published' = pending[k]
  /\ pending' = [pending EXCEPT ![k] = None]
  /\ subscription' = IF k # Driver THEN subscription ELSE pending[k]
  /\ UNCHANGED <<configs, state, change>>

\* The driver sees a newer generation on the channel and reopens by it.
Reopen ==
  /\ pending[Driver] = None
  /\ published.generation > subscription.generation
  /\ subscription' = published
  /\ UNCHANGED <<configs, state, published, pending, change>>

----------------------------------------------------------------------------

\* connect() discovered the first topology, and subscribe() opened streams by it.
Init ==
  /\ \E t \in Topologies :
       /\ t.revision = [epoch |-> 0, revision |-> IF Unversioned THEN 0 ELSE 1]
       /\ configs = {t}
       /\ state = [generation |-> 1, topology |-> t]
       /\ change = Impact(t, t)
  /\ published = state
  /\ subscription = state
  /\ pending = [k \in Tasks |-> None]

Next ==
  \/ ClusterChanges
  \/ \E k \in Tasks : ApplyTopologyCandidate(k) \/ Publish(k)
  \/ Reopen

Spec == Init /\ [][Next]_vars

----------------------------------------------------------------------------
(* Properties.                                                             *)

\* Every vBucket that is served from somewhere else after the change is either
\* rerouted or on a node to reconnect to, and nothing else is rerouted.
ImpactIsExact ==
  LET new == state.topology IN
  \A v \in VBuckets :
    ActiveEndpoint(change.from, v) # ActiveEndpoint(new, v)
      <=> v \in change.rerouted_vbuckets \/ new.active[v] \in change.reconnect_nodes

\* Snapshots are ordered by generation exactly as their configurations are, wherever
\* one is kept: fencing by generation numbers is only sound with this, and a late answer
\* of a node that is behind takes nobody back.
GenerationsFollowRevisions ==
  LET all == {state, published, subscription} \cup ({pending[k] : k \in Tasks} \ {None}) IN
  \A s, t \in all :
    s.generation > t.generation <=> IsNewerThan(s.topology.revision, t.topology.revision)

=============================================================================

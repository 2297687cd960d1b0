---------------------- MODULE MCCheckpointCoordinator ----------------------
(***************************************************************************)
(* A small instance of CheckpointCoordinator for TLC, with two vBuckets    *)
(* and one caller beside the scheduler.  A behaviour belongs to one        *)
(* scenario:                                                               *)
(*   "flush"    everything the coordinator does, on one vBucket;           *)
(*   "late"     the flushes of one vBucket, which only mark_dirty moves    *)
(*              on, with writes that arrive after their save; in the other *)
(*              scenarios a save that fails has left nothing on its way;   *)
(*   "batches"  the caller alone flushes both vBuckets, which only         *)
(*              mark_dirty moves on;                                       *)
(*   "acks"     no flush is made, and in exchange one vBucket has more     *)
(*              windows, positions, deliveries and reopens.                *)
(***************************************************************************)
EXTENDS CheckpointCoordinator

CONSTANTS v1, v2, c1

VARIABLE scenario

At(uuid, seqno, end) ==
  [vbucket_uuid |-> uuid, seqno |-> seqno, snapshot_start |-> seqno,
   snapshot_end |-> end, manifest_uid |-> 0]

\* Start of the history, and a later position on the branch a failover left.
MCStarts == {At(0, 0, 0), At(1, 1, 1)}
MCOneStart == {At(0, 0, 0)}

\* One window, and two consecutive ones.
MCMarker == {<<1, 2>>}
MCMarkers == {<<1, 2>>, <<2, 3>>}

Acks == INSTANCE CheckpointCoordinator
          WITH StartCheckpoints <- MCStarts, Markers <- MCMarkers, MaxManifest <- 1,
               MaxGeneration <- 4, MaxDeliveries <- 3, MaxRebases <- 1

MarkOnly == INSTANCE CheckpointCoordinator
              WITH MaxGeneration <- 2, MaxDeliveries <- 0, MaxRebases <- 0

\* Nothing arrives on vb and nothing moves its position.
Rests(vb) ==
  /\ snapshot'[vb] = snapshot[vb]
  /\ generation'[vb] = generation[vb]
  /\ epoch'[vb] = epoch[vb]

MCInit ==
  \/ scenario = "flush" /\ Init /\ store[v2] = processed[v2]
  \/ scenario = "late" /\ MarkOnly!Init /\ store[v2] = processed[v2]
  \/ scenario = "batches" /\ MarkOnly!Init
  \/ scenario = "acks" /\ Acks!Init /\ store[v2] = processed[v2] /\ processed[v2] \in MCOneStart

MCNext ==
  /\ UNCHANGED scenario
  /\ \/ scenario = "flush" /\ Next /\ Rests(v2) /\ UNCHANGED abandoned
     \/ scenario = "late" /\ MarkOnly!Next /\ Rests(v2) /\ UNCHANGED snapshot
     \/ /\ scenario = "batches" /\ MarkOnly!Next
        /\ pc'[Scheduler] = pc[Scheduler] /\ UNCHANGED abandoned
     \/ scenario = "acks" /\ Acks!Next /\ Rests(v2) /\ UNCHANGED <<flushVars, storeVars, taskVars>>

MCSpec == MCInit /\ [][MCNext]_<<vars, scenario>>

MCVBuckets == {v1, v2}
MCCallers == {c1}
============================================================================

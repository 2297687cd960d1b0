----------------------- MODULE CheckpointCoordinator -----------------------
(***************************************************************************)
(* The checkpoint coordinator of rust-dcp-core (checkpoint_runtime.rs).    *)
(*                                                                         *)
(* For every vBucket it tracks which delivered events the application has  *)
(* acknowledged, keeps the contiguous `processed' position, and writes it  *)
(* to a checkpoint store: on explicit flushes, from a scheduler task and   *)
(* in a final flush at shutdown.  A flush is not atomic.  It waits for the *)
(* flush gate, takes its batch, hands the gate to a spawned save, and only *)
(* learns the outcome later, or never: past its deadline it returns an     *)
(* error while the save goes on.  A save that fails may leave requests on  *)
(* their way which the server executes later.                              *)
(*                                                                         *)
(* Variables written like_this are fields of the Rust structures.  The     *)
(* ghosts `log', `stored_generation', `written', `epoch' and `need' record *)
(* history that the properties talk about; no action reads them.           *)
(***************************************************************************)
EXTENDS Integers, Sequences

CONSTANTS
  VBuckets,          \* the vBuckets assigned to this subscription
  Callers,           \* application tasks that call flush() or shutdown()
  Scheduler,         \* the automatic flush task
  Automatic,         \* CheckpointMode::Automatic (TRUE) or Manual (FALSE)
  StartCheckpoints,  \* effective positions a stream may (re)open at
  Markers,           \* snapshot windows <<start, end>> a server may announce
  NoCheckpoint,      \* absence of a checkpoint
  Free,              \* the flush gate is not held
  MaxManifest,       \* bound on manifest UIDs of system events
  MaxGeneration,     \* bound on generations: how often `processed' moves
  MaxDeliveries,     \* bound on delivery IDs per vBucket
  MaxRebases         \* bound on reopenings per vBucket

Flushers == Callers \cup {Scheduler}

\* DcpCheckpoint without its constant identity (bucket UUID and vBucket).
\* manifest_uid 0 stands for None.
Checkpoint == [vbucket_uuid: Nat, seqno: Nat, snapshot_start: Nat,
               snapshot_end: Nat, manifest_uid: Nat]

\* What the store holds for a vBucket.
Position == Checkpoint \cup {NoCheckpoint}

PendingAck == [delivery_id: Nat, checkpoint: Checkpoint, acknowledged: BOOLEAN]

DirtyCheckpoint == [checkpoint: Checkpoint, generation: Nat]

\* An EventAck held by the application; `epoch' is a ghost.
EventAck == [delivery_id: Nat, seqno: Nat, epoch: Nat]

\* DcpCheckpoint::validate.
validate(c) ==
  /\ c.snapshot_start <= c.snapshot_end
  /\ c.seqno <= c.snapshot_end
  /\ c.seqno = 0 \/ c.seqno >= c.snapshot_start

ASSUME FlushersAssumption == Scheduler \notin Callers /\ Free \notin Flushers

ASSUME InputsAssumption ==
  /\ StartCheckpoints \subseteq Checkpoint
  /\ \A c \in StartCheckpoints : validate(c)
  /\ Markers \subseteq Nat \X Nat
  /\ NoCheckpoint \notin Checkpoint \cup DirtyCheckpoint

ASSUME BoundsAssumption ==
  {MaxManifest, MaxGeneration, MaxDeliveries, MaxRebases} \subseteq Nat

VARIABLES
  processed, durable, snapshot, last_registered_seqno, pending,
  next_delivery_id, generation, durable_generation,   \* PartitionState
  tokens,             \* EventAcks the application holds and has not used
  store,              \* what the checkpoint store holds
  abandoned,          \* writes that failed saves gave up on: they may still arrive
  gate,               \* flusher whose save holds flush_gate, or Free
  running,            \* flushers whose spawned save has not ended
  todo,               \* for each of them, the vBuckets not written yet
  pc, batch, result,  \* each flush() in progress, its batch, its last result
  cancel, scheduler,  \* shutdown request, and the state of the flush task
  log, stored_generation, written, epoch, need        \* ghosts

partitionVars == <<processed, durable, snapshot, last_registered_seqno,
                   pending, next_delivery_id, generation, durable_generation>>
flushVars == <<gate, running, todo, pc, batch, result, need>>
storeVars == <<store, abandoned, stored_generation, written>>
taskVars == <<cancel, scheduler>>
vars == <<partitionVars, tokens, flushVars, storeVars, taskVars, log, epoch>>

\* Mutant of is_dirty: positions alone decide.
is_dirty_positions(vb) == durable[vb] # processed[vb]

\* PartitionState::is_dirty.
is_dirty(vb) == \/ generation[vb] # durable_generation[vb]
                \/ durable[vb] # processed[vb]

DirtyVBuckets == {vb \in VBuckets : is_dirty(vb)}

NoBatch == [vb \in VBuckets |-> NoCheckpoint]

----------------------------------------------------------------------------
(* Start-up: load_checkpoints, the opened streams' effective positions,    *)
(* CheckpointCoordinator::new and mark_changed_initial_positions.  A vBucket  *)
(* that starts anywhere else than at its stored checkpoint starts dirty.   *)

Init ==
  /\ processed \in [VBuckets -> StartCheckpoints]
  /\ store \in [VBuckets -> StartCheckpoints \cup {NoCheckpoint}]
  /\ durable = processed
  /\ snapshot = [vb \in VBuckets |-> <<>>]
  /\ last_registered_seqno = [vb \in VBuckets |-> processed[vb].seqno]
  /\ pending = [vb \in VBuckets |-> <<>>]
  /\ next_delivery_id = [vb \in VBuckets |-> 1]
  /\ generation = [vb \in VBuckets |-> IF store[vb] = processed[vb] THEN 0 ELSE 1]
  /\ durable_generation = [vb \in VBuckets |-> 0]
  /\ tokens = [vb \in VBuckets |-> {}]
  /\ gate = Free
  /\ running = {}
  /\ todo = [f \in Flushers |-> {}]
  /\ pc = [f \in Flushers |-> "idle"]
  /\ batch = [f \in Flushers |-> NoBatch]
  /\ result = [f \in Flushers |-> "none"]
  /\ cancel = FALSE
  /\ scheduler = IF Automatic THEN "running" ELSE "stopped"
  /\ log = [vb \in VBuckets |-> IF store[vb] = processed[vb]
                                THEN <<processed[vb]>>
                                ELSE <<store[vb], processed[vb]>>]
  /\ abandoned = [vb \in VBuckets |-> {}]
  /\ stored_generation = [vb \in VBuckets |-> 0]
  /\ written = [vb \in VBuckets |-> 0]
  /\ epoch = [vb \in VBuckets |-> 0]
  /\ need = [f \in Flushers |-> [vb \in VBuckets |-> 0]]

----------------------------------------------------------------------------
(* Registration and acknowledgement, atomic under the state mutex.         *)
(* Rejected events change nothing, so the rejections are just the guards.  *)

\* track_event for a SnapshotMarker.
TrackMarker(vb, m) ==
  /\ m[1] <= m[2]
  /\ m[2] >= processed[vb].seqno
  /\ snapshot' = [snapshot EXCEPT ![vb] = m]
  /\ UNCHANGED <<processed, durable, last_registered_seqno, pending,
                 next_delivery_id, generation, durable_generation,
                 tokens, flushVars, storeVars, taskVars, log, epoch>>

\* The position a new event extends: the last pending one, else `processed'.
LastCheckpoint(vb) ==
  IF pending[vb] = <<>> THEN processed[vb]
  ELSE pending[vb][Len(pending[vb])].checkpoint

\* The end of track_event: queue the event and hand its EventAck out.
Register(vb, seqno, checkpoint) ==
  LET id == next_delivery_id[vb] IN
  /\ id <= MaxDeliveries
  /\ next_delivery_id' = [next_delivery_id EXCEPT ![vb] = id + 1]
  /\ last_registered_seqno' = [last_registered_seqno EXCEPT ![vb] = seqno]
  /\ pending' = [pending EXCEPT ![vb] =
       Append(@, [delivery_id |-> id, checkpoint |-> checkpoint,
                  acknowledged |-> FALSE])]
  /\ tokens' = [tokens EXCEPT ![vb] = @ \cup
       {[delivery_id |-> id, seqno |-> seqno, epoch |-> epoch[vb]]}]
  /\ UNCHANGED <<processed, durable, snapshot, generation, durable_generation,
                 flushVars, storeVars, taskVars, log, epoch>>

\* Mutant of TrackEvent: the snapshot window of the position before is kept.
TrackEvent_oldWindow(vb, seqno, uid) ==
  /\ snapshot[vb] # <<>>
  /\ seqno > last_registered_seqno[vb]
  /\ Register(vb, seqno, [LastCheckpoint(vb) EXCEPT !.seqno = seqno])

\* track_event for an event with a sequence number.  `uid' is the manifest UID
\* of a system event and 0 for any other event.
TrackEvent(vb, seqno, uid) ==
  LET checkpoint == [LastCheckpoint(vb) EXCEPT
                       !.seqno = seqno,
                       !.snapshot_start = snapshot[vb][1],
                       !.snapshot_end = snapshot[vb][2],
                       !.manifest_uid = IF uid = 0 THEN @ ELSE uid]
  IN
  /\ snapshot[vb] # <<>>
  /\ seqno > last_registered_seqno[vb]
  /\ seqno >= snapshot[vb][1] /\ seqno <= snapshot[vb][2]
  /\ validate(checkpoint)
  /\ Register(vb, seqno, checkpoint)

\* The events a server sends: manifest UIDs grow along a vBucket's history.
SystemUids(vb) == {uid \in 1..MaxManifest : uid > LastCheckpoint(vb).manifest_uid}

TrackNext(vb) ==
  /\ snapshot[vb] # <<>>
  /\ \E seqno \in snapshot[vb][1]..snapshot[vb][2], uid \in {0} \cup SystemUids(vb) :
       TrackEvent(vb, seqno, uid)

\* pending entries once the one with this delivery ID is acknowledged.
MarkAcknowledged(queue, id) ==
  [i \in DOMAIN queue |-> IF queue[i].delivery_id = id
                          THEN [queue[i] EXCEPT !.acknowledged = TRUE]
                          ELSE queue[i]]

\* EventAck::acknowledge with a token that still names a pending event: pop the
\* acknowledged prefix, of length n, into `processed'.
AcknowledgeLive(vb, t) ==
  LET queue == MarkAcknowledged(pending[vb], t.delivery_id) IN
  /\ \E i \in DOMAIN pending[vb] : pending[vb][i].delivery_id = t.delivery_id
  /\ \E n \in 0..Len(queue) :
       /\ \A i \in 1..n : queue[i].acknowledged
       /\ n < Len(queue) => ~queue[n + 1].acknowledged
       /\ pending' = [pending EXCEPT ![vb] = SubSeq(queue, n + 1, Len(queue))]
       /\ \/ n = 0 /\ UNCHANGED <<processed, generation, log>>
          \/ /\ n > 0
             /\ generation[vb] < MaxGeneration
             /\ processed' = [processed EXCEPT ![vb] = queue[n].checkpoint]
             /\ generation' = [generation EXCEPT ![vb] = @ + 1]
             /\ log' = [log EXCEPT ![vb] = Append(@, queue[n].checkpoint)]

\* Mutant of AcknowledgeObsolete: an old token takes the position back to its event.
AcknowledgeObsolete_rewinds(vb, t) ==
  /\ \A i \in DOMAIN pending[vb] : pending[vb][i].delivery_id # t.delivery_id
  /\ processed' = [processed EXCEPT ![vb].seqno = IF t.seqno < @ THEN t.seqno ELSE @]
  /\ UNCHANGED <<pending, generation, log>>

\* EventAck::acknowledge with a token whose event a reopen has discarded: the
\* call fails as obsolete and only uses the token up.
AcknowledgeObsolete(vb, t) ==
  /\ \A i \in DOMAIN pending[vb] : pending[vb][i].delivery_id # t.delivery_id
  /\ UNCHANGED <<pending, processed, generation, log>>

\* The application uses a token.  It may also drop one, or keep it forever: for
\* the coordinator both are a token that is never used.
Acknowledge(vb, t) ==
  /\ AcknowledgeLive(vb, t) \/ AcknowledgeObsolete(vb, t)
  /\ tokens' = [tokens EXCEPT ![vb] = @ \ {t}]
  /\ UNCHANGED <<durable, snapshot, last_registered_seqno, next_delivery_id,
                 durable_generation, flushVars, storeVars, taskVars, epoch>>

mark_dirty(vb) ==
  /\ generation[vb] < MaxGeneration
  /\ generation' = [generation EXCEPT ![vb] = @ + 1]
  /\ log' = [log EXCEPT ![vb] = Append(@, processed[vb])]
  /\ UNCHANGED <<processed, durable, snapshot, last_registered_seqno, pending,
                 next_delivery_id, durable_generation, tokens, flushVars,
                 storeVars, taskVars, epoch>>

\* Mutant of rebase_partitions: delivery IDs start again, so that an old token may
\* name a new event.
rebase_partitions_restartIds(S, effective) ==
  /\ \A vb \in S : epoch[vb] < MaxRebases /\ generation[vb] < MaxGeneration
  /\ generation' = [vb \in VBuckets |-> generation[vb] + IF vb \in S THEN 1 ELSE 0]
  /\ processed' = [vb \in VBuckets |-> IF vb \in S THEN effective[vb]
                                       ELSE processed[vb]]
  /\ last_registered_seqno' = [vb \in VBuckets |->
       IF vb \in S THEN effective[vb].seqno ELSE last_registered_seqno[vb]]
  /\ next_delivery_id' = [vb \in VBuckets |-> IF vb \in S THEN 1
                                              ELSE next_delivery_id[vb]]
  /\ snapshot' = [vb \in VBuckets |-> IF vb \in S THEN <<>> ELSE snapshot[vb]]
  /\ pending' = [vb \in VBuckets |-> IF vb \in S THEN <<>> ELSE pending[vb]]
  /\ epoch' = [vb \in VBuckets |-> IF vb \in S THEN epoch[vb] + 1 ELSE epoch[vb]]
  /\ log' = [vb \in VBuckets |-> IF vb \in S THEN Append(log[vb], effective[vb]) ELSE log[vb]]
  /\ UNCHANGED <<durable, durable_generation, tokens, flushVars, storeVars, taskVars>>

\* rebase_partitions: streams of the vBuckets S were reopened at `effective'.
\* Delivery IDs go on, so tokens of discarded events name no pending event.
rebase_partitions(S, effective) ==
  /\ \A vb \in S : epoch[vb] < MaxRebases /\ validate(effective[vb])
  /\ \A vb \in S : processed[vb] # effective[vb] => generation[vb] < MaxGeneration
  /\ generation' = [vb \in VBuckets |->
       IF vb \in S /\ processed[vb] # effective[vb]
       THEN generation[vb] + 1 ELSE generation[vb]]
  /\ log' = [vb \in VBuckets |->
       IF vb \in S /\ processed[vb] # effective[vb]
       THEN Append(log[vb], effective[vb]) ELSE log[vb]]
  /\ processed' = [vb \in VBuckets |-> IF vb \in S THEN effective[vb]
                                       ELSE processed[vb]]
  /\ last_registered_seqno' = [vb \in VBuckets |->
       IF vb \in S THEN effective[vb].seqno ELSE last_registered_seqno[vb]]
  /\ snapshot' = [vb \in VBuckets |-> IF vb \in S THEN <<>> ELSE snapshot[vb]]
  /\ pending' = [vb \in VBuckets |-> IF vb \in S THEN <<>> ELSE pending[vb]]
  /\ epoch' = [vb \in VBuckets |-> IF vb \in S THEN epoch[vb] + 1 ELSE epoch[vb]]
  /\ UNCHANGED <<durable, next_delivery_id, durable_generation, tokens,
                 flushVars, storeVars, taskVars>>

----------------------------------------------------------------------------
(* CheckpointInner::flush, by the flusher f.                               *)

Return(f, r) ==
  /\ pc' = [pc EXCEPT ![f] = "idle"]
  /\ result' = [result EXCEPT ![f] = r]

\* The first look at the state: nothing dirty, nothing to do.
FlushBegin(f) ==
  /\ need' = [need EXCEPT ![f] = generation]
  /\ IF DirtyVBuckets = {}
     THEN Return(f, "ok")
     ELSE /\ pc' = [pc EXCEPT ![f] = "gate"]
          /\ result' = [result EXCEPT ![f] = "none"]
  /\ UNCHANGED <<partitionVars, tokens, gate, running, todo, batch, storeVars,
                 log, epoch>>

flush(f) ==
  /\ f \in Callers
  /\ pc[f] = "idle"
  /\ FlushBegin(f)
  /\ UNCHANGED taskVars

\* Mutant of FlushGate: the batch takes delivered positions, not processed ones.
FlushGate_delivered(f) ==
  /\ pc[f] = "gate"
  /\ gate = Free
  /\ pc' = [pc EXCEPT ![f] = "saving"]
  /\ gate' = f
  /\ running' = running \cup {f}
  /\ todo' = [todo EXCEPT ![f] = DirtyVBuckets]
  /\ batch' = [batch EXCEPT ![f] = [vb \in VBuckets |->
       IF is_dirty(vb)
       THEN [checkpoint |-> LastCheckpoint(vb), generation |-> generation[vb]]
       ELSE NoCheckpoint]]
  /\ UNCHANGED <<partitionVars, tokens, result, need, storeVars, taskVars, log, epoch>>

\* f gets the gate, takes the dirty positions as its batch and spawns the save,
\* which now owns the gate.
FlushGate(f) ==
  /\ pc[f] = "gate"
  /\ gate = Free
  /\ IF DirtyVBuckets = {}
     THEN /\ Return(f, "ok")
          /\ UNCHANGED <<gate, running, todo, batch>>
     ELSE /\ pc' = [pc EXCEPT ![f] = "saving"]
          /\ gate' = f
          /\ running' = running \cup {f}
          /\ todo' = [todo EXCEPT ![f] = DirtyVBuckets]
          /\ batch' = [batch EXCEPT ![f] = [vb \in VBuckets |->
               IF is_dirty(vb)
               THEN [checkpoint |-> processed[vb], generation |-> generation[vb]]
               ELSE NoCheckpoint]]
          /\ UNCHANGED result
  /\ UNCHANGED <<partitionVars, tokens, need, storeVars, taskVars, log, epoch>>

\* Mutant of FlushTimeout: the deadline covers the wait for the gate only.
FlushTimeout_gateOnly(f) ==
  /\ pc[f] = "gate"
  /\ Return(f, "err")
  /\ UNCHANGED <<partitionVars, tokens, gate, running, todo, batch, need,
                 storeVars, taskVars, log, epoch>>

\* The deadline passes while f waits for the gate or for its save.  In the second
\* case the spawned save goes on and keeps the gate.
FlushTimeout(f) ==
  /\ pc[f] \in {"gate", "saving"}
  /\ Return(f, "err")
  /\ UNCHANGED <<partitionVars, tokens, gate, running, todo, batch, need,
                 storeVars, taskVars, log, epoch>>

\* The save succeeded and f applies it.  The gate has been free since the save
\* ended, so other flushes may have run in between.
FlushApply(f) ==
  /\ pc[f] = "saved"
  /\ durable' = [vb \in VBuckets |-> IF batch[f][vb] = NoCheckpoint
                                     THEN durable[vb] ELSE batch[f][vb].checkpoint]
  /\ durable_generation' = [vb \in VBuckets |->
       IF batch[f][vb] = NoCheckpoint
       THEN durable_generation[vb] ELSE batch[f][vb].generation]
  /\ Return(f, "ok")
  /\ batch' = [batch EXCEPT ![f] = NoBatch]
  /\ UNCHANGED <<processed, snapshot, last_registered_seqno, pending,
                 next_delivery_id, generation, tokens, gate, running, todo, need,
                 storeVars, taskVars, log, epoch>>

----------------------------------------------------------------------------
(* CheckpointStore::save in its spawned task.  A store may write the batch *)
(* in any order and fail at any point, or after the last write.            *)

SaveWrite(f, vb) ==
  /\ f \in running
  /\ vb \in todo[f]
  /\ todo' = [todo EXCEPT ![f] = @ \ {vb}]
  /\ store' = [store EXCEPT ![vb] = batch[f][vb].checkpoint]
  /\ stored_generation' = [stored_generation EXCEPT ![vb] = batch[f][vb].generation]
  /\ written' = [written EXCEPT ![vb] = batch[f][vb].generation]
  /\ UNCHANGED <<partitionVars, tokens, gate, running, pc, batch, result, need,
                 abandoned, taskVars, log, epoch>>

\* The server executes a request that a save sent and gave up on.  The requests with
\* one position are not counted: it may arrive again.
LateWrite(vb) ==
  \E w \in abandoned[vb] :
    /\ store' = [store EXCEPT ![vb] = w.checkpoint]
    /\ stored_generation' = [stored_generation EXCEPT ![vb] = w.generation]
    /\ UNCHANGED <<partitionVars, tokens, flushVars, abandoned, written, taskVars, log,
                   epoch>>

\* The end of the save drops its guard of the gate.
SaveEnd(f) ==
  /\ f \in running
  /\ running' = running \ {f}
  /\ gate' = IF gate = f THEN Free ELSE gate
  /\ UNCHANGED <<partitionVars, tokens, need, store, stored_generation, written,
                 taskVars, log, epoch>>

\* Mutant of SaveOk: a save that wrote only a part counts as a success.
SaveOk_partial(f) ==
  /\ SaveEnd(f)
  /\ pc[f] = "saving"
  /\ pc' = [pc EXCEPT ![f] = "saved"]
  /\ UNCHANGED <<batch, todo, result, abandoned>>

\* Its flusher, if it still waits, goes on to apply the result...
SaveOk(f) ==
  /\ SaveEnd(f)
  /\ todo[f] = {}
  /\ \/ /\ pc[f] = "saving"
        /\ pc' = [pc EXCEPT ![f] = "saved"]
        /\ UNCHANGED batch
     \/ /\ pc[f] # "saving"
        /\ batch' = [batch EXCEPT ![f] = NoBatch]
        /\ UNCHANGED pc
  /\ UNCHANGED <<todo, result, abandoned>>

\* ... or returns the error and leaves the whole batch dirty.  Of the writes that were
\* not confirmed, any may have been sent and be on its way.
SaveFails(f) ==
  /\ SaveEnd(f)
  /\ \E sent \in SUBSET todo[f] :
       abandoned' = [vb \in VBuckets |-> IF vb \in sent THEN abandoned[vb] \cup {batch[f][vb]}
                                         ELSE abandoned[vb]]
  /\ todo' = [todo EXCEPT ![f] = {}]
  /\ batch' = [batch EXCEPT ![f] = NoBatch]
  /\ IF pc[f] = "saving" THEN Return(f, "err") ELSE UNCHANGED <<pc, result>>

----------------------------------------------------------------------------
(* run_scheduler and shutdown.                                             *)

SchedulerTick ==
  /\ scheduler = "running"
  /\ pc[Scheduler] = "idle"
  /\ FlushBegin(Scheduler)
  /\ UNCHANGED taskVars

\* Mutant of SchedulerExit: the task ends at its first failed flush.
SchedulerExit_onError ==
  /\ scheduler = "running"
  /\ cancel \/ result[Scheduler] = "err"
  /\ pc[Scheduler] = "idle"
  /\ scheduler' = "stopped"
  /\ UNCHANGED <<partitionVars, tokens, flushVars, storeVars, cancel, log, epoch>>

SchedulerExit ==
  /\ scheduler = "running"
  /\ cancel
  /\ pc[Scheduler] = "idle"
  /\ scheduler' = "stopped"
  /\ UNCHANGED <<partitionVars, tokens, flushVars, storeVars, cancel, log, epoch>>

\* shutdown cancels the scheduler, waits for it to end, and flushes.
shutdown(f) ==
  /\ f \in Callers
  /\ pc[f] = "idle"
  /\ cancel' = TRUE
  /\ pc' = [pc EXCEPT ![f] = "joining"]
  /\ UNCHANGED <<partitionVars, tokens, gate, running, todo, batch, result,
                 need, storeVars, scheduler, log, epoch>>

ShutdownJoin(f) ==
  /\ pc[f] = "joining"
  /\ scheduler = "stopped"
  /\ FlushBegin(f)
  /\ UNCHANGED taskVars

----------------------------------------------------------------------------

Application ==
  \/ \E vb \in VBuckets, m \in Markers : TrackMarker(vb, m)
  \/ \E vb \in VBuckets : TrackNext(vb)
  \/ \E vb \in VBuckets : \E t \in tokens[vb] : Acknowledge(vb, t)
  \/ \E vb \in VBuckets : mark_dirty(vb)
  \/ \E S \in (SUBSET VBuckets) \ {{}} : \E effective \in [S -> StartCheckpoints] :
       rebase_partitions(S, effective)
  \/ \E f \in Callers : flush(f) \/ shutdown(f)

FlushStep(f) == FlushGate(f) \/ FlushTimeout(f) \/ FlushApply(f) \/ ShutdownJoin(f)

SaveStep(f) == SaveOk(f) \/ SaveFails(f) \/ \E vb \in VBuckets : SaveWrite(f, vb)

Next ==
  \/ Application
  \/ \E f \in Flushers : FlushStep(f) \/ SaveStep(f)
  \/ \E vb \in VBuckets : LateWrite(vb)
  \/ SchedulerTick
  \/ SchedulerExit

Spec == Init /\ [][Next]_vars

(* Tokio runs every task that can run, the gate serves its waiters in order,  *)
(* and every flush has a deadline.                                            *)
TaskFairness ==
  /\ \A f \in Flushers : /\ SF_vars(FlushGate(f))
                         /\ WF_vars(FlushTimeout(f))
                         /\ WF_vars(FlushApply(f))
                         /\ WF_vars(ShutdownJoin(f))
  /\ WF_vars(SchedulerTick)
  /\ SF_vars(SchedulerExit)

(* A spawned save has no deadline of its own.  What is asked of the store for *)
(* progress, and for nothing else: a save ends, and a vBucket's write does    *)
(* not fail every time.                                                       *)
StoreFairness ==
  /\ \A f \in Flushers : WF_vars(SaveOk(f) \/ SaveFails(f))
  /\ \A vb \in VBuckets : SF_vars(\E f \in Flushers : SaveWrite(f, vb))

FairSpec == Spec /\ TaskFairness /\ StoreFairness

----------------------------------------------------------------------------
(* Properties.                                                             *)

PartitionsTypeOK ==
  /\ processed \in [VBuckets -> Checkpoint]
  /\ durable \in [VBuckets -> Checkpoint]
  /\ snapshot \in [VBuckets -> {<<>>} \cup (Nat \X Nat)]
  /\ last_registered_seqno \in [VBuckets -> Nat]
  /\ pending \in [VBuckets -> Seq(PendingAck)]
  /\ next_delivery_id \in [VBuckets -> Nat]
  /\ generation \in [VBuckets -> Nat]
  /\ durable_generation \in [VBuckets -> Nat]
  /\ tokens \in [VBuckets -> SUBSET EventAck]
  /\ log \in [VBuckets -> Seq(Position)]
  /\ epoch \in [VBuckets -> Nat]

FlushesTypeOK ==
  /\ gate \in Flushers \cup {Free}
  /\ running \in SUBSET Flushers
  /\ todo \in [Flushers -> SUBSET VBuckets]
  /\ pc \in [Flushers -> {"idle", "joining", "gate", "saving", "saved"}]
  /\ batch \in [Flushers -> [VBuckets -> DirtyCheckpoint \cup {NoCheckpoint}]]
  /\ result \in [Flushers -> {"none", "ok", "err"}]
  /\ need \in [Flushers -> [VBuckets -> Nat]]
  /\ cancel \in BOOLEAN
  /\ scheduler \in {"running", "stopped"}

StoreTypeOK ==
  /\ store \in [VBuckets -> Position]
  /\ abandoned \in [VBuckets -> SUBSET DirtyCheckpoint]
  /\ stored_generation \in [VBuckets -> Nat]
  /\ written \in [VBuckets -> Nat]

\* Every variable keeps the type of the Rust field it stands for.
TypeOK == PartitionsTypeOK /\ FlushesTypeOK /\ StoreTypeOK

(* What the store promises a restart. *)

\* A write that its save gave up on has replaced what a save wrote by an older position.
Overtaken(vb) == stored_generation[vb] < written[vb]

\* A vBucket that is_dirty() reports clean has its processed position in the
\* store: no flush, whatever else runs, may skip an unsaved position.  Only a write
\* that an earlier save gave up on can replace it.
CleanMeansStored ==
  \A vb \in VBuckets : ~is_dirty(vb) => store[vb] = processed[vb] \/ Overtaken(vb)

\* When flush() or shutdown() returns Ok, every position that was processed when
\* it started is in the store, or a later one is, unless a write that an earlier save
\* gave up on arrives after it.
FlushOkIsDurable ==
  \A f \in Flushers : result[f] = "ok" =>
    \A vb \in VBuckets : stored_generation[vb] >= need[f][vb] \/ Overtaken(vb)

\* A save never takes a vBucket back, also one that outlives its flush: what does is a
\* write that a failed save gave up on.
StoreNeverRegresses ==
  [][\A vb \in VBuckets :
       \/ stored_generation'[vb] >= stored_generation[vb]
       \/ /\ \E w \in abandoned[vb] : w.generation = stored_generation'[vb]
          /\ UNCHANGED written]_vars

\* Whatever a crash leaves in the store passes the validation of load_checkpoints.
StoredCheckpointsLoad ==
  \A vb \in VBuckets : store[vb] # NoCheckpoint => validate(store[vb])

Durable == INSTANCE DurableLog
             WITH saved <- stored_generation,
                  lost <- [vb \in VBuckets |-> {w.generation : w \in abandoned[vb]}]

\* Flushes, timeouts, failed and late saves together implement the abstract log: the
\* store only holds positions that were processed; saves only move it forward, and it
\* goes back only to a position whose save did not learn what became of it.
ImplementsDurableLog == Durable!Spec

(* Contiguity of `processed'. *)

\* `processed' covers no event that the application was given since the stream was
\* (re)opened and has not acknowledged, whatever old tokens it still uses.
ProcessedIsContiguous ==
  \A vb \in VBuckets : \A t \in tokens[vb] :
    t.epoch = epoch[vb] => processed[vb].seqno < t.seqno

\* Only a reopen moves `processed' back.
OnlyRebaseRewinds ==
  [][\A vb \in VBuckets : \/ processed'[vb].seqno >= processed[vb].seqno
                           \/ epoch'[vb] # epoch[vb]]_vars

(* Liveness. *)

\* With the automatic scheduler and a store whose saves end and do not always fail, every
\* processed position is saved, itself or through a later one, unless the coordinator is
\* shut down first.
ProgressIsPersisted ==
  \A vb \in VBuckets, g \in 1..MaxGeneration :
    generation[vb] >= g ~> (written[vb] >= g \/ cancel)

\* shutdown() returns, also while a save hangs, fails or holds the gate for ever: this
\* asks nothing of the store.
ShutdownReturns ==
  \A f \in Callers : pc[f] = "joining" ~> pc[f] = "idle"

============================================================================

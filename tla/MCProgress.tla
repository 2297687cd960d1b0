----------------------------- MODULE MCProgress -----------------------------
(***************************************************************************)
(* What must eventually happen to an event and to the position it moves,   *)
(* for TLC.  A behaviour belongs to one scenario, in which the other       *)
(* components stay in an initial state:                                    *)
(*   "worker"       one stream that is closed, on a connection that works; *)
(*   "keepalive"    a connection whose server may fall silent, over all    *)
(*                  pairs of durations;                                    *)
(*   "checkpoints"  one vBucket, the scheduler and one caller, with a      *)
(*                  store whose saves end;                                 *)
(*   "hanging"      the same with a store that may never answer.           *)
(***************************************************************************)
EXTENDS Integers

CONSTANTS v1, c1, Scheduler, Free, None

VARIABLES
  scenario,
  \* StreamWorker: its `pc' and `pending' are `worker' and `set_aside'
  feed, outstanding, net, eof, set_aside, worker, held, partitions, credit, opaque,
  requests, output, command, reply, owner, stream_end_on_close, extra, faults, failures,
  sent, delivered,
  \* KeepAlive: its `worker' and `server' are `activity' and `peer'
  flow_config, sent_age, in_flight, waiting, idle_for, activity, peer,
  \* CheckpointCoordinator
  processed, durable, snapshot, last_registered_seqno, pending, next_delivery_id,
  generation, durable_generation, tokens, store, abandoned, gate, running, todo, pc, batch,
  result, cancel, scheduler, log, stored_generation, written, epoch, need

workerVars == <<feed, outstanding, net, eof, set_aside, worker, held, partitions, credit,
                opaque, requests, output, command, reply, owner, stream_end_on_close, extra,
                faults, failures, sent, delivered>>
keepAliveVars == <<flow_config, sent_age, in_flight, waiting, idle_for, activity, peer>>
coordinatorVars == <<processed, durable, snapshot, last_registered_seqno, pending,
                     next_delivery_id, generation, durable_generation, tokens, store,
                     abandoned, gate, running, todo, pc, batch, result, cancel, scheduler,
                     log, stored_generation, written, epoch, need>>

Worker == INSTANCE StreamWorker
            WITH VBuckets <- {v1}, Capacity <- 1, BufferSize <- 3, RatioNum <- 1,
                 RatioDen <- 1, EndSeqno <- 2, MaxExtra <- 0, MaxFaults <- 0,
                 MaxFailures <- 0, MaxCloses <- 1,
                 pc <- worker, pending <- set_aside

Silence == INSTANCE KeepAlive
             WITH TicksPerSecond <- 2, Durations <- 1..6, MaxWaiting <- 3,
                  worker <- activity, server <- peer

Start == [vbucket_uuid |-> 0, seqno |-> 0, snapshot_start |-> 0, snapshot_end |-> 0,
          manifest_uid |-> 0]

Checkpoints == INSTANCE CheckpointCoordinator
                 WITH VBuckets <- {v1}, Callers <- {c1}, Automatic <- TRUE,
                      StartCheckpoints <- {Start}, Markers <- {<<1, 1>>},
                      NoCheckpoint <- None, MaxManifest <- 0, MaxGeneration <- 2,
                      MaxDeliveries <- 1, MaxRebases <- 0

KeepAliveRests == flow_config = [noop_interval |-> 2, dead_connection_timeout |-> 3]

Init ==
  /\ Worker!Init /\ stream_end_on_close
  /\ Silence!Init
  /\ Checkpoints!Init /\ store = processed
  /\ scenario \in {"worker", "keepalive", "checkpoints", "hanging"}
  /\ scenario # "keepalive" => KeepAliveRests

\* A step A of one component.  Writes that arrive late are left out: no guard reads what
\* they change.
WorkerStep(A) ==
  scenario = "worker" /\ A /\ UNCHANGED <<scenario, keepAliveVars, coordinatorVars>>
SilenceStep(A) ==
  scenario = "keepalive" /\ A /\ UNCHANGED <<scenario, workerVars, coordinatorVars>>
CheckpointStep(A) ==
  /\ scenario \in {"checkpoints", "hanging"}
  /\ A
  /\ UNCHANGED <<scenario, abandoned, workerVars, keepAliveVars>>

Next == WorkerStep(Worker!Next) \/ SilenceStep(Silence!Next) \/ CheckpointStep(Checkpoints!Next)

vars == <<scenario, workerVars, keepAliveVars, coordinatorVars>>

-----------------------------------------------------------------------------
(* The fairness the components state: StreamWorker!FairSpec,               *)
(* KeepAlive!FairSpec, and CheckpointCoordinator!TaskFairness with         *)
(* StoreFairness where the store answers.  Their steps are numbered: only  *)
(* one component takes steps, so fairness of the i-th step of any is       *)
(* fairness of that step of each.                                          *)

WeakWorker(i) ==
  CASE i = 1 -> Worker!HandleFrame [] i = 2 -> Worker!QueueFrame [] i = 3 -> Worker!QueueError
    [] i = 4 -> Worker!AllStreamsEnded [] i = 5 -> Worker!SetAside
    [] i = 6 -> Worker!CloseAnswered [] i = 7 -> Worker!QueueClosed
    [] i = 8 -> Worker!CloseReturns [] i = 9 -> Worker!ShutdownReturns
    [] i = 10 -> Worker!AnswerClose [] i = 11 -> Worker!Read
StrongWorker(i) ==
  CASE i = 1 -> Worker!HandleShutdown [] i = 2 -> Worker!HandleClose [] OTHER -> FALSE

WeakSilence(i) ==
  CASE i = 1 -> Silence!Tick [] i = 2 -> Silence!Arrive [] i = 3 -> Silence!OutputSent
    [] OTHER -> FALSE
StrongSilence(i) ==
  CASE i = 1 -> Silence!Receive [] i = 2 -> Silence!DeadConnection [] OTHER -> FALSE

StoreAnswers == scenario = "checkpoints"

WeakCheckpoints(i) ==
  CASE i = 1 -> Checkpoints!FlushTimeout(c1) [] i = 2 -> Checkpoints!FlushTimeout(Scheduler)
    [] i = 3 -> Checkpoints!FlushApply(c1) [] i = 4 -> Checkpoints!FlushApply(Scheduler)
    [] i = 5 -> Checkpoints!ShutdownJoin(c1) [] i = 6 -> Checkpoints!ShutdownJoin(Scheduler)
    [] i = 7 -> StoreAnswers /\ (Checkpoints!SaveOk(c1) \/ Checkpoints!SaveFails(c1))
    [] i = 8 -> StoreAnswers /\ (Checkpoints!SaveOk(Scheduler) \/ Checkpoints!SaveFails(Scheduler))
    [] i = 9 -> Checkpoints!SchedulerTick [] OTHER -> FALSE
StrongCheckpoints(i) ==
  CASE i = 1 -> Checkpoints!FlushGate(c1) [] i = 2 -> Checkpoints!FlushGate(Scheduler)
    [] i = 3 -> StoreAnswers /\ \E f \in {c1, Scheduler} : Checkpoints!SaveWrite(f, v1)
    [] i = 4 -> Checkpoints!SchedulerExit

ProgressSpec ==
  /\ Init /\ [][Next]_vars
  /\ \A i \in 1..11 : WF_vars(\/ WorkerStep(WeakWorker(i)) \/ SilenceStep(WeakSilence(i))
                              \/ CheckpointStep(WeakCheckpoints(i)))
  /\ \A i \in 1..4 : SF_vars(\/ WorkerStep(StrongWorker(i)) \/ SilenceStep(StrongSilence(i))
                             \/ CheckpointStep(StrongCheckpoints(i)))

-----------------------------------------------------------------------------
(* A component that rests has nothing to wait for, so only the fairness of *)
(* the store needs the scenario named.                                     *)

\* While the owner reads, everything the producer sent is delivered.
EverythingDelivered == Worker!EverythingDelivered

\* A server that falls silent is found out, also while commands keep coming, and only such
\* a server: a connection is not declared dead while its server keeps the announced
\* interval, for any durations that validate accepts.
SilenceIsReported == Silence!SilenceIsReported /\ []Silence!OnlySilenceIsDead

\* With the automatic scheduler and a store whose saves end and do not always fail, every
\* processed position is saved, itself or through a later one, unless the coordinator is
\* shut down first.
ProgressIsPersisted ==
  \A g \in 1..2 :
    StoreAnswers /\ generation[v1] >= g ~> (written[v1] >= g \/ cancel)

\* shutdown() returns, also while a save hangs, fails or holds the gate for ever: this
\* asks nothing of the store.
ShutdownReturns == Checkpoints!ShutdownReturns

=============================================================================
